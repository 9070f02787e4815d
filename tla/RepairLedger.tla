---------------------------- MODULE RepairLedger ----------------------------
(***************************************************************************)
(* What esm::Engine promises of its database: every operation is one        *)
(* indivisible change of the tables.  The module Engine splits them into    *)
(* the SQL statements, locks and failures of the code and implements this.  *)
(***************************************************************************)
EXTENDS EsmData

CONSTANTS
    UpsertRows,       \* rows callers pass to upsert_device
    Capacities        \* max_jobs values callers pass to add_worker

ASSUME UpsertRowsAssumption == UpsertRows \subseteq StorableDevice
ASSUME CapacitiesAssumption == Capacities \subseteq Int

VARIABLE db

Init == db \in {EmptyDatabase, MigratedDatabase}

-----------------------------------------------------------------------------
(* migrate: one CREATE statement; a statement runs only after the previous  *)
(* ones have succeeded.                                                     *)
Create(k) ==
    /\ \A i \in 1..(k - 1) : SchemaObjects[i] \in db.schema
    /\ SchemaObjects[k] \notin db.schema
    /\ db' = CreateObject(db, SchemaObjects[k])

AddWorker ==
    /\ "workers" \in db.schema
    /\ Len(db.workers) < MaxRowId
    /\ \E m \in Capacities : db' = InsertWorker(db, m)

Upsert(a, row) ==
    /\ "devices" \in db.schema
    /\ db' = UpsertDevice(db, a, row)

ReportBreakdown(a) ==
    /\ {"devices", "jobs"} \subseteq db.schema
    /\ Len(db.jobs) < MaxRowId
    /\ db' = Breakdown(db, a)

(* A job is started once, for a worker the foreign key finds.               *)
Start(j, w) ==
    /\ "jobs" \in db.schema
    /\ IsStartable(db, j)
    /\ WorkerExists(db, w)
    /\ db' = StartJob(db, j, w)

(* Any job may be finished, whatever its status.                            *)
Finish(j) ==
    /\ "jobs" \in db.schema
    /\ JobExists(db, j)
    /\ db' = FinishRepair(db, j)

Next ==
    \/ \E k \in 1..Len(SchemaObjects) : Create(k)
    \/ AddWorker
    \/ \E a \in Address, row \in UpsertRows : Upsert(a, row)
    \/ \E a \in Address : ReportBreakdown(a)
    \/ \E j \in DOMAIN db.jobs, w \in DOMAIN db.workers : Start(j, w)
    \/ \E j \in DOMAIN db.jobs : Finish(j)

Spec == Init /\ [][Next]_db

-----------------------------------------------------------------------------
(* The tables hold rows of their types.                                     *)
TypeOK == db \in Database

(* REFERENCES ... in jobs: the row a job points to is there.                *)
ReferencesHold(job) ==
    /\ db.devices[job.device] # NULL
    /\ job.worker # NULL => WorkerExists(db, job.worker)

(* The columns of a job agree: start_repair fills worker_id and started_at  *)
(* together, finished_at is there exactly when the status is Done.          *)
IsCoherent(job) ==
    /\ job.status # "Canceled"
    /\ job.started <=> job.worker # NULL
    /\ job.status = "Open" => ~job.started
    /\ job.status = "InProgress" => job.started
    /\ job.status = "Done" <=> job.finished

(* Every job points to an existing device and worker, and its status,       *)
(* worker and timestamps never contradict each other, in whatever order     *)
(* breakdown, start_repair and finish_repair reach it.                      *)
JobsAreSound ==
    \A j \in DOMAIN db.jobs :
        ReferencesHold(db.jobs[j]) /\ IsCoherent(db.jobs[j])

HasUnfinishedJob(a) ==
    \E j \in DOMAIN db.jobs : db.jobs[j].device = a /\ IsUnfinished(db.jobs[j])

OnlyHealthyRegistered == \A row \in UpsertRows : ~row.is_faulty

(* When callers register working devices only, no faulty device is ever     *)
(* forgotten: it has a job that is not Done.  finish_repair of any job of   *)
(* the device clears is_faulty, which is what keeps this true.              *)
FaultyDeviceHasJob ==
    OnlyHealthyRegistered =>
        \A a \in Address :
            db.devices[a] # NULL /\ db.devices[a].is_faulty => HasUnfinishedJob(a)

StatusRank == [Open |-> 0, InProgress |-> 1, Done |-> 2, Canceled |-> 3]

(* What one row of jobs may become.                                         *)
Advances(old, new) ==
    /\ new.device = old.device
    /\ StatusRank[new.status] >= StatusRank[old.status]
    /\ old.worker # NULL => new.worker = old.worker
    /\ old.started => new.started
    /\ old.finished => new.finished

(* No operation deletes a job, moves it to another device, takes it from    *)
(* its worker, or sets its status back: a Done job is never reopened, and a *)
(* second start_repair never reassigns a job that is under way.             *)
JobsOnlyAdvance ==
    [][/\ Len(db'.jobs) >= Len(db.jobs)
       /\ \A j \in DOMAIN db.jobs : Advances(db.jobs[j], db'.jobs[j])]_db

(* The step that ends the last unfinished job of a device leaves the device *)
(* working, so a repaired device is never left marked faulty.               *)
LastFinishHeals ==
    [][\A a \in Address :
          HasUnfinishedJob(a) /\ ~HasUnfinishedJob(a)' => ~db'.devices[a].is_faulty]_db

-----------------------------------------------------------------------------
(* What the documentation says and the code does not keep.                  *)

(* "Приоритет обслуживания может отсутствовать только у исправных           *)
(* устройств", README.md:3: a faulty device has a service priority.         *)
FaultyDeviceHasPriority ==
    \A a \in Address :
        db.devices[a] # NULL /\ db.devices[a].is_faulty
            => db.devices[a].priority # "None"

=============================================================================
