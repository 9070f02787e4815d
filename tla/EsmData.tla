------------------------------ MODULE EsmData ------------------------------
(***************************************************************************)
(* The database file of the equipment monitor: the rows of its three      *)
(* tables and what each SQL statement of esm/Engine.cpp and storage/*.cpp   *)
(* does to them.  Names, skills, fault texts and the values of timestamps   *)
(* are left out; of a timestamp only whether it is set is kept.             *)
(***************************************************************************)
EXTENDS Integers, Sequences

CONSTANTS
    Address,      \* network addresses of devices (uint32_t in the program)
    NULL,         \* SQL NULL, std::nullopt, and a row that is not there
    MaxRowId      \* the last AUTOINCREMENT id (2^63 - 1 in SQLite)

ASSUME NullAssumption  == NULL \notin Int
ASSUME RowIdAssumption == MaxRowId \in Nat

Priority  == {"None", "Low", "High"}
JobStatus == {"Open", "InProgress", "Done", "Canceled"}

(* One row of each table.  A worker row is its max_jobs, its id its place.  *)
Device == [priority : Priority, is_faulty : BOOLEAN, is_reserve : BOOLEAN]
Job    == [device : Address, worker : Int \cup {NULL}, status : JobStatus,
           started : BOOLEAN, finished : BOOLEAN]

ASSUME NoRowAssumption == NULL \notin Device

(* What Engine::migrate creates, one statement each, in its order.          *)
SchemaObjects ==
    <<"devices", "workers", "jobs", "idx_jobs_device", "idx_jobs_status">>
SchemaObject == {"devices", "workers", "jobs", "idx_jobs_device",
                 "idx_jobs_status"}

Database == [schema  : SUBSET SchemaObject,
             devices : [Address -> Device \cup {NULL}],
             workers : Seq(Int),
             jobs    : Seq(Job)]

EmptyDatabase == [schema  |-> {},
                  devices |-> [a \in Address |-> NULL],
                  workers |-> << >>,
                  jobs    |-> << >>]

(* A database every migration statement has been applied to.                *)
MigratedDatabase == [EmptyDatabase EXCEPT !.schema = SchemaObject]

(* The rows DeviceRepository::upsert can write: is_reserve is set only for  *)
(* an object of class ReserveDevice, which is never faulty.                 *)
StorableDevice == {d \in Device : ~(d.is_faulty /\ d.is_reserve)}

(* Rows the foreign keys of jobs point to.                                  *)
WorkerExists(db, w) == w \in DOMAIN db.workers
JobExists(db, j)    == j \in DOMAIN db.jobs
IsUnfinished(job)   == job.status \in {"Open", "InProgress"}

-----------------------------------------------------------------------------
(* The effect of each statement.                                            *)

CreateObject(db, o) == [db EXCEPT !.schema = @ \cup {o}]

InsertWorker(db, maxJobs) == [db EXCEPT !.workers = Append(@, maxJobs)]

UpsertDevice(db, a, row) == [db EXCEPT !.devices[a] = row]

(* A bug the type invariant rules out: a priority the enum does not have.   *)
FaultyRowUnchecked(row) ==
    IF row = NULL
    THEN [priority |-> "Highest", is_faulty |-> TRUE, is_reserve |-> FALSE]
    ELSE [row EXCEPT !.is_faulty = TRUE]

(* breakdown's upsert: an unknown device gets a row of its own, of a known  *)
(* one only is_faulty changes.                                              *)
FaultyRow(row) ==
    IF row = NULL
    THEN [priority |-> "High", is_faulty |-> TRUE, is_reserve |-> FALSE]
    ELSE [row EXCEPT !.is_faulty = TRUE]

MarkFaulty(db, a) == [db EXCEPT !.devices[a] = FaultyRow(@)]

NewJob(a) == [device |-> a, worker |-> NULL, status |-> "Open",
              started |-> FALSE, finished |-> FALSE]

InsertJob(db, a) == [db EXCEPT !.jobs = Append(@, NewJob(a))]

(* A bug: start_repair without "AND status=0".                              *)
IsStartableInAnyStatus(db, j) == JobExists(db, j)

(* The WHERE clause of start_repair's UPDATE.                               *)
IsStartable(db, j) == JobExists(db, j) /\ db.jobs[j].status = "Open"

(* A bug: start_repair forgets started_at.                                  *)
StartedJobUnstamped(job, w) ==
    [job EXCEPT !.status = "InProgress", !.worker = w]

StartedJob(job, w) ==
    [job EXCEPT !.status = "InProgress", !.worker = w, !.started = TRUE]

StartJob(db, j, w) ==
    IF IsStartable(db, j)
    THEN [db EXCEPT !.jobs[j] = StartedJob(@, w)]
    ELSE db

FinishedJob(job) == [job EXCEPT !.status = "Done", !.finished = TRUE]

FinishJob(db, j) == [db EXCEPT !.jobs[j] = FinishedJob(@)]

HealthyRow(row) == IF row = NULL THEN NULL ELSE [row EXCEPT !.is_faulty = FALSE]

MarkHealthy(db, a) == [db EXCEPT !.devices[a] = HealthyRow(@)]

-----------------------------------------------------------------------------
(* The effect of the two transactions that have several statements.         *)

(* A bug: finish_repair without its device.                                 *)
FinishRepairOfJobOnly(db, j) == FinishJob(db, j)

Breakdown(db, a) == InsertJob(MarkFaulty(db, a), a)

FinishRepair(db, j) == MarkHealthy(FinishJob(db, j), db.jobs[j].device)

=============================================================================
