------------------------- MODULE RepairLedgerProofs -------------------------
(* What holds of the tables for any addresses, rows, workers and number of  *)
(* jobs.                                                                    *)
EXTENDS RepairLedger, EsmDataLemmas

(* The operands of one step have their types.                               *)
LEMMA StepTypes ==
    ASSUME TypeOK
    PROVE  /\ \A k \in 1..Len(SchemaObjects) : SchemaObjects[k] \in SchemaObject
           /\ \A m \in Capacities : m \in Int
           /\ \A row \in UpsertRows : row \in StorableDevice
           /\ db.jobs \in Seq(Job) /\ db.workers \in Seq(Int)
           /\ DOMAIN db.jobs = 1..Len(db.jobs) /\ Len(db.jobs) \in Nat
           /\ DOMAIN db.jobs \subseteq Int /\ DOMAIN db.workers \subseteq Int
<1>1. db.jobs \in Seq(Job) /\ db.workers \in Seq(Int)
  BY DEF TypeOK, Database
<1>2. QED
  BY <1>1, SchemaObjectsType, UpsertRowsAssumption, CapacitiesAssumption

(* What each action changes.                                                *)
LEMMA CreateStep ==
    ASSUME TypeOK, NEW k \in 1..Len(SchemaObjects), Create(k)
    PROVE  /\ db'.devices = db.devices
           /\ db'.workers = db.workers
           /\ db'.jobs = db.jobs
<1>1. db' = CreateObject(db, SchemaObjects[k]) /\ db \in Database
  BY DEF Create, TypeOK
<1>2. SchemaObjects[k] \in SchemaObject
  BY StepTypes
<1>3. QED
  BY <1>1, <1>2, CreateObjectType

LEMMA AddWorkerStep ==
    ASSUME TypeOK, AddWorker
    PROVE  /\ db'.devices = db.devices
           /\ DOMAIN db.workers \subseteq DOMAIN db'.workers
           /\ db'.jobs = db.jobs
<1>1. db \in Database
  BY DEF TypeOK
<1>2. PICK m \in Capacities : db' = InsertWorker(db, m)
  BY DEF AddWorker
<1>3. m \in Int
  BY CapacitiesAssumption
<1>4. QED
  BY <1>1, <1>2, <1>3, InsertWorkerType

LEMMA UpsertStep ==
    ASSUME TypeOK, NEW a \in Address, NEW row \in UpsertRows, Upsert(a, row)
    PROVE  /\ row \in Device
           /\ db'.devices = [db.devices EXCEPT ![a] = row]
           /\ db'.workers = db.workers
           /\ db'.jobs = db.jobs
<1>1. db' = UpsertDevice(db, a, row) /\ db \in Database
  BY DEF Upsert, TypeOK
<1>2. row \in StorableDevice /\ row \in Device
  BY UpsertRowsAssumption DEF StorableDevice
<1>3. QED
  BY <1>1, <1>2, UpsertDeviceType

LEMMA StartStep ==
    ASSUME TypeOK, NEW j \in DOMAIN db.jobs, NEW w \in DOMAIN db.workers, Start(j, w)
    PROVE  /\ db.jobs[j].status = "Open"
           /\ db'.devices = db.devices
           /\ db'.workers = db.workers
           /\ Len(db'.jobs) = Len(db.jobs)
           /\ DOMAIN db'.jobs = DOMAIN db.jobs
           /\ \A i \in DOMAIN db.jobs :
                db'.jobs[i] = IF i = j THEN StartedJob(db.jobs[j], w) ELSE db.jobs[i]
<1>1. db' = StartJob(db, j, w) /\ IsStartable(db, j) /\ db \in Database
  BY DEF Start, TypeOK
<1>2. j \in Int /\ w \in Int
  BY StepTypes
<1>3. db.jobs[j].status = "Open"
  BY <1>1 DEF IsStartable
<1>4. QED
  BY <1>1, <1>2, <1>3, StartJobType

LEMMA ReportStep ==
    ASSUME TypeOK, NEW a \in Address, ReportBreakdown(a)
    PROVE  /\ FaultyRow(db.devices[a]) \in Device
           /\ db'.devices = [db.devices EXCEPT ![a] = FaultyRow(db.devices[a])]
           /\ db'.workers = db.workers
           /\ Len(db'.jobs) = Len(db.jobs) + 1
           /\ DOMAIN db'.jobs = DOMAIN db.jobs \cup {Len(db.jobs) + 1}
           /\ \A j \in DOMAIN db.jobs : db'.jobs[j] = db.jobs[j]
           /\ db'.jobs[Len(db.jobs) + 1] = NewJob(a)
<1>1. db' = Breakdown(db, a) /\ db \in Database
  BY DEF ReportBreakdown, TypeOK
<1>2. QED
  BY <1>1, BreakdownType

LEMMA FinishStep ==
    ASSUME TypeOK, NEW j \in DOMAIN db.jobs, Finish(j), NEW a,
           a = db.jobs[j].device
    PROVE  /\ a \in Address
           /\ db'.devices = [db.devices EXCEPT ![a] = HealthyRow(db.devices[a])]
           /\ db'.workers = db.workers
           /\ Len(db'.jobs) = Len(db.jobs)
           /\ DOMAIN db'.jobs = DOMAIN db.jobs
           /\ \A i \in DOMAIN db.jobs :
                db'.jobs[i] = IF i = j THEN FinishedJob(db.jobs[j]) ELSE db.jobs[i]
<1>1. db' = FinishRepair(db, j) /\ db \in Database
  BY DEF Finish, TypeOK
<1>2. QED
  BY <1>1, FinishRepairType

(* Every table keeps its type: rows of devices and jobs are whole rows with *)
(* a status and a priority the CHECK constraints of migrate allow.          *)
THEOREM TypeCorrect == Spec => []TypeOK
<1>1. Init => TypeOK
  BY InitialDatabases DEF Init, TypeOK
<1>2. TypeOK /\ [Next]_db => TypeOK'
  <2> SUFFICES ASSUME TypeOK, [Next]_db
               PROVE  db' \in Database
    BY DEF TypeOK
  <2> USE StepTypes DEF TypeOK
  <2>1. ASSUME NEW k \in 1..Len(SchemaObjects), Create(k)
        PROVE  db' \in Database
    BY <2>1, CreateObjectType DEF Create
  <2>2. CASE AddWorker
    BY <2>2, InsertWorkerType DEF AddWorker
  <2>3. ASSUME NEW a \in Address, NEW row \in UpsertRows, Upsert(a, row)
        PROVE  db' \in Database
    BY <2>3, UpsertDeviceType DEF Upsert
  <2>4. ASSUME NEW a \in Address, ReportBreakdown(a)
        PROVE  db' \in Database
    BY <2>4, BreakdownType DEF ReportBreakdown
  <2>5. ASSUME NEW j \in DOMAIN db.jobs, NEW w \in DOMAIN db.workers, Start(j, w)
        PROVE  db' \in Database
    BY <2>5, StartJobType DEF Start
  <2>6. ASSUME NEW j \in DOMAIN db.jobs, Finish(j)
        PROVE  db' \in Database
    BY <2>6, FinishRepairType DEF Finish
  <2>7. CASE UNCHANGED db
    BY <2>7
  <2>8. QED
    BY <2>1, <2>2, <2>3, <2>4, <2>5, <2>6, <2>7 DEF Next
<1>3. QED
  BY <1>1, <1>2, PTL DEF Spec

(* A row of jobs is sound in database d.                                    *)
IsSoundIn(d, job) ==
    /\ d.devices[job.device] # NULL
    /\ job.worker # NULL => job.worker \in DOMAIN d.workers
    /\ IsCoherent(job)

LEMMA JobsAreSoundIn ==
    JobsAreSound <=> \A j \in DOMAIN db.jobs : IsSoundIn(db, db.jobs[j])
BY DEF JobsAreSound, ReferencesHold, WorkerExists, IsSoundIn

(* A job stays sound when the rows it points to stay.                       *)
LEMMA SoundnessIsKept ==
    ASSUME NEW d, NEW e, NEW job, IsSoundIn(d, job),
           d.devices[job.device] # NULL => e.devices[job.device] # NULL,
           DOMAIN d.workers \subseteq DOMAIN e.workers
    PROVE  IsSoundIn(e, job)
BY DEF IsSoundIn

(* Foreign keys hold and the columns of each job agree, whatever order the  *)
(* operations come in.  This needs the type invariant only: rows of devices *)
(* and workers are never deleted, and each statement that changes a job     *)
(* changes all the columns that must agree.                                 *)
THEOREM JobsSound == Spec => []JobsAreSound
<1>1. Init => JobsAreSound
  BY DEF Init, JobsAreSound, EmptyDatabase, MigratedDatabase
<1>2. TypeOK /\ JobsAreSound /\ [Next]_db => JobsAreSound'
  <2> SUFFICES ASSUME TypeOK, JobsAreSound, [Next]_db
               PROVE  \A j \in DOMAIN db'.jobs : IsSoundIn(db', db'.jobs[j])
    BY DEF JobsAreSound, ReferencesHold, WorkerExists, IsSoundIn
  <2>0. \A j \in DOMAIN db.jobs : IsSoundIn(db, db.jobs[j]) /\ db.jobs[j] \in Job
    BY JobsAreSoundIn, JobRowType DEF TypeOK
  <2> USE StepTypes DEF TypeOK
  <2>1. ASSUME NEW k \in 1..Len(SchemaObjects), Create(k)
        PROVE  \A j \in DOMAIN db'.jobs : IsSoundIn(db', db'.jobs[j])
    <3>1. /\ db'.devices = db.devices
          /\ db'.workers = db.workers
          /\ db'.jobs = db.jobs
      BY <2>1, CreateStep
    <3>2. QED
      BY <2>0, <3>1, SoundnessIsKept
  <2>2. CASE AddWorker
    <3>1. /\ db'.devices = db.devices /\ db'.jobs = db.jobs
          /\ DOMAIN db.workers \subseteq DOMAIN db'.workers
      BY <2>2, AddWorkerStep
    <3>2. QED
      BY <2>0, <3>1, SoundnessIsKept
  <2>3. ASSUME NEW a \in Address, NEW row \in UpsertRows, Upsert(a, row)
        PROVE  \A j \in DOMAIN db'.jobs : IsSoundIn(db', db'.jobs[j])
    <3>0. /\ row # NULL
          /\ db'.devices = [db.devices EXCEPT ![a] = row]
      BY <2>3, UpsertStep, NoRowAssumption
    <3>1. \A b \in Address : db.devices[b] # NULL => db'.devices[b] # NULL
      BY <3>0 DEF Database
    <3>2. \A j \in DOMAIN db.jobs : db.jobs[j].device \in Address
      BY <2>0 DEF Job
    <3>3. db'.jobs = db.jobs /\ db'.workers = db.workers
      BY <2>3, UpsertStep
    <3>4. QED
      BY <2>0, <3>1, <3>2, <3>3, SoundnessIsKept
  <2>4. ASSUME NEW a \in Address, ReportBreakdown(a)
        PROVE  \A j \in DOMAIN db'.jobs : IsSoundIn(db', db'.jobs[j])
    <3>1. /\ FaultyRow(db.devices[a]) # NULL
          /\ db'.devices = [db.devices EXCEPT ![a] = FaultyRow(db.devices[a])]
          /\ db'.workers = db.workers
      BY <2>4, ReportStep, NoRowAssumption
    <3>2. /\ DOMAIN db'.jobs = DOMAIN db.jobs \cup {Len(db.jobs) + 1}
          /\ \A j \in DOMAIN db.jobs : db'.jobs[j] = db.jobs[j]
          /\ db'.jobs[Len(db.jobs) + 1] = NewJob(a)
      BY <2>4, ReportStep
    <3>3. \A b \in Address : db.devices[b] # NULL => db'.devices[b] # NULL
      BY <3>1 DEF Database
    <3>4. \A j \in DOMAIN db.jobs : db.jobs[j].device \in Address
      BY <2>0 DEF Job
    <3>5. \A j \in DOMAIN db.jobs : IsSoundIn(db', db'.jobs[j])
      BY <2>0, <3>1, <3>2, <3>3, <3>4, SoundnessIsKept
    <3>6. db'.devices[a] # NULL
      BY <3>1 DEF Database
    <3>7. IsSoundIn(db', NewJob(a))
      BY <3>6 DEF IsSoundIn, IsCoherent, NewJob
    <3>8. QED
      BY <3>2, <3>5, <3>7
  <2>5. ASSUME NEW j \in DOMAIN db.jobs, NEW w \in DOMAIN db.workers, Start(j, w)
        PROVE  \A i \in DOMAIN db'.jobs : IsSoundIn(db', db'.jobs[i])
    <3>1. /\ db.jobs[j].status = "Open"
          /\ db'.devices = db.devices /\ db'.workers = db.workers
          /\ DOMAIN db'.jobs = DOMAIN db.jobs
          /\ \A i \in DOMAIN db.jobs :
               db'.jobs[i] = IF i = j THEN StartedJob(db.jobs[j], w)
                                      ELSE db.jobs[i]
      BY <2>5, StartStep
    <3>2. /\ db.jobs[j] \in Job /\ IsSoundIn(db, db.jobs[j])
          /\ db.jobs[j].status = "Open"
      BY <2>0, <3>1
    <3>3. w # NULL
      BY NullAssumption
    <3>4. IsSoundIn(db', StartedJob(db.jobs[j], w))
      BY <3>1, <3>2, <3>3 DEF IsSoundIn, IsCoherent, StartedJob, Job
    <3>5. QED
      BY <2>0, <3>1, <3>4, SoundnessIsKept
  <2>6. ASSUME NEW j \in DOMAIN db.jobs, Finish(j)
        PROVE  \A i \in DOMAIN db'.jobs : IsSoundIn(db', db'.jobs[i])
    <3> DEFINE a == db.jobs[j].device
    <3>1. /\ a \in Address
          /\ db'.devices = [db.devices EXCEPT ![a] = HealthyRow(db.devices[a])]
          /\ db'.workers = db.workers
          /\ DOMAIN db'.jobs = DOMAIN db.jobs
          /\ \A i \in DOMAIN db.jobs :
               db'.jobs[i] = IF i = j THEN FinishedJob(db.jobs[j])
                                      ELSE db.jobs[i]
      BY <2>6, FinishStep
    <3>2. HealthyRow(db.devices[a]) = NULL => db.devices[a] = NULL
      <4>1. db.devices[a] \in Device \cup {NULL}
        BY <3>1 DEF Database
      <4>2. \A row \in Device : [row EXCEPT !.is_faulty = FALSE] \in Device
        BY DEF Device
      <4>3. QED
        BY <4>1, <4>2, NoRowAssumption DEF HealthyRow
    <3> HIDE DEF a
    <3>3. \A b \in Address : db.devices[b] # NULL => db'.devices[b] # NULL
      BY <3>1, <3>2 DEF Database
    <3>4. \A i \in DOMAIN db.jobs : db.jobs[i].device \in Address
      BY <2>0 DEF Job
    <3>5. \A i \in DOMAIN db.jobs : IsSoundIn(db', db.jobs[i])
      BY <2>0, <3>1, <3>3, <3>4, SoundnessIsKept
    <3>6. IsSoundIn(db', FinishedJob(db.jobs[j]))
      BY <2>0, <3>5 DEF IsSoundIn, IsCoherent, FinishedJob, Job
    <3>7. QED
      BY <3>1, <3>5, <3>6
  <2>7. CASE UNCHANGED db
    BY <2>0, <2>7
  <2>8. QED
    BY <2>1, <2>2, <2>3, <2>4, <2>5, <2>6, <2>7 DEF Next
<1>3. QED
  BY <1>1, <1>2, TypeCorrect, PTL DEF Spec

(* A faulty device has a job that is not Done, if callers register working  *)
(* devices only.  Inductive with the type invariant: breakdown makes device *)
(* and job together, and finish_repair, which may take the last unfinished  *)
(* job away, clears is_faulty of that job's device in the same transaction. *)
THEOREM FaultyDevicesHaveJobs == Spec => []FaultyDeviceHasJob
<1> DEFINE Faulty(d, a) == d.devices[a] # NULL /\ d.devices[a].is_faulty
           Waits(d, a) == \E j \in DOMAIN d.jobs :
                             d.jobs[j].device = a /\ IsUnfinished(d.jobs[j])
           Inv(d) == \A a \in Address : Faulty(d, a) => Waits(d, a)
<1>0. FaultyDeviceHasJob <=> (OnlyHealthyRegistered => Inv(db))
  BY DEF FaultyDeviceHasJob, HasUnfinishedJob
<1>1. Init => FaultyDeviceHasJob
  BY DEF Init, FaultyDeviceHasJob, EmptyDatabase, MigratedDatabase
<1>2. TypeOK /\ FaultyDeviceHasJob /\ [Next]_db => FaultyDeviceHasJob'
  <2> SUFFICES ASSUME TypeOK, FaultyDeviceHasJob, [Next]_db, OnlyHealthyRegistered,
                      NEW b \in Address, Faulty(db', b)
               PROVE  Waits(db', b)
    BY DEF FaultyDeviceHasJob, HasUnfinishedJob, OnlyHealthyRegistered
  <2>0. Faulty(db, b) => Waits(db, b)
    BY <1>0
  <2> USE StepTypes DEF TypeOK
  <2>1. ASSUME NEW k \in 1..Len(SchemaObjects), Create(k)
        PROVE  Waits(db', b)
    BY <2>0, <2>1, CreateStep
  <2>2. CASE AddWorker
    BY <2>0, <2>2, AddWorkerStep
  <2>3. ASSUME NEW a \in Address, NEW row \in UpsertRows, Upsert(a, row)
        PROVE  Waits(db', b)
    <3>1. /\ db'.devices = [db.devices EXCEPT ![a] = row]
          /\ db'.jobs = db.jobs
          /\ ~row.is_faulty
      BY <2>3, UpsertStep DEF OnlyHealthyRegistered
    <3>2. Faulty(db, b)
      BY <3>1 DEF Database
    <3>3. QED
      BY <2>0, <3>1, <3>2
  <2>4. ASSUME NEW a \in Address, ReportBreakdown(a)
        PROVE  Waits(db', b)
    <3>1. /\ db'.devices = [db.devices EXCEPT ![a] = FaultyRow(db.devices[a])]
          /\ DOMAIN db'.jobs = DOMAIN db.jobs \cup {Len(db.jobs) + 1}
          /\ \A j \in DOMAIN db.jobs : db'.jobs[j] = db.jobs[j]
          /\ db'.jobs[Len(db.jobs) + 1] = NewJob(a)
      BY <2>4, ReportStep
    <3>2. CASE b = a
      BY <3>1, <3>2 DEF NewJob, IsUnfinished
    <3>3. CASE b # a
      <4>1. Faulty(db, b)
        BY <3>1, <3>3 DEF Database
      <4>2. QED
        BY <2>0, <3>1, <4>1
    <3>4. QED
      BY <3>2, <3>3
  <2>5. ASSUME NEW j \in DOMAIN db.jobs, NEW w \in DOMAIN db.workers, Start(j, w)
        PROVE  Waits(db', b)
    <3>1. /\ db'.devices = db.devices
          /\ DOMAIN db'.jobs = DOMAIN db.jobs
          /\ \A i \in DOMAIN db.jobs :
               db'.jobs[i] = IF i = j THEN StartedJob(db.jobs[j], w)
                                      ELSE db.jobs[i]
      BY <2>5, StartStep
    <3>2. /\ StartedJob(db.jobs[j], w).device = db.jobs[j].device
          /\ IsUnfinished(StartedJob(db.jobs[j], w))
      BY JobRowType DEF StartedJob, Job, IsUnfinished
    <3>3. QED
      BY <2>0, <3>1, <3>2
  <2>6. ASSUME NEW j \in DOMAIN db.jobs, Finish(j)
        PROVE  Waits(db', b)
    <3>1. PICK a : a = db.jobs[j].device
      OBVIOUS
    <3>2. /\ a \in Address
          /\ db'.devices = [db.devices EXCEPT ![a] = HealthyRow(db.devices[a])]
          /\ DOMAIN db'.jobs = DOMAIN db.jobs
          /\ \A i \in DOMAIN db.jobs :
               db'.jobs[i] = IF i = j THEN FinishedJob(db.jobs[j])
                                      ELSE db.jobs[i]
      BY <2>6, <3>1, FinishStep
    <3>3. db'.devices[a] = NULL \/ ~db'.devices[a].is_faulty
      BY <3>2 DEF Database, HealthyRow, Device
    <3>4. b # a /\ Faulty(db, b)
      BY <3>2, <3>3 DEF Database
    <3>5. PICK i \in DOMAIN db.jobs : db.jobs[i].device = b /\ IsUnfinished(db.jobs[i])
      BY <2>0, <3>4
    <3>6. i # j
      BY <3>1, <3>4, <3>5
    <3>7. QED
      BY <3>2, <3>5, <3>6
  <2>7. CASE UNCHANGED db
    BY <2>0, <2>7
  <2>8. QED
    BY <2>1, <2>2, <2>3, <2>4, <2>5, <2>6, <2>7 DEF Next
<1>3. QED
  BY <1>1, <1>2, TypeCorrect, PTL DEF Spec

(* The rows of jobs after a step that leaves them alone.                    *)
LEMMA AdvancesReflexive ==
    ASSUME NEW job \in Job
    PROVE  Advances(job, job)
BY DEF Advances, StatusRank, Job, JobStatus

(* No operation deletes a job, moves it to another device, takes it from    *)
(* its worker or sets its status back.  start_repair needs its guard        *)
(* "status = 0" here and JobsAreSound, by which an Open job has no worker.  *)
THEOREM JobsAdvance == Spec => JobsOnlyAdvance
<1> DEFINE Kept(d) == /\ Len(d.jobs) >= Len(db.jobs)
                      /\ \A j \in DOMAIN db.jobs : Advances(db.jobs[j], d.jobs[j])
<1>1. TypeOK /\ JobsAreSound /\ [Next]_db => [Kept(db')]_db
  <2> SUFFICES ASSUME TypeOK, JobsAreSound, Next
               PROVE  Kept(db')
    OBVIOUS
  <2>0. \A j \in DOMAIN db.jobs : /\ db.jobs[j] \in Job
                                  /\ Advances(db.jobs[j], db.jobs[j])
                                  /\ IsCoherent(db.jobs[j])
    BY JobRowType, AdvancesReflexive DEF TypeOK, JobsAreSound
  <2> USE StepTypes DEF TypeOK
  <2>1. ASSUME NEW k \in 1..Len(SchemaObjects), Create(k)
        PROVE  Kept(db')
    <3>1. db'.jobs = db.jobs
      BY <2>1, CreateStep
    <3>2. QED
      BY <2>0, <3>1
  <2>2. CASE AddWorker
    <3>1. db'.jobs = db.jobs
      BY <2>2, AddWorkerStep
    <3>2. QED
      BY <2>0, <3>1
  <2>3. ASSUME NEW a \in Address, NEW row \in UpsertRows, Upsert(a, row)
        PROVE  Kept(db')
    <3>1. db'.jobs = db.jobs
      BY <2>3, UpsertStep
    <3>2. QED
      BY <2>0, <3>1
  <2>4. ASSUME NEW a \in Address, ReportBreakdown(a)
        PROVE  Kept(db')
    <3>1. /\ Len(db'.jobs) = Len(db.jobs) + 1
          /\ \A j \in DOMAIN db.jobs : db'.jobs[j] = db.jobs[j]
      BY <2>4, ReportStep
    <3>2. QED
      BY <2>0, <3>1
  <2>5. ASSUME NEW j \in DOMAIN db.jobs, NEW w \in DOMAIN db.workers, Start(j, w)
        PROVE  Kept(db')
    <3>1. /\ Len(db'.jobs) = Len(db.jobs)
          /\ \A i \in DOMAIN db.jobs :
               db'.jobs[i] = IF i = j THEN StartedJob(db.jobs[j], w)
                                      ELSE db.jobs[i]
          /\ db.jobs[j].status = "Open"
      BY <2>5, StartStep
    <3>2. Advances(db.jobs[j], StartedJob(db.jobs[j], w))
      BY <2>0, <3>1 DEF Advances, StartedJob, StatusRank, IsCoherent, Job
    <3>3. QED
      BY <2>0, <3>1, <3>2
  <2>6. ASSUME NEW j \in DOMAIN db.jobs, Finish(j)
        PROVE  Kept(db')
    <3>0. PICK a : a = db.jobs[j].device
      OBVIOUS
    <3> HIDE DEF Kept
    <3>1. /\ Len(db'.jobs) = Len(db.jobs)
          /\ \A i \in DOMAIN db.jobs :
               db'.jobs[i] = IF i = j THEN FinishedJob(db.jobs[j])
                                      ELSE db.jobs[i]
      BY <2>6, <3>0, FinishStep
    <3>2. Advances(db.jobs[j], FinishedJob(db.jobs[j]))
      BY <2>0 DEF Advances, FinishedJob, StatusRank, IsCoherent, Job, JobStatus
    <3>3. QED
      BY <2>0, <3>1, <3>2 DEF Kept
  <2>7. QED
    BY <2>1, <2>2, <2>3, <2>4, <2>5, <2>6 DEF Next
<1>2. QED
  BY <1>1, TypeCorrect, JobsSound, PTL DEF Spec, JobsOnlyAdvance

(* The step that ends the last unfinished job of a device leaves the device *)
(* working: only finish_repair ends a job, and it clears is_faulty of the   *)
(* device of the job it ends.                                               *)
THEOREM LastFinish == Spec => LastFinishHeals
<1> DEFINE Waits(d, a) == \E j \in DOMAIN d.jobs :
                             d.jobs[j].device = a /\ IsUnfinished(d.jobs[j])
           Heals(d) == \A a \in Address :
                          Waits(db, a) /\ ~Waits(d, a) => ~d.devices[a].is_faulty
<1>1. TypeOK /\ JobsAreSound /\ [Next]_db => [Heals(db')]_db
  <2> SUFFICES ASSUME TypeOK, JobsAreSound, Next,
                      NEW b \in Address, Waits(db, b), ~Waits(db', b)
               PROVE  ~db'.devices[b].is_faulty
    OBVIOUS
  <2>0. PICK i \in DOMAIN db.jobs : db.jobs[i].device = b /\ IsUnfinished(db.jobs[i])
    OBVIOUS
  <2>00. /\ db.jobs[i] \in Job
         /\ db.devices[b] \in Device
    BY <2>0, JobRowType DEF TypeOK, Database, JobsAreSound, ReferencesHold
  <2> USE StepTypes DEF TypeOK
  <2>1. ASSUME NEW k \in 1..Len(SchemaObjects), Create(k)
        PROVE  FALSE
    BY <2>0, <2>1, CreateStep
  <2>2. CASE AddWorker
    BY <2>0, <2>2, AddWorkerStep
  <2>3. ASSUME NEW a \in Address, NEW row \in UpsertRows, Upsert(a, row)
        PROVE  FALSE
    BY <2>0, <2>3, UpsertStep
  <2>4. ASSUME NEW a \in Address, ReportBreakdown(a)
        PROVE  FALSE
    <3>1. /\ DOMAIN db'.jobs = DOMAIN db.jobs \cup {Len(db.jobs) + 1}
          /\ db'.jobs[i] = db.jobs[i]
      BY <2>4, ReportStep
    <3>2. i \in DOMAIN db'.jobs
      BY <3>1
    <3>3. QED
      BY <2>0, <3>1, <3>2
  <2>5. ASSUME NEW j \in DOMAIN db.jobs, NEW w \in DOMAIN db.workers, Start(j, w)
        PROVE  FALSE
    <3>1. /\ DOMAIN db'.jobs = DOMAIN db.jobs
          /\ db'.jobs[i] = IF i = j THEN StartedJob(db.jobs[i], w) ELSE db.jobs[i]
      BY <2>5, StartStep
    <3>2. /\ StartedJob(db.jobs[i], w).device = b
          /\ IsUnfinished(StartedJob(db.jobs[i], w))
      BY <2>0, <2>00 DEF StartedJob, Job, IsUnfinished
    <3>3. QED
      BY <2>0, <3>1, <3>2
  <2>6. ASSUME NEW j \in DOMAIN db.jobs, Finish(j)
        PROVE  ~db'.devices[b].is_faulty
    <3>0. PICK a : a = db.jobs[j].device
      OBVIOUS
    <3>1. /\ a \in Address
          /\ db'.devices = [db.devices EXCEPT ![a] = HealthyRow(db.devices[a])]
          /\ DOMAIN db'.jobs = DOMAIN db.jobs
          /\ i # j => db'.jobs[i] = db.jobs[i]
      BY <2>6, <3>0, FinishStep
    <3>2. i = j /\ a = b
      BY <2>0, <3>0, <3>1
    <3>3. db'.devices[b] = [db.devices[b] EXCEPT !.is_faulty = FALSE]
      BY <2>00, <3>1, <3>2, NoRowAssumption DEF Database, HealthyRow
    <3>4. QED
      BY <2>00, <3>3 DEF Device
  <2>7. QED
    BY <2>1, <2>2, <2>3, <2>4, <2>5, <2>6 DEF Next
<1>2. (TypeOK /\ JobsAreSound /\ [Next]_db) =>
        [\A a \in Address :
          HasUnfinishedJob(a) /\ ~HasUnfinishedJob(a)' => ~db'.devices[a].is_faulty]_db
  BY <1>1 DEF HasUnfinishedJob
<1>3. QED
  BY <1>2, TypeCorrect, JobsSound, PTL DEF Spec, LastFinishHeals
=============================================================================
