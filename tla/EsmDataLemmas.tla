---------------------------- MODULE EsmDataLemmas ----------------------------
(* What the SQL statements of EsmData do to a database, for the proofs      *)
(* about RepairLedger and Engine.                                           *)
EXTENDS EsmData, SequenceTheorems, TLAPS

(* The databases a connection starts from.                                  *)
LEMMA InitialDatabases ==
    EmptyDatabase \in Database /\ MigratedDatabase \in Database
<1>1. << >> \in Seq(Int) /\ << >> \in Seq(Job)
  BY EmptySeq
<1>2. [a \in Address |-> NULL] \in [Address -> Device \cup {NULL}]
  OBVIOUS
<1>3. EmptyDatabase \in Database
  BY <1>1, <1>2 DEF EmptyDatabase, Database
<1>4. QED
  BY <1>3 DEF MigratedDatabase, Database

LEMMA SchemaObjectsType ==
    /\ SchemaObjects \in Seq(SchemaObject)
    /\ Len(SchemaObjects) = 5
    /\ \A k \in 1..5 : SchemaObjects[k] \in SchemaObject
BY DEF SchemaObjects, SchemaObject

LEMMA CreateObjectType ==
    ASSUME NEW db \in Database, NEW o \in SchemaObject
    PROVE  /\ CreateObject(db, o) \in Database
           /\ CreateObject(db, o).schema = db.schema \cup {o}
           /\ CreateObject(db, o).devices = db.devices
           /\ CreateObject(db, o).workers = db.workers
           /\ CreateObject(db, o).jobs = db.jobs
BY DEF CreateObject, Database

LEMMA InsertWorkerType ==
    ASSUME NEW db \in Database, NEW m \in Int
    PROVE  /\ InsertWorker(db, m) \in Database
           /\ InsertWorker(db, m).schema = db.schema
           /\ InsertWorker(db, m).devices = db.devices
           /\ InsertWorker(db, m).workers = Append(db.workers, m)
           /\ DOMAIN db.workers \subseteq DOMAIN InsertWorker(db, m).workers
           /\ InsertWorker(db, m).jobs = db.jobs
<1>1. db.workers \in Seq(Int)
  BY DEF Database
<1>2. /\ Append(db.workers, m) \in Seq(Int)
      /\ Len(Append(db.workers, m)) = Len(db.workers) + 1
  BY <1>1, AppendProperties
<1>3. DOMAIN db.workers \subseteq DOMAIN Append(db.workers, m)
  BY <1>1, <1>2
<1>4. QED
  BY <1>2, <1>3 DEF InsertWorker, Database

LEMMA UpsertDeviceType ==
    ASSUME NEW db \in Database, NEW a \in Address, NEW row \in StorableDevice
    PROVE  /\ UpsertDevice(db, a, row) \in Database
           /\ UpsertDevice(db, a, row).schema = db.schema
           /\ UpsertDevice(db, a, row).devices = [db.devices EXCEPT ![a] = row]
           /\ UpsertDevice(db, a, row).workers = db.workers
           /\ UpsertDevice(db, a, row).jobs = db.jobs
<1>1. [db.devices EXCEPT ![a] = row] \in [Address -> Device \cup {NULL}]
  BY DEF Database, StorableDevice
<1>2. QED
  BY <1>1 DEF UpsertDevice, Database

LEMMA MarkFaultyType ==
    ASSUME NEW db \in Database, NEW a \in Address
    PROVE  /\ MarkFaulty(db, a) \in Database
           /\ MarkFaulty(db, a).schema = db.schema
           /\ FaultyRow(db.devices[a]) \in Device
           /\ MarkFaulty(db, a).devices =
                [db.devices EXCEPT ![a] = FaultyRow(db.devices[a])]
           /\ MarkFaulty(db, a).workers = db.workers
           /\ MarkFaulty(db, a).jobs = db.jobs
<1>1. FaultyRow(db.devices[a]) \in Device
  BY DEF Database, FaultyRow, Device, Priority
<1>2. [db.devices EXCEPT ![a] = FaultyRow(db.devices[a])]
        \in [Address -> Device \cup {NULL}]
  BY <1>1 DEF Database
<1>3. QED
  BY <1>1, <1>2 DEF MarkFaulty, Database

LEMMA MarkHealthyType ==
    ASSUME NEW db \in Database, NEW a \in Address
    PROVE  /\ MarkHealthy(db, a) \in Database
           /\ MarkHealthy(db, a).schema = db.schema
           /\ HealthyRow(db.devices[a]) \in Device \cup {NULL}
           /\ MarkHealthy(db, a).devices =
                [db.devices EXCEPT ![a] = HealthyRow(db.devices[a])]
           /\ MarkHealthy(db, a).workers = db.workers
           /\ MarkHealthy(db, a).jobs = db.jobs
<1>1. HealthyRow(db.devices[a]) \in Device \cup {NULL}
  BY DEF Database, HealthyRow, Device
<1>2. [db.devices EXCEPT ![a] = HealthyRow(db.devices[a])]
        \in [Address -> Device \cup {NULL}]
  BY <1>1 DEF Database
<1>3. QED
  BY <1>1, <1>2 DEF MarkHealthy, Database

LEMMA InsertJobType ==
    ASSUME NEW db \in Database, NEW a \in Address
    PROVE  /\ InsertJob(db, a) \in Database
           /\ InsertJob(db, a).schema = db.schema
           /\ InsertJob(db, a).devices = db.devices
           /\ InsertJob(db, a).workers = db.workers
           /\ Len(InsertJob(db, a).jobs) = Len(db.jobs) + 1
           /\ DOMAIN InsertJob(db, a).jobs = DOMAIN db.jobs \cup {Len(db.jobs) + 1}
           /\ \A j \in DOMAIN db.jobs : InsertJob(db, a).jobs[j] = db.jobs[j]
           /\ InsertJob(db, a).jobs[Len(db.jobs) + 1] = NewJob(a)
<1>1. db.jobs \in Seq(Job) /\ NewJob(a) \in Job
  BY DEF Database, NewJob, Job, JobStatus
<1> DEFINE js == Append(db.jobs, NewJob(a))
<1>2. /\ js \in Seq(Job)
      /\ Len(js) = Len(db.jobs) + 1
      /\ \A j \in 1..Len(db.jobs) : js[j] = db.jobs[j]
      /\ js[Len(db.jobs) + 1] = NewJob(a)
  BY <1>1, AppendProperties
<1>3. DOMAIN js = DOMAIN db.jobs \cup {Len(db.jobs) + 1}
  BY <1>1, <1>2
<1>4. InsertJob(db, a).jobs = js
  BY DEF InsertJob, Database
<1> HIDE DEF js
<1>5. InsertJob(db, a) = [db EXCEPT !.jobs = js]
  BY DEF InsertJob, js, Database
<1>6. /\ InsertJob(db, a) \in Database
      /\ InsertJob(db, a).schema = db.schema
      /\ InsertJob(db, a).devices = db.devices
      /\ InsertJob(db, a).workers = db.workers
  BY <1>2, <1>5 DEF Database
<1>7. QED
  BY <1>2, <1>3, <1>4, <1>6

(* One row of jobs is rewritten.                                            *)
LEMMA SetJobType ==
    ASSUME NEW db \in Database, NEW j \in DOMAIN db.jobs, NEW job \in Job,
           NEW new, new = [db EXCEPT !.jobs[j] = job]
    PROVE  /\ new \in Database
           /\ new.schema = db.schema
           /\ new.devices = db.devices
           /\ new.workers = db.workers
           /\ Len(new.jobs) = Len(db.jobs)
           /\ DOMAIN new.jobs = DOMAIN db.jobs
           /\ \A i \in DOMAIN db.jobs :
                new.jobs[i] = IF i = j THEN job ELSE db.jobs[i]
<1>1. db.jobs \in Seq(Job) /\ j \in 1..Len(db.jobs)
  BY DEF Database
<1> DEFINE js == [db.jobs EXCEPT ![j] = job]
<1>2. /\ js \in Seq(Job)
      /\ Len(js) = Len(db.jobs)
      /\ \A i \in 1..Len(db.jobs) : js[i] = IF i = j THEN job ELSE db.jobs[i]
  BY <1>1, ExceptSeq
<1>3. DOMAIN js = DOMAIN db.jobs /\ DOMAIN db.jobs = 1..Len(db.jobs)
  BY <1>1
<1>4. new = [db EXCEPT !.jobs = js]
  BY DEF Database
<1> HIDE DEF js
<1>5. QED
  BY <1>2, <1>3, <1>4 DEF Database

(* A job row is a Job.                                                      *)
LEMMA JobRowType ==
    ASSUME NEW db \in Database, NEW j \in DOMAIN db.jobs
    PROVE  db.jobs[j] \in Job
<1>1. db.jobs \in Seq(Job)
  BY DEF Database
<1>2. QED
  BY <1>1, ElementOfSeq

LEMMA StartJobType ==
    ASSUME NEW db \in Database, NEW j \in Int, NEW w \in Int
    PROVE  /\ StartJob(db, j, w) \in Database
           /\ StartJob(db, j, w).schema = db.schema
           /\ StartJob(db, j, w).devices = db.devices
           /\ StartJob(db, j, w).workers = db.workers
           /\ Len(StartJob(db, j, w).jobs) = Len(db.jobs)
           /\ DOMAIN StartJob(db, j, w).jobs = DOMAIN db.jobs
           /\ \A i \in DOMAIN db.jobs :
                StartJob(db, j, w).jobs[i] =
                  IF i = j /\ IsStartable(db, j)
                  THEN StartedJob(db.jobs[j], w) ELSE db.jobs[i]
<1>1. CASE IsStartable(db, j)
  <2>1. j \in DOMAIN db.jobs
    BY <1>1 DEF IsStartable, JobExists
  <2>2. StartedJob(db.jobs[j], w) \in Job
    BY <2>1, JobRowType DEF StartedJob, Job, JobStatus
  <2>3. StartJob(db, j, w) =
          [db EXCEPT !.jobs[j] = StartedJob(db.jobs[j], w)]
    BY <1>1 DEF StartJob
  <2>4. QED
    BY <1>1, <2>1, <2>2, <2>3, SetJobType
<1>2. CASE ~IsStartable(db, j)
  BY <1>2 DEF StartJob
<1>3. QED
  BY <1>1, <1>2

LEMMA FinishJobType ==
    ASSUME NEW db \in Database, NEW j \in DOMAIN db.jobs
    PROVE  /\ FinishJob(db, j) \in Database
           /\ FinishJob(db, j).schema = db.schema
           /\ FinishJob(db, j).devices = db.devices
           /\ FinishJob(db, j).workers = db.workers
           /\ Len(FinishJob(db, j).jobs) = Len(db.jobs)
           /\ DOMAIN FinishJob(db, j).jobs = DOMAIN db.jobs
           /\ \A i \in DOMAIN db.jobs :
                FinishJob(db, j).jobs[i] =
                  IF i = j THEN FinishedJob(db.jobs[j]) ELSE db.jobs[i]
<1>1. FinishedJob(db.jobs[j]) \in Job
  BY JobRowType DEF FinishedJob, Job, JobStatus
<1>2. FinishJob(db, j) =
        [db EXCEPT !.jobs[j] = FinishedJob(db.jobs[j])]
  BY DEF FinishJob
<1>3. QED
  BY <1>1, <1>2, SetJobType

-----------------------------------------------------------------------------
(* The two transactions.                                                    *)

LEMMA BreakdownType ==
    ASSUME NEW db \in Database, NEW a \in Address
    PROVE  /\ Breakdown(db, a) \in Database
           /\ Breakdown(db, a).schema = db.schema
           /\ FaultyRow(db.devices[a]) \in Device
           /\ Breakdown(db, a).devices =
                [db.devices EXCEPT ![a] = FaultyRow(db.devices[a])]
           /\ Breakdown(db, a).workers = db.workers
           /\ Len(Breakdown(db, a).jobs) = Len(db.jobs) + 1
           /\ DOMAIN Breakdown(db, a).jobs = DOMAIN db.jobs \cup {Len(db.jobs) + 1}
           /\ \A j \in DOMAIN db.jobs : Breakdown(db, a).jobs[j] = db.jobs[j]
           /\ Breakdown(db, a).jobs[Len(db.jobs) + 1] = NewJob(a)
<1> DEFINE mid == MarkFaulty(db, a)
<1>1. /\ mid \in Database
      /\ mid.schema = db.schema
      /\ FaultyRow(db.devices[a]) \in Device
      /\ mid.devices = [db.devices EXCEPT ![a] = FaultyRow(db.devices[a])]
      /\ mid.workers = db.workers
      /\ mid.jobs = db.jobs
  BY MarkFaultyType
<1>2. Breakdown(db, a) = InsertJob(mid, a)
  BY DEF Breakdown
<1> HIDE DEF mid
<1>3. QED
  BY <1>1, <1>2, InsertJobType

LEMMA FinishRepairType ==
    ASSUME NEW db \in Database, NEW j \in DOMAIN db.jobs, NEW a,
           a = db.jobs[j].device
    PROVE  /\ FinishRepair(db, j) \in Database
           /\ FinishRepair(db, j).schema = db.schema
           /\ a \in Address
           /\ HealthyRow(db.devices[a]) \in Device \cup {NULL}
           /\ FinishRepair(db, j).devices =
                [db.devices EXCEPT ![a] = HealthyRow(db.devices[a])]
           /\ FinishRepair(db, j).workers = db.workers
           /\ Len(FinishRepair(db, j).jobs) = Len(db.jobs)
           /\ DOMAIN FinishRepair(db, j).jobs = DOMAIN db.jobs
           /\ \A i \in DOMAIN db.jobs :
                FinishRepair(db, j).jobs[i] =
                  IF i = j THEN FinishedJob(db.jobs[j]) ELSE db.jobs[i]
<1>1. a \in Address
  BY JobRowType DEF Job
<1> DEFINE mid == FinishJob(db, j)
<1>2. /\ mid \in Database
      /\ mid.schema = db.schema
      /\ mid.devices = db.devices
      /\ mid.workers = db.workers
      /\ Len(mid.jobs) = Len(db.jobs)
      /\ DOMAIN mid.jobs = DOMAIN db.jobs
      /\ \A i \in DOMAIN db.jobs :
           mid.jobs[i] = IF i = j THEN FinishedJob(db.jobs[j]) ELSE db.jobs[i]
  BY FinishJobType
<1>3. FinishRepair(db, j) = MarkHealthy(mid, a)
  BY DEF FinishRepair
<1> HIDE DEF mid
<1>4. /\ MarkHealthy(mid, a) \in Database
      /\ MarkHealthy(mid, a).schema = mid.schema
      /\ HealthyRow(mid.devices[a]) \in Device \cup {NULL}
      /\ MarkHealthy(mid, a).devices =
           [mid.devices EXCEPT ![a] = HealthyRow(mid.devices[a])]
      /\ MarkHealthy(mid, a).workers = mid.workers
      /\ MarkHealthy(mid, a).jobs = mid.jobs
  BY <1>1, <1>2, MarkHealthyType
<1>5. QED
  BY <1>1, <1>2, <1>3, <1>4
=============================================================================
