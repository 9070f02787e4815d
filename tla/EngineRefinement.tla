-------------------------- MODULE EngineRefinement --------------------------
(* Engine implements RepairLedger: what a call commits is what it promises, *)
(* applied to the file as it is at that moment.                             *)
EXTENDS EngineProofs

(* sqlite3_prepare_v2 has found the table of the statement in the file.     *)
Prepared(c) == Op(c) \in DOMAIN NeededTable => NeededTable[Op(c)] \in disk.schema

(* migrate has the statements before the current one behind it.             *)
MigratedBefore(c) ==
    Op(c) = "migrate" =>
        \A i \in 1..5 : i < at[c] => SchemaObjects[i] \in disk.schema

(* The file admits the call of c.                                           *)
Allowed(c) ==
    /\ Op(c) = "add_worker" =>
         "workers" \in disk.schema /\ Len(disk.workers) < MaxRowId
    /\ Op(c) = "upsert_device" => "devices" \in disk.schema
    /\ Op(c) = "breakdown" =>
         {"devices", "jobs"} \subseteq disk.schema /\ Len(disk.jobs) < MaxRowId
    /\ Op(c) = "start_repair" =>
         /\ "jobs" \in disk.schema
         /\ IsStartable(disk, call[c].job) => WorkerExists(disk, call[c].worker)
    /\ Op(c) = "finish_repair" =>
         "jobs" \in disk.schema /\ JobExists(disk, call[c].job)

(* The private copy of c is the file with the statements of the call done   *)
(* so far, unless c works in a transaction that an earlier call left open;  *)
(* such a call never comes to a commit.                                     *)
ViewFits(c) ==
    /\ pc[c] \notin {"closed", "idle"} => call[c] \in Requests
    /\ pc[c] \in {"prepare", "reserve", "execute", "commit", "publish"} /\ ~tx[c]
         => MigratedBefore(c)
    /\ pc[c] \in {"reserve", "execute"} /\ ~tx[c] => Prepared(c)
    /\ pc[c] = "execute" /\ (tx[c] => IsTransaction(c)) => work[c] = disk
    /\ pc[c] = "insert_job" => /\ "devices" \in disk.schema
                               /\ work[c] = MarkFaulty(disk, call[c].address)
    /\ pc[c] = "update_job" => "jobs" \in disk.schema /\ work[c] = disk
    /\ pc[c] = "update_device" => /\ "jobs" \in disk.schema
                                  /\ JobExists(disk, call[c].job)
                                  /\ work[c] = FinishJob(disk, call[c].job)
    /\ pc[c] \in {"commit", "publish"} => Allowed(c) /\ work[c] = Effect(c, disk)

LEMMA NeededTables ==
    ASSUME NEW c, Prepared(c)
    PROVE  /\ Op(c) = "add_worker" => "workers" \in disk.schema
           /\ Op(c) = "upsert_device" => "devices" \in disk.schema
           /\ Op(c) = "start_repair" => "jobs" \in disk.schema
BY DEF Prepared, NeededTable

LEMMA PromiseKept ==
    ASSUME NEW c, call'[c] = call[c], at'[c] = at[c], disk' = disk
    PROVE  /\ Effect(c, disk)' = Effect(c, disk)
           /\ Allowed(c)' <=> Allowed(c)
           /\ Prepared(c)' <=> Prepared(c)
           /\ MigratedBefore(c)' <=> MigratedBefore(c)
<1>1. Effect(c, disk)' = Effect(c, disk)
  BY DEF Effect
<1>2. QED
  BY <1>1 DEF Allowed, Prepared, MigratedBefore, Op, IsStartable, JobExists,
              WorkerExists

-----------------------------------------------------------------------------
(* The step of c itself.                                                    *)

LEMMA IdleView ==
    ASSUME NEW c, pc'[c] \in {"closed", "idle"}
    PROVE  ViewFits(c)'
BY DEF ViewFits

LEMMA ReadView ==
    ASSUME NEW c, ViewFits(c), pc[c] \notin {"closed", "idle"},
           pc'[c] \in {"rows", "addresses", "select_device", "fetch_device"},
           call'[c] = call[c]
    PROVE  ViewFits(c)'
BY DEF ViewFits

(* Steps that end the call, or the connection.                              *)
LEMMA EndView ==
    ASSUME TypeOK, NEW c \in Conn,
           \/ Open(c) \/ Close(c) \/ Crash(c)
           \/ NoSuchTable(c) \/ BeginInTransaction(c) \/ LockBusy(c)
           \/ ReserveBusy(c) \/ AddWorkerFull(c) \/ StartRepairFails(c)
           \/ BreakdownNoDevices(c) \/ BreakdownJobFails(c) \/ FinishRepairFails(c)
           \/ CommitBusy(c) \/ AutocommitBusy(c)
           \/ ListWorkers(c) \/ ListJobsDone(c) \/ ListAddressesBusy(c)
           \/ SelectDeviceBusy(c) \/ ListDevicesDone(c)
    PROVE  ViewFits(c)'
<1>0. pc \in [Conn -> Label]
  BY DEF TypeOK
<1>1. \/ pc' = [pc EXCEPT ![c] = "idle"]
      \/ pc' = [pc EXCEPT ![c] = "closed"]
  BY DEF Open, Close, Crash, NoSuchTable, BeginInTransaction, LockBusy, ReserveBusy,
         AddWorkerFull, StartRepairFails, BreakdownNoDevices, BreakdownJobFails,
         FinishRepairFails, CommitBusy, AutocommitBusy, ListWorkers, ListJobsDone,
         ListAddressesBusy, SelectDeviceBusy, ListDevicesDone, Goto, Raise, Return,
         Finish
<1>2. QED
  BY <1>0, <1>1, IdleView

LEMMA ReadingView ==
    ASSUME TypeOK, NEW c \in Conn, ViewFits(c),
           \/ ListJobsRow(c) \/ ListAddresses(c) \/ SelectDevice(c) \/ FetchDevice(c)
    PROVE  ViewFits(c)'
<1>0. pc \in [Conn -> Label]
  BY DEF TypeOK
<1>1. /\ pc[c] \notin {"closed", "idle"} /\ call'[c] = call[c]
      /\ pc'[c] \in {"rows", "select_device", "fetch_device"}
  BY <1>0 DEF ListJobsRow, ListAddresses, SelectDevice, FetchDevice, Goto, client
<1>2. QED
  BY <1>1, ReadView

LEMMA InvokeView ==
    ASSUME TypeOK, NEW c \in Conn, Fits(c), NEW r \in Requests, Invoke(c, r)
    PROVE  ViewFits(c)'
<1>1. pc'[c] = "prepare" /\ call'[c] \in Requests /\ at'[c] = 1
  BY DEF Invoke, TypeOK, Fits, CallFits
<1>2. MigratedBefore(c)'
  BY <1>1 DEF MigratedBefore
<1>3. QED
  BY <1>1, <1>2 DEF ViewFits

(* migrate goes on to its next statement when the current one has nothing   *)
(* left to do in the file.                                                  *)
LEMMA NextStatementView ==
    ASSUME TypeOK, NEW c \in Conn, Fits(c), ViewFits(c), NextStatement(c),
           pc[c] \notin {"closed", "idle"}, Op(c) = "migrate",
           ~tx'[c] => /\ MigratedBefore(c)
                      /\ disk.schema \subseteq disk'.schema
                      /\ SchemaObjects[at[c]] \in disk'.schema
    PROVE  ViewFits(c)'
<1>1. /\ call'[c] = call[c]
      /\ \/ at[c] = 5 /\ pc'[c] = "idle" /\ at'[c] = 1
         \/ at[c] # 5 /\ pc'[c] = "prepare" /\ at'[c] = at[c] + 1
  BY TypeParts, NextStatementStep
<1>2. CASE pc'[c] = "idle"
  BY <1>2, IdleView
<1>3. CASE pc'[c] = "prepare" /\ at'[c] = at[c] + 1
  <2>1. at[c] \in 1..5
    BY DEF Fits, CallFits
  <2>2. ~tx'[c] => MigratedBefore(c)'
    BY <1>1, <1>3, <2>1 DEF MigratedBefore, Op
  <2>3. QED
    BY <1>1, <1>3, <2>2 DEF ViewFits
<1>4. QED
  BY <1>1, <1>2, <1>3

LEMMA SkipCreateView ==
    ASSUME TypeOK, NEW c \in Conn, Fits(c), ViewFits(c), SkipCreate(c)
    PROVE  ViewFits(c)'
<1>1. /\ pc[c] = "prepare" /\ Op(c) = "migrate"
      /\ disk' = disk /\ tx' = tx
      /\ SchemaObjects[at[c]] \in Visible(c).schema
  BY DEF SkipCreate, ObjectExists
<1>2. ~tx[c] => MigratedBefore(c) /\ Visible(c) = disk
  BY <1>1 DEF ViewFits, Fits, LockFits, Visible, IsWriter, WriteLock
<1>3. QED
  BY <1>1, <1>2, NextStatementView DEF SkipCreate

LEMMA LockingView ==
    ASSUME TypeOK, NEW c \in Conn, Fits(c), ViewFits(c), Lock(c)
    PROVE  ViewFits(c)'
<1>1. /\ pc[c] = "prepare" /\ ~tx[c] /\ IsPrepared(c)
      /\ disk' = disk /\ tx' = tx
  BY DEF Lock, LockShared
<1>2. Prepared(c) /\ MigratedBefore(c)
  BY <1>1 DEF IsPrepared, Prepared, ViewFits, Fits, LockFits, Visible, IsWriter,
              WriteLock
<1>3. call'[c] = call[c] /\ at'[c] = at[c]
  BY DEF Lock, Goto, client
<1>4. \/ pc'[c] \in {"rows", "addresses"}
      \/ pc'[c] = "reserve"
  BY DEF Lock, Goto, FirstStep, IsRead, TypeOK
<1>5. CASE pc'[c] \in {"rows", "addresses"}
  BY <1>1, <1>3, <1>5, ReadView
<1>6. CASE pc'[c] = "reserve"
  <2>1. Prepared(c)' /\ MigratedBefore(c)'
    BY <1>1, <1>2, <1>3, PromiseKept
  <2>2. QED
    BY <1>1, <1>3, <1>6, <2>1 DEF ViewFits
<1>7. QED
  BY <1>4, <1>5, <1>6

LEMMA UseOpenTransactionView ==
    ASSUME TypeOK, NEW c \in Conn, ViewFits(c), UseOpenTransaction(c)
    PROVE  ViewFits(c)'
<1>1. /\ pc[c] = "prepare" /\ tx[c] /\ ~IsTransaction(c) /\ tx' = tx
      /\ call'[c] = call[c]
      /\ pc'[c] \in {"execute", "rows", "addresses"}
  BY DEF UseOpenTransaction, Goto, client, storage, FirstStep, TypeOK
<1>2. CASE pc'[c] = "execute"
  BY <1>1, <1>2 DEF ViewFits, IsTransaction, Op
<1>3. QED
  BY <1>1, <1>2, ReadView

LEMMA ReserveView ==
    ASSUME TypeOK, NEW c \in Conn, Fits(c), ViewFits(c), Reserve(c)
    PROVE  ViewFits(c)'
<1>1. /\ pc[c] = "reserve" /\ pc'[c] = "execute"
      /\ call'[c] = call[c] /\ at'[c] = at[c]
      /\ disk' = disk /\ work'[c] = disk
  BY DEF Reserve, LockReserved, Goto, client, TypeOK, StorageTypeOK
<1>2. ~tx[c]
  BY <1>1 DEF Fits, LockFits
<1>3. Prepared(c) /\ MigratedBefore(c)
  BY <1>1, <1>2 DEF ViewFits
<1>4. Prepared(c)' /\ MigratedBefore(c)'
  BY <1>1, <1>3, PromiseKept
<1>5. QED
  BY <1>1, <1>4 DEF ViewFits

(* The last statement of a call turns the file into what the call promises. *)
LEMMA CommitView ==
    ASSUME TypeOK, NEW c \in Conn, ViewFits(c), Allowed(c),
           pc[c] \notin {"closed", "idle"}, ~tx[c] => MigratedBefore(c),
           NEW db \in Database, Execute(c, db), db = Effect(c, disk),
           Goto(c, "commit")
    PROVE  ViewFits(c)'
<1>1. /\ pc'[c] = "commit" /\ call'[c] = call[c] /\ at'[c] = at[c]
      /\ disk' = disk /\ work'[c] = Effect(c, disk) /\ tx' = tx
  BY DEF Execute, Goto, client, TypeOK, StorageTypeOK
<1>2. /\ Allowed(c)' /\ work'[c] = Effect(c, disk)'
      /\ ~tx[c] => MigratedBefore(c)'
  BY <1>1, PromiseKept
<1>3. QED
  BY <1>1, <1>2 DEF ViewFits

LEMMA AfterWriteView ==
    ASSUME TypeOK, NEW c \in Conn, Fits(c), ViewFits(c),
           pc[c] = "execute", ~IsTransaction(c), ~tx[c] => Allowed(c),
           NEW db \in Database, Execute(c, db), ~tx[c] => db = Effect(c, disk),
           NEW id \in Nat, AfterWrite(c, id)
    PROVE  ViewFits(c)'
<1>1. tx' = tx
  BY DEF Execute
<1>2. CASE ~tx[c]
  <2>1. MigratedBefore(c)
    BY <1>2 DEF ViewFits
  <2>2. QED
    BY <1>2, <2>1, CommitView DEF AfterWrite
<1>3. CASE tx[c] /\ Op(c) = "migrate"
  BY <1>1, <1>3, NextStatementView DEF AfterWrite
<1>4. CASE tx[c] /\ Op(c) # "migrate"
  <2>1. pc'[c] = "idle"
    BY <1>4 DEF AfterWrite, Return, Finish, TypeOK
  <2>2. QED
    BY <2>1, IdleView
<1>5. QED
  BY <1>2, <1>3, <1>4

LEMMA WriteView ==
    ASSUME TypeOK, NEW c \in Conn, Fits(c), ViewFits(c),
           Create(c) \/ AddWorker(c) \/ Upsert(c) \/ StartRepair(c)
    PROVE  ViewFits(c)'
<1>0. work[c] \in Database /\ call[c] \in Request
  BY DEF TypeOK, StorageTypeOK
<1>1. pc[c] = "execute" /\ ~IsTransaction(c)
  BY DEF Create, AddWorker, Upsert, StartRepair, IsTransaction
<1>2. ~tx[c] => work[c] = disk /\ Prepared(c)
  BY <1>1 DEF ViewFits
<1>3. CASE Create(c)
  <2>1. at[c] \in 1..5
    BY <1>3 DEF Create, Fits, CallFits
  <2>2. CreateObject(work[c], SchemaObjects[at[c]]) \in Database
    BY <1>0, <2>1, SchemaObjectsType, CreateObjectType
  <2>3. /\ ~tx[c] => CreateObject(work[c], SchemaObjects[at[c]]) = Effect(c, disk)
        /\ Allowed(c)
    BY <1>2, <1>3 DEF Create, Effect, Allowed, Op
  <2>4. QED
    BY <1>1, <1>3, <2>2, <2>3, AfterWriteView DEF Create
<1>4. CASE AddWorker(c)
  <2>1. InsertWorker(work[c], call[c].max_jobs) \in Database
    BY <1>0, <1>4, RequestFields, InsertWorkerType DEF AddWorker, Op
  <2>2. Len(work[c].workers) + 1 \in Nat
    BY <1>0 DEF Database
  <2>3. ~tx[c] => /\ InsertWorker(work[c], call[c].max_jobs) = Effect(c, disk)
                  /\ Allowed(c)
    BY <1>2, <1>4, NeededTables DEF AddWorker, Effect, Allowed, Op
  <2>4. QED
    BY <1>1, <1>4, <2>1, <2>2, <2>3, AfterWriteView DEF AddWorker
<1>5. CASE Upsert(c)
  <2>1. UpsertDevice(work[c], call[c].address, call[c].row) \in Database
    BY <1>0, <1>5, RequestFields, UpsertDeviceType DEF Upsert, Op
  <2>2. ~tx[c] => /\ UpsertDevice(work[c], call[c].address, call[c].row)
                       = Effect(c, disk)
                  /\ Allowed(c)
    BY <1>2, <1>5, NeededTables DEF Upsert, Effect, Allowed, Op
  <2>3. QED
    BY <1>1, <1>5, <2>1, <2>2, AfterWriteView DEF Upsert
<1>6. CASE StartRepair(c)
  <2>1. StartJob(work[c], call[c].job, call[c].worker) \in Database
    BY <1>0, <1>6, RequestFields, StartJobType DEF StartRepair, Op
  <2>2. ~tx[c] => /\ StartJob(work[c], call[c].job, call[c].worker) = Effect(c, disk)
                  /\ Allowed(c)
    BY <1>2, <1>6, NeededTables
    DEF StartRepair, ViolatesForeignKey, Effect, Allowed, Op
  <2>3. QED
    BY <1>1, <1>6, <2>1, <2>2, AfterWriteView DEF StartRepair
<1>7. QED
  BY <1>3, <1>4, <1>5, <1>6

LEMMA BreakdownView ==
    ASSUME TypeOK, NEW c \in Conn, Fits(c), ViewFits(c),
           BreakdownDevice(c) \/ BreakdownJob(c)
    PROVE  ViewFits(c)'
<1>0. disk \in Database /\ work[c] \in Database
  BY DEF TypeOK, StorageTypeOK
<1>1. Op(c) = "breakdown" /\ tx[c] /\ IsTransaction(c)
  BY DEF BreakdownDevice, BreakdownJob, Fits, CallFits, IsTransaction
<1>2. call[c].address \in Address
  BY <1>1, RequestFields DEF TypeOK, Op
<1>3. CASE BreakdownDevice(c)
  <2>1. work[c] = disk /\ call[c] \in Requests
    BY <1>1, <1>3 DEF BreakdownDevice, ViewFits
  <2>2. /\ pc'[c] = "insert_job" /\ call'[c] = call[c] /\ disk' = disk
        /\ work'[c] = MarkFaulty(disk, call[c].address)
        /\ "devices" \in disk.schema
    BY <1>3, <2>1 DEF BreakdownDevice, Execute, Goto, client, TypeOK, StorageTypeOK
  <2>3. QED
    BY <2>1, <2>2 DEF ViewFits
<1>4. CASE BreakdownJob(c)
  <2>1. /\ work[c] = MarkFaulty(disk, call[c].address)
        /\ "devices" \in disk.schema
    BY <1>4 DEF BreakdownJob, ViewFits
  <2>2. work[c].schema = disk.schema /\ work[c].jobs = disk.jobs
    <3>1. /\ MarkFaulty(disk, call[c].address).schema = disk.schema
          /\ MarkFaulty(disk, call[c].address).jobs = disk.jobs
      BY <1>0, <1>2, MarkFaultyType
    <3>2. QED
      BY <2>1, <3>1
  <2>3. Allowed(c)
    BY <1>1, <1>4, <2>1, <2>2 DEF BreakdownJob, Allowed
  <2>4. InsertJob(work[c], call[c].address) \in Database
    BY <1>0, <1>2, InsertJobType
  <2>5. InsertJob(work[c], call[c].address) = Effect(c, disk)
    BY <1>1, <2>1 DEF Effect, Breakdown, Op
  <2>6. pc[c] = "insert_job"
    BY <1>4 DEF BreakdownJob
  <2>7. QED
    BY <1>1, <1>4, <2>3, <2>4, <2>5, <2>6, CommitView DEF BreakdownJob
<1>5. QED
  BY <1>3, <1>4

LEMMA FinishRepairView ==
    ASSUME TypeOK, NEW c \in Conn, Fits(c), ViewFits(c),
           FinishRepairSelect(c) \/ FinishRepairJob(c) \/ FinishRepairDevice(c)
    PROVE  ViewFits(c)'
<1>0. disk \in Database /\ work[c] \in Database
  BY DEF TypeOK, StorageTypeOK
<1>1. /\ Op(c) = "finish_repair" /\ tx[c] /\ IsTransaction(c)
      /\ JobExists(work[c], call[c].job)
  BY DEF FinishRepairSelect, FinishRepairJob, FinishRepairDevice, Fits, CallFits,
         IsTransaction
<1>2. CASE FinishRepairSelect(c)
  <2>1. work[c] = disk /\ call[c] \in Requests
    BY <1>1, <1>2 DEF FinishRepairSelect, ViewFits
  <2>2. /\ pc'[c] = "update_job" /\ call'[c] = call[c]
        /\ disk' = disk /\ work' = work /\ "jobs" \in disk.schema
    BY <1>2, <2>1 DEF FinishRepairSelect, Goto, client, storage, TypeOK
  <2>3. QED
    BY <2>1, <2>2 DEF ViewFits
<1>3. CASE FinishRepairJob(c)
  <2>1. work[c] = disk /\ call[c] \in Requests /\ "jobs" \in disk.schema
    BY <1>3 DEF FinishRepairJob, ViewFits
  <2>2. /\ pc'[c] = "update_device" /\ call'[c] = call[c] /\ disk' = disk
        /\ work'[c] = FinishJob(disk, call[c].job)
    BY <1>3, <2>1 DEF FinishRepairJob, Execute, Goto, client, TypeOK, StorageTypeOK
  <2>3. QED
    BY <1>1, <2>1, <2>2 DEF ViewFits
<1>4. CASE FinishRepairDevice(c)
  <2>1. /\ "jobs" \in disk.schema
        /\ call[c].job \in DOMAIN disk.jobs
        /\ work[c] = FinishJob(disk, call[c].job)
        /\ pc[c] = "update_device"
    BY <1>4 DEF FinishRepairDevice, ViewFits, JobExists
  <2>2. work[c].jobs[call[c].job].device = disk.jobs[call[c].job].device
    <3>1. disk.jobs[call[c].job] \in Job
      BY <1>0, <2>1, JobRowType
    <3>2. work[c].jobs[call[c].job] = FinishedJob(disk.jobs[call[c].job])
      BY <1>0, <2>1, FinishJobType
    <3>3. QED
      BY <3>1, <3>2 DEF FinishedJob, Job
  <2>3. Allowed(c)
    BY <1>1, <2>1 DEF Allowed, JobExists
  <2>4. MarkHealthy(work[c], work[c].jobs[call[c].job].device) = Effect(c, disk)
    BY <1>1, <2>1, <2>2 DEF Effect, FinishRepair, Op
  <2>5. work[c].jobs[call[c].job].device \in Address
    BY <1>0, <2>1, <2>2, JobRowType DEF Job
  <2>6. MarkHealthy(work[c], work[c].jobs[call[c].job].device) \in Database
    BY <1>0, <2>5, MarkHealthyType
  <2>7. QED
    BY <1>1, <1>4, <2>1, <2>3, <2>4, <2>6, CommitView DEF FinishRepairDevice
<1>5. QED
  BY <1>2, <1>3, <1>4

LEMMA CommittingView ==
    ASSUME TypeOK, NEW c \in Conn, ViewFits(c), Commit(c)
    PROVE  ViewFits(c)'
<1>1. /\ pc[c] = "commit" /\ pc'[c] = "publish"
      /\ call'[c] = call[c] /\ at'[c] = at[c]
      /\ disk' = disk /\ work' = work /\ tx' = tx
  BY DEF Commit, LockExclusive, Goto, client, TypeOK
<1>2. QED
  BY <1>1, PromiseKept DEF ViewFits

LEMMA PublishView ==
    ASSUME TypeOK, NEW c \in Conn, Fits(c), ViewFits(c), PublishCommit(c)
    PROVE  ViewFits(c)'
<1>1. /\ pc[c] = "publish" /\ disk' = Effect(c, disk) /\ disk \in Database
  BY DEF PublishCommit, Publish, ViewFits, TypeOK, StorageTypeOK
<1>2. CASE Op(c) = "migrate"
  <2>1. at[c] \in 1..5 /\ ~tx[c]
    BY <1>1, <1>2 DEF Fits, CallFits, IsTransaction
  <2>2. MigratedBefore(c)
    BY <1>1, <2>1 DEF ViewFits
  <2>3. disk' = CreateObject(disk, SchemaObjects[at[c]])
    BY <1>1, <1>2 DEF Effect, Op
  <2>4. disk'.schema = disk.schema \cup {SchemaObjects[at[c]]}
    BY <1>1, <2>1, <2>3, SchemaObjectsType, CreateObjectType
  <2>5. QED
    BY <1>1, <1>2, <2>2, <2>4, NextStatementView DEF PublishCommit
<1>3. CASE Op(c) # "migrate"
  <2>1. pc'[c] = "idle"
    BY <1>3 DEF PublishCommit, Return, Finish, TypeOK
  <2>2. QED
    BY <2>1, IdleView
<1>4. QED
  BY <1>2, <1>3

LEMMA StepView ==
    ASSUME TypeOK, NEW c \in Conn, Fits(c), ViewFits(c),
           \/ Open(c) \/ Close(c) \/ Crash(c)
           \/ \E r \in Requests : Invoke(c, r)
           \/ Step(c)
    PROVE  ViewFits(c)'
<1>1. CASE Open(c) \/ Close(c) \/ Crash(c) \/ \E r \in Requests : Invoke(c, r)
  BY <1>1, EndView, InvokeView
<1>2. CASE \/ NoSuchTable(c) \/ BeginInTransaction(c) \/ LockBusy(c)
           \/ SkipCreate(c) \/ Lock(c) \/ UseOpenTransaction(c)
           \/ ReserveBusy(c) \/ Reserve(c)
  BY <1>2, EndView, SkipCreateView, LockingView, UseOpenTransactionView, ReserveView
<1>3. CASE \/ Create(c) \/ AddWorker(c) \/ AddWorkerFull(c) \/ Upsert(c)
           \/ StartRepair(c) \/ StartRepairFails(c)
  BY <1>3, EndView, WriteView
<1>4. CASE \/ BreakdownNoDevices(c) \/ BreakdownDevice(c)
           \/ BreakdownJobFails(c) \/ BreakdownJob(c)
  BY <1>4, EndView, BreakdownView
<1>5. CASE \/ FinishRepairFails(c) \/ FinishRepairSelect(c)
           \/ FinishRepairJob(c) \/ FinishRepairDevice(c)
  BY <1>5, EndView, FinishRepairView
<1>6. CASE \/ Commit(c) \/ CommitBusy(c) \/ AutocommitBusy(c) \/ PublishCommit(c)
  BY <1>6, EndView, CommittingView, PublishView
<1>7. CASE \/ ListWorkers(c) \/ ListJobsRow(c) \/ ListJobsDone(c)
           \/ ListAddressesBusy(c) \/ ListAddresses(c)
           \/ SelectDevice(c) \/ SelectDeviceBusy(c) \/ FetchDevice(c)
           \/ ListDevicesDone(c)
  BY <1>7, EndView, ReadingView
<1>8. QED
  BY <1>1, <1>2, <1>3, <1>4, <1>5, <1>6, <1>7 DEF Step

-----------------------------------------------------------------------------
(* What a commit makes of the file.                                         *)

LEMMA PublishedCall ==
    ASSUME TypeOK, NEW c \in Conn, Fits(c), ViewFits(c), pc[c] = "publish"
    PROVE  /\ call[c] \in Requests /\ call[c] \in Request /\ ~IsRead(c)
           /\ Op(c) \in {"migrate", "add_worker", "upsert_device", "breakdown",
                         "start_repair", "finish_repair"}
           /\ Op(c) = "migrate" => at[c] \in 1..5 /\ MigratedBefore(c)
           /\ Allowed(c) /\ work[c] = Effect(c, disk)
           /\ disk \in Database /\ work[c] \in Database
           /\ lock[c] = "exclusive"
<1>1. call[c] \in Request /\ disk \in Database /\ work[c] \in Database
  BY DEF TypeOK, StorageTypeOK
<1>2. /\ ~IsRead(c) /\ lock[c] = "exclusive"
      /\ Op(c) = "migrate" => at[c] \in 1..5 /\ ~tx[c]
  BY DEF Fits, LockFits, CallFits, Writing, IsTransaction
<1>3. Op(c) \in {"migrate", "add_worker", "upsert_device", "breakdown",
                 "start_repair", "finish_repair"}
  BY <1>1, <1>2 DEF Request, Op, IsRead
<1>4. QED
  BY <1>1, <1>2, <1>3 DEF ViewFits

LEMMA CommitKeepsSchema ==
    ASSUME TypeOK, NEW c \in Conn, Fits(c), ViewFits(c), pc[c] = "publish"
    PROVE  /\ Op(c) = "migrate" =>
                work[c].schema = disk.schema \cup {SchemaObjects[at[c]]}
           /\ Op(c) # "migrate" => work[c].schema = disk.schema
<1>1. /\ call[c] \in Request /\ disk \in Database
      /\ Op(c) \in {"migrate", "add_worker", "upsert_device", "breakdown",
                    "start_repair", "finish_repair"}
      /\ Op(c) = "migrate" => at[c] \in 1..5
      /\ Allowed(c) /\ work[c] = Effect(c, disk)
  BY PublishedCall
<1>2. CASE Op(c) = "migrate"
  <2>1. work[c] = CreateObject(disk, SchemaObjects[at[c]])
    BY <1>1, <1>2 DEF Effect, Op
  <2>2. QED
    BY <1>1, <1>2, <2>1, SchemaObjectsType, CreateObjectType
<1>3. CASE Op(c) = "add_worker"
  <2>1. work[c] = InsertWorker(disk, call[c].max_jobs) /\ call[c].max_jobs \in Int
    BY <1>1, <1>3, RequestFields DEF Effect, Op
  <2>2. QED
    BY <1>1, <1>3, <2>1, InsertWorkerType
<1>4. CASE Op(c) = "upsert_device"
  <2>1. /\ work[c] = UpsertDevice(disk, call[c].address, call[c].row)
        /\ call[c].address \in Address /\ call[c].row \in StorableDevice
    BY <1>1, <1>4, RequestFields DEF Effect, Op
  <2>2. UpsertDevice(disk, call[c].address, call[c].row).schema = disk.schema
    BY <1>1, <2>1, UpsertDeviceType
  <2>3. QED
    BY <1>4, <2>1, <2>2
<1>5. CASE Op(c) = "breakdown"
  <2>1. work[c] = Breakdown(disk, call[c].address) /\ call[c].address \in Address
    BY <1>1, <1>5, RequestFields DEF Effect, Op
  <2>2. QED
    BY <1>1, <1>5, <2>1, BreakdownType
<1>6. CASE Op(c) = "start_repair"
  <2>1. /\ work[c] = StartJob(disk, call[c].job, call[c].worker)
        /\ call[c].job \in Int /\ call[c].worker \in Int
    BY <1>1, <1>6, RequestFields DEF Effect, Op
  <2>2. QED
    BY <1>1, <1>6, <2>1, StartJobType
<1>7. CASE Op(c) = "finish_repair"
  <2>1. /\ work[c] = FinishRepair(disk, call[c].job)
        /\ call[c].job \in DOMAIN disk.jobs
    BY <1>1, <1>7 DEF Effect, Op, Allowed, JobExists
  <2>2. FinishRepair(disk, call[c].job).schema = disk.schema
    BY <1>1, <2>1, FinishRepairType
  <2>3. QED
    BY <1>7, <2>1, <2>2
<1>8. QED
  BY <1>1, <1>2, <1>3, <1>4, <1>5, <1>6, <1>7

-----------------------------------------------------------------------------
(* The inductive invariant.                                                 *)

ViewInv == LockInv /\ (\A c \in Conn : ViewFits(c)) /\ MigrationIsPrefix

(* The file as other connections see it: nobody else has a lock while it    *)
(* changes, and its schema only grows.                                      *)
LEMMA OthersView ==
    ASSUME ViewInv, NEW c \in Conn, Good(c), NEW d \in Conn \ {c}
    PROVE  ViewFits(d)'
<1>0. /\ pc'[d] = pc[d] /\ call'[d] = call[d] /\ at'[d] = at[d]
      /\ lock'[d] = lock[d] /\ work'[d] = work[d] /\ tx'[d] = tx[d]
      /\ ViewFits(d)
  BY DEF Good, OthersKeep, OthersWait, ViewInv
<1>1. CASE disk' = disk
  <2>1. /\ Effect(d, disk)' = Effect(d, disk)
        /\ Allowed(d)' <=> Allowed(d)
        /\ Prepared(d)' <=> Prepared(d)
        /\ MigratedBefore(d)' <=> MigratedBefore(d)
    BY <1>0, <1>1, PromiseKept
  <2>2. QED
    BY <1>0, <1>1, <2>1 DEF ViewFits, IsTransaction, Op, JobExists
<1>2. CASE pc[c] = "publish" /\ disk' = work[c]
  <2>1. /\ TypeOK /\ Fits(c) /\ Fits(d) /\ LocksCompatible /\ ViewFits(c)
    BY DEF ViewInv, LockInv
  <2>2. lock[d] = "unlocked"
    BY <1>2, <2>1, PublishedCall DEF LocksCompatible
  <2>3. ~tx[d] /\ pc[d] \notin Writing \cup {"reserve"}
    BY <2>1, <2>2 DEF Fits, LockFits, IsWriter, WriteLock, Writing
  <2>4. disk.schema \subseteq disk'.schema
    BY <1>2, <2>1, CommitKeepsSchema
  <2>5. MigratedBefore(d) => MigratedBefore(d)'
    BY <1>0, <2>4 DEF MigratedBefore, Op
  <2>6. QED
    BY <1>0, <2>3, <2>5 DEF ViewFits, Writing
<1>3. QED
  BY <1>1, <1>2 DEF Good

LEMMA PrefixStep ==
    ASSUME ViewInv, NEW c \in Conn, Good(c)
    PROVE  MigrationIsPrefix'
<1>0. /\ TypeOK /\ Fits(c) /\ ViewFits(c) /\ MigrationIsPrefix
      /\ Len(SchemaObjects) = 5
  BY SchemaObjectsType DEF ViewInv, LockInv
<1>1. CASE disk' = disk
  BY <1>0, <1>1 DEF MigrationIsPrefix
<1>2. CASE pc[c] = "publish" /\ disk' = work[c] /\ Op(c) # "migrate"
  <2>1. disk'.schema = disk.schema
    BY <1>0, <1>2, CommitKeepsSchema
  <2>2. QED
    BY <1>0, <2>1 DEF MigrationIsPrefix
<1>3. CASE pc[c] = "publish" /\ disk' = work[c] /\ Op(c) = "migrate"
  <2>1. /\ disk'.schema = disk.schema \cup {SchemaObjects[at[c]]}
        /\ at[c] \in 1..5 /\ MigratedBefore(c)
    BY <1>0, <1>3, CommitKeepsSchema, PublishedCall
  <2>2. \A k \in 1..5 : SchemaObjects[k] = SchemaObjects[at[c]] => k = at[c]
    BY <2>1 DEF SchemaObjects
  <2>3. ASSUME NEW k \in 1..5, SchemaObjects[k] \in disk'.schema, NEW i \in 1..k
        PROVE  SchemaObjects[i] \in disk'.schema
    <3>1. CASE SchemaObjects[k] \in disk.schema
      BY <1>0, <2>1, <3>1 DEF MigrationIsPrefix
    <3>2. CASE k = at[c]
      BY <1>3, <2>1, <3>2 DEF MigratedBefore
    <3>3. QED
      BY <2>1, <2>2, <2>3, <3>1, <3>2
  <2>4. QED
    BY <1>0, <2>3 DEF MigrationIsPrefix
<1>4. QED
  BY <1>1, <1>2, <1>3 DEF Good

LEMMA ViewInvInductive == Spec => []ViewInv
<1>1. Init => (\A c \in Conn : ViewFits(c)) /\ MigrationIsPrefix
  <2> SUFFICES ASSUME Init
               PROVE  (\A c \in Conn : ViewFits(c)) /\ MigrationIsPrefix
    OBVIOUS
  <2>1. \A c \in Conn : ViewFits(c)
    BY DEF Init, ViewFits
  <2>2. disk.schema = {} \/ disk.schema = SchemaObject
    BY DEF Init, StorageInit, EmptyDatabase, MigratedDatabase
  <2>3. MigrationIsPrefix
    BY <2>2, SchemaObjectsType DEF MigrationIsPrefix
  <2>4. QED
    BY <2>1, <2>3
<1>2. LockInv /\ LockInv' /\ ((\A c \in Conn : ViewFits(c)) /\ MigrationIsPrefix)
        /\ [Next]_vars
      => ((\A c \in Conn : ViewFits(c)) /\ MigrationIsPrefix)'
  <2> SUFFICES ASSUME ViewInv, [Next]_vars
               PROVE  /\ \A c \in Conn : ViewFits(c)'
                      /\ MigrationIsPrefix'
    BY DEF ViewInv
  <2>1. CASE Next
    <3>1. PICK c \in Conn : \/ Open(c) \/ Close(c) \/ Crash(c)
                            \/ \E r \in Requests : Invoke(c, r)
                            \/ Step(c)
      BY <2>1 DEF Next
    <3>2. TypeOK /\ Fits(c) /\ ViewFits(c)
      BY DEF ViewInv, LockInv
    <3>3. Good(c) /\ ViewFits(c)'
      BY <3>1, <3>2, StepIsGood, StepView
    <3>4. \A d \in Conn \ {c} : ViewFits(d)'
      BY <3>3, OthersView
    <3>5. QED
      BY <3>3, <3>4, PrefixStep
  <2>2. CASE UNCHANGED vars
    <3>1. /\ pc' = pc /\ call' = call /\ at' = at
          /\ disk' = disk /\ work' = work /\ tx' = tx
      BY <2>2 DEF vars, storage, client
    <3>2. MigrationIsPrefix'
      BY <3>1 DEF ViewInv, MigrationIsPrefix
    <3>3. ASSUME NEW c \in Conn
          PROVE  ViewFits(c)'
      <4>1. /\ Effect(c, disk)' = Effect(c, disk)
            /\ Allowed(c)' <=> Allowed(c)
            /\ Prepared(c)' <=> Prepared(c)
            /\ MigratedBefore(c)' <=> MigratedBefore(c)
        BY <3>1, PromiseKept
      <4>2. QED
        BY <3>1, <4>1 DEF ViewInv, ViewFits, IsTransaction, Op, JobExists
    <3>4. QED
      BY <3>2, <3>3
  <2>3. QED
    BY <2>1, <2>2
<1>3. QED
  BY <1>1, <1>2, LockInvInductive, PTL DEF Spec, ViewInv

-----------------------------------------------------------------------------
(* Theorems.                                                                *)

(* The file changes only when a call commits, and then by exactly what the  *)
(* call promises: nobody commits between a writer's copy of the file and    *)
(* its own commit, since the writer's RESERVED lock refuses all others.     *)
THEOREM CommitsAtomic == Spec => CommitsAreAtomic
<1> DEFINE Atomic == disk' # disk =>
                       \E c \in Conn : pc[c] = "publish" /\ disk' = Effect(c, disk)
<1>1. ViewInv /\ [Next]_vars => [Atomic]_vars
  <2> SUFFICES ASSUME ViewInv, Next
               PROVE  Atomic
    OBVIOUS
  <2>1. PICK c \in Conn : \/ Open(c) \/ Close(c) \/ Crash(c)
                          \/ \E r \in Requests : Invoke(c, r)
                          \/ Step(c)
    BY DEF Next
  <2>2. TypeOK /\ Fits(c) /\ ViewFits(c)
    BY DEF ViewInv, LockInv
  <2>3. Good(c)
    BY <2>1, <2>2, StepIsGood
  <2>4. pc[c] = "publish" => work[c] = Effect(c, disk)
    BY <2>2 DEF ViewFits
  <2>5. QED
    BY <2>3, <2>4 DEF Good
<1>2. QED
  BY <1>1, ViewInvInductive, PTL DEF Spec, CommitsAreAtomic

(* The tables are created in order, whoever runs migrate: a statement runs  *)
(* only when the file has what the earlier ones create, and nothing drops   *)
(* them.                                                                    *)
THEOREM MigrationInOrder == Spec => []MigrationIsPrefix
BY ViewInvInductive, PTL DEF ViewInv

(* Ledger's own copies of the operators of EsmData.                         *)
LEMMA SameData ==
    /\ Ledger!EmptyDatabase = EmptyDatabase
    /\ Ledger!MigratedDatabase = MigratedDatabase
    /\ Ledger!SchemaObjects = SchemaObjects
    /\ \A d, o : Ledger!CreateObject(d, o) = CreateObject(d, o)
    /\ \A d, m : Ledger!InsertWorker(d, m) = InsertWorker(d, m)
    /\ \A d, a, row : Ledger!UpsertDevice(d, a, row) = UpsertDevice(d, a, row)
    /\ \A d, j : Ledger!IsStartable(d, j) <=> IsStartable(d, j)
    /\ \A d, w : Ledger!WorkerExists(d, w) <=> WorkerExists(d, w)
    /\ \A d, j : Ledger!JobExists(d, j) <=> JobExists(d, j)
<1>1. Ledger!EmptyDatabase = EmptyDatabase
  BY DEF Ledger!EmptyDatabase, EmptyDatabase
<1>2. Ledger!MigratedDatabase = MigratedDatabase
  BY <1>1 DEF Ledger!MigratedDatabase, MigratedDatabase, Ledger!SchemaObject,
              SchemaObject
<1>3. Ledger!SchemaObjects = SchemaObjects
  BY DEF Ledger!SchemaObjects, SchemaObjects
<1>4. \A d, o : Ledger!CreateObject(d, o) = CreateObject(d, o)
  BY DEF Ledger!CreateObject, CreateObject
<1>5. \A d, m : Ledger!InsertWorker(d, m) = InsertWorker(d, m)
  BY DEF Ledger!InsertWorker, InsertWorker
<1>6. \A d, a, row : Ledger!UpsertDevice(d, a, row) = UpsertDevice(d, a, row)
  BY DEF Ledger!UpsertDevice, UpsertDevice
<1>7. \A d, j : Ledger!JobExists(d, j) <=> JobExists(d, j)
  BY DEF Ledger!JobExists, JobExists
<1>8. \A d, j : Ledger!IsStartable(d, j) <=> IsStartable(d, j)
  BY <1>7 DEF Ledger!IsStartable, IsStartable
<1>9. \A d, w : Ledger!WorkerExists(d, w) <=> WorkerExists(d, w)
  BY DEF Ledger!WorkerExists, WorkerExists
<1>10. QED
  BY <1>1, <1>2, <1>3, <1>4, <1>5, <1>6, <1>7, <1>8, <1>9

LEMMA SameEffects ==
    /\ \A d, a : Ledger!Breakdown(d, a) = Breakdown(d, a)
    /\ \A d, j, w : Ledger!StartJob(d, j, w) = StartJob(d, j, w)
    /\ \A d, j : Ledger!FinishRepair(d, j) = FinishRepair(d, j)
<1>1. \A row : Ledger!FaultyRow(row) = FaultyRow(row)
  BY DEF Ledger!FaultyRow, FaultyRow
<1>2. \A d, a : Ledger!MarkFaulty(d, a) = MarkFaulty(d, a)
  BY <1>1 DEF Ledger!MarkFaulty, MarkFaulty
<1>3. \A d, a : Ledger!InsertJob(d, a) = InsertJob(d, a)
  BY DEF Ledger!InsertJob, InsertJob, Ledger!NewJob, NewJob
<1>4. \A job, w : Ledger!StartedJob(job, w) = StartedJob(job, w)
  BY DEF Ledger!StartedJob, StartedJob
<1>5. \A d, j, w : Ledger!StartJob(d, j, w) = StartJob(d, j, w)
  BY <1>4, SameData DEF Ledger!StartJob, StartJob
<1>6. \A job : Ledger!FinishedJob(job) = FinishedJob(job)
  BY DEF Ledger!FinishedJob, FinishedJob
<1>7. \A d, j : Ledger!FinishJob(d, j) = FinishJob(d, j)
  BY <1>6 DEF Ledger!FinishJob, FinishJob
<1>8. \A row : Ledger!HealthyRow(row) = HealthyRow(row)
  BY DEF Ledger!HealthyRow, HealthyRow
<1>9. \A d, a : Ledger!MarkHealthy(d, a) = MarkHealthy(d, a)
  BY <1>8 DEF Ledger!MarkHealthy, MarkHealthy
<1>10. \A d, a : Ledger!Breakdown(d, a) = Breakdown(d, a)
  BY <1>2, <1>3 DEF Ledger!Breakdown, Breakdown
<1>11. \A d, j : Ledger!FinishRepair(d, j) = FinishRepair(d, j)
  BY <1>7, <1>9 DEF Ledger!FinishRepair, FinishRepair
<1>12. QED
  BY <1>5, <1>10, <1>11

(* A commit is one step of the ledger, or changes nothing: a CREATE that    *)
(* another process did first, an UPDATE of start_repair that matches no row.*)
LEMMA CommitIsLedgerStep ==
    ASSUME TypeOK, NEW c \in Conn, Fits(c), ViewFits(c), pc[c] = "publish",
           disk' = work[c]
    PROVE  [Ledger!Next]_disk
<1>1. /\ call[c] \in Requests /\ call[c] \in Request /\ disk \in Database
      /\ Op(c) \in {"migrate", "add_worker", "upsert_device", "breakdown",
                    "start_repair", "finish_repair"}
      /\ Op(c) = "migrate" => at[c] \in 1..5 /\ MigratedBefore(c)
      /\ Allowed(c) /\ disk' = Effect(c, disk)
  BY PublishedCall
<1>2. CASE Op(c) = "migrate"
  <2>1. /\ disk' = CreateObject(disk, SchemaObjects[at[c]])
        /\ at[c] \in 1..5 /\ MigratedBefore(c)
    BY <1>1, <1>2 DEF Effect, Op
  <2>2. CASE SchemaObjects[at[c]] \in disk.schema
    <3>1. disk' = [disk EXCEPT !.schema = disk.schema]
      <4>1. disk.schema \cup {SchemaObjects[at[c]]} = disk.schema
        BY <2>2
      <4>2. QED
        BY <2>1, <4>1 DEF CreateObject
    <3>2. disk' = disk
      BY <1>1, <3>1 DEF Database
    <3>3. QED
      BY <3>2
  <2>3. CASE SchemaObjects[at[c]] \notin disk.schema
    <3>1. \A i \in 1..(at[c] - 1) : SchemaObjects[i] \in disk.schema
      BY <1>2, <2>1 DEF MigratedBefore
    <3>2. Ledger!Create(at[c])
      BY <2>1, <2>3, <3>1, SameData DEF Ledger!Create
    <3>3. at[c] \in 1..Len(Ledger!SchemaObjects)
      BY <2>1, SameData, SchemaObjectsType
    <3>4. QED
      BY <3>2, <3>3 DEF Ledger!Next
  <2>4. QED
    BY <2>2, <2>3
<1>3. CASE Op(c) = "add_worker"
  <2>1. /\ disk' = InsertWorker(disk, call[c].max_jobs)
        /\ "workers" \in disk.schema /\ Len(disk.workers) < MaxRowId
    BY <1>1, <1>3 DEF Effect, Op, Allowed
  <2>2. call[c].max_jobs \in {r.max_jobs : r \in {q \in Requests : q.op = "add_worker"}}
    BY <1>1, <1>3 DEF Op
  <2>3. QED
    BY <2>1, <2>2, SameData DEF Ledger!Next, Ledger!AddWorker
<1>4. CASE Op(c) = "upsert_device"
  <2>1. /\ disk' = UpsertDevice(disk, call[c].address, call[c].row)
        /\ "devices" \in disk.schema
        /\ call[c].address \in Address
    BY <1>1, <1>4, RequestFields DEF Effect, Op, Allowed
  <2>2. call[c].row \in {r.row : r \in {q \in Requests : q.op = "upsert_device"}}
    BY <1>1, <1>4 DEF Op
  <2>3. Ledger!Upsert(call[c].address, call[c].row)
    BY <2>1, SameData DEF Ledger!Upsert
  <2>4. QED
    BY <2>1, <2>2, <2>3 DEF Ledger!Next
<1>5. CASE Op(c) = "breakdown"
  <2>1. /\ disk' = Breakdown(disk, call[c].address)
        /\ {"devices", "jobs"} \subseteq disk.schema /\ Len(disk.jobs) < MaxRowId
        /\ call[c].address \in Address
    BY <1>1, <1>5, RequestFields DEF Effect, Op, Allowed
  <2>2. Ledger!ReportBreakdown(call[c].address)
    BY <2>1, SameEffects DEF Ledger!ReportBreakdown
  <2>3. QED
    BY <2>1, <2>2 DEF Ledger!Next
<1>6. CASE Op(c) = "start_repair"
  <2>1. /\ disk' = StartJob(disk, call[c].job, call[c].worker)
        /\ "jobs" \in disk.schema
        /\ IsStartable(disk, call[c].job) => WorkerExists(disk, call[c].worker)
    BY <1>1, <1>6 DEF Effect, Op, Allowed
  <2>2. CASE ~IsStartable(disk, call[c].job)
    BY <2>1, <2>2 DEF StartJob
  <2>3. CASE IsStartable(disk, call[c].job)
    <3>1. call[c].job \in DOMAIN disk.jobs /\ call[c].worker \in DOMAIN disk.workers
      BY <2>1, <2>3 DEF IsStartable, JobExists, WorkerExists
    <3>2. Ledger!Start(call[c].job, call[c].worker)
      BY <2>1, <2>3, SameData, SameEffects DEF Ledger!Start
    <3>3. QED
      BY <3>1, <3>2 DEF Ledger!Next
  <2>4. QED
    BY <2>2, <2>3
<1>7. CASE Op(c) = "finish_repair"
  <2>1. /\ disk' = FinishRepair(disk, call[c].job)
        /\ "jobs" \in disk.schema
        /\ call[c].job \in DOMAIN disk.jobs
    BY <1>1, <1>7 DEF Effect, Op, Allowed, JobExists
  <2>2. Ledger!Finish(call[c].job)
    BY <2>1, SameData, SameEffects DEF Ledger!Finish, JobExists
  <2>3. QED
    BY <2>1, <2>2 DEF Ledger!Next
<1>8. QED
  BY <1>1, <1>2, <1>3, <1>4, <1>5, <1>6, <1>7

(* The interleaved statements of all processes, their refused locks, their  *)
(* rollbacks and crashes, change the file as RepairLedger's operations do.  *)
THEOREM LedgerImplemented == Spec => ImplementsLedger
<1>1. Init => Ledger!Init
  BY SameData DEF Init, StorageInit, Ledger!Init
<1>2. ViewInv /\ [Next]_vars => [Ledger!Next]_disk
  <2> SUFFICES ASSUME ViewInv, [Next]_vars
               PROVE  [Ledger!Next]_disk
    OBVIOUS
  <2>1. CASE Next
    <3>1. PICK c \in Conn : \/ Open(c) \/ Close(c) \/ Crash(c)
                            \/ \E r \in Requests : Invoke(c, r)
                            \/ Step(c)
      BY <2>1 DEF Next
    <3>2. TypeOK /\ Fits(c) /\ ViewFits(c)
      BY DEF ViewInv, LockInv
    <3>3. disk' = disk \/ (pc[c] = "publish" /\ disk' = work[c])
      BY <3>1, <3>2, StepIsGood DEF Good
    <3>4. CASE disk' = disk
      BY <3>4
    <3>5. CASE pc[c] = "publish" /\ disk' = work[c]
      BY <3>2, <3>5, CommitIsLedgerStep
    <3>6. QED
      BY <3>3, <3>4, <3>5
  <2>2. CASE UNCHANGED vars
    BY <2>2 DEF vars, storage
  <2>3. QED
    BY <2>1, <2>2
<1>3. QED
  BY <1>1, <1>2, ViewInvInductive, PTL DEF Spec, ImplementsLedger, Ledger!Spec

-----------------------------------------------------------------------------
(* What clients were told.                                                  *)

(* A call has no answer before it has ended.                                *)
Unanswered(c) == pc[c] \notin {"closed", "idle"} => ~ret[c].ok

(* What a step does to the answers: it takes the last one away or throws,   *)
(* it opens or closes the connection, it returns from a call that is not a  *)
(* transaction, or it returns from a commit.                                *)
AnswerMoves(c) ==
    /\ \A d \in Conn \ {c} : ret'[d] = ret[d]
    /\ \/ ~ret'[c].ok
       \/ /\ pc[c] \in {"closed", "idle"} /\ pc'[c] \in {"closed", "idle"}
          /\ ret'[c] = ret[c] /\ call'[c] = call[c]
       \/ /\ pc'[c] = "idle" /\ call'[c] = call[c]
          /\ ~IsTransaction(c)
       \/ /\ pc'[c] = "idle" /\ call'[c] = call[c]
          /\ pc[c] = "publish" /\ disk' = work[c]
          /\ ret'[c].id = InsertedId(c)

LEMMA RaiseAnswer ==
    ASSUME TypeOK, NEW c \in Conn, NEW why, Raise(c, why)
    PROVE  AnswerMoves(c)
BY DEF Raise, Finish, AnswerMoves, TypeOK

LEMMA ReturnAnswer ==
    ASSUME TypeOK, NEW c \in Conn, NEW id, Return(c, id)
    PROVE  /\ \A d \in Conn \ {c} : ret'[d] = ret[d]
           /\ pc'[c] = "idle" /\ call'[c] = call[c] /\ ret'[c].id = id
           /\ ~IsTransaction(c) => AnswerMoves(c)
BY DEF Return, Finish, AnswerMoves, TypeOK

LEMMA SilentAnswer ==
    ASSUME TypeOK, NEW c \in Conn, Unanswered(c), pc[c] \notin {"closed", "idle"},
           ret' = ret
    PROVE  AnswerMoves(c)
BY DEF Unanswered, AnswerMoves

LEMMA NextStatementAnswer ==
    ASSUME TypeOK, NEW c \in Conn, Unanswered(c), pc[c] \notin {"closed", "idle"},
           Op(c) = "migrate", NextStatement(c)
    PROVE  AnswerMoves(c)
<1>1. ~IsTransaction(c)
  BY DEF IsTransaction
<1>2. CASE at[c] = Len(SchemaObjects)
  BY <1>1, <1>2, ReturnAnswer DEF NextStatement
<1>3. CASE at[c] # Len(SchemaObjects)
  BY <1>3, SilentAnswer DEF NextStatement
<1>4. QED
  BY <1>2, <1>3

LEMMA StepAnswer ==
    ASSUME TypeOK, NEW c \in Conn, Fits(c), Unanswered(c),
           \/ Open(c) \/ Close(c) \/ Crash(c)
           \/ \E r \in Requests : Invoke(c, r)
           \/ Step(c)
    PROVE  AnswerMoves(c)
<1>1. CASE Open(c) \/ Close(c)
  BY <1>1 DEF Open, Close, Goto, client, AnswerMoves, TypeOK
<1>2. CASE \E r \in Requests : Invoke(c, r)
  <2>1. ret' = [ret EXCEPT ![c] = NoAnswer]
    BY <1>2 DEF Invoke
  <2>2. QED
    BY <2>1 DEF NoAnswer, AnswerMoves, TypeOK
<1>3. CASE \/ NoSuchTable(c) \/ BeginInTransaction(c) \/ LockBusy(c)
           \/ ReserveBusy(c) \/ AddWorkerFull(c) \/ StartRepairFails(c)
           \/ BreakdownNoDevices(c) \/ BreakdownJobFails(c) \/ FinishRepairFails(c)
           \/ CommitBusy(c) \/ AutocommitBusy(c) \/ SelectDeviceBusy(c)
  <2>1. \E why \in Reason : Raise(c, why)
    BY <1>3 DEF NoSuchTable, BeginInTransaction, LockBusy, ReserveBusy, AddWorkerFull,
         StartRepairFails, BreakdownNoDevices, BreakdownJobFails, FinishRepairFails,
         CommitBusy, AutocommitBusy, SelectDeviceBusy, Reason
  <2>2. QED
    BY <2>1, RaiseAnswer
<1>4. CASE \/ Crash(c) \/ Lock(c) \/ UseOpenTransaction(c) \/ Reserve(c)
           \/ BreakdownDevice(c) \/ BreakdownJob(c) \/ FinishRepairSelect(c)
           \/ FinishRepairJob(c) \/ FinishRepairDevice(c) \/ Commit(c)
           \/ ListJobsRow(c) \/ ListAddresses(c) \/ SelectDevice(c) \/ FetchDevice(c)
  <2>1. pc[c] \notin {"closed", "idle"} /\ ret' = ret
    BY <1>4 DEF Crash, Lock, UseOpenTransaction, Reserve, BreakdownDevice,
         BreakdownJob, FinishRepairSelect, FinishRepairJob, FinishRepairDevice, Commit,
         ListJobsRow, ListAddresses, SelectDevice, FetchDevice, Goto, client
  <2>2. QED
    BY <2>1, SilentAnswer
<1>5. CASE \/ ListWorkers(c) \/ ListJobsDone(c) \/ ListAddressesBusy(c)
           \/ ListDevicesDone(c)
  <2>1. Return(c, 0)
    BY <1>5 DEF ListWorkers, ListJobsDone, ListAddressesBusy, ListDevicesDone
  <2>2. CASE IsRead(c)
    BY <2>1, <2>2, ReturnAnswer DEF IsRead, IsTransaction
  <2>3. IsRead(c)
    BY <1>5 DEF ListWorkers, ListJobsDone, ListAddressesBusy, ListDevicesDone,
         IsRead, Fits, CallFits
  <2>4. QED
    BY <2>2, <2>3
<1>6. CASE SkipCreate(c)
  BY <1>6, NextStatementAnswer DEF SkipCreate, ObjectExists
<1>7. CASE Create(c) \/ AddWorker(c) \/ Upsert(c) \/ StartRepair(c)
  <2>1. /\ pc[c] = "execute" /\ ~IsTransaction(c)
        /\ \E id : AfterWrite(c, id)
    BY <1>7 DEF Create, AddWorker, Upsert, StartRepair, IsTransaction
  <2>2. PICK id : AfterWrite(c, id)
    BY <2>1
  <2>3. CASE ~tx[c]
    BY <2>1, <2>2, <2>3, SilentAnswer DEF AfterWrite, Goto, client
  <2>4. CASE tx[c] /\ Op(c) = "migrate"
    BY <2>1, <2>2, <2>4, NextStatementAnswer DEF AfterWrite
  <2>5. CASE tx[c] /\ Op(c) # "migrate"
    BY <2>1, <2>2, <2>5, ReturnAnswer DEF AfterWrite
  <2>6. QED
    BY <2>3, <2>4, <2>5
<1>8. CASE PublishCommit(c)
  <2>1. pc[c] = "publish" /\ disk' = work[c]
    BY <1>8 DEF PublishCommit, Publish
  <2>2. CASE Op(c) = "migrate"
    BY <1>8, <2>1, <2>2, NextStatementAnswer DEF PublishCommit
  <2>3. CASE Op(c) # "migrate"
    <3>1. Return(c, InsertedId(c))
      BY <1>8, <2>3 DEF PublishCommit
    <3>2. QED
      BY <2>1, <3>1, ReturnAnswer DEF AnswerMoves
  <2>4. QED
    BY <2>2, <2>3
<1>9. QED
  BY <1>1, <1>2, <1>3, <1>4, <1>5, <1>6, <1>7, <1>8 DEF Step

(* A commit keeps the jobs there are, and makes the one it answers with.    *)
JobsKept(old, new) ==
    \A j \in DOMAIN old.jobs :
        /\ j \in DOMAIN new.jobs
        /\ new.jobs[j].device = old.jobs[j].device
        /\ old.jobs[j].status = "Done" => new.jobs[j].status = "Done"

LEMMA CommitKeepsJobs ==
    ASSUME TypeOK, NEW c \in Conn, Fits(c), ViewFits(c), pc[c] = "publish"
    PROVE  /\ JobsKept(disk, work[c])
           /\ Op(c) = "breakdown" =>
                /\ InsertedId(c) \notin DOMAIN disk.jobs
                /\ InsertedId(c) \in DOMAIN work[c].jobs
                /\ work[c].jobs[InsertedId(c)].device = call[c].address
           /\ Op(c) = "finish_repair" =>
                /\ call[c].job \in DOMAIN work[c].jobs
                /\ work[c].jobs[call[c].job].status = "Done"
<1>1. /\ call[c] \in Request /\ disk \in Database
      /\ Op(c) \in {"migrate", "add_worker", "upsert_device", "breakdown",
                    "start_repair", "finish_repair"}
      /\ Op(c) = "migrate" => at[c] \in 1..5
      /\ Allowed(c) /\ work[c] = Effect(c, disk)
  BY PublishedCall
<1>0. \A j \in DOMAIN disk.jobs : disk.jobs[j] \in Job
  BY <1>1, JobRowType
<1>2. CASE Op(c) \in {"migrate", "add_worker", "upsert_device"}
  <2>1. work[c].jobs = disk.jobs
    <3>1. CASE Op(c) = "migrate"
      BY <1>1, <3>1, SchemaObjectsType, CreateObjectType DEF Effect, Op
    <3>2. CASE Op(c) = "add_worker"
      BY <1>1, <3>2, RequestFields, InsertWorkerType DEF Effect, Op
    <3>3. CASE Op(c) = "upsert_device"
      <4>1. /\ work[c] = UpsertDevice(disk, call[c].address, call[c].row)
            /\ call[c].address \in Address /\ call[c].row \in StorableDevice
        BY <1>1, <3>3, RequestFields DEF Effect, Op
      <4>2. UpsertDevice(disk, call[c].address, call[c].row).jobs = disk.jobs
        BY <1>1, <4>1, UpsertDeviceType
      <4>3. QED
        BY <4>1, <4>2
    <3>4. QED
      BY <1>2, <3>1, <3>2, <3>3
  <2>2. QED
    BY <1>2, <2>1 DEF JobsKept
<1>3. CASE Op(c) = "breakdown"
  <2>1. /\ work[c] = Breakdown(disk, call[c].address)
        /\ call[c].address \in Address
    BY <1>1, <1>3, RequestFields DEF Effect, Op
  <2> DEFINE new == Breakdown(disk, call[c].address)
             id == Len(disk.jobs) + 1
  <2>2. /\ Len(new.jobs) = id
        /\ DOMAIN new.jobs = DOMAIN disk.jobs \cup {id}
        /\ \A j \in DOMAIN disk.jobs : new.jobs[j] = disk.jobs[j]
        /\ new.jobs[id] = NewJob(call[c].address)
    BY <1>1, <2>1, BreakdownType
  <2>3. InsertedId(c) = id
    BY <1>3, <2>1, <2>2 DEF InsertedId
  <2>4. id \notin DOMAIN disk.jobs
    BY <1>1 DEF Database
  <2>5. JobsKept(disk, new)
    BY <2>2 DEF JobsKept
  <2>6. new.jobs[id].device = call[c].address
    BY <2>2 DEF NewJob
  <2>7. QED
    BY <1>3, <2>1, <2>2, <2>3, <2>4, <2>5, <2>6
<1>4. CASE Op(c) = "start_repair"
  <2>1. /\ work[c] = StartJob(disk, call[c].job, call[c].worker)
        /\ call[c].job \in Int /\ call[c].worker \in Int
    BY <1>1, <1>4, RequestFields DEF Effect, Op
  <2> DEFINE new == StartJob(disk, call[c].job, call[c].worker)
  <2>2. /\ DOMAIN new.jobs = DOMAIN disk.jobs
        /\ \A i \in DOMAIN disk.jobs :
             new.jobs[i] = IF i = call[c].job /\ IsStartable(disk, call[c].job)
                           THEN StartedJob(disk.jobs[i], call[c].worker)
                           ELSE disk.jobs[i]
    BY <1>1, <2>1, StartJobType
  <2>3. ASSUME NEW j \in DOMAIN disk.jobs
        PROVE  /\ new.jobs[j].device = disk.jobs[j].device
               /\ disk.jobs[j].status = "Done" => new.jobs[j] = disk.jobs[j]
    BY <1>0, <2>2 DEF StartedJob, IsStartable, Job
  <2>4. JobsKept(disk, new)
    BY <2>2, <2>3 DEF JobsKept
  <2>5. QED
    BY <1>4, <2>1, <2>4
<1>5. CASE Op(c) = "finish_repair"
  <2>1. /\ work[c] = FinishRepair(disk, call[c].job)
        /\ call[c].job \in DOMAIN disk.jobs
    BY <1>1, <1>5 DEF Effect, Op, Allowed, JobExists
  <2> DEFINE new == FinishRepair(disk, call[c].job)
  <2>2. /\ DOMAIN new.jobs = DOMAIN disk.jobs
        /\ \A i \in DOMAIN disk.jobs :
             new.jobs[i] = IF i = call[c].job
                           THEN FinishedJob(disk.jobs[call[c].job]) ELSE disk.jobs[i]
    BY <1>1, <2>1, FinishRepairType
  <2>3. ASSUME NEW j \in DOMAIN disk.jobs
        PROVE  /\ new.jobs[j].device = disk.jobs[j].device
               /\ disk.jobs[j].status = "Done" \/ j = call[c].job
                    => new.jobs[j].status = "Done"
    <3>1. /\ FinishedJob(disk.jobs[j]).device = disk.jobs[j].device
          /\ FinishedJob(disk.jobs[j]).status = "Done"
      BY <1>0 DEF FinishedJob, Job
    <3>2. CASE j = call[c].job
      BY <2>2, <3>1, <3>2
    <3>3. CASE j # call[c].job
      BY <2>2, <3>3
    <3>4. QED
      BY <3>2, <3>3
  <2>4. JobsKept(disk, new)
    BY <2>2, <2>3 DEF JobsKept
  <2>5. QED
    BY <1>5, <2>1, <2>2, <2>3, <2>4
<1>6. QED
  BY <1>1, <1>2, <1>3, <1>4, <1>5

AnswerInv ==
    /\ ViewInv
    /\ \A c \in Conn : Unanswered(c) /\ (ret[c].ok => IsRecorded(c))
    /\ JobIdsAreUnique

(* What is in the file stays there whichever connection takes the step.     *)
LEMMA RecordStays ==
    ASSUME ViewInv, NEW c \in Conn, Good(c), NEW d \in Conn, IsRecorded(d),
           ret'[d] = ret[d], call'[d] = call[d]
    PROVE  IsRecorded(d)'
<1>1. TypeOK /\ Fits(c) /\ ViewFits(c)
  BY DEF ViewInv, LockInv
<1>2. JobsKept(disk, disk')
  <2>1. CASE disk' = disk
    BY <2>1 DEF JobsKept
  <2>2. CASE pc[c] = "publish" /\ disk' = work[c]
    BY <1>1, <2>2, CommitKeepsJobs
  <2>3. QED
    BY <2>1, <2>2 DEF Good
<1>3. QED
  BY <1>2 DEF IsRecorded, JobExists, JobsKept, Op

LEMMA AnswerInvStep ==
    ASSUME AnswerInv, NEW c \in Conn, Good(c), AnswerMoves(c)
    PROVE  /\ \A d \in Conn : Unanswered(d)' /\ (ret'[d].ok => IsRecorded(d)')
           /\ JobIdsAreUnique'
<1>0. /\ ViewInv /\ TypeOK /\ Fits(c) /\ ViewFits(c)
      /\ \A d \in Conn : Unanswered(d) /\ (ret[d].ok => IsRecorded(d))
  BY DEF AnswerInv, ViewInv, LockInv
<1>1. \A d \in Conn \ {c} :
        pc'[d] = pc[d] /\ call'[d] = call[d] /\ ret'[d] = ret[d]
  BY DEF Good, OthersWait, AnswerMoves
<1>2. ASSUME NEW d \in Conn \ {c}
      PROVE  Unanswered(d)' /\ (ret'[d].ok => IsRecorded(d)')
  BY <1>0, <1>1, RecordStays DEF Unanswered
<1>3. ASSUME pc[c] = "publish", disk' = work[c], call'[c] = call[c],
             ret'[c].id = InsertedId(c)
      PROVE  /\ IsRecorded(c)'
             /\ Op(c) = "breakdown" => ret'[c].id \notin DOMAIN disk.jobs
  BY <1>0, <1>3, CommitKeepsJobs DEF IsRecorded, JobExists, Op
<1>4. Unanswered(c)' /\ (ret'[c].ok => IsRecorded(c)')
  <2>1. CASE ~ret'[c].ok
    BY <2>1 DEF Unanswered
  <2>2. CASE /\ pc'[c] \in {"closed", "idle"}
             /\ ret'[c] = ret[c] /\ call'[c] = call[c]
    BY <1>0, <2>2, RecordStays DEF Unanswered
  <2>3. CASE pc'[c] = "idle" /\ call'[c] = call[c] /\ ~IsTransaction(c)
    BY <2>3 DEF Unanswered, IsRecorded, IsTransaction, Op
  <2>4. CASE /\ pc'[c] = "idle" /\ call'[c] = call[c]
             /\ pc[c] = "publish" /\ disk' = work[c]
             /\ ret'[c].id = InsertedId(c)
    BY <1>3, <2>4 DEF Unanswered
  <2>5. QED
    BY <2>1, <2>2, <2>3, <2>4 DEF AnswerMoves
<1>5. ASSUME NEW d \in Conn \ {c}, ret'[c].ok, ret[d].ok,
             Op(c)' = "breakdown", Op(d) = "breakdown"
      PROVE  ret'[c].id # ret[d].id
  <2>1. ret[d].id \in DOMAIN disk.jobs
    BY <1>0, <1>5 DEF IsRecorded, JobExists
  <2>2. CASE ret'[c] = ret[c] /\ call'[c] = call[c]
    BY <1>5, <2>2 DEF AnswerInv, JobIdsAreUnique, Op
  <2>3. CASE call'[c] = call[c] /\ ~IsTransaction(c)
    BY <1>5, <2>3 DEF IsTransaction, Op
  <2>4. CASE /\ call'[c] = call[c] /\ pc[c] = "publish" /\ disk' = work[c]
             /\ ret'[c].id = InsertedId(c)
    BY <1>3, <1>5, <2>1, <2>4 DEF Op
  <2>5. QED
    BY <1>5, <2>2, <2>3, <2>4 DEF AnswerMoves
<1>6. JobIdsAreUnique'
  <2> SUFFICES ASSUME NEW d \in Conn, NEW e \in Conn, d # e, ret'[d].ok, ret'[e].ok,
                      Op(d)' = "breakdown", Op(e)' = "breakdown"
               PROVE  ret'[d].id # ret'[e].id
    BY DEF JobIdsAreUnique
  <2>1. CASE d = c
    BY <1>1, <1>5, <2>1 DEF Op
  <2>2. CASE e = c
    BY <1>1, <1>5, <2>2 DEF Op
  <2>3. CASE d # c /\ e # c
    BY <1>1, <2>3 DEF AnswerInv, JobIdsAreUnique, Op
  <2>4. QED
    BY <2>1, <2>2, <2>3
<1>7. QED
  BY <1>2, <1>4, <1>6

LEMMA AnswerInvInductive == Spec => []AnswerInv
<1> DEFINE Told == /\ \A c \in Conn : Unanswered(c) /\ (ret[c].ok => IsRecorded(c))
                   /\ JobIdsAreUnique
<1>1. Init => Told
  <2> SUFFICES ASSUME Init
               PROVE  Told
    OBVIOUS
  <2>1. \A c \in Conn : ~ret[c].ok
    BY DEF Init, NoAnswer
  <2>2. QED
    BY <2>1 DEF Unanswered, JobIdsAreUnique
<1>2. ViewInv /\ Told /\ [Next]_vars => Told'
  <2> SUFFICES ASSUME ViewInv, Told, [Next]_vars
               PROVE  Told'
    OBVIOUS
  <2>1. CASE Next
    <3>1. PICK c \in Conn : \/ Open(c) \/ Close(c) \/ Crash(c)
                            \/ \E r \in Requests : Invoke(c, r)
                            \/ Step(c)
      BY <2>1 DEF Next
    <3>2. TypeOK /\ Fits(c) /\ Unanswered(c)
      BY DEF ViewInv, LockInv
    <3>3. Good(c) /\ AnswerMoves(c)
      BY <3>1, <3>2, StepIsGood, StepAnswer
    <3>4. QED
      BY <3>3, AnswerInvStep DEF AnswerInv
  <2>2. CASE UNCHANGED vars
    BY <2>2 DEF vars, storage, client, Unanswered, IsRecorded, JobExists, Op,
                JobIdsAreUnique
  <2>3. QED
    BY <2>1, <2>2
<1>3. AnswerInv <=> ViewInv /\ Told
  BY DEF AnswerInv
<1>4. QED
  BY <1>1, <1>2, <1>3, ViewInvInductive, PTL DEF Spec

(* A breakdown or finish_repair that returned is in the file and stays      *)
(* there: it returns only from the step that commits, and no call deletes a *)
(* job, moves it or reopens a Done one.                                     *)
THEOREM AnswersRecorded == Spec => []AnswersAreRecorded
<1>1. AnswerInv => AnswersAreRecorded
  BY DEF AnswerInv, AnswersAreRecorded
<1>2. QED
  BY <1>1, AnswerInvInductive, PTL

(* No two breakdowns are told the same job id: the id is new in the file    *)
(* the call commits to, and the ids told before are in it.                  *)
THEOREM JobIdsUnique == Spec => []JobIdsAreUnique
BY AnswerInvInductive, PTL DEF AnswerInv
=============================================================================
