---------------------------- MODULE EngineLedger ----------------------------
(* What follows for the file the processes share: what RepairLedger keeps,  *)
(* and that list_devices shows nothing of it that is undone.                *)
EXTENDS EngineRefinement

LedgerTheory == INSTANCE RepairLedgerProofs
                  WITH db <- disk,
                       UpsertRows <- {r.row : r \in
                           {q \in Requests : q.op = "upsert_device"}},
                       Capacities <- {r.max_jobs : r \in
                           {q \in Requests : q.op = "add_worker"}}

(* The theorems about RepairLedger hold for the rows and capacities that    *)
(* the calls of Engine pass on.                                             *)
LEMMA LedgerApplies ==
    /\ LedgerTheory!NullAssumption
    /\ LedgerTheory!RowIdAssumption
    /\ LedgerTheory!NoRowAssumption
    /\ LedgerTheory!UpsertRowsAssumption
    /\ LedgerTheory!CapacitiesAssumption
<1>1. LedgerTheory!NullAssumption
  BY NullAssumption DEF LedgerTheory!NullAssumption
<1>2. LedgerTheory!RowIdAssumption
  BY RowIdAssumption DEF LedgerTheory!RowIdAssumption
<1>3. LedgerTheory!Device = Device
  BY DEF LedgerTheory!Device, Device, LedgerTheory!Priority, Priority
<1>4. LedgerTheory!NoRowAssumption
  BY <1>3, NoRowAssumption DEF LedgerTheory!NoRowAssumption
<1>5. LedgerTheory!UpsertRowsAssumption
  BY <1>3, RequestsAssumption, RequestFields DEF LedgerTheory!UpsertRowsAssumption,
     LedgerTheory!StorableDevice, StorableDevice
<1>6. LedgerTheory!CapacitiesAssumption
  BY RequestsAssumption, RequestFields DEF LedgerTheory!CapacitiesAssumption
<1>7. QED
  BY <1>1, <1>2, <1>4, <1>5, <1>6

(* The two instances of RepairLedger are the same.                          *)
LEMMA SameLedgerSteps ==
    /\ Ledger!Init => LedgerTheory!Init
    /\ [Ledger!Next]_disk => [LedgerTheory!Next]_disk
    /\ LedgerTheory!FaultyDeviceHasJob => FaultyDeviceHasJob
<1>1. Ledger!Init => LedgerTheory!Init
  BY DEF Ledger!Init, LedgerTheory!Init, Ledger!EmptyDatabase,
     LedgerTheory!EmptyDatabase, Ledger!MigratedDatabase,
     LedgerTheory!MigratedDatabase, Ledger!SchemaObject, LedgerTheory!SchemaObject
<1>2. ASSUME Ledger!Next
      PROVE  LedgerTheory!Next
  <2>1. CASE \E k \in 1..Len(Ledger!SchemaObjects) : Ledger!Create(k)
    BY <2>1 DEF LedgerTheory!Next, Ledger!SchemaObjects, LedgerTheory!SchemaObjects,
       Ledger!Create, LedgerTheory!Create, Ledger!CreateObject,
       LedgerTheory!CreateObject
  <2>2. CASE Ledger!AddWorker
    BY <2>2 DEF LedgerTheory!Next, Ledger!AddWorker, LedgerTheory!AddWorker,
       Ledger!InsertWorker, LedgerTheory!InsertWorker
  <2>3. CASE \E a \in Address, row \in {r.row : r \in
                {q \in Requests : q.op = "upsert_device"}} : Ledger!Upsert(a, row)
    BY <2>3 DEF LedgerTheory!Next, Ledger!Upsert, LedgerTheory!Upsert,
       Ledger!UpsertDevice, LedgerTheory!UpsertDevice
  <2>4. CASE \E a \in Address : Ledger!ReportBreakdown(a)
    BY <2>4 DEF LedgerTheory!Next, Ledger!ReportBreakdown,
       LedgerTheory!ReportBreakdown, Ledger!Breakdown, LedgerTheory!Breakdown,
       Ledger!InsertJob, LedgerTheory!InsertJob, Ledger!MarkFaulty,
       LedgerTheory!MarkFaulty, Ledger!FaultyRow, LedgerTheory!FaultyRow,
       Ledger!NewJob, LedgerTheory!NewJob
  <2>5. CASE \E j \in DOMAIN disk.jobs, w \in DOMAIN disk.workers : Ledger!Start(j, w)
    BY <2>5 DEF LedgerTheory!Next, Ledger!Start, LedgerTheory!Start,
       Ledger!IsStartable, LedgerTheory!IsStartable, Ledger!JobExists,
       LedgerTheory!JobExists, Ledger!WorkerExists, LedgerTheory!WorkerExists,
       Ledger!StartJob, LedgerTheory!StartJob, Ledger!StartedJob,
       LedgerTheory!StartedJob
  <2>6. CASE \E j \in DOMAIN disk.jobs : Ledger!Finish(j)
    BY <2>6 DEF LedgerTheory!Next, Ledger!Finish, LedgerTheory!Finish,
       Ledger!JobExists, LedgerTheory!JobExists, Ledger!FinishRepair,
       LedgerTheory!FinishRepair, Ledger!MarkHealthy, LedgerTheory!MarkHealthy,
       Ledger!HealthyRow, LedgerTheory!HealthyRow, Ledger!FinishJob,
       LedgerTheory!FinishJob, Ledger!FinishedJob, LedgerTheory!FinishedJob
  <2>7. QED
    BY <1>2, <2>1, <2>2, <2>3, <2>4, <2>5, <2>6 DEF Ledger!Next
<1>3. LedgerTheory!FaultyDeviceHasJob => FaultyDeviceHasJob
  BY DEF FaultyDeviceHasJob, Ledger!FaultyDeviceHasJob,
     LedgerTheory!FaultyDeviceHasJob, Ledger!OnlyHealthyRegistered,
     LedgerTheory!OnlyHealthyRegistered, Ledger!HasUnfinishedJob,
     LedgerTheory!HasUnfinishedJob, Ledger!IsUnfinished, LedgerTheory!IsUnfinished
<1>4. QED
  BY <1>1, <1>2, <1>3

LEMMA SpecIsLedger == Spec => LedgerTheory!Spec
BY SameLedgerSteps, LedgerImplemented, PTL
   DEF ImplementsLedger, Ledger!Spec, LedgerTheory!Spec

(* No faulty device of the file is forgotten when only working devices are  *)
(* registered, however many processes share the file, are refused locks and *)
(* die: the file changes as RepairLedger says, which keeps the invariant.   *)
THEOREM NoFaultyDeviceForgotten == Spec => []FaultyDeviceHasJob
<1>1. LedgerTheory!Spec => []LedgerTheory!FaultyDeviceHasJob
  BY LedgerApplies, LedgerTheory!FaultyDevicesHaveJobs, PTL
<1>2. QED
  BY <1>1, SpecIsLedger, SameLedgerSteps, PTL

(* Every job of the file points to a device and a worker of the file, and   *)
(* its status, worker and timestamps never contradict each other, however   *)
(* the statements of several processes interleave and wherever one dies.    *)
THEOREM FileJobsSound == Spec => []Ledger!JobsAreSound
<1>1. LedgerTheory!Spec => []LedgerTheory!JobsAreSound
  BY LedgerApplies, LedgerTheory!JobsSound, PTL
<1>2. LedgerTheory!JobsAreSound => Ledger!JobsAreSound
  BY DEF LedgerTheory!JobsAreSound, Ledger!JobsAreSound, LedgerTheory!ReferencesHold,
     Ledger!ReferencesHold, LedgerTheory!IsCoherent, Ledger!IsCoherent,
     LedgerTheory!WorkerExists, Ledger!WorkerExists
<1>3. QED
  BY <1>1, <1>2, SpecIsLedger, PTL

(* No commit of any process deletes a job of the file, moves it to another  *)
(* device, takes it from its worker or sets its status back.                *)
THEOREM FileJobsAdvance == Spec => Ledger!JobsOnlyAdvance
<1>1. LedgerTheory!Spec => LedgerTheory!JobsOnlyAdvance
  BY LedgerApplies, LedgerTheory!JobsAdvance, PTL
<1>2. LedgerTheory!JobsOnlyAdvance => Ledger!JobsOnlyAdvance
  BY PTL DEF LedgerTheory!JobsOnlyAdvance, Ledger!JobsOnlyAdvance,
     LedgerTheory!Advances, Ledger!Advances, LedgerTheory!StatusRank, Ledger!StatusRank
<1>3. QED
  BY <1>1, <1>2, SpecIsLedger, PTL

(* The commit that ends the last unfinished job of a device in the file     *)
(* leaves the device working there, whichever process makes it.             *)
THEOREM FileLastFinish == Spec => Ledger!LastFinishHeals
<1>1. LedgerTheory!Spec => LedgerTheory!LastFinishHeals
  BY LedgerApplies, LedgerTheory!LastFinish, PTL
<1>2. LedgerTheory!LastFinishHeals => Ledger!LastFinishHeals
  BY PTL DEF LedgerTheory!LastFinishHeals, Ledger!LastFinishHeals,
     LedgerTheory!HasUnfinishedJob, Ledger!HasUnfinishedJob,
     LedgerTheory!IsUnfinished, Ledger!IsUnfinished
<1>3. QED
  BY <1>1, <1>2, SpecIsLedger, PTL

-----------------------------------------------------------------------------
(* What list_devices has read.                                              *)

(* A call has read no device before it is past the addresses.               *)
NothingFound(c) ==
    pc[c] \notin {"closed", "idle", "select_device", "fetch_device"} =>
        found[c] = NoRows

(* What a step does to the devices read: the call ends, has not come to     *)
(* them, gets the addresses, selects a row or fetches it.                   *)
ScanMoves(c) ==
    /\ \A d \in Conn \ {c} : found'[d] = found[d] /\ todo'[d] = todo[d]
    /\ \/ pc'[c] \in {"closed", "idle"}
       \/ /\ pc'[c] \notin {"select_device", "fetch_device"}
          /\ found'[c] = NoRows
       \/ /\ pc'[c] \in {"select_device", "fetch_device"} /\ tx'[c] = tx[c]
          /\ \/ /\ pc[c] = "addresses" /\ found'[c] = found[c]
                /\ todo'[c] = {a \in Address : Visible(c).devices[a] # NULL}
             \/ /\ pc[c] = "select_device"
                /\ found'[c] = found[c] /\ todo'[c] = todo[c]
             \/ /\ pc[c] = "fetch_device"
                /\ \E a \in todo[c] :
                     /\ found'[c] = [found[c] EXCEPT ![a] = Visible(c).devices[a]]
                     /\ todo'[c] = todo[c] \ {a}

LEMMA AnswerScan ==
    ASSUME TypeOK, NEW c \in Conn,
           \/ \E why : Raise(c, why)
           \/ \E id : Return(c, id)
    PROVE  ScanMoves(c)
BY DEF Raise, Return, Finish, ForgetRows, ScanMoves, TypeOK

LEMMA GotoScan ==
    ASSUME TypeOK, NEW c \in Conn, NothingFound(c),
           pc[c] \notin {"closed", "idle", "select_device", "fetch_device"},
           NEW label \in Label \ {"select_device", "fetch_device"}, Goto(c, label)
    PROVE  ScanMoves(c)
BY DEF Goto, client, NothingFound, ScanMoves, TypeOK

LEMMA NextStatementScan ==
    ASSUME TypeOK, NEW c \in Conn, NothingFound(c),
           pc[c] \notin {"closed", "idle", "select_device", "fetch_device"},
           NextStatement(c)
    PROVE  ScanMoves(c)
<1>1. CASE Return(c, 0)
  BY <1>1, AnswerScan
<1>2. CASE /\ pc' = [pc EXCEPT ![c] = "prepare"]
           /\ UNCHANGED <<call, ret, rows, todo, found>>
  BY <1>2 DEF NothingFound, ScanMoves, TypeOK
<1>3. QED
  BY <1>1, <1>2 DEF NextStatement

LEMMA AfterWriteScan ==
    ASSUME TypeOK, NEW c \in Conn, NothingFound(c), pc[c] = "execute",
           NEW id, AfterWrite(c, id)
    PROVE  ScanMoves(c)
<1>1. "commit" \in Label \ {"select_device", "fetch_device"}
  BY DEF Label
<1>2. QED
  BY <1>1, GotoScan, NextStatementScan, AnswerScan DEF AfterWrite

LEMMA StepScan ==
    ASSUME TypeOK, NEW c \in Conn, NothingFound(c),
           \/ Open(c) \/ Close(c) \/ Crash(c)
           \/ \E r \in Requests : Invoke(c, r)
           \/ Step(c)
    PROVE  ScanMoves(c)
<1>1. CASE Open(c) \/ Close(c)
  BY <1>1 DEF Open, Close, Goto, client, ScanMoves, TypeOK, Label
<1>2. CASE Crash(c) \/ \E r \in Requests : Invoke(c, r)
  BY <1>2 DEF Crash, Invoke, ForgetRows, ScanMoves, TypeOK
<1>3. CASE \/ NoSuchTable(c) \/ BeginInTransaction(c) \/ LockBusy(c)
           \/ ReserveBusy(c) \/ AddWorkerFull(c) \/ StartRepairFails(c)
           \/ BreakdownNoDevices(c) \/ BreakdownJobFails(c) \/ FinishRepairFails(c)
           \/ CommitBusy(c) \/ AutocommitBusy(c) \/ SelectDeviceBusy(c)
           \/ ListWorkers(c) \/ ListJobsDone(c) \/ ListAddressesBusy(c)
           \/ ListDevicesDone(c)
  <2>1. (\E why : Raise(c, why)) \/ (\E id : Return(c, id))
    BY <1>3 DEF NoSuchTable, BeginInTransaction, LockBusy, ReserveBusy, AddWorkerFull,
         StartRepairFails, BreakdownNoDevices, BreakdownJobFails, FinishRepairFails,
         CommitBusy, AutocommitBusy, SelectDeviceBusy, ListWorkers, ListJobsDone,
         ListAddressesBusy, ListDevicesDone
  <2>2. QED
    BY <2>1, AnswerScan
<1>4. CASE \/ Lock(c) \/ UseOpenTransaction(c) \/ Reserve(c) \/ BreakdownDevice(c)
           \/ BreakdownJob(c) \/ FinishRepairSelect(c) \/ FinishRepairJob(c)
           \/ FinishRepairDevice(c) \/ Commit(c)
  <2>1. FirstStep(c) \in Label \ {"select_device", "fetch_device"}
    BY DEF FirstStep, Label
  <2>2. /\ pc[c] \notin {"closed", "idle", "select_device", "fetch_device"}
        /\ \E label \in Label \ {"select_device", "fetch_device"} : Goto(c, label)
    BY <1>4, <2>1 DEF Lock, UseOpenTransaction, Reserve, BreakdownDevice,
         BreakdownJob, FinishRepairSelect, FinishRepairJob, FinishRepairDevice, Commit,
         Label
  <2>3. QED
    BY <2>2, GotoScan
<1>5. CASE ListJobsRow(c)
  BY <1>5 DEF ListJobsRow, NothingFound, ScanMoves, TypeOK
<1>6. CASE ListAddresses(c)
  <2>1. tx'[c] = tx[c]
    BY <1>6, TypeParts, EndStatementStep DEF ListAddresses
  <2>2. QED
    BY <1>6, <2>1 DEF ListAddresses, ScanMoves, TypeOK
<1>7. CASE SelectDevice(c)
  <2>1. tx'[c] = tx[c]
    BY <1>7 DEF SelectDevice, LockShared, storage
  <2>2. pc[c] = "select_device" /\ pc'[c] = "fetch_device" /\ UNCHANGED client
    BY <1>7 DEF SelectDevice, Goto, TypeOK
  <2>3. QED
    BY <2>1, <2>2 DEF client, ScanMoves
<1>8. CASE FetchDevice(c)
  <2>1. PICK a \in todo[c] :
          /\ found' = [found EXCEPT ![c] = [found[c] EXCEPT ![a] = Visible(c).devices[a]]]
          /\ todo' = [todo EXCEPT ![c] = todo[c] \ {a}]
    BY <1>8 DEF FetchDevice
  <2>2. /\ found'[c] = [found[c] EXCEPT ![a] = Visible(c).devices[a]]
        /\ todo'[c] = todo[c] \ {a}
        /\ \A d \in Conn \ {c} : found'[d] = found[d] /\ todo'[d] = todo[d]
    BY <2>1 DEF TypeOK
  <2>3. pc[c] = "fetch_device" /\ pc'[c] = "select_device" /\ tx'[c] = tx[c]
    BY <1>8, TypeParts, EndStatementStep DEF FetchDevice, TypeOK
  <2>4. QED
    BY <2>2, <2>3 DEF ScanMoves
<1>9. CASE SkipCreate(c)
  BY <1>9, NextStatementScan DEF SkipCreate
<1>10. CASE Create(c) \/ AddWorker(c) \/ Upsert(c) \/ StartRepair(c)
  <2>1. pc[c] = "execute" /\ \E id : AfterWrite(c, id)
    BY <1>10 DEF Create, AddWorker, Upsert, StartRepair
  <2>2. QED
    BY <2>1, AfterWriteScan
<1>11. CASE PublishCommit(c)
  <2>1. pc[c] = "publish" /\ (NextStatement(c) \/ \E id : Return(c, id))
    BY <1>11 DEF PublishCommit
  <2>2. QED
    BY <2>1, NextStatementScan, AnswerScan
<1>12. QED
  BY <1>1, <1>2, <1>3, <1>4, <1>5, <1>6, <1>7, <1>8, <1>9, <1>10, <1>11 DEF Step

(* No call deletes a device.                                                *)
LEMMA CommitKeepsDevices ==
    ASSUME TypeOK, NEW c \in Conn, Fits(c), ViewFits(c), pc[c] = "publish",
           NEW a \in Address, disk.devices[a] # NULL
    PROVE  work[c].devices[a] # NULL
<1>1. /\ call[c] \in Request /\ disk \in Database
      /\ Op(c) \in {"migrate", "add_worker", "upsert_device", "breakdown",
                    "start_repair", "finish_repair"}
      /\ Op(c) = "migrate" => at[c] \in 1..5
      /\ Allowed(c) /\ work[c] = Effect(c, disk)
  BY PublishedCall
<1>2. disk.devices[a] \in Device /\ disk.devices \in [Address -> Device \cup {NULL}]
  BY <1>1 DEF Database
<1>3. CASE Op(c) = "migrate"
  BY <1>1, <1>3, SchemaObjectsType, CreateObjectType DEF Effect, Op
<1>4. CASE Op(c) = "add_worker"
  BY <1>1, <1>4, RequestFields, InsertWorkerType DEF Effect, Op
<1>5. CASE Op(c) = "upsert_device"
  <2>1. /\ work[c] = UpsertDevice(disk, call[c].address, call[c].row)
        /\ call[c].address \in Address /\ call[c].row \in StorableDevice
    BY <1>1, <1>5, RequestFields DEF Effect, Op
  <2>2. work[c].devices = [disk.devices EXCEPT ![call[c].address] = call[c].row]
    BY <1>1, <2>1, UpsertDeviceType
  <2>3. call[c].row # NULL
    BY <2>1, NoRowAssumption DEF StorableDevice
  <2>4. QED
    BY <1>2, <2>2, <2>3
<1>6. CASE Op(c) = "breakdown"
  <2>1. work[c] = Breakdown(disk, call[c].address) /\ call[c].address \in Address
    BY <1>1, <1>6, RequestFields DEF Effect, Op
  <2> DEFINE row == FaultyRow(disk.devices[call[c].address])
  <2>2. row \in Device /\ work[c].devices = [disk.devices EXCEPT ![call[c].address] = row]
    BY <1>1, <2>1, BreakdownType
  <2>3. row # NULL
    BY <2>2, NoRowAssumption
  <2> HIDE DEF row
  <2>4. QED
    BY <1>2, <2>2, <2>3
<1>7. CASE Op(c) = "start_repair"
  BY <1>1, <1>7, RequestFields, StartJobType DEF Effect, Op
<1>8. CASE Op(c) = "finish_repair"
  <2>1. work[c] = FinishRepair(disk, call[c].job) /\ call[c].job \in DOMAIN disk.jobs
    BY <1>1, <1>8 DEF Effect, Op, Allowed, JobExists
  <2> DEFINE b == disk.jobs[call[c].job].device
             row == HealthyRow(disk.devices[b])
  <2>2. work[c].devices = [disk.devices EXCEPT ![b] = row]
    BY <1>1, <2>1, FinishRepairType
  <2>3. b = a => row # NULL
    <3>1. [disk.devices[a] EXCEPT !.is_faulty = FALSE] \in Device
      BY <1>2 DEF Device
    <3>2. QED
      BY <3>1, NoRowAssumption DEF HealthyRow
  <2> HIDE DEF row, b
  <2>4. QED
    BY <1>2, <2>2, <2>3
<1>9. QED
  BY <1>1, <1>3, <1>4, <1>5, <1>6, <1>7, <1>8

ScanInv ==
    /\ ViewInv
    /\ \A c \in Conn : NothingFound(c)
    /\ DeviceScanIsCommitted

LEMMA ScanInvStep ==
    ASSUME ScanInv, NEW c \in Conn, Good(c), ScanMoves(c)
    PROVE  (\A d \in Conn : NothingFound(d)') /\ DeviceScanIsCommitted'
<1>0. TypeOK /\ Fits(c) /\ ViewFits(c) /\ NothingFound(c)
  BY DEF ScanInv, ViewInv, LockInv
<1>1. \A a \in Address : disk.devices[a] # NULL => disk'.devices[a] # NULL
  <2>1. CASE disk' = disk
    BY <2>1
  <2>2. CASE pc[c] = "publish" /\ disk' = work[c]
    BY <1>0, <2>2, CommitKeepsDevices
  <2>3. QED
    BY <2>1, <2>2 DEF Good
<1>2. \A d \in Conn \ {c} :
        /\ pc'[d] = pc[d] /\ tx'[d] = tx[d]
        /\ found'[d] = found[d] /\ todo'[d] = todo[d]
  BY DEF Good, OthersWait, OthersKeep, ScanMoves
<1>3. NothingFound(c)'
  BY <1>0 DEF ScanMoves, NothingFound
<1>4. ASSUME pc'[c] \in {"select_device", "fetch_device"}, ~tx'[c],
             NEW a \in Address, a \in todo'[c] \/ found'[c][a] # NULL
      PROVE  disk.devices[a] # NULL
  <2>1. /\ ~tx[c]
        /\ pc[c] \in {"addresses", "select_device", "fetch_device"}
        /\ pc[c] \in {"addresses", "fetch_device"} => Visible(c) = disk
    BY <1>0, <1>4 DEF ScanMoves, Fits, LockFits, Visible, IsWriter, WriteLock
  <2>2. CASE pc[c] = "addresses"
    BY <1>0, <1>4, <2>1, <2>2 DEF ScanMoves, NothingFound, NoRows
  <2>3. CASE pc[c] = "select_device"
    BY <1>4, <2>1, <2>3 DEF ScanMoves, ScanInv, DeviceScanIsCommitted
  <2>4. CASE pc[c] = "fetch_device"
    <3>1. PICK b \in todo[c] :
            /\ found'[c] = [found[c] EXCEPT ![b] = disk.devices[b]]
            /\ todo'[c] = todo[c] \ {b}
      BY <1>4, <2>1, <2>4 DEF ScanMoves
    <3>2. b \in Address /\ found[c] \in [Address -> Device \cup {NULL}]
      BY <1>0 DEF TypeOK
    <3>3. a \in todo[c] \/ found[c][a] # NULL => disk.devices[a] # NULL
      BY <2>1, <2>4 DEF ScanInv, DeviceScanIsCommitted
    <3>4. a = b => a \in todo[c]
      BY <3>1
    <3>5. CASE a = b
      BY <3>3, <3>4, <3>5
    <3>6. CASE a # b
      BY <1>4, <3>1, <3>2, <3>3, <3>6
    <3>7. QED
      BY <3>5, <3>6
  <2>5. QED
    BY <2>1, <2>2, <2>3, <2>4
<1>5. QED
  BY <1>1, <1>2, <1>3, <1>4 DEF ScanInv, NothingFound, DeviceScanIsCommitted

LEMMA ScanInvInductive == Spec => []ScanInv
<1> DEFINE Scanned == (\A c \in Conn : NothingFound(c)) /\ DeviceScanIsCommitted
<1>1. Init => Scanned
  BY DEF Init, NothingFound, DeviceScanIsCommitted
<1>2. ViewInv /\ Scanned /\ [Next]_vars => Scanned'
  <2> SUFFICES ASSUME ViewInv, Scanned, [Next]_vars
               PROVE  Scanned'
    OBVIOUS
  <2>1. CASE Next
    <3>1. PICK c \in Conn : \/ Open(c) \/ Close(c) \/ Crash(c)
                            \/ \E r \in Requests : Invoke(c, r)
                            \/ Step(c)
      BY <2>1 DEF Next
    <3>2. TypeOK /\ Fits(c) /\ NothingFound(c)
      BY DEF ViewInv, LockInv
    <3>3. Good(c) /\ ScanMoves(c)
      BY <3>1, <3>2, StepIsGood, StepScan
    <3>4. QED
      BY <3>3, ScanInvStep DEF ScanInv
  <2>2. CASE UNCHANGED vars
    BY <2>2 DEF vars, storage, client, NothingFound, DeviceScanIsCommitted
  <2>3. QED
    BY <2>1, <2>2
<1>3. ScanInv <=> ViewInv /\ Scanned
  BY DEF ScanInv
<1>4. QED
  BY <1>1, <1>2, <1>3, ViewInvInductive, PTL DEF Spec

(* The addresses list_devices still has to look for and the rows it has     *)
(* read are those of committed devices, although it holds no lock between   *)
(* two rows: no call deletes a device.                                      *)
THEOREM DeviceScanCommitted == Spec => []DeviceScanIsCommitted
BY ScanInvInductive, PTL DEF ScanInv

-----------------------------------------------------------------------------
(* What list_jobs has read.                                                 *)

LEMMA NothingSelected ==
    ASSUME NEW jobs, NEW status
    PROVE  IsSelection(<< >>, jobs, 0, status)
<1> DEFINE asked == {j \in 1..0 : Selects(status, jobs[j])}
           place == [i \in 1..0 |-> i]
<1>1. 1..0 = {} /\ Len(<< >>) = 0
  OBVIOUS
<1>2. place \in [1..0 -> asked] /\ DOMAIN place = {} /\ asked = {}
  BY <1>1
<1> HIDE DEF asked, place
<1>3. \E f \in [1..0 -> asked] :
        /\ \A j \in asked : \E i \in DOMAIN f : f[i] = j
        /\ \A i, k \in DOMAIN f : i < k => f[i] < f[k]
        /\ \A i \in DOMAIN f : (<< >>)[i] = jobs[f[i]]
  BY <1>2
<1>4. QED
  BY <1>1, <1>3 DEF IsSelection, asked

(* A row that is asked for goes to the end of what was selected.            *)
LEMMA SelectionGrows ==
    ASSUME NEW result \in Seq(Job), NEW jobs \in Seq(Job), NEW status,
           NEW n \in Nat, n < Len(jobs), IsSelection(result, jobs, n, status)
    PROVE  /\ Selects(status, jobs[n + 1]) =>
                IsSelection(Append(result, jobs[n + 1]), jobs, n + 1, status)
           /\ ~Selects(status, jobs[n + 1]) =>
                IsSelection(result, jobs, n + 1, status)
<1> DEFINE asked(m) == {j \in 1..m : Selects(status, jobs[j])}
           size == Len(result)
<1>1. PICK place \in [1..size -> asked(n)] :
        /\ \A j \in asked(n) : \E i \in DOMAIN place : place[i] = j
        /\ \A i, k \in DOMAIN place : i < k => place[i] < place[k]
        /\ \A i \in DOMAIN place : result[i] = jobs[place[i]]
  BY DEF IsSelection
<1>2. /\ size \in Nat /\ DOMAIN place = 1..size
      /\ \A i \in 1..size : place[i] \in asked(n) /\ place[i] \in 1..n
  BY <1>1
<1>3. ASSUME ~Selects(status, jobs[n + 1])
      PROVE  IsSelection(result, jobs, n + 1, status)
  <2>1. asked(n + 1) = asked(n)
    BY <1>3
  <2>2. QED
    BY <1>1, <2>1 DEF IsSelection
<1>4. ASSUME Selects(status, jobs[n + 1])
      PROVE  IsSelection(Append(result, jobs[n + 1]), jobs, n + 1, status)
  <2> DEFINE longer == Append(result, jobs[n + 1])
             next == [i \in 1..(size + 1) |-> IF i = size + 1 THEN n + 1 ELSE place[i]]
  <2>1. jobs[n + 1] \in Job
    OBVIOUS
  <2>2. Len(longer) = size + 1
        /\ longer[size + 1] = jobs[n + 1]
        /\ \A i \in 1..size : longer[i] = result[i]
    BY <1>2, <2>1
  <2>3. asked(n + 1) = asked(n) \cup {n + 1}
    BY <1>4
  <2>4. next \in [1..(size + 1) -> asked(n + 1)]
    BY <1>1, <1>2, <2>3
  <2>5. next[size + 1] = n + 1 /\ \A i \in 1..size : next[i] = place[i]
    BY <1>2
  <2>6. \A i \in 1..(size + 1) : i \in 1..size \/ i = size + 1
    BY <1>2
  <2>7. 1..size \subseteq 1..(size + 1) /\ size + 1 \in 1..(size + 1)
    BY <1>2
  <2>8. DOMAIN next = 1..(size + 1)
    OBVIOUS
  <2> HIDE DEF asked, next, longer, size
  <2>9. ASSUME NEW j \in asked(n + 1)
        PROVE  \E i \in DOMAIN next : next[i] = j
    <3>1. CASE j = n + 1
      BY <2>5, <2>7, <2>8, <3>1
    <3>2. CASE j \in asked(n)
      BY <1>1, <1>2, <2>5, <2>7, <2>8, <3>2
    <3>3. QED
      BY <2>3, <3>1, <3>2
  <2>10. ASSUME NEW i \in DOMAIN next, NEW k \in DOMAIN next, i < k
         PROVE  next[i] < next[k]
    <3>1. i \in 1..size
      BY <1>2, <2>8, <2>10
    <3>2. CASE k \in 1..size
      BY <1>1, <1>2, <2>5, <2>10, <3>1, <3>2
    <3>3. CASE k = size + 1
      BY <1>2, <2>5, <3>1, <3>3
    <3>4. QED
      BY <2>6, <2>8, <3>2, <3>3
  <2>11. ASSUME NEW i \in DOMAIN next
         PROVE  longer[i] = jobs[next[i]]
    BY <1>1, <1>2, <2>2, <2>5, <2>6, <2>8
  <2>12. next \in [1..Len(longer) -> asked(n + 1)]
    BY <2>2, <2>4
  <2>13. \E f \in [1..Len(longer) -> asked(n + 1)] :
           /\ \A j \in asked(n + 1) : \E i \in DOMAIN f : f[i] = j
           /\ \A i, k \in DOMAIN f : i < k => f[i] < f[k]
           /\ \A i \in DOMAIN f : longer[i] = jobs[f[i]]
    BY <2>9, <2>10, <2>11, <2>12
  <2>14. QED
    BY <2>13 DEF IsSelection, asked, longer
<1>5. QED
  BY <1>3, <1>4

(* list_jobs has read no row before it steps over them.                     *)
NoRowRead(c) ==
    Op(c) = "list_jobs" /\ pc[c] \notin {"closed", "idle", "rows"} =>
        pc[c] = "prepare" /\ at[c] = 1 /\ rows[c] = << >>

(* While it does, the rows it read are those of the table it still sees.    *)
JobScan(c) ==
    pc[c] = "rows" /\ Op(c) = "list_jobs" =>
        LET jobs == Visible(c).jobs IN
        /\ at[c] <= Len(jobs) + 1
        /\ IsSelection(rows[c], jobs, at[c] - 1, call[c].status)
        /\ call[c].status = NULL =>
             /\ Len(rows[c]) = at[c] - 1
             /\ \A j \in 1..(at[c] - 1) : rows[c][j] = jobs[j]

(* What a step does to the rows read: the call ends, is not list_jobs, is   *)
(* just starting, or has not come to the rows; or it reads the next one.    *)
ReadNextJob(c) ==
    /\ pc[c] = "rows" /\ pc'[c] = "rows"
    /\ UNCHANGED <<storage, call>>
    /\ at[c] <= Len(Visible(c).jobs)
    /\ at'[c] = at[c] + 1
    /\ LET job == Visible(c).jobs[at[c]] IN
         rows'[c] = IF Selects(call[c].status, job) THEN Append(rows[c], job)
                                                    ELSE rows[c]

JobScanMoves(c) ==
    /\ \A d \in Conn \ {c} : rows'[d] = rows[d]
    /\ \/ pc'[c] \in {"closed", "idle"}
       \/ call'[c] = call[c] /\ Op(c) # "list_jobs"
       \/ /\ pc[c] = "idle" /\ pc'[c] = "prepare"
          /\ at'[c] = at[c] /\ rows'[c] = << >>
       \/ /\ pc[c] \notin {"closed", "idle", "rows"} /\ call'[c] = call[c]
          /\ at'[c] = at[c] /\ rows'[c] = rows[c]
          /\ pc[c] = "prepare" => pc'[c] = "rows"
       \/ ReadNextJob(c)

LEMMA AnswerRows ==
    ASSUME TypeOK, NEW c \in Conn,
           \/ \E why : Raise(c, why)
           \/ \E id : Return(c, id)
    PROVE  JobScanMoves(c)
BY DEF Raise, Return, Finish, ForgetRows, JobScanMoves, TypeOK

LEMMA GotoRows ==
    ASSUME TypeOK, NEW c \in Conn, pc[c] \notin {"closed", "idle", "rows"},
           NEW label, Goto(c, label),
           pc[c] = "prepare" /\ Op(c) = "list_jobs" => label = "rows"
    PROVE  JobScanMoves(c)
BY DEF Goto, client, JobScanMoves, TypeOK

LEMMA NextStatementRows ==
    ASSUME TypeOK, NEW c \in Conn, Op(c) = "migrate", NextStatement(c)
    PROVE  JobScanMoves(c)
<1>1. CASE Return(c, 0)
  BY <1>1, AnswerRows
<1>2. CASE UNCHANGED <<call, ret, rows, todo, found>>
  BY <1>2 DEF JobScanMoves
<1>3. QED
  BY <1>1, <1>2 DEF NextStatement

LEMMA StepRows ==
    ASSUME TypeOK, NEW c \in Conn,
           \/ Open(c) \/ Close(c) \/ Crash(c)
           \/ \E r \in Requests : Invoke(c, r)
           \/ Step(c)
    PROVE  JobScanMoves(c)
<1>1. CASE Open(c) \/ Close(c)
  BY <1>1 DEF Open, Close, Goto, client, JobScanMoves, TypeOK
<1>2. CASE Crash(c) \/ \E r \in Requests : Invoke(c, r)
  BY <1>2 DEF Crash, Invoke, ForgetRows, JobScanMoves, TypeOK
<1>3. CASE \/ NoSuchTable(c) \/ BeginInTransaction(c) \/ LockBusy(c)
           \/ ReserveBusy(c) \/ AddWorkerFull(c) \/ StartRepairFails(c)
           \/ BreakdownNoDevices(c) \/ BreakdownJobFails(c) \/ FinishRepairFails(c)
           \/ CommitBusy(c) \/ AutocommitBusy(c) \/ SelectDeviceBusy(c)
           \/ ListWorkers(c) \/ ListJobsDone(c) \/ ListAddressesBusy(c)
           \/ ListDevicesDone(c)
  <2>1. (\E why : Raise(c, why)) \/ (\E id : Return(c, id))
    BY <1>3 DEF NoSuchTable, BeginInTransaction, LockBusy, ReserveBusy, AddWorkerFull,
         StartRepairFails, BreakdownNoDevices, BreakdownJobFails, FinishRepairFails,
         CommitBusy, AutocommitBusy, SelectDeviceBusy, ListWorkers, ListJobsDone,
         ListAddressesBusy, ListDevicesDone
  <2>2. QED
    BY <2>1, AnswerRows
<1>4. CASE \/ Lock(c) \/ UseOpenTransaction(c) \/ Reserve(c) \/ BreakdownDevice(c)
           \/ BreakdownJob(c) \/ FinishRepairSelect(c) \/ FinishRepairJob(c)
           \/ FinishRepairDevice(c) \/ Commit(c) \/ SelectDevice(c)
  <2>1. Op(c) = "list_jobs" => IsRead(c) /\ FirstStep(c) = "rows"
    BY DEF IsRead, FirstStep
  <2>2. PICK label : /\ pc[c] \notin {"closed", "idle", "rows"}
                     /\ Goto(c, label)
                     /\ pc[c] = "prepare" /\ Op(c) = "list_jobs" => label = "rows"
    BY <1>4, <2>1 DEF Lock, UseOpenTransaction, Reserve, BreakdownDevice,
         BreakdownJob, FinishRepairSelect, FinishRepairJob, FinishRepairDevice, Commit,
         SelectDevice
  <2>3. QED
    BY <2>2, GotoRows
<1>5. CASE ListJobsRow(c)
  <2> DEFINE job == Visible(c).jobs[at[c]]
             read == IF Selects(call[c].status, job) THEN Append(rows[c], job)
                                                     ELSE rows[c]
  <2>1. rows' = [rows EXCEPT ![c] = read] /\ at' = [at EXCEPT ![c] = at[c] + 1]
    BY <1>5 DEF ListJobsRow
  <2>2. /\ pc[c] = "rows" /\ UNCHANGED <<storage, pc, call>>
        /\ at[c] <= Len(Visible(c).jobs)
    BY <1>5 DEF ListJobsRow
  <2> HIDE DEF read
  <2>3. /\ rows'[c] = read /\ at'[c] = at[c] + 1
        /\ \A d \in Conn \ {c} : rows'[d] = rows[d]
    BY <2>1 DEF TypeOK
  <2>4. ReadNextJob(c)
    BY <2>2, <2>3 DEF ReadNextJob, read
  <2>5. QED
    BY <2>3, <2>4 DEF JobScanMoves
<1>6. CASE ListAddresses(c) \/ FetchDevice(c)
  BY <1>6 DEF ListAddresses, FetchDevice, JobScanMoves
<1>7. CASE SkipCreate(c)
  BY <1>7, NextStatementRows DEF SkipCreate, ObjectExists
<1>8. CASE Create(c) \/ AddWorker(c) \/ Upsert(c) \/ StartRepair(c)
  <2>1. pc[c] = "execute" /\ \E id : AfterWrite(c, id)
    BY <1>8 DEF Create, AddWorker, Upsert, StartRepair
  <2>2. QED
    BY <2>1, GotoRows, NextStatementRows, AnswerRows DEF AfterWrite
<1>9. CASE PublishCommit(c)
  BY <1>9, NextStatementRows, AnswerRows DEF PublishCommit
<1>10. QED
  BY <1>1, <1>2, <1>3, <1>4, <1>5, <1>6, <1>7, <1>8, <1>9 DEF Step

(* A connection that reads, or that has a transaction open, goes on seeing  *)
(* what it saw while another one takes a step: nobody commits under it.     *)
LEMMA ReaderKeepsView ==
    ASSUME LockInv, NEW c \in Conn, Good(c), NEW d \in Conn \ {c},
           tx[d] \/ lock[d] # "unlocked"
    PROVE  Visible(d)' = Visible(d)
<1>1. /\ lock'[d] = lock[d] /\ work'[d] = work[d]
      /\ tx[d] => IsWriter(d)
  BY DEF Good, OthersKeep, LockInv, Fits, LockFits
<1>2. CASE IsWriter(d)
  BY <1>1, <1>2 DEF Visible, IsWriter
<1>3. CASE ~IsWriter(d)
  <2>1. lock[d] # "unlocked"
    BY <1>1, <1>3
  <2>2. pc[c] = "publish" => lock[c] = "exclusive"
    BY DEF LockInv, Fits, LockFits
  <2>3. disk' = disk
    BY <2>1, <2>2 DEF Good, LockInv, LocksCompatible
  <2>4. QED
    BY <1>1, <1>3, <2>3 DEF Visible, IsWriter
<1>4. QED
  BY <1>2, <1>3

LEMMA JobScanStep ==
    ASSUME ViewInv, NEW c \in Conn, Good(c), JobScanMoves(c),
           \A d \in Conn : NoRowRead(d) /\ JobScan(d)
    PROVE  \A d \in Conn : NoRowRead(d)' /\ JobScan(d)'
<1>0. TypeOK /\ TypeOK' /\ LockInv /\ \A d \in Conn : Fits(d)
  BY DEF ViewInv, LockInv, Good
<1>1. ASSUME NEW d \in Conn \ {c}
      PROVE  NoRowRead(d)' /\ JobScan(d)'
  <2>1. /\ pc'[d] = pc[d] /\ call'[d] = call[d]
        /\ at'[d] = at[d] /\ rows'[d] = rows[d]
    BY DEF Good, OthersWait, JobScanMoves
  <2>2. NoRowRead(d)'
    BY <2>1 DEF NoRowRead, Op
  <2>3. CASE pc[d] = "rows"
    <3>1. tx[d] \/ lock[d] # "unlocked"
      BY <1>0, <2>3 DEF Fits, LockFits
    <3>2. Visible(d)' = Visible(d)
      BY <1>0, <3>1, ReaderKeepsView
    <3>3. QED
      BY <2>1, <2>2, <3>2 DEF JobScan, Op
  <2>4. QED
    BY <2>1, <2>2, <2>3 DEF JobScan
<1>2. NoRowRead(c)' /\ JobScan(c)'
  <2>1. CASE pc'[c] \in {"closed", "idle"}
    BY <2>1 DEF NoRowRead, JobScan
  <2>2. CASE call'[c] = call[c] /\ Op(c) # "list_jobs"
    BY <2>2 DEF NoRowRead, JobScan, Op
  <2>3. CASE /\ pc[c] = "idle" /\ pc'[c] = "prepare"
             /\ at'[c] = at[c] /\ rows'[c] = << >>
    BY <1>0, <2>3 DEF Fits, CallFits, NoRowRead, JobScan
  <2>4. CASE /\ pc[c] \notin {"closed", "idle", "rows"} /\ call'[c] = call[c]
             /\ at'[c] = at[c] /\ rows'[c] = rows[c]
             /\ pc[c] = "prepare" => pc'[c] = "rows"
    <3>1. NoRowRead(c)'
      BY <2>4 DEF NoRowRead, Op
    <3>2. ASSUME Op(c)' = "list_jobs"
          PROVE  JobScan(c)'
      <4>1. at'[c] = 1 /\ rows'[c] = << >>
        BY <2>4, <3>2 DEF NoRowRead, Op
      <4>2. Visible(c)' \in Database
        BY <1>0, VisibleType DEF TypeOK, StorageTypeOK, Visible
      <4>3. Len(Visible(c)'.jobs) \in Nat
        BY <4>2 DEF Database
      <4>4. IsSelection(<< >>, Visible(c)'.jobs, 0, call'[c].status)
        BY NothingSelected
      <4>5. QED
        BY <4>1, <4>3, <4>4 DEF JobScan
    <3>3. QED
      BY <3>1, <3>2 DEF JobScan
  <2>5. CASE ReadNextJob(c)
    <3>1. NoRowRead(c)'
      BY <2>5 DEF ReadNextJob, NoRowRead
    <3>2. ASSUME Op(c) = "list_jobs"
          PROVE  JobScan(c)'
      <4> DEFINE jobs == Visible(c).jobs
                 status == call[c].status
                 n == at[c] - 1
      <4>1. jobs \in Seq(Job) /\ rows[c] \in Seq(Job) /\ n \in Nat /\ n < Len(jobs)
        <5>1. Visible(c) \in Database
          BY <1>0, VisibleType DEF TypeOK
        <5>2. at[c] \in Nat /\ at[c] # 0 /\ at[c] <= Len(jobs)
          BY <1>0, <2>5 DEF TypeOK, Fits, CallFits, ReadNextJob
        <5>3. QED
          BY <1>0, <5>1, <5>2 DEF Database, TypeOK
      <4>2. at[c] = n + 1 /\ at'[c] = n + 2
        BY <1>0, <2>5 DEF ReadNextJob, TypeOK
      <4>3. /\ IsSelection(rows[c], jobs, n, status)
            /\ status = NULL => /\ Len(rows[c]) = n
                                /\ \A j \in 1..n : rows[c][j] = jobs[j]
        BY <2>5, <3>2 DEF JobScan, ReadNextJob
      <4>4. Visible(c)' = Visible(c) /\ call'[c] = call[c]
        BY <2>5 DEF ReadNextJob, Visible, IsWriter, storage
      <4>5. rows'[c] = IF Selects(status, jobs[n + 1]) THEN Append(rows[c], jobs[n + 1])
                                                       ELSE rows[c]
        BY <2>5, <4>2 DEF ReadNextJob
      <4> HIDE DEF jobs, status, n
      <4>6. IsSelection(rows'[c], jobs, n + 1, status)
        BY <4>1, <4>3, <4>5, SelectionGrows
      <4>7. ASSUME status = NULL
            PROVE  Len(rows'[c]) = n + 1 /\ \A j \in 1..(n + 1) : rows'[c][j] = jobs[j]
        <5>1. rows'[c] = Append(rows[c], jobs[n + 1]) /\ jobs[n + 1] \in Job
          BY <4>1, <4>5, <4>7 DEF Selects
        <5>2. Len(rows[c]) = n /\ \A j \in 1..n : rows[c][j] = jobs[j]
          BY <4>3, <4>7
        <5>3. QED
          BY <4>1, <5>1, <5>2
      <4>8. at'[c] <= Len(jobs) + 1 /\ at'[c] - 1 = n + 1
        BY <4>1, <4>2
      <4>9. QED
        BY <4>4, <4>6, <4>7, <4>8 DEF JobScan, jobs, status
    <3>3. QED
      BY <2>5, <3>1, <3>2 DEF ReadNextJob, JobScan, Op
  <2>6. QED
    BY <2>1, <2>2, <2>3, <2>4, <2>5 DEF JobScanMoves
<1>3. QED
  BY <1>1, <1>2

JobScanInv == ViewInv /\ \A c \in Conn : NoRowRead(c) /\ JobScan(c)

LEMMA JobScanInvInductive == Spec => []JobScanInv
<1> DEFINE Scanned == \A c \in Conn : NoRowRead(c) /\ JobScan(c)
<1>1. Init => Scanned
  BY DEF Init, NoRowRead, JobScan
<1>2. ViewInv /\ Scanned /\ [Next]_vars => Scanned'
  <2> SUFFICES ASSUME ViewInv, Scanned, [Next]_vars
               PROVE  Scanned'
    OBVIOUS
  <2>1. CASE Next
    <3>1. PICK c \in Conn : \/ Open(c) \/ Close(c) \/ Crash(c)
                            \/ \E r \in Requests : Invoke(c, r)
                            \/ Step(c)
      BY <2>1 DEF Next
    <3>2. TypeOK /\ Fits(c)
      BY DEF ViewInv, LockInv
    <3>3. Good(c) /\ JobScanMoves(c)
      BY <3>1, <3>2, StepIsGood, StepRows
    <3>4. QED
      BY <3>3, JobScanStep
  <2>2. CASE UNCHANGED vars
    BY <2>2 DEF vars, storage, client, NoRowRead, JobScan, Op, Visible, IsWriter
  <2>3. QED
    BY <2>1, <2>2
<1>3. QED
  BY <1>1, <1>2, ViewInvInductive, PTL DEF Spec, JobScanInv

(* However the statements of other connections fall between two rows of     *)
(* list_jobs, and inside a transaction an earlier call left open, the rows  *)
(* it has read are the selection one look at the table would give.          *)
THEOREM JobScanSnapshot == Spec => []JobScanIsSnapshot
<1>1. JobScanInv => JobScanIsSnapshot
  BY DEF JobScanInv, JobScan, JobScanIsSnapshot
<1>2. QED
  BY <1>1, JobScanInvInductive, PTL

-----------------------------------------------------------------------------
(* What stays in the file, and in a transaction that is not committed yet.  *)

(* No call deletes a worker or changes one.                                 *)
LEMMA CommitKeepsWorkers ==
    ASSUME TypeOK, NEW c \in Conn, Fits(c), ViewFits(c), pc[c] = "publish",
           NEW w \in DOMAIN disk.workers
    PROVE  w \in DOMAIN work[c].workers /\ work[c].workers[w] = disk.workers[w]
<1>1. /\ call[c] \in Request /\ disk \in Database
      /\ Op(c) \in {"migrate", "add_worker", "upsert_device", "breakdown",
                    "start_repair", "finish_repair"}
      /\ Op(c) = "migrate" => at[c] \in 1..5
      /\ Allowed(c) /\ work[c] = Effect(c, disk)
  BY PublishedCall
<1>2. CASE Op(c) = "add_worker"
  <2>1. call[c].max_jobs \in Int /\ work[c] = InsertWorker(disk, call[c].max_jobs)
    BY <1>1, <1>2, RequestFields DEF Effect, Op
  <2>2. work[c].workers = Append(disk.workers, call[c].max_jobs)
    BY <1>1, <2>1, InsertWorkerType
  <2>3. disk.workers \in Seq(Int)
    BY <1>1 DEF Database
  <2>4. QED
    BY <2>1, <2>2, <2>3
<1>3. CASE Op(c) # "add_worker"
  <2>1. work[c].workers = disk.workers
    <3>1. CASE Op(c) = "migrate"
      BY <1>1, <3>1, SchemaObjectsType, CreateObjectType DEF Effect, Op
    <3>2. CASE Op(c) = "upsert_device"
      <4>1. /\ work[c] = UpsertDevice(disk, call[c].address, call[c].row)
            /\ call[c].address \in Address /\ call[c].row \in StorableDevice
        BY <1>1, <3>2, RequestFields DEF Effect, Op
      <4>2. UpsertDevice(disk, call[c].address, call[c].row).workers = disk.workers
        BY <1>1, <4>1, UpsertDeviceType
      <4>3. QED
        BY <4>1, <4>2
    <3>3. CASE Op(c) = "breakdown"
      <4>1. work[c] = Breakdown(disk, call[c].address) /\ call[c].address \in Address
        BY <1>1, <3>3, RequestFields DEF Effect, Op
      <4>2. QED
        BY <1>1, <4>1, BreakdownType
    <3>4. CASE Op(c) = "start_repair"
      <4>1. /\ work[c] = StartJob(disk, call[c].job, call[c].worker)
            /\ call[c].job \in Int /\ call[c].worker \in Int
        BY <1>1, <3>4, RequestFields DEF Effect, Op
      <4>2. QED
        BY <1>1, <4>1, StartJobType
    <3>5. CASE Op(c) = "finish_repair"
      <4>1. work[c] = FinishRepair(disk, call[c].job) /\ call[c].job \in DOMAIN disk.jobs
        BY <1>1, <3>5 DEF Effect, Op, Allowed, JobExists
      <4>2. PICK a : a = disk.jobs[call[c].job].device
        OBVIOUS
      <4>3. FinishRepair(disk, call[c].job).workers = disk.workers
        BY <1>1, <4>1, <4>2, FinishRepairType
      <4>4. QED
        BY <4>1, <4>3
    <3>6. QED
      BY <1>1, <1>3, <3>1, <3>2, <3>3, <3>4, <3>5
  <2>2. QED
    BY <2>1
<1>4. QED
  BY <1>2, <1>3

RowsKept(old, new) ==
    /\ \A w \in DOMAIN old.workers :
         w \in DOMAIN new.workers /\ new.workers[w] = old.workers[w]
    /\ \A a \in Address : old.devices[a] # NULL => new.devices[a] # NULL
    /\ JobsKept(old, new)
    /\ \A j \in DOMAIN old.jobs : Ledger!Advances(old.jobs[j], new.jobs[j])

(* Whatever the processes do, a row of the file stays: workers as they are, *)
(* devices with changed columns, jobs at the same or a later state.         *)
THEOREM FileRowsStay == Spec => [][RowsKept(disk, disk')]_disk
<1> DEFINE Kept == /\ \A w \in DOMAIN disk.workers :
                        w \in DOMAIN disk'.workers /\ disk'.workers[w] = disk.workers[w]
                   /\ \A a \in Address :
                        disk.devices[a] # NULL => disk'.devices[a] # NULL
                   /\ JobsKept(disk, disk')
           Advance == /\ Len(disk'.jobs) >= Len(disk.jobs)
                      /\ \A j \in DOMAIN disk.jobs :
                           Ledger!Advances(disk.jobs[j], disk'.jobs[j])
<1>1. ViewInv /\ [Next]_vars => [Kept]_disk
  <2> SUFFICES ASSUME ViewInv, Next, disk' # disk
               PROVE  Kept
    BY DEF vars, storage
  <2>1. PICK c \in Conn : \/ Open(c) \/ Close(c) \/ Crash(c)
                          \/ \E r \in Requests : Invoke(c, r)
                          \/ Step(c)
    BY DEF Next
  <2>2. TypeOK /\ Fits(c) /\ ViewFits(c)
    BY DEF ViewInv, LockInv
  <2>3. pc[c] = "publish" /\ disk' = work[c]
    BY <2>1, <2>2, StepIsGood DEF Good
  <2>4. QED
    BY <2>2, <2>3, CommitKeepsWorkers, CommitKeepsDevices, CommitKeepsJobs
<1>2. [Kept]_disk /\ [Advance]_disk => [RowsKept(disk, disk')]_disk
  BY DEF RowsKept
<1>3. Spec => [][Advance]_disk
  BY FileJobsAdvance DEF Ledger!JobsOnlyAdvance
<1>4. QED
  BY <1>1, <1>2, <1>3, ViewInvInductive, PTL DEF Spec

(* What a step does to the private copy of a writer: the connection writes  *)
(* no more, takes its copy from the file, or changes the copy and loses no  *)
(* job of it.                                                               *)
CopyMoves(c) ==
    IsWriter(c)' =>
        /\ disk' = disk
        /\ \/ work'[c] = disk
           \/ IsWriter(c) /\ JobsKept(work[c], work'[c])

LEMMA SameCopy ==
    ASSUME NEW c \in Conn, disk' = disk, lock'[c] = lock[c], work'[c] = work[c]
    PROVE  CopyMoves(c)
BY DEF CopyMoves, IsWriter, JobsKept

LEMMA ReleasedCopy ==
    ASSUME TypeOK, NEW c \in Conn, DropLocks(c) \/ \E b : LockShared(c, b)
    PROVE  CopyMoves(c)
BY DEF DropLocks, LockShared, CopyMoves, IsWriter, WriteLock, TypeOK, StorageTypeOK

LEMMA WrittenCopy ==
    ASSUME TypeOK, NEW c \in Conn, Fits(c), pc[c] \in Writing,
           NEW db, Execute(c, db), JobsKept(work[c], db)
    PROVE  CopyMoves(c)
BY DEF Execute, CopyMoves, TypeOK, StorageTypeOK, Fits, LockFits

(* No write statement deletes a job, moves it or reopens a Done one.        *)
LEMMA StatementKeepsJobs ==
    ASSUME NEW db \in Database
    PROVE  /\ \A o \in SchemaObject : JobsKept(db, CreateObject(db, o))
           /\ \A m \in Int : JobsKept(db, InsertWorker(db, m))
           /\ \A a \in Address, row \in StorableDevice :
                JobsKept(db, UpsertDevice(db, a, row))
           /\ \A j \in Int, w \in Int : JobsKept(db, StartJob(db, j, w))
           /\ \A a \in Address : /\ JobsKept(db, MarkFaulty(db, a))
                                 /\ JobsKept(db, InsertJob(db, a))
                                 /\ JobsKept(db, MarkHealthy(db, a))
           /\ \A j \in DOMAIN db.jobs : JobsKept(db, FinishJob(db, j))
<1>0. \A j \in DOMAIN db.jobs : db.jobs[j] \in Job
  BY JobRowType
<1>1. \A new : new.jobs = db.jobs => JobsKept(db, new)
  BY DEF JobsKept
<1>2. \A o \in SchemaObject : JobsKept(db, CreateObject(db, o))
  BY <1>1, CreateObjectType
<1>3. \A m \in Int : JobsKept(db, InsertWorker(db, m))
  BY <1>1, InsertWorkerType
<1>4. ASSUME NEW a \in Address, NEW row \in StorableDevice
      PROVE  JobsKept(db, UpsertDevice(db, a, row))
  <2>1. UpsertDevice(db, a, row).jobs = db.jobs
    BY UpsertDeviceType
  <2>2. QED
    BY <1>1, <2>1
<1>5. ASSUME NEW j \in Int, NEW w \in Int
      PROVE  JobsKept(db, StartJob(db, j, w))
  <2> DEFINE new == StartJob(db, j, w)
  <2>1. /\ DOMAIN new.jobs = DOMAIN db.jobs
        /\ \A i \in DOMAIN db.jobs :
             new.jobs[i] = IF i = j /\ IsStartable(db, j)
                           THEN StartedJob(db.jobs[j], w) ELSE db.jobs[i]
    BY StartJobType
  <2>2. IsStartable(db, j) =>
          /\ db.jobs[j].status = "Open"
          /\ StartedJob(db.jobs[j], w).device = db.jobs[j].device
    BY <1>0 DEF IsStartable, JobExists, StartedJob, Job
  <2> HIDE DEF new
  <2>3. JobsKept(db, new)
    BY <2>1, <2>2 DEF JobsKept
  <2>4. QED
    BY <2>3 DEF new
<1>6. ASSUME NEW a \in Address
      PROVE  /\ JobsKept(db, MarkFaulty(db, a))
             /\ JobsKept(db, InsertJob(db, a))
             /\ JobsKept(db, MarkHealthy(db, a))
  <2>1. JobsKept(db, InsertJob(db, a))
    BY InsertJobType DEF JobsKept
  <2>2. MarkFaulty(db, a).jobs = db.jobs
    BY MarkFaultyType
  <2>3. MarkHealthy(db, a).jobs = db.jobs
    BY MarkHealthyType
  <2>4. QED
    BY <1>1, <2>1, <2>2, <2>3
<1>7. ASSUME NEW j \in DOMAIN db.jobs
      PROVE  JobsKept(db, FinishJob(db, j))
  <2> DEFINE new == FinishJob(db, j)
  <2>1. /\ DOMAIN new.jobs = DOMAIN db.jobs
        /\ \A i \in DOMAIN db.jobs :
             new.jobs[i] = IF i = j THEN FinishedJob(db.jobs[j]) ELSE db.jobs[i]
    BY FinishJobType
  <2>2. /\ FinishedJob(db.jobs[j]).device = db.jobs[j].device
        /\ FinishedJob(db.jobs[j]).status = "Done"
    BY <1>0 DEF FinishedJob, Job
  <2> HIDE DEF new
  <2>3. JobsKept(db, new)
    BY <2>1, <2>2 DEF JobsKept
  <2>4. QED
    BY <2>3 DEF new
<1>8. QED
  BY <1>2, <1>3, <1>4, <1>5, <1>6, <1>7

LEMMA StepCopy ==
    ASSUME TypeOK, NEW c \in Conn, Fits(c),
           \/ Open(c) \/ Close(c) \/ Crash(c)
           \/ \E r \in Requests : Invoke(c, r)
           \/ Step(c)
    PROVE  CopyMoves(c)
<1>0. work[c] \in Database /\ call[c] \in Request
  BY DEF TypeOK, StorageTypeOK
<1>1. CASE \/ Close(c) \/ Crash(c) \/ ReserveBusy(c) \/ AddWorkerFull(c)
           \/ BreakdownJobFails(c) \/ FinishRepairFails(c) \/ AutocommitBusy(c)
           \/ PublishCommit(c) \/ Lock(c)
  <2>1. DropLocks(c) \/ \E b : LockShared(c, b)
    BY <1>1 DEF Close, Crash, ReserveBusy, AddWorkerFull, BreakdownJobFails,
         FinishRepairFails, AutocommitBusy, PublishCommit, Lock, Disconnect, Unlock,
         Rollback, Publish
  <2>2. QED
    BY <2>1, ReleasedCopy
<1>2. CASE \/ Open(c) \/ (\E r \in Requests : Invoke(c, r))
           \/ NoSuchTable(c) \/ BeginInTransaction(c) \/ LockBusy(c) \/ SkipCreate(c)
           \/ UseOpenTransaction(c) \/ BreakdownNoDevices(c) \/ FinishRepairSelect(c)
           \/ ListJobsRow(c) \/ ListAddressesBusy(c) \/ SelectDeviceBusy(c)
           \/ ListDevicesDone(c)
  <2>1. UNCHANGED <<disk, lock, work>>
    BY <1>2 DEF Open, Invoke, NoSuchTable, BeginInTransaction, LockBusy, SkipCreate,
         UseOpenTransaction, BreakdownNoDevices, FinishRepairSelect, ListJobsRow,
         ListAddressesBusy, SelectDeviceBusy, ListDevicesDone, storage
  <2>2. QED
    BY <2>1, SameCopy
<1>3. CASE \/ StartRepairFails(c) \/ ListWorkers(c) \/ ListJobsDone(c)
           \/ ListAddresses(c) \/ SelectDevice(c) \/ FetchDevice(c)
  <2>1. \/ UNCHANGED <<disk, lock, work>>
        \/ DropLocks(c) \/ \E b : LockShared(c, b)
    BY <1>3 DEF StartRepairFails, ListWorkers, ListJobsDone, ListAddresses,
         SelectDevice, FetchDevice, EndStatement, Unlock, Rollback, storage
  <2>2. QED
    BY <2>1, SameCopy, ReleasedCopy
<1>4. CASE Reserve(c)
  BY <1>4 DEF Reserve, LockReserved, CopyMoves, TypeOK, StorageTypeOK
<1>5. CASE Commit(c) \/ CommitBusy(c)
  <2>1. IsWriter(c)
    BY <1>5 DEF Commit, CommitBusy, Fits, LockFits, Writing
  <2>2. disk' = disk /\ work' = work
    BY <1>5 DEF Commit, CommitBusy, LockExclusive, KeepPending
  <2>3. QED
    BY <2>1, <2>2 DEF CopyMoves, JobsKept
<1>6. CASE Create(c) \/ AddWorker(c) \/ Upsert(c) \/ StartRepair(c)
  <2>1. pc[c] \in Writing
    BY <1>6 DEF Create, AddWorker, Upsert, StartRepair, Writing
  <2>2. CASE Create(c)
    <3>1. SchemaObjects[at[c]] \in SchemaObject
      BY <2>2, SchemaObjectsType DEF Create, Fits, CallFits
    <3>2. QED
      BY <1>0, <2>1, <2>2, <3>1, StatementKeepsJobs, WrittenCopy DEF Create
  <2>3. CASE AddWorker(c)
    BY <1>0, <2>1, <2>3, RequestFields, StatementKeepsJobs, WrittenCopy
       DEF AddWorker, Op
  <2>4. CASE Upsert(c)
    BY <1>0, <2>1, <2>4, RequestFields, StatementKeepsJobs, WrittenCopy
       DEF Upsert, Op
  <2>5. CASE StartRepair(c)
    BY <1>0, <2>1, <2>5, RequestFields, StatementKeepsJobs, WrittenCopy
       DEF StartRepair, Op
  <2>6. QED
    BY <1>6, <2>2, <2>3, <2>4, <2>5
<1>7. CASE BreakdownDevice(c) \/ BreakdownJob(c)
  <2>1. Op(c) = "breakdown" /\ pc[c] \in Writing
    BY <1>7 DEF BreakdownDevice, BreakdownJob, Fits, CallFits, Writing
  <2>2. call[c].address \in Address
    BY <1>0, <2>1, RequestFields DEF Op
  <2>3. QED
    BY <1>0, <1>7, <2>1, <2>2, StatementKeepsJobs, WrittenCopy
       DEF BreakdownDevice, BreakdownJob
<1>8. CASE FinishRepairJob(c) \/ FinishRepairDevice(c)
  <2>1. call[c].job \in DOMAIN work[c].jobs /\ pc[c] \in Writing
    BY <1>8 DEF FinishRepairJob, FinishRepairDevice, Fits, CallFits, JobExists, Writing
  <2>2. work[c].jobs[call[c].job].device \in Address
    BY <1>0, <2>1, JobRowType DEF Job
  <2>3. QED
    BY <1>0, <1>8, <2>1, <2>2, StatementKeepsJobs, WrittenCopy
       DEF FinishRepairJob, FinishRepairDevice
<1>9. QED
  BY <1>1, <1>2, <1>3, <1>4, <1>5, <1>6, <1>7, <1>8 DEF Step

(* The private copy of a writer has every job of the file, also in a        *)
(* transaction that a refused COMMIT left open.                             *)
CopyHasJobs(c) == IsWriter(c) => JobsKept(disk, work[c])

LEMMA CopyStep ==
    ASSUME ViewInv, NEW c \in Conn, Good(c), CopyMoves(c),
           \A d \in Conn : CopyHasJobs(d)
    PROVE  \A d \in Conn : CopyHasJobs(d)'
<1>1. CopyHasJobs(c)'
  BY DEF CopyHasJobs, CopyMoves, JobsKept
<1>2. ASSUME NEW d \in Conn \ {c}
      PROVE  CopyHasJobs(d)'
  <2>1. lock'[d] = lock[d] /\ work'[d] = work[d]
    BY DEF Good, OthersKeep
  <2>2. lock[d] # "unlocked" => disk' = disk
    BY DEF Good, ViewInv, LockInv, Fits, LockFits, LocksCompatible
  <2>3. QED
    BY <2>1, <2>2 DEF CopyHasJobs, IsWriter, WriteLock
<1>3. QED
  BY <1>1, <1>2

LEMMA CopiesHaveJobs == Spec => [](\A c \in Conn : CopyHasJobs(c))
<1> DEFINE Copies == \A c \in Conn : CopyHasJobs(c)
<1>1. Init => Copies
  BY DEF Init, StorageInit, CopyHasJobs, IsWriter, WriteLock
<1>2. ViewInv /\ Copies /\ [Next]_vars => Copies'
  <2> SUFFICES ASSUME ViewInv, Copies, [Next]_vars
               PROVE  Copies'
    OBVIOUS
  <2>1. CASE Next
    <3>1. PICK c \in Conn : \/ Open(c) \/ Close(c) \/ Crash(c)
                            \/ \E r \in Requests : Invoke(c, r)
                            \/ Step(c)
      BY <2>1 DEF Next
    <3>2. TypeOK /\ Fits(c)
      BY DEF ViewInv, LockInv
    <3>3. QED
      BY <3>1, <3>2, StepIsGood, StepCopy, CopyStep
  <2>2. CASE UNCHANGED vars
    BY <2>2 DEF vars, storage, CopyHasJobs, IsWriter
  <2>3. QED
    BY <2>1, <2>2
<1>3. QED
  BY <1>1, <1>2, ViewInvInductive, PTL DEF Spec
=============================================================================
