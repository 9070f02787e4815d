---------------------------- MODULE EngineProofs ----------------------------
(* Theorems about Engine for any connections, addresses, requests and id    *)
(* bound.                                                                   *)
EXTENDS Engine, EsmDataLemmas

-----------------------------------------------------------------------------
(* What one storage step changes.                                           *)

(* The other connections' views are not touched.                            *)
OthersKeep(c) ==
    \A d \in Conn \ {c} :
        lock'[d] = lock[d] /\ work'[d] = work[d] /\ tx'[d] = tx[d]

LEMMA LockSharedStep ==
    ASSUME StorageTypeOK, NEW c \in Conn, NEW begins, LockShared(c, begins)
    PROVE  /\ StorageTypeOK'
           /\ OthersKeep(c)
           /\ disk' = disk
           /\ lock'[c] = "shared" /\ work'[c] = work[c] /\ tx'[c] = tx[c]
<1>1. (parsed[c] \/ ~begins) \in BOOLEAN
  OBVIOUS
<1>2. parsed' \in [Conn -> BOOLEAN]
  BY <1>1 DEF LockShared, StorageTypeOK
<1>3. QED
  BY <1>2 DEF LockShared, StorageTypeOK, OthersKeep, LockLevel

LEMMA LockReservedStep ==
    ASSUME StorageTypeOK, NEW c \in Conn, NEW begins \in BOOLEAN,
           LockReserved(c, begins)
    PROVE  /\ StorageTypeOK'
           /\ OthersKeep(c)
           /\ disk' = disk
           /\ lock'[c] = "reserved" /\ work'[c] = disk /\ tx'[c] = begins
BY DEF LockReserved, StorageTypeOK, OthersKeep, LockLevel

LEMMA ExecuteStep ==
    ASSUME StorageTypeOK, NEW c \in Conn, NEW db \in Database, Execute(c, db)
    PROVE  /\ StorageTypeOK'
           /\ OthersKeep(c)
           /\ disk' = disk
           /\ lock'[c] = lock[c] /\ work'[c] = db /\ tx'[c] = tx[c]
BY DEF Execute, StorageTypeOK, OthersKeep

LEMMA LockExclusiveStep ==
    ASSUME StorageTypeOK, NEW c \in Conn, LockExclusive(c)
    PROVE  /\ StorageTypeOK'
           /\ OthersKeep(c)
           /\ disk' = disk
           /\ lock'[c] = "exclusive" /\ work'[c] = work[c] /\ tx'[c] = tx[c]
BY DEF LockExclusive, StorageTypeOK, OthersKeep, LockLevel

LEMMA KeepPendingStep ==
    ASSUME StorageTypeOK, NEW c \in Conn, KeepPending(c)
    PROVE  /\ StorageTypeOK'
           /\ OthersKeep(c)
           /\ disk' = disk
           /\ lock'[c] = "pending" /\ work'[c] = work[c] /\ tx'[c] = tx[c]
BY DEF KeepPending, StorageTypeOK, OthersKeep, LockLevel

LEMMA DropLocksStep ==
    ASSUME StorageTypeOK, NEW c \in Conn, DropLocks(c)
    PROVE  /\ lock' \in [Conn -> LockLevel]
           /\ work' \in [Conn -> Database]
           /\ tx' \in [Conn -> BOOLEAN]
           /\ OthersKeep(c)
           /\ lock'[c] = "unlocked" /\ tx'[c] = FALSE
BY InitialDatabases DEF DropLocks, StorageTypeOK, OthersKeep, LockLevel

LEMMA UnlockStep ==
    ASSUME StorageTypeOK, NEW c \in Conn, Unlock(c)
    PROVE  /\ StorageTypeOK'
           /\ OthersKeep(c)
           /\ disk' = disk
           /\ lock'[c] = "unlocked" /\ tx'[c] = FALSE
BY DropLocksStep DEF Unlock, StorageTypeOK

LEMMA RollbackStep ==
    ASSUME StorageTypeOK, NEW c \in Conn, Rollback(c)
    PROVE  /\ StorageTypeOK'
           /\ OthersKeep(c)
           /\ disk' = disk
           /\ lock'[c] = "unlocked" /\ tx'[c] = FALSE
<1>1. (work[c].schema = disk.schema) \in BOOLEAN
  OBVIOUS
<1>2. parsed' \in [Conn -> BOOLEAN]
  BY <1>1 DEF Rollback, StorageTypeOK
<1>3. QED
  BY <1>2, DropLocksStep DEF Rollback, StorageTypeOK

LEMMA DisconnectStep ==
    ASSUME StorageTypeOK, NEW c \in Conn, Disconnect(c)
    PROVE  /\ StorageTypeOK'
           /\ OthersKeep(c)
           /\ disk' = disk
           /\ lock'[c] = "unlocked" /\ tx'[c] = FALSE
BY DropLocksStep DEF Disconnect, StorageTypeOK

LEMMA PublishStep ==
    ASSUME StorageTypeOK, NEW c \in Conn, Publish(c)
    PROVE  /\ StorageTypeOK'
           /\ OthersKeep(c)
           /\ disk' = work[c]
           /\ lock'[c] = "unlocked" /\ tx'[c] = FALSE
<1>1. work[c] \in Database
  BY DEF StorageTypeOK
<1>2. QED
  BY <1>1, DropLocksStep DEF Publish, StorageTypeOK

LEMMA NoStorageStep ==
    ASSUME StorageTypeOK, NEW c \in Conn, UNCHANGED storage
    PROVE  /\ StorageTypeOK'
           /\ OthersKeep(c)
           /\ disk' = disk
           /\ lock'[c] = lock[c] /\ work'[c] = work[c] /\ tx'[c] = tx[c]
BY DEF storage, StorageTypeOK, OthersKeep

LEMMA EndStatementStep ==
    ASSUME StorageTypeOK, NEW c \in Conn, EndStatement(c)
    PROVE  /\ StorageTypeOK'
           /\ OthersKeep(c)
           /\ disk' = disk
           /\ tx'[c] = tx[c]
           /\ tx[c] => lock'[c] = lock[c] /\ work'[c] = work[c]
           /\ ~tx[c] => lock'[c] = "unlocked"
<1>1. tx[c] \in BOOLEAN
  BY DEF StorageTypeOK
<1>2. QED
  BY <1>1, UnlockStep, NoStorageStep DEF EndStatement

(* A connection that reads the schema and does nothing else.                *)
LEMMA ParseStep ==
    ASSUME StorageTypeOK, NEW c \in Conn, parsed' = [parsed EXCEPT ![c] = TRUE],
           UNCHANGED <<disk, lock, work, tx>>
    PROVE  /\ StorageTypeOK'
           /\ OthersKeep(c)
           /\ disk' = disk
           /\ lock'[c] = lock[c] /\ work'[c] = work[c] /\ tx'[c] = tx[c]
BY DEF StorageTypeOK, OthersKeep

(* What a connection sees is a database.                                    *)
LEMMA VisibleType ==
    ASSUME StorageTypeOK, NEW c \in Conn
    PROVE  Visible(c) \in Database
BY DEF Visible, StorageTypeOK

-----------------------------------------------------------------------------
(* Calls.                                                                   *)

ClientTypeOK ==
    /\ pc \in [Conn -> Label]
    /\ call \in [Conn -> Request]
    /\ ret \in [Conn -> Answer]
    /\ at \in [Conn -> Nat]
    /\ rows \in [Conn -> Seq(Job)]
    /\ todo \in [Conn -> SUBSET Address]
    /\ found \in [Conn -> [Address -> Device \cup {NULL}]]

LEMMA TypeParts == TypeOK <=> StorageTypeOK /\ ClientTypeOK
BY DEF TypeOK, ClientTypeOK

(* The other connections' calls are not touched.                            *)
OthersWait(c) ==
    \A d \in Conn \ {c} : pc'[d] = pc[d] /\ call'[d] = call[d] /\ at'[d] = at[d]

(* The arguments of a call.                                                 *)
LEMMA RequestFields ==
    ASSUME NEW r \in Request
    PROVE  /\ r.op = "add_worker" => r.max_jobs \in Int
           /\ r.op = "upsert_device" =>
                r.address \in Address /\ r.row \in StorableDevice
           /\ r.op = "breakdown" => r.address \in Address
           /\ r.op = "start_repair" => r.job \in Int /\ r.worker \in Int
           /\ r.op = "finish_repair" => r.job \in Int
BY DEF Request

-----------------------------------------------------------------------------
(* What the control operators change.                                       *)

LEMMA GotoStep ==
    ASSUME ClientTypeOK, NEW c \in Conn, NEW label \in Label, Goto(c, label)
    PROVE  /\ ClientTypeOK' /\ OthersWait(c)
           /\ pc'[c] = label /\ call'[c] = call[c] /\ at'[c] = at[c]
BY DEF Goto, client, ClientTypeOK, OthersWait

LEMMA FinishStep ==
    ASSUME ClientTypeOK, NEW c \in Conn, NEW answer \in Answer, Finish(c, answer)
    PROVE  /\ pc' \in [Conn -> Label]
           /\ call' \in [Conn -> Request]
           /\ ret' \in [Conn -> Answer]
           /\ at' \in [Conn -> Nat]
           /\ todo' \in [Conn -> SUBSET Address]
           /\ OthersWait(c)
           /\ pc'[c] = "idle" /\ call'[c] = call[c] /\ at'[c] = 1
BY DEF Finish, ClientTypeOK, OthersWait, Label

LEMMA ForgetRowsStep ==
    ASSUME ClientTypeOK, NEW c \in Conn, ForgetRows(c)
    PROVE  /\ rows' \in [Conn -> Seq(Job)]
           /\ found' \in [Conn -> [Address -> Device \cup {NULL}]]
<1>1. << >> \in Seq(Job)
  BY EmptySeq
<1>2. NoRows \in [Address -> Device \cup {NULL}]
  BY DEF NoRows
<1>3. QED
  BY <1>1, <1>2 DEF ForgetRows, ClientTypeOK

LEMMA ReturnStep ==
    ASSUME ClientTypeOK, NEW c \in Conn, NEW id \in Nat, Return(c, id)
    PROVE  /\ ClientTypeOK' /\ OthersWait(c)
           /\ pc'[c] = "idle" /\ call'[c] = call[c] /\ at'[c] = 1
<1>1. [ok |-> TRUE, why |-> "", id |-> id] \in Answer
  BY DEF Answer, Reason
<1>2. rows' = rows /\ found' = found
  BY DEF Return
<1>3. QED
  BY <1>1, <1>2, FinishStep DEF Return, ClientTypeOK

LEMMA RaiseStep ==
    ASSUME ClientTypeOK, NEW c \in Conn, NEW why \in Reason, Raise(c, why)
    PROVE  /\ ClientTypeOK' /\ OthersWait(c)
           /\ pc'[c] = "idle" /\ call'[c] = call[c] /\ at'[c] = 1
<1>1. [ok |-> FALSE, why |-> why, id |-> 0] \in Answer
  BY DEF Answer
<1>2. QED
  BY <1>1, FinishStep, ForgetRowsStep DEF Raise, ClientTypeOK

LEMMA NextStatementStep ==
    ASSUME ClientTypeOK, NEW c \in Conn, NextStatement(c)
    PROVE  /\ ClientTypeOK' /\ OthersWait(c)
           /\ call'[c] = call[c]
           /\ \/ at[c] = 5 /\ pc'[c] = "idle" /\ at'[c] = 1
              \/ at[c] # 5 /\ pc'[c] = "prepare" /\ at'[c] = at[c] + 1
<1>0. Len(SchemaObjects) = 5
  BY SchemaObjectsType
<1>1. CASE at[c] = 5
  BY <1>0, <1>1, ReturnStep DEF NextStatement
<1>2. CASE at[c] # 5
  <2>1. /\ pc' = [pc EXCEPT ![c] = "prepare"]
        /\ at' = [at EXCEPT ![c] = at[c] + 1]
        /\ UNCHANGED <<call, ret, rows, todo, found>>
    BY <1>0, <1>2 DEF NextStatement
  <2>2. at[c] + 1 \in Nat
    BY DEF ClientTypeOK
  <2>3. QED
    BY <1>2, <2>1, <2>2 DEF ClientTypeOK, OthersWait, Label
<1>3. QED
  BY <1>1, <1>2

-----------------------------------------------------------------------------
(* What every step keeps of the connection that takes it: the lock that     *)
(* fits the place of its call, and the call that fits that place.           *)

Writing == {"execute", "insert_job", "update_job", "update_device", "commit",
            "publish"}

LockFits(c) ==
    /\ tx[c] => IsWriter(c) /\ pc[c] \notin {"closed", "reserve"}
    /\ pc[c] \in {"closed", "idle", "prepare", "select_device"} /\ ~tx[c]
         => lock[c] = "unlocked"
    /\ pc[c] \in {"reserve", "rows", "addresses", "fetch_device"} /\ ~tx[c]
         => lock[c] = "shared"
    /\ pc[c] \in Writing => IsWriter(c)
    /\ pc[c] = "publish" => lock[c] = "exclusive"

CallFits(c) ==
    /\ at[c] # 0
    /\ pc[c] \in {"closed", "idle"} => at[c] = 1
    /\ Op(c) = "migrate" /\ pc[c] \notin {"closed", "idle"} => at[c] \in 1..5
    /\ pc[c] \in Writing \cup {"reserve"} => ~IsRead(c)
    /\ pc[c] \in {"rows", "addresses", "select_device", "fetch_device"} => IsRead(c)
    /\ pc[c] = "execute" /\ IsTransaction(c) => tx[c]
    /\ pc[c] = "insert_job" => Op(c) = "breakdown" /\ tx[c]
    /\ pc[c] \in {"update_job", "update_device"} =>
         Op(c) = "finish_repair" /\ tx[c] /\ JobExists(work[c], call[c].job)
    /\ pc[c] \in {"commit", "publish"} => (IsTransaction(c) <=> tx[c])

Fits(c) == LockFits(c) /\ CallFits(c)

(* The ways one step changes the lock of its connection, each behind the    *)
(* test of the locks of the others that SQLite makes.                       *)
LockMoves(c) ==
    \/ lock'[c] \in {lock[c], "unlocked"}
    \/ lock'[c] = "shared" /\ ~SharedRefused(c)
    \/ lock'[c] = "reserved" /\ ~ReservedRefused(c)
    \/ lock'[c] = "pending" /\ IsWriter(c)
    \/ lock'[c] = "exclusive" /\ ~ExclusiveRefused(c)

Good(c) ==
    /\ TypeOK' /\ Fits(c)'
    /\ OthersKeep(c) /\ OthersWait(c)
    /\ LockMoves(c)
    /\ disk' = disk \/ (pc[c] = "publish" /\ disk' = work[c])

LEMMA IdleFits ==
    ASSUME NEW c \in Conn, StorageTypeOK', OthersKeep(c), ClientTypeOK',
           OthersWait(c), LockMoves(c), pc'[c] \in {"closed", "idle"}, at'[c] = 1,
           disk' = disk \/ (pc[c] = "publish" /\ disk' = work[c]),
           tx'[c] => IsWriter(c)' /\ pc'[c] = "idle",
           ~tx'[c] => lock'[c] = "unlocked"
    PROVE  Good(c)
<1>1. TypeOK'
  BY TypeParts DEF TypeOK, StorageTypeOK, ClientTypeOK
<1>2. LockFits(c)'
  BY DEF LockFits, Writing
<1>3. CallFits(c)'
  BY DEF CallFits, Writing
<1>4. QED
  BY <1>1, <1>2, <1>3 DEF Good, Fits

(* Answers given without a step of the storage.                             *)
LEMMA AnswerFits ==
    ASSUME TypeOK, NEW c \in Conn, Fits(c), UNCHANGED storage,
           \/ BeginInTransaction(c) \/ LockBusy(c)
           \/ BreakdownNoDevices(c) \/ ListAddressesBusy(c)
           \/ SelectDeviceBusy(c) \/ ListDevicesDone(c)
    PROVE  Good(c)
<1>1. /\ pc[c] \in {"prepare", "select_device"} \/ tx[c]
      /\ \/ \E why \in Reason : Raise(c, why)
         \/ Return(c, 0)
  BY DEF BeginInTransaction, LockBusy, BreakdownNoDevices,
         ListAddressesBusy, SelectDeviceBusy, ListDevicesDone, Reason, Fits,
         CallFits, IsTransaction
<1>2. ClientTypeOK' /\ OthersWait(c) /\ pc'[c] = "idle" /\ at'[c] = 1
  BY <1>1, TypeParts, RaiseStep, ReturnStep
<1>3. /\ StorageTypeOK' /\ OthersKeep(c) /\ disk' = disk
      /\ lock'[c] = lock[c] /\ tx'[c] = tx[c]
  BY TypeParts, NoStorageStep
<1>4. /\ tx[c] => IsWriter(c)
      /\ ~tx[c] => lock[c] = "unlocked"
  BY <1>1 DEF Fits, LockFits
<1>5. QED
  BY <1>2, <1>3, <1>4, IdleFits DEF LockMoves, IsWriter

(* The same, where sqlite3_prepare_v2 has read the schema.                  *)
LEMMA NoSuchTableFits ==
    ASSUME TypeOK, NEW c \in Conn, Fits(c), NoSuchTable(c)
    PROVE  Good(c)
<1>1. "no such table" \in Reason
  BY DEF Reason
<1>2. ClientTypeOK' /\ OthersWait(c) /\ pc'[c] = "idle" /\ at'[c] = 1
  BY <1>1, TypeParts, RaiseStep DEF NoSuchTable
<1>3. /\ StorageTypeOK' /\ OthersKeep(c) /\ disk' = disk
      /\ lock'[c] = lock[c] /\ tx'[c] = tx[c]
  BY TypeParts, ParseStep DEF NoSuchTable
<1>4. /\ tx[c] => IsWriter(c)
      /\ ~tx[c] => lock[c] = "unlocked"
  BY DEF Fits, LockFits, NoSuchTable
<1>5. QED
  BY <1>2, <1>3, <1>4, IdleFits DEF LockMoves, IsWriter

(* Answers that free the lock, and the end of a connection.                 *)
LEMMA ReleaseFits ==
    ASSUME TypeOK, NEW c \in Conn, Fits(c),
           \/ ReserveBusy(c) \/ AddWorkerFull(c) \/ BreakdownJobFails(c)
           \/ FinishRepairFails(c) \/ AutocommitBusy(c)
    PROVE  Good(c)
<1>1. /\ Unlock(c) \/ Rollback(c)
      /\ \E why \in Reason : Raise(c, why)
  BY DEF ReserveBusy, AddWorkerFull, BreakdownJobFails, FinishRepairFails,
         AutocommitBusy, Reason
<1>2. ClientTypeOK' /\ OthersWait(c) /\ pc'[c] = "idle" /\ at'[c] = 1
  BY <1>1, TypeParts, RaiseStep
<1>3. /\ StorageTypeOK' /\ OthersKeep(c) /\ disk' = disk
      /\ lock'[c] = "unlocked" /\ tx'[c] = FALSE
  BY <1>1, TypeParts, UnlockStep, RollbackStep
<1>4. QED
  BY <1>2, <1>3, IdleFits DEF LockMoves

LEMMA CloseFits ==
    ASSUME TypeOK, NEW c \in Conn, Fits(c), Close(c)
    PROVE  Good(c)
<1>1. "closed" \in Label
  BY DEF Label
<1>2. /\ ClientTypeOK' /\ OthersWait(c) /\ pc'[c] = "closed"
      /\ at'[c] = at[c]
  BY <1>1, TypeParts, GotoStep DEF Close
<1>3. /\ StorageTypeOK' /\ OthersKeep(c) /\ disk' = disk
      /\ lock'[c] = "unlocked" /\ tx'[c] = FALSE
  BY TypeParts, DisconnectStep DEF Close
<1>4. at[c] = 1
  BY DEF Close, Fits, CallFits
<1>5. QED
  BY <1>2, <1>3, <1>4, IdleFits DEF LockMoves

LEMMA CrashFits ==
    ASSUME TypeOK, NEW c \in Conn, Fits(c), Crash(c)
    PROVE  Good(c)
<1>0. ClientTypeOK
  BY TypeParts
<1>1. /\ rows' \in [Conn -> Seq(Job)]
      /\ found' \in [Conn -> [Address -> Device \cup {NULL}]]
  BY <1>0, ForgetRowsStep DEF Crash
<1>2. /\ pc' \in [Conn -> Label] /\ at' \in [Conn -> Nat]
      /\ todo' \in [Conn -> SUBSET Address]
      /\ OthersWait(c) /\ pc'[c] = "closed" /\ at'[c] = 1
  BY <1>0 DEF Crash, ClientTypeOK, Label, OthersWait
<1>3. ClientTypeOK'
  BY <1>0, <1>1, <1>2 DEF Crash, ClientTypeOK
<1>4. /\ StorageTypeOK' /\ OthersKeep(c) /\ disk' = disk
      /\ lock'[c] = "unlocked" /\ tx'[c] = FALSE
  BY TypeParts, DisconnectStep DEF Crash
<1>5. QED
  BY <1>2, <1>3, <1>4, IdleFits DEF LockMoves

LEMMA OpenFits ==
    ASSUME TypeOK, NEW c \in Conn, Fits(c), Open(c)
    PROVE  Good(c)
<1>1. "idle" \in Label
  BY DEF Label
<1>2. ClientTypeOK' /\ OthersWait(c) /\ pc'[c] = "idle" /\ at'[c] = at[c]
  BY <1>1, TypeParts, GotoStep DEF Open
<1>3. /\ StorageTypeOK' /\ OthersKeep(c) /\ disk' = disk
      /\ lock'[c] = lock[c] /\ tx'[c] = tx[c]
  BY TypeParts, NoStorageStep DEF Open
<1>4. at[c] = 1 /\ ~tx[c] /\ lock[c] = "unlocked"
  BY DEF Open, Fits, CallFits, LockFits
<1>5. QED
  BY <1>2, <1>3, <1>4, IdleFits DEF LockMoves

LEMMA InvokeFits ==
    ASSUME TypeOK, NEW c \in Conn, Fits(c), NEW r \in Requests, Invoke(c, r)
    PROVE  Good(c)
<1>0. ClientTypeOK /\ r \in Request
  BY TypeParts, RequestsAssumption
<1>1. /\ rows' \in [Conn -> Seq(Job)]
      /\ found' \in [Conn -> [Address -> Device \cup {NULL}]]
  BY <1>0, ForgetRowsStep DEF Invoke
<1>2. /\ pc' \in [Conn -> Label] /\ call' \in [Conn -> Request]
      /\ ret' \in [Conn -> Answer]
      /\ OthersWait(c) /\ pc'[c] = "prepare" /\ at'[c] = at[c]
  BY <1>0 DEF Invoke, ClientTypeOK, Label, NoAnswer, Answer, Reason, OthersWait
<1>3. ClientTypeOK'
  BY <1>0, <1>1, <1>2 DEF Invoke, ClientTypeOK
<1>4. /\ StorageTypeOK' /\ OthersKeep(c) /\ disk' = disk
      /\ lock'[c] = lock[c] /\ tx'[c] = tx[c]
  BY TypeParts, NoStorageStep DEF Invoke
<1>5. LockFits(c)'
  BY <1>2, <1>4 DEF Invoke, Fits, LockFits, IsWriter, Writing
<1>6. CallFits(c)'
  BY <1>2 DEF Invoke, Fits, CallFits, Writing
<1>7. QED
  BY <1>2, <1>3, <1>4, <1>5, <1>6, TypeParts
  DEF Good, Fits, LockMoves, TypeOK, StorageTypeOK, ClientTypeOK

(* A step of the storage that leaves type and view of the file right,       *)
(* followed by a step of the call that does.                                *)
LEMMA StepFits ==
    ASSUME NEW c \in Conn, StorageTypeOK', OthersKeep(c), ClientTypeOK',
           OthersWait(c), LockMoves(c), LockFits(c)', CallFits(c)',
           disk' = disk \/ (pc[c] = "publish" /\ disk' = work[c])
    PROVE  Good(c)
BY DEF Good, Fits, TypeOK, StorageTypeOK, ClientTypeOK

LEMMA SkipCreateFits ==
    ASSUME TypeOK, NEW c \in Conn, Fits(c), SkipCreate(c)
    PROVE  Good(c)
<1>1. /\ pc[c] = "prepare" /\ Op(c) = "migrate" /\ at[c] \in 1..5
  BY DEF SkipCreate, ObjectExists, Fits, CallFits
<1>2. /\ ClientTypeOK' /\ OthersWait(c) /\ call'[c] = call[c]
      /\ \/ at[c] = 5 /\ pc'[c] = "idle" /\ at'[c] = 1
         \/ at[c] # 5 /\ pc'[c] = "prepare" /\ at'[c] = at[c] + 1
  BY TypeParts, NextStatementStep DEF SkipCreate
<1>3. /\ StorageTypeOK' /\ OthersKeep(c) /\ disk' = disk
      /\ lock'[c] = lock[c] /\ tx'[c] = tx[c]
  BY TypeParts, ParseStep DEF SkipCreate
<1>4. LockFits(c)'
  BY <1>1, <1>2, <1>3 DEF Fits, LockFits, IsWriter, Writing
<1>5. CallFits(c)'
  BY <1>1, <1>2 DEF CallFits, Op, Writing
<1>6. QED
  BY <1>2, <1>3, <1>4, <1>5, StepFits DEF LockMoves

LEMMA LockingFits ==
    ASSUME TypeOK, NEW c \in Conn, Fits(c), Lock(c)
    PROVE  Good(c)
<1> DEFINE label == IF IsRead(c) THEN FirstStep(c) ELSE "reserve"
<1>1. /\ label \in {"reserve", "rows", "addresses"}
      /\ label = "reserve" => ~IsRead(c)
  BY DEF FirstStep, IsRead
<1>2. /\ ClientTypeOK' /\ OthersWait(c) /\ pc'[c] = label
      /\ call'[c] = call[c] /\ at'[c] = at[c]
  BY <1>1, TypeParts, GotoStep DEF Lock, Label
<1>3. /\ StorageTypeOK' /\ OthersKeep(c) /\ disk' = disk
      /\ lock'[c] = "shared" /\ tx'[c] = tx[c]
      /\ ~SharedRefused(c)
  BY TypeParts, LockSharedStep DEF Lock, LockShared
<1>4. pc[c] = "prepare" /\ ~tx[c]
  BY DEF Lock
<1>5. LockFits(c)'
  BY <1>1, <1>2, <1>3, <1>4 DEF LockFits, Writing
<1>6. CallFits(c)'
  BY <1>1, <1>2, <1>4 DEF Fits, CallFits, Op, IsRead, FirstStep, Writing
<1>7. QED
  BY <1>2, <1>3, <1>5, <1>6, StepFits DEF LockMoves

LEMMA UseOpenTransactionFits ==
    ASSUME TypeOK, NEW c \in Conn, Fits(c), UseOpenTransaction(c)
    PROVE  Good(c)
<1>1. /\ FirstStep(c) \in {"execute", "rows", "addresses"}
      /\ FirstStep(c) = "execute" => ~IsRead(c)
  BY DEF FirstStep, IsRead
<1>2. /\ ClientTypeOK' /\ OthersWait(c) /\ pc'[c] = FirstStep(c)
      /\ call'[c] = call[c] /\ at'[c] = at[c]
  BY <1>1, TypeParts, GotoStep DEF UseOpenTransaction, Label
<1>3. /\ StorageTypeOK' /\ OthersKeep(c) /\ disk' = disk
      /\ lock'[c] = lock[c] /\ tx'[c] = tx[c]
  BY TypeParts, NoStorageStep DEF UseOpenTransaction
<1>4. pc[c] = "prepare" /\ tx[c]
  BY DEF UseOpenTransaction
<1>5. LockFits(c)'
  BY <1>1, <1>2, <1>3, <1>4 DEF Fits, LockFits, IsWriter, Writing
<1>6. CallFits(c)'
  BY <1>1, <1>2, <1>3, <1>4 DEF Fits, CallFits, Op, IsRead, FirstStep, Writing
<1>7. QED
  BY <1>2, <1>3, <1>5, <1>6, StepFits DEF LockMoves

LEMMA ReserveFits ==
    ASSUME TypeOK, NEW c \in Conn, Fits(c), Reserve(c)
    PROVE  Good(c)
<1>1. IsTransaction(c) \in BOOLEAN /\ "execute" \in Label
  BY DEF IsTransaction, Label
<1>2. /\ ClientTypeOK' /\ OthersWait(c) /\ pc'[c] = "execute"
      /\ call'[c] = call[c] /\ at'[c] = at[c]
  BY <1>1, TypeParts, GotoStep DEF Reserve
<1>3. /\ StorageTypeOK' /\ OthersKeep(c) /\ disk' = disk
      /\ lock'[c] = "reserved" /\ tx'[c] = IsTransaction(c)
      /\ ~ReservedRefused(c)
  BY <1>1, TypeParts, LockReservedStep DEF Reserve, LockReserved
<1>4. LockFits(c)'
  BY <1>2, <1>3 DEF LockFits, IsWriter, WriteLock, Writing
<1>5. CallFits(c)'
  BY <1>2, <1>3 DEF Reserve, Fits, CallFits, Op, IsRead, IsTransaction, Writing
<1>6. QED
  BY <1>2, <1>3, <1>4, <1>5, StepFits DEF LockMoves

-----------------------------------------------------------------------------
(* Calls that write.                                                        *)

LEMMA ExecuteFits ==
    ASSUME TypeOK, NEW c \in Conn, NEW db \in Database, Execute(c, db)
    PROVE  /\ StorageTypeOK' /\ OthersKeep(c) /\ disk' = disk
           /\ lock'[c] = lock[c] /\ work'[c] = db /\ tx'[c] = tx[c]
           /\ LockMoves(c)
BY TypeParts, ExecuteStep DEF LockMoves

LEMMA AfterWriteFits ==
    ASSUME TypeOK, NEW c \in Conn, Fits(c),
           pc[c] = "execute", ~IsTransaction(c),
           NEW db \in Database, Execute(c, db), NEW id \in Nat, AfterWrite(c, id)
    PROVE  Good(c)
<1>1. /\ StorageTypeOK' /\ OthersKeep(c) /\ disk' = disk
      /\ lock'[c] = lock[c] /\ tx'[c] = tx[c]
      /\ LockMoves(c)
  BY ExecuteFits
<1>2. IsWriter(c) /\ ~IsRead(c) /\ (Op(c) = "migrate" => at[c] \in 1..5)
  BY DEF Fits, LockFits, CallFits, Writing
<1>3. CASE ~tx[c]
  <2>1. Goto(c, "commit") /\ "commit" \in Label
    BY <1>3 DEF AfterWrite, Label
  <2>2. /\ ClientTypeOK' /\ OthersWait(c) /\ pc'[c] = "commit"
        /\ call'[c] = call[c] /\ at'[c] = at[c]
    BY <2>1, TypeParts, GotoStep
  <2>3. LockFits(c)'
    BY <1>1, <1>2, <1>3, <2>2 DEF LockFits, IsWriter, Writing
  <2>4. CallFits(c)'
    BY <1>1, <1>2, <1>3, <2>2 DEF Fits, CallFits, Op, IsRead, IsTransaction, Writing
  <2>5. QED
    BY <1>1, <2>2, <2>3, <2>4, StepFits
<1>4. CASE tx[c] /\ Op(c) = "migrate"
  <2>1. /\ ClientTypeOK' /\ OthersWait(c) /\ call'[c] = call[c]
        /\ \/ at[c] = 5 /\ pc'[c] = "idle" /\ at'[c] = 1
           \/ at[c] # 5 /\ pc'[c] = "prepare" /\ at'[c] = at[c] + 1
    BY <1>4, TypeParts, NextStatementStep DEF AfterWrite
  <2>2. LockFits(c)'
    BY <1>1, <1>2, <1>4, <2>1 DEF LockFits, IsWriter, Writing
  <2>3. CallFits(c)'
    BY <1>2, <1>4, <2>1 DEF CallFits, Op, Writing
  <2>4. QED
    BY <1>1, <2>1, <2>2, <2>3, StepFits
<1>5. CASE tx[c] /\ Op(c) # "migrate"
  <2>1. ClientTypeOK' /\ OthersWait(c) /\ pc'[c] = "idle" /\ at'[c] = 1
    BY <1>5, TypeParts, ReturnStep DEF AfterWrite
  <2>2. QED
    BY <1>1, <1>2, <1>5, <2>1, IdleFits DEF IsWriter
<1>6. QED
  BY <1>3, <1>4, <1>5

LEMMA WriteFits ==
    ASSUME TypeOK, NEW c \in Conn, Fits(c),
           Create(c) \/ AddWorker(c) \/ Upsert(c) \/ StartRepair(c)
    PROVE  Good(c)
<1>0. work[c] \in Database /\ call[c] \in Request
  BY DEF TypeOK, StorageTypeOK
<1>1. CASE Create(c)
  <2>1. at[c] \in 1..5
    BY <1>1 DEF Create, Fits, CallFits
  <2>2. CreateObject(work[c], SchemaObjects[at[c]]) \in Database
    BY <1>0, <2>1, SchemaObjectsType, CreateObjectType
  <2>3. QED
    BY <1>1, <2>2, AfterWriteFits DEF Create, IsTransaction
<1>2. CASE AddWorker(c)
  <2>1. InsertWorker(work[c], call[c].max_jobs) \in Database
    BY <1>0, <1>2, RequestFields, InsertWorkerType DEF AddWorker, Op
  <2>2. Len(work[c].workers) + 1 \in Nat
    BY <1>0 DEF Database
  <2>3. QED
    BY <1>2, <2>1, <2>2, AfterWriteFits DEF AddWorker, IsTransaction
<1>3. CASE Upsert(c)
  <2>1. UpsertDevice(work[c], call[c].address, call[c].row) \in Database
    BY <1>0, <1>3, RequestFields, UpsertDeviceType DEF Upsert, Op
  <2>2. QED
    BY <1>3, <2>1, AfterWriteFits DEF Upsert, IsTransaction
<1>4. CASE StartRepair(c)
  <2>1. StartJob(work[c], call[c].job, call[c].worker) \in Database
    BY <1>0, <1>4, RequestFields, StartJobType DEF StartRepair, Op
  <2>2. QED
    BY <1>4, <2>1, AfterWriteFits DEF StartRepair, IsTransaction
<1>5. QED
  BY <1>1, <1>2, <1>3, <1>4

LEMMA StartRepairFailsFits ==
    ASSUME TypeOK, NEW c \in Conn, Fits(c), StartRepairFails(c)
    PROVE  Good(c)
<1>1. "foreign key" \in Reason
  BY DEF Reason
<1>2. ClientTypeOK' /\ OthersWait(c) /\ pc'[c] = "idle" /\ at'[c] = 1
  BY <1>1, TypeParts, RaiseStep DEF StartRepairFails
<1>3. CASE tx[c]
  <2>1. /\ StorageTypeOK' /\ OthersKeep(c) /\ disk' = disk
        /\ lock'[c] = lock[c] /\ tx'[c] = tx[c]
    BY <1>3, TypeParts, NoStorageStep DEF StartRepairFails
  <2>2. IsWriter(c)
    BY <1>3 DEF Fits, LockFits
  <2>3. QED
    BY <1>2, <1>3, <2>1, <2>2, IdleFits DEF LockMoves, IsWriter
<1>4. CASE ~tx[c]
  <2>1. /\ StorageTypeOK' /\ OthersKeep(c) /\ disk' = disk
        /\ lock'[c] = "unlocked" /\ tx'[c] = FALSE
    BY <1>4, TypeParts, RollbackStep DEF StartRepairFails
  <2>2. QED
    BY <1>2, <2>1, IdleFits DEF LockMoves
<1>5. QED
  BY <1>3, <1>4

(* The statements inside breakdown's and finish_repair's transactions.      *)
LEMMA TransactionFits ==
    ASSUME TypeOK, NEW c \in Conn, Fits(c), tx[c], pc[c] \in Writing,
           NEW label \in {"insert_job", "update_job", "update_device", "commit"},
           Goto(c, label), IsTransaction(c),
           StorageTypeOK', OthersKeep(c), disk' = disk,
           lock'[c] = lock[c], tx'[c] = tx[c],
           label = "insert_job" => Op(c) = "breakdown",
           label \in {"update_job", "update_device"} =>
               Op(c) = "finish_repair" /\ JobExists(work'[c], call[c].job)
    PROVE  Good(c)
<1>1. /\ ClientTypeOK' /\ OthersWait(c) /\ pc'[c] = label
      /\ call'[c] = call[c] /\ at'[c] = at[c]
  BY TypeParts, GotoStep DEF Label
<1>2. LockFits(c)'
  BY <1>1 DEF Fits, LockFits, IsWriter, Writing
<1>3. CallFits(c)'
  BY <1>1 DEF Fits, CallFits, Op, IsRead, IsTransaction, Writing
<1>4. QED
  BY <1>1, <1>2, <1>3, StepFits DEF LockMoves

LEMMA BreakdownFits ==
    ASSUME TypeOK, NEW c \in Conn, Fits(c), BreakdownDevice(c) \/ BreakdownJob(c)
    PROVE  Good(c)
<1>1. Op(c) = "breakdown" /\ tx[c] /\ pc[c] \in Writing /\ IsTransaction(c)
  BY DEF BreakdownDevice, BreakdownJob, Fits, CallFits, IsTransaction, Writing
<1>2. work[c] \in Database /\ call[c].address \in Address
  BY <1>1, RequestFields DEF TypeOK, StorageTypeOK, Op
<1>3. CASE BreakdownDevice(c)
  <2>1. MarkFaulty(work[c], call[c].address) \in Database
    BY <1>2, MarkFaultyType
  <2>2. QED
    BY <1>1, <1>3, <2>1, ExecuteFits, TransactionFits DEF BreakdownDevice
<1>4. CASE BreakdownJob(c)
  <2>1. InsertJob(work[c], call[c].address) \in Database
    BY <1>2, InsertJobType
  <2>2. QED
    BY <1>1, <1>4, <2>1, ExecuteFits, TransactionFits DEF BreakdownJob
<1>5. QED
  BY <1>3, <1>4

LEMMA FinishRepairFits ==
    ASSUME TypeOK, NEW c \in Conn, Fits(c),
           FinishRepairSelect(c) \/ FinishRepairJob(c) \/ FinishRepairDevice(c)
    PROVE  Good(c)
<1>1. /\ Op(c) = "finish_repair" /\ tx[c] /\ pc[c] \in Writing
      /\ IsTransaction(c) /\ JobExists(work[c], call[c].job)
  BY DEF FinishRepairSelect, FinishRepairJob, FinishRepairDevice, Fits, CallFits,
         IsTransaction, Writing
<1>2. work[c] \in Database /\ call[c].job \in DOMAIN work[c].jobs
  BY <1>1 DEF TypeOK, StorageTypeOK, JobExists
<1>3. CASE FinishRepairSelect(c)
  <2>1. /\ StorageTypeOK' /\ OthersKeep(c) /\ disk' = disk
        /\ lock'[c] = lock[c] /\ work'[c] = work[c] /\ tx'[c] = tx[c]
    BY <1>3, TypeParts, NoStorageStep DEF FinishRepairSelect
  <2>2. QED
    BY <1>1, <1>3, <2>1, TransactionFits DEF FinishRepairSelect
<1>4. CASE FinishRepairJob(c)
  <2>1. /\ FinishJob(work[c], call[c].job) \in Database
        /\ JobExists(FinishJob(work[c], call[c].job), call[c].job)
    BY <1>2, FinishJobType DEF JobExists
  <2>2. QED
    BY <1>1, <1>4, <2>1, ExecuteFits, TransactionFits DEF FinishRepairJob
<1>5. CASE FinishRepairDevice(c)
  <2>1. work[c].jobs[call[c].job].device \in Address
    BY <1>2, JobRowType DEF Job
  <2>2. MarkHealthy(work[c], work[c].jobs[call[c].job].device) \in Database
    BY <1>2, <2>1, MarkHealthyType
  <2>3. QED
    BY <1>1, <1>5, <2>2, ExecuteFits, TransactionFits DEF FinishRepairDevice
<1>6. QED
  BY <1>3, <1>4, <1>5

-----------------------------------------------------------------------------
(* Commits.                                                                 *)

LEMMA CommitFits ==
    ASSUME TypeOK, NEW c \in Conn, Fits(c), Commit(c)
    PROVE  Good(c)
<1>1. "publish" \in Label /\ pc[c] = "commit"
  BY DEF Commit, Label
<1>2. /\ ClientTypeOK' /\ OthersWait(c) /\ pc'[c] = "publish"
      /\ call'[c] = call[c] /\ at'[c] = at[c]
  BY <1>1, TypeParts, GotoStep DEF Commit
<1>3. /\ StorageTypeOK' /\ OthersKeep(c) /\ disk' = disk
      /\ lock'[c] = "exclusive" /\ tx'[c] = tx[c]
      /\ ~ExclusiveRefused(c)
  BY TypeParts, LockExclusiveStep DEF Commit, LockExclusive
<1>4. LockFits(c)'
  BY <1>2, <1>3 DEF LockFits, IsWriter, WriteLock, Writing
<1>5. CallFits(c)'
  BY <1>1, <1>2, <1>3 DEF Fits, CallFits, Op, IsRead, IsTransaction, Writing
<1>6. QED
  BY <1>2, <1>3, <1>4, <1>5, StepFits DEF LockMoves

LEMMA CommitBusyFits ==
    ASSUME TypeOK, NEW c \in Conn, Fits(c), CommitBusy(c)
    PROVE  Good(c)
<1>1. "busy" \in Reason
  BY DEF Reason
<1>2. ClientTypeOK' /\ OthersWait(c) /\ pc'[c] = "idle" /\ at'[c] = 1
  BY <1>1, TypeParts, RaiseStep DEF CommitBusy
<1>3. /\ StorageTypeOK' /\ OthersKeep(c) /\ disk' = disk
      /\ lock'[c] = "pending" /\ tx'[c] = tx[c] /\ tx[c]
  BY TypeParts, KeepPendingStep DEF CommitBusy
<1>4. IsWriter(c) /\ IsWriter(c)'
  BY <1>3 DEF Fits, LockFits, IsWriter, WriteLock
<1>5. QED
  BY <1>2, <1>3, <1>4, IdleFits DEF LockMoves

LEMMA PublishFits ==
    ASSUME TypeOK, NEW c \in Conn, Fits(c), PublishCommit(c)
    PROVE  Good(c)
<1>1. /\ StorageTypeOK' /\ OthersKeep(c) /\ disk' = work[c] /\ pc[c] = "publish"
      /\ lock'[c] = "unlocked" /\ tx'[c] = FALSE
      /\ LockMoves(c)
  BY TypeParts, PublishStep DEF PublishCommit, LockMoves
<1>2. CASE Op(c) = "migrate"
  <2>1. at[c] \in 1..5
    BY <1>1, <1>2 DEF Fits, CallFits
  <2>2. /\ ClientTypeOK' /\ OthersWait(c) /\ call'[c] = call[c]
        /\ \/ at[c] = 5 /\ pc'[c] = "idle" /\ at'[c] = 1
           \/ at[c] # 5 /\ pc'[c] = "prepare" /\ at'[c] = at[c] + 1
    BY <1>2, TypeParts, NextStatementStep DEF PublishCommit
  <2>3. LockFits(c)'
    BY <1>1, <2>2 DEF LockFits, Writing
  <2>4. CallFits(c)'
    BY <1>2, <2>1, <2>2 DEF CallFits, Op, Writing
  <2>5. QED
    BY <1>1, <2>2, <2>3, <2>4, StepFits
<1>3. CASE Op(c) # "migrate"
  <2>1. work[c] \in Database
    BY DEF TypeOK, StorageTypeOK
  <2>2. Len(work[c].workers) \in Nat /\ Len(work[c].jobs) \in Nat
    BY <2>1 DEF Database
  <2>3. InsertedId(c) \in Nat
    BY <2>2 DEF InsertedId
  <2>4. ClientTypeOK' /\ OthersWait(c) /\ pc'[c] = "idle" /\ at'[c] = 1
    BY <1>3, <2>3, TypeParts, ReturnStep DEF PublishCommit
  <2>5. QED
    BY <1>1, <2>4, IdleFits
<1>4. QED
  BY <1>2, <1>3

-----------------------------------------------------------------------------
(* Calls that read.                                                         *)

LEMMA ListDoneFits ==
    ASSUME TypeOK, NEW c \in Conn, Fits(c), ListWorkers(c) \/ ListJobsDone(c)
    PROVE  Good(c)
<1>1. EndStatement(c) /\ Return(c, 0)
  BY DEF ListWorkers, ListJobsDone
<1>2. ClientTypeOK' /\ OthersWait(c) /\ pc'[c] = "idle" /\ at'[c] = 1
  BY <1>1, TypeParts, ReturnStep
<1>3. /\ StorageTypeOK' /\ OthersKeep(c) /\ disk' = disk /\ tx'[c] = tx[c]
      /\ tx[c] => lock'[c] = lock[c]
      /\ ~tx[c] => lock'[c] = "unlocked"
  BY <1>1, TypeParts, EndStatementStep
<1>4. tx[c] => IsWriter(c)
  BY DEF Fits, LockFits
<1>5. QED
  BY <1>2, <1>3, <1>4, IdleFits DEF LockMoves, IsWriter

LEMMA ListJobsRowFits ==
    ASSUME TypeOK, NEW c \in Conn, Fits(c), ListJobsRow(c)
    PROVE  Good(c)
<1> DEFINE jobs == Visible(c).jobs
           job == jobs[at[c]]
<1>0. ClientTypeOK
  BY TypeParts
<1>1. /\ StorageTypeOK' /\ OthersKeep(c) /\ disk' = disk
      /\ lock'[c] = lock[c] /\ tx'[c] = tx[c]
  BY TypeParts, NoStorageStep DEF ListJobsRow, storage
<1>2. Visible(c) \in Database /\ at[c] \in 1..Len(jobs)
  BY TypeParts, VisibleType DEF ListJobsRow, Fits, CallFits, ClientTypeOK
<1>3. job \in Job
  BY <1>2 DEF Database
<1>4. rows[c] \in Seq(Job) /\ Append(rows[c], job) \in Seq(Job)
  BY <1>0, <1>3, AppendProperties DEF ClientTypeOK
<1>5. rows' \in [Conn -> Seq(Job)]
  BY <1>0, <1>4 DEF ListJobsRow, ClientTypeOK
<1>6. at' = [at EXCEPT ![c] = at[c] + 1] /\ at[c] + 1 \in Nat /\ at[c] + 1 # 0
  BY <1>2 DEF ListJobsRow
<1>7. ClientTypeOK' /\ OthersWait(c) /\ at'[c] # 0
  BY <1>0, <1>5, <1>6 DEF ListJobsRow, ClientTypeOK, OthersWait
<1>8. LockFits(c)'
  BY <1>1 DEF ListJobsRow, Fits, LockFits, IsWriter, Writing
<1>9. CallFits(c)'
  BY <1>7 DEF ListJobsRow, Fits, CallFits, Op, IsRead, Writing
<1>10. QED
  BY <1>1, <1>7, <1>8, <1>9, StepFits DEF LockMoves

LEMMA ListAddressesFits ==
    ASSUME TypeOK, NEW c \in Conn, Fits(c), ListAddresses(c) \/ FetchDevice(c)
    PROVE  Good(c)
<1>0. ClientTypeOK
  BY TypeParts
<1>1. /\ EndStatement(c) /\ pc' = [pc EXCEPT ![c] = "select_device"]
      /\ UNCHANGED <<call, ret, at, rows>>
      /\ pc[c] \in {"addresses", "fetch_device"}
  BY DEF ListAddresses, FetchDevice
<1>2. /\ StorageTypeOK' /\ OthersKeep(c) /\ disk' = disk /\ tx'[c] = tx[c]
      /\ tx[c] => lock'[c] = lock[c]
      /\ ~tx[c] => lock'[c] = "unlocked"
  BY <1>1, TypeParts, EndStatementStep
<1>3. /\ todo' \in [Conn -> SUBSET Address]
      /\ found' \in [Conn -> [Address -> Device \cup {NULL}]]
  <2>1. CASE ListAddresses(c)
    BY <1>0, <2>1 DEF ListAddresses, ClientTypeOK
  <2>2. CASE FetchDevice(c)
    <3>1. PICK a \in todo[c] :
            /\ found' = [found EXCEPT ![c][a] = Visible(c).devices[a]]
            /\ todo' = [todo EXCEPT ![c] = @ \ {a}]
      BY <2>2 DEF FetchDevice
    <3>2. a \in Address /\ todo[c] \ {a} \in SUBSET Address
      BY <1>0 DEF ClientTypeOK
    <3>3. Visible(c).devices[a] \in Device \cup {NULL}
      BY <3>2, TypeParts, VisibleType DEF Database
    <3>4. [found[c] EXCEPT ![a] = Visible(c).devices[a]]
            \in [Address -> Device \cup {NULL}]
      BY <1>0, <3>3 DEF ClientTypeOK
    <3>5. QED
      BY <1>0, <3>1, <3>2, <3>4 DEF ClientTypeOK
  <2>3. QED
    BY <2>1, <2>2
<1>4. /\ ClientTypeOK' /\ OthersWait(c) /\ pc'[c] = "select_device"
      /\ call'[c] = call[c] /\ at'[c] = at[c]
  BY <1>0, <1>1, <1>3 DEF ClientTypeOK, OthersWait, Label
<1>5. LockFits(c)'
  BY <1>2, <1>4 DEF Fits, LockFits, IsWriter, Writing
<1>6. CallFits(c)'
  BY <1>1, <1>4 DEF Fits, CallFits, Op, IsRead, Writing
<1>7. QED
  BY <1>2, <1>4, <1>5, <1>6, StepFits DEF LockMoves

LEMMA SelectDeviceFits ==
    ASSUME TypeOK, NEW c \in Conn, Fits(c), SelectDevice(c)
    PROVE  Good(c)
<1>1. "fetch_device" \in Label /\ pc[c] = "select_device"
  BY DEF SelectDevice, Label
<1>2. /\ ClientTypeOK' /\ OthersWait(c) /\ pc'[c] = "fetch_device"
      /\ call'[c] = call[c] /\ at'[c] = at[c]
  BY <1>1, TypeParts, GotoStep DEF SelectDevice
<1>3. /\ StorageTypeOK' /\ OthersKeep(c) /\ disk' = disk /\ tx'[c] = tx[c]
      /\ tx[c] => lock'[c] = lock[c]
      /\ ~tx[c] => lock'[c] = "shared" /\ ~SharedRefused(c)
  BY TypeParts, NoStorageStep, LockSharedStep DEF SelectDevice, LockShared
<1>4. LockFits(c)'
  BY <1>1, <1>2, <1>3 DEF Fits, LockFits, IsWriter, Writing
<1>5. CallFits(c)'
  BY <1>1, <1>2 DEF Fits, CallFits, Op, IsRead, Writing
<1>6. QED
  BY <1>2, <1>3, <1>4, <1>5, StepFits DEF LockMoves

-----------------------------------------------------------------------------
(* The inductive invariant, and what follows from it.                       *)

LockInv == TypeOK /\ (\A c \in Conn : Fits(c)) /\ LocksCompatible

LEMMA StepIsGood ==
    ASSUME TypeOK, NEW c \in Conn, Fits(c),
           \/ Open(c) \/ Close(c) \/ Crash(c)
           \/ \E r \in Requests : Invoke(c, r)
           \/ Step(c)
    PROVE  Good(c)
<1>1. CASE Open(c) \/ Close(c) \/ Crash(c) \/ \E r \in Requests : Invoke(c, r)
  BY <1>1, OpenFits, CloseFits, CrashFits, InvokeFits
<1>2. CASE \/ NoSuchTable(c) \/ BeginInTransaction(c) \/ LockBusy(c)
           \/ SkipCreate(c) \/ Lock(c) \/ UseOpenTransaction(c)
           \/ ReserveBusy(c) \/ Reserve(c)
  BY <1>2, NoSuchTableFits, AnswerFits, SkipCreateFits, LockingFits,
     UseOpenTransactionFits, ReleaseFits, ReserveFits DEF BeginInTransaction, LockBusy
<1>3. CASE \/ Create(c) \/ AddWorker(c) \/ AddWorkerFull(c) \/ Upsert(c)
           \/ StartRepair(c) \/ StartRepairFails(c)
  BY <1>3, WriteFits, ReleaseFits, StartRepairFailsFits
<1>4. CASE \/ BreakdownNoDevices(c) \/ BreakdownDevice(c)
           \/ BreakdownJobFails(c) \/ BreakdownJob(c)
  BY <1>4, AnswerFits, BreakdownFits, ReleaseFits DEF BreakdownNoDevices
<1>5. CASE \/ FinishRepairFails(c) \/ FinishRepairSelect(c)
           \/ FinishRepairJob(c) \/ FinishRepairDevice(c)
  BY <1>5, ReleaseFits, FinishRepairFits
<1>6. CASE \/ Commit(c) \/ CommitBusy(c) \/ AutocommitBusy(c) \/ PublishCommit(c)
  BY <1>6, CommitFits, CommitBusyFits, ReleaseFits, PublishFits
<1>7. CASE \/ ListWorkers(c) \/ ListJobsRow(c) \/ ListJobsDone(c)
           \/ ListAddressesBusy(c) \/ ListAddresses(c)
  BY <1>7, ListDoneFits, ListJobsRowFits, AnswerFits, ListAddressesFits
  DEF ListAddressesBusy
<1>8. CASE \/ SelectDevice(c) \/ SelectDeviceBusy(c) \/ FetchDevice(c)
           \/ ListDevicesDone(c)
  BY <1>8, SelectDeviceFits, AnswerFits, ListAddressesFits
  DEF SelectDeviceBusy, ListDevicesDone
<1>9. QED
  BY <1>1, <1>2, <1>3, <1>4, <1>5, <1>6, <1>7, <1>8 DEF Step

(* A step of c leaves what fits another connection, and two connections     *)
(* never come to hold locks that exclude each other.                        *)
LEMMA GoodKeepsInv ==
    ASSUME LockInv, NEW c \in Conn, Good(c)
    PROVE  LockInv'
<1>1. ASSUME NEW d \in Conn
      PROVE  Fits(d)'
  <2>1. CASE d = c
    BY <2>1 DEF Good
  <2>2. CASE d # c
    BY <2>2 DEF Good, OthersKeep, OthersWait, LockInv, Fits, LockFits, CallFits,
                IsWriter, Op, IsRead, IsTransaction, JobExists
  <2>3. QED
    BY <2>1, <2>2
<1>2. \A d \in Conn \ {c} : lock'[d] = lock[d]
  BY DEF Good, OthersKeep
<1>3. ASSUME NEW d \in Conn \ {c}
      PROVE  /\ ~(IsWriter(c)' /\ IsWriter(d)')
             /\ lock'[c] = "exclusive" => lock'[d] = "unlocked"
             /\ lock'[d] = "exclusive" => lock'[c] = "unlocked"
  <2>1. /\ ~(IsWriter(c) /\ IsWriter(d))
        /\ lock[c] = "exclusive" => lock[d] = "unlocked"
        /\ lock[d] = "exclusive" => lock[c] = "unlocked"
    BY DEF LockInv, LocksCompatible
  <2>2. LockMoves(c) /\ lock'[d] = lock[d]
    BY <1>2 DEF Good
  <2>3. QED
    BY <2>1, <2>2 DEF LockMoves, IsWriter, WriteLock, SharedRefused,
                      ReservedRefused, ExclusiveRefused
<1>4. LocksCompatible'
  BY <1>2, <1>3 DEF LockInv, LocksCompatible, IsWriter
<1>5. QED
  BY <1>1, <1>4 DEF LockInv, Good

LEMMA LockInvInductive == Spec => []LockInv
<1>1. Init => LockInv
  <2> SUFFICES ASSUME Init
               PROVE  LockInv
    OBVIOUS
  <2>1. StorageTypeOK
    BY InitialDatabases DEF Init, StorageInit, StorageTypeOK, LockLevel
  <2>2. ClientTypeOK
    <3>1. [op |-> "migrate"] \in Request /\ NoAnswer \in Answer
      BY DEF Request, NoAnswer, Answer, Reason
    <3>2. << >> \in Seq(Job) /\ NoRows \in [Address -> Device \cup {NULL}]
      BY EmptySeq DEF NoRows
    <3>3. QED
      BY <3>1, <3>2 DEF Init, ClientTypeOK, Label
  <2>3. ASSUME NEW c \in Conn
        PROVE  Fits(c)
    BY DEF Init, StorageInit, Fits, LockFits, CallFits, Writing
  <2>4. LocksCompatible
    BY DEF Init, StorageInit, LocksCompatible, IsWriter, WriteLock
  <2>5. QED
    BY <2>1, <2>2, <2>3, <2>4, TypeParts DEF LockInv
<1>2. LockInv /\ [Next]_vars => LockInv'
  <2> SUFFICES ASSUME LockInv, [Next]_vars
               PROVE  LockInv'
    OBVIOUS
  <2>1. CASE Next
    <3>1. PICK c \in Conn : \/ Open(c) \/ Close(c) \/ Crash(c)
                            \/ \E r \in Requests : Invoke(c, r)
                            \/ Step(c)
      BY <2>1 DEF Next
    <3>2. Good(c)
      BY <3>1, StepIsGood DEF LockInv
    <3>3. QED
      BY <3>2, GoodKeepsInv
  <2>2. CASE UNCHANGED vars
    BY <2>2 DEF vars, storage, client, LockInv, TypeOK, StorageTypeOK, Fits,
                LockFits, CallFits, IsWriter, Op, IsRead, IsTransaction, JobExists,
                LocksCompatible
  <2>3. QED
    BY <2>1, <2>2
<1>3. QED
  BY <1>1, <1>2, PTL DEF Spec

(* Every variable of Engine keeps its type: whatever two processes do, each *)
(* private copy of the database and the file itself hold whole rows, and    *)
(* list_jobs and list_devices only ever collect rows of their tables.       *)
THEOREM EngineTypeCorrect == Spec => []TypeOK
BY LockInvInductive, PTL DEF LockInv

(* There are never two writers, and nobody reads while the file is written. *)
(* Each step tests the locks of the others before it raises its own.        *)
THEOREM LocksExclude == Spec => []LocksCompatible
BY LockInvInductive, PTL DEF LockInv

(* A connection between two calls holds a lock only if a call that threw    *)
(* left its transaction open: every return and every other throw frees it.  *)
THEOREM IdleIsUnlocked == Spec => []IdleHoldsNoLock
<1>1. LockInv => IdleHoldsNoLock
  BY DEF LockInv, Fits, LockFits, IdleHoldsNoLock
<1>2. QED
  BY <1>1, LockInvInductive, PTL
=============================================================================
