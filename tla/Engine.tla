------------------------------- MODULE Engine -------------------------------
(***************************************************************************)
(* esm::Engine used by several processes on one database file: every call   *)
(* of esm/Engine.cpp, storage/DeviceRepository.cpp and                      *)
(* storage/WorkerRepository.cpp, one step per SQL statement and per lock    *)
(* the statement takes.  A connection runs one call at a time (the bindings *)
(* hold the interpreter lock), calls of different connections interleave,   *)
(* and a process may die at any step.                                       *)
(***************************************************************************)
EXTENDS SqliteStorage

CONSTANT Requests            \* the calls clients make, with their arguments

Request ==
    [op : {"migrate", "list_workers", "list_devices"}]
      \cup [op : {"add_worker"}, max_jobs : Int]
      \cup [op : {"upsert_device"}, address : Address, row : StorableDevice]
      \cup [op : {"breakdown"}, address : Address]
      \cup [op : {"start_repair"}, job : Int, worker : Int]
      \cup [op : {"finish_repair"}, job : Int]
      \cup [op : {"list_jobs"}, status : JobStatus \cup {NULL}]

ASSUME RequestsAssumption == Requests \subseteq Request

VARIABLES
    pc,                      \* where the call of c is
    call,                    \* the last call of c
    ret,                     \* its answer
    at,                      \* migrate: the next statement; list_jobs: the row
    rows,                    \* list_jobs: rows read so far, then the result
    todo,                    \* list_devices: addresses still to be read
    found                    \* list_devices: rows read so far, then the result

client == <<call, ret, at, rows, todo, found>>
vars == <<storage, pc, client>>

Label == {"closed", "idle", "prepare", "reserve", "execute", "insert_job",
          "update_job", "update_device", "commit", "publish", "rows",
          "addresses", "select_device", "fetch_device"}

(* Why a call throws.  A call that has not answered has ok = FALSE, "".     *)
Reason == {"", "busy", "no such table", "in transaction", "foreign key",
           "full", "job not found", "device not found"}
Answer   == [ok : BOOLEAN, why : Reason, id : Nat]
NoAnswer == [ok |-> FALSE, why |-> "", id |-> 0]
NoRows   == [a \in Address |-> NULL]

TypeOK ==
    /\ StorageTypeOK
    /\ pc \in [Conn -> Label]
    /\ call \in [Conn -> Request]
    /\ ret \in [Conn -> Answer]
    /\ at \in [Conn -> Nat]
    /\ rows \in [Conn -> Seq(Job)]
    /\ todo \in [Conn -> SUBSET Address]
    /\ found \in [Conn -> [Address -> Device \cup {NULL}]]

Init ==
    /\ StorageInit
    /\ pc = [c \in Conn |-> "closed"]
    /\ call = [c \in Conn |-> [op |-> "migrate"]]
    /\ ret = [c \in Conn |-> NoAnswer]
    /\ at = [c \in Conn |-> 1]
    /\ rows = [c \in Conn |-> << >>]
    /\ todo = [c \in Conn |-> {}]
    /\ found = [c \in Conn |-> NoRows]

-----------------------------------------------------------------------------
(* Control: going to the next step of a call, answering it, throwing.       *)

Goto(c, label) == pc' = [pc EXCEPT ![c] = label] /\ UNCHANGED client

Finish(c, answer) ==
    /\ pc' = [pc EXCEPT ![c] = "idle"]
    /\ ret' = [ret EXCEPT ![c] = answer]
    /\ at' = [at EXCEPT ![c] = 1]
    /\ todo' = [todo EXCEPT ![c] = {}]
    /\ UNCHANGED call

ForgetRows(c) ==
    /\ rows' = [rows EXCEPT ![c] = << >>]
    /\ found' = [found EXCEPT ![c] = NoRows]

Return(c, id) ==
    Finish(c, [ok |-> TRUE, why |-> "", id |-> id]) /\ UNCHANGED <<rows, found>>

Raise(c, why) ==
    Finish(c, [ok |-> FALSE, why |-> why, id |-> 0]) /\ ForgetRows(c)

(* migrate's next CREATE statement, or its return after the last one.       *)
NextStatement(c) ==
    IF at[c] = Len(SchemaObjects)
    THEN Return(c, 0)
    ELSE /\ pc' = [pc EXCEPT ![c] = "prepare"]
         /\ at' = [at EXCEPT ![c] = @ + 1]
         /\ UNCHANGED <<call, ret, rows, todo, found>>

Op(c) == call[c].op

(* Calls that start with BEGIN IMMEDIATE, and calls that only read.         *)
IsTransaction(c) == Op(c) \in {"breakdown", "finish_repair"}
IsRead(c) == Op(c) \in {"list_workers", "list_devices", "list_jobs"}

-----------------------------------------------------------------------------
(* The life of a connection, and the start of a call.                       *)

Open(c) ==
    /\ pc[c] = "closed"
    /\ Goto(c, "idle")
    /\ UNCHANGED storage

Close(c) ==
    /\ pc[c] = "idle"
    /\ Disconnect(c)
    /\ Goto(c, "closed")

(* The process dies in the middle of a call.                                *)
Crash(c) ==
    /\ pc[c] \notin {"closed", "idle"}
    /\ Disconnect(c)
    /\ pc' = [pc EXCEPT ![c] = "closed"]
    /\ at' = [at EXCEPT ![c] = 1]
    /\ todo' = [todo EXCEPT ![c] = {}]
    /\ ForgetRows(c)
    /\ UNCHANGED <<call, ret>>

Invoke(c, r) ==
    /\ pc[c] = "idle"
    /\ pc' = [pc EXCEPT ![c] = "prepare"]
    /\ call' = [call EXCEPT ![c] = r]
    /\ ret' = [ret EXCEPT ![c] = NoAnswer]
    /\ ForgetRows(c)
    /\ UNCHANGED <<storage, at, todo>>

-----------------------------------------------------------------------------
(* The first statement of a call: sqlite3_prepare_v2 finds its table, the   *)
(* first sqlite3_step takes the SHARED lock.  BEGIN IMMEDIATE needs no      *)
(* table, and inside an open transaction no lock is missing.                *)

NeededTable == [add_worker    |-> "workers", list_workers |-> "workers",
                upsert_device |-> "devices", list_devices |-> "devices",
                start_repair  |-> "jobs",    list_jobs    |-> "jobs"]

IsPrepared(c) ==
    Op(c) \in DOMAIN NeededTable => NeededTable[Op(c)] \in Visible(c).schema

(* The schema is there: known from before, or the file can be read now.     *)
KnowsSchema(c) == parsed[c] \/ tx[c] \/ ~SharedRefused(c)

NoSuchTable(c) ==
    /\ pc[c] = "prepare"
    /\ ~IsPrepared(c) /\ KnowsSchema(c)
    /\ Raise(c, "no such table")
    /\ parsed' = [parsed EXCEPT ![c] = TRUE]
    /\ UNCHANGED <<disk, lock, work, tx>>

BeginInTransaction(c) ==
    /\ pc[c] = "prepare"
    /\ IsTransaction(c) /\ tx[c]
    /\ Raise(c, "in transaction")
    /\ UNCHANGED storage

LockBusy(c) ==
    /\ pc[c] = "prepare"
    /\ ~tx[c] /\ SharedRefused(c)
    /\ parsed[c] => IsPrepared(c) /\ Op(c) # "list_devices"
    /\ Raise(c, "busy")
    /\ UNCHANGED storage

ObjectExists(c) ==
    Op(c) = "migrate" /\ SchemaObjects[at[c]] \in Visible(c).schema

(* CREATE ... IF NOT EXISTS of what is there already only reads.            *)
SkipCreate(c) ==
    /\ pc[c] = "prepare"
    /\ ObjectExists(c)
    /\ tx[c] \/ ~SharedRefused(c)
    /\ NextStatement(c)
    /\ parsed' = [parsed EXCEPT ![c] = TRUE]
    /\ UNCHANGED <<disk, lock, work, tx>>

FirstStep(c) == CASE Op(c) = "list_devices" -> "addresses"
                  [] Op(c) \in {"list_jobs", "list_workers"} -> "rows"
                  [] OTHER -> "execute"

Lock(c) ==
    /\ pc[c] = "prepare"
    /\ IsPrepared(c) /\ ~tx[c] /\ ~ObjectExists(c)
    /\ LockShared(c, IsTransaction(c))
    /\ Goto(c, IF IsRead(c) THEN FirstStep(c) ELSE "reserve")

(* A transaction an earlier call left open: its locks are enough.           *)
UseOpenTransaction(c) ==
    /\ pc[c] = "prepare"
    /\ tx[c] /\ ~IsTransaction(c)
    /\ IsPrepared(c) /\ ~ObjectExists(c)
    /\ Goto(c, FirstStep(c))
    /\ UNCHANGED storage

(* A bug: a writer waits for the RESERVED lock and keeps its SHARED one.    *)
ReserveBusyWaits(c) ==
    /\ pc[c] = "reserve"
    /\ ReservedRefused(c)
    /\ UNCHANGED vars

ReserveBusy(c) ==
    /\ pc[c] = "reserve"
    /\ ReservedRefused(c)
    /\ Unlock(c)
    /\ Raise(c, "busy")

Reserve(c) ==
    /\ pc[c] = "reserve"
    /\ LockReserved(c, IsTransaction(c))
    /\ Goto(c, "execute")

-----------------------------------------------------------------------------
(* Calls of one write statement.  Outside a transaction the statement is    *)
(* then committed; inside one that was left open it is not.                 *)

AfterWrite(c, id) ==
    IF ~tx[c] THEN Goto(c, "commit")
    ELSE IF Op(c) = "migrate" THEN NextStatement(c) ELSE Return(c, id)

Create(c) ==
    /\ pc[c] = "execute" /\ Op(c) = "migrate"
    /\ Execute(c, CreateObject(work[c], SchemaObjects[at[c]]))
    /\ AfterWrite(c, 0)

AddWorker(c) ==
    /\ pc[c] = "execute" /\ Op(c) = "add_worker"
    /\ Len(work[c].workers) < MaxRowId
    /\ Execute(c, InsertWorker(work[c], call[c].max_jobs))
    /\ AfterWrite(c, Len(work[c].workers) + 1)

(* SQLITE_FULL: no id is left; SQLite rolls back the whole transaction.     *)
AddWorkerFull(c) ==
    /\ pc[c] = "execute" /\ Op(c) = "add_worker"
    /\ Len(work[c].workers) >= MaxRowId
    /\ Rollback(c)
    /\ Raise(c, "full")

Upsert(c) ==
    /\ pc[c] = "execute" /\ Op(c) = "upsert_device"
    /\ Execute(c, UpsertDevice(work[c], call[c].address, call[c].row))
    /\ AfterWrite(c, 0)

ViolatesForeignKey(c) ==
    IsStartable(work[c], call[c].job) /\ ~WorkerExists(work[c], call[c].worker)

(* An UPDATE that matches no row is not an error: the call returns.         *)
StartRepair(c) ==
    /\ pc[c] = "execute" /\ Op(c) = "start_repair"
    /\ ~ViolatesForeignKey(c)
    /\ Execute(c, StartJob(work[c], call[c].job, call[c].worker))
    /\ AfterWrite(c, 0)

StartRepairFails(c) ==
    /\ pc[c] = "execute" /\ Op(c) = "start_repair"
    /\ ViolatesForeignKey(c)
    /\ IF tx[c] THEN UNCHANGED storage ELSE Rollback(c)
    /\ Raise(c, "foreign key")

-----------------------------------------------------------------------------
(* breakdown: BEGIN IMMEDIATE, upsert of the device, insert of the job.     *)

(* The throw after a failed prepare does not roll back.                     *)
BreakdownNoDevices(c) ==
    /\ pc[c] = "execute" /\ Op(c) = "breakdown"
    /\ "devices" \notin work[c].schema
    /\ Raise(c, "no such table")
    /\ UNCHANGED storage

BreakdownDevice(c) ==
    /\ pc[c] = "execute" /\ Op(c) = "breakdown"
    /\ "devices" \in work[c].schema
    /\ Execute(c, MarkFaulty(work[c], call[c].address))
    /\ Goto(c, "insert_job")

(* A bug: the transaction is committed although the job was not inserted.   *)
BreakdownJobFailsCommits(c) ==
    /\ pc[c] = "insert_job"
    /\ "jobs" \notin work[c].schema \/ Len(work[c].jobs) >= MaxRowId
    /\ Goto(c, "commit")
    /\ UNCHANGED storage

BreakdownJobFails(c) ==
    /\ pc[c] = "insert_job"
    /\ Rollback(c)
    /\ \/ "jobs" \notin work[c].schema /\ Raise(c, "no such table")
       \/ /\ "jobs" \in work[c].schema
          /\ Len(work[c].jobs) >= MaxRowId
          /\ Raise(c, "full")

BreakdownJob(c) ==
    /\ pc[c] = "insert_job"
    /\ "jobs" \in work[c].schema
    /\ Len(work[c].jobs) < MaxRowId
    /\ Execute(c, InsertJob(work[c], call[c].address))
    /\ Goto(c, "commit")

(* finish_repair: BEGIN IMMEDIATE, select and update of the job, update of  *)
(* its device.                                                              *)

FinishRepairFails(c) ==
    /\ pc[c] = "execute" /\ Op(c) = "finish_repair"
    /\ Rollback(c)
    /\ \/ "jobs" \notin work[c].schema /\ Raise(c, "no such table")
       \/ /\ "jobs" \in work[c].schema
          /\ ~JobExists(work[c], call[c].job)
          /\ Raise(c, "job not found")

FinishRepairSelect(c) ==
    /\ pc[c] = "execute" /\ Op(c) = "finish_repair"
    /\ "jobs" \in work[c].schema
    /\ JobExists(work[c], call[c].job)
    /\ Goto(c, "update_job")
    /\ UNCHANGED storage

(* A bug: finish_repair commits before it updates the device.               *)
FinishRepairJobCommits(c) ==
    /\ pc[c] = "update_job"
    /\ Execute(c, FinishJob(work[c], call[c].job))
    /\ Goto(c, "commit")

FinishRepairJob(c) ==
    /\ pc[c] = "update_job"
    /\ Execute(c, FinishJob(work[c], call[c].job))
    /\ Goto(c, "update_device")

FinishRepairDevice(c) ==
    /\ pc[c] = "update_device"
    /\ Execute(c, MarkHealthy(work[c], work[c].jobs[call[c].job].device))
    /\ Goto(c, "commit")

-----------------------------------------------------------------------------
(* The end of a transaction: an explicit COMMIT, or the commit SQLite does  *)
(* after a statement outside a transaction.                                 *)

Commit(c) ==
    /\ pc[c] = "commit"
    /\ LockExclusive(c)
    /\ Goto(c, "publish")

(* sqlite3_last_insert_rowid, for the calls that return it.                 *)
InsertedId(c) == CASE Op(c) = "add_worker" -> Len(work[c].workers)
                   [] Op(c) = "breakdown"  -> Len(work[c].jobs)
                   [] OTHER                -> 0

(* A bug: the result of COMMIT is not looked at.                            *)
CommitBusyIgnored(c) ==
    /\ pc[c] = "commit" /\ tx[c]
    /\ KeepPending(c)
    /\ Return(c, InsertedId(c))

(* storage_.commit() throws; nothing rolls the transaction back.            *)
CommitBusy(c) ==
    /\ pc[c] = "commit" /\ tx[c]
    /\ KeepPending(c)
    /\ Raise(c, "busy")

(* A bug: migrate does not look at the result of a CREATE.                  *)
AutocommitBusyIgnored(c) ==
    /\ pc[c] = "commit" /\ ~tx[c]
    /\ ExclusiveRefused(c)
    /\ Rollback(c)
    /\ IF Op(c) = "migrate" THEN NextStatement(c) ELSE Raise(c, "busy")

AutocommitBusy(c) ==
    /\ pc[c] = "commit" /\ ~tx[c]
    /\ ExclusiveRefused(c)
    /\ Rollback(c)
    /\ Raise(c, "busy")

PublishCommit(c) ==
    /\ pc[c] = "publish"
    /\ Publish(c)
    /\ IF Op(c) = "migrate" THEN NextStatement(c) ELSE Return(c, InsertedId(c))

-----------------------------------------------------------------------------
(* Calls that read.                                                         *)

ListWorkers(c) ==
    /\ pc[c] = "rows" /\ Op(c) = "list_workers"
    /\ EndStatement(c)
    /\ Return(c, 0)

Selects(status, job) == status = NULL \/ job.status = status

(* sqlite3_step of list_jobs goes over the rows one by one.                 *)
ListJobsRow(c) ==
    /\ pc[c] = "rows" /\ Op(c) = "list_jobs"
    /\ at[c] <= Len(Visible(c).jobs)
    /\ LET job == Visible(c).jobs[at[c]] IN
         rows' = [rows EXCEPT ![c] =
                    IF Selects(call[c].status, job) THEN Append(@, job) ELSE @]
    /\ at' = [at EXCEPT ![c] = @ + 1]
    /\ UNCHANGED <<storage, pc, call, ret, todo, found>>

ListJobsDone(c) ==
    /\ pc[c] = "rows" /\ Op(c) = "list_jobs"
    /\ at[c] > Len(Visible(c).jobs)
    /\ EndStatement(c)
    /\ Return(c, 0)

(* DeviceRepository::listAddresses ends its loop on any result but a row:   *)
(* when its first step is refused the lock the list is empty.  Only a       *)
(* connection that has not read the schema is refused in                    *)
(* sqlite3_prepare_v2 and throws (LockBusy).                                *)
ListAddressesBusy(c) ==
    /\ pc[c] = "prepare" /\ Op(c) = "list_devices"
    /\ ~tx[c] /\ SharedRefused(c)
    /\ parsed[c] /\ IsPrepared(c)
    /\ Return(c, 0)
    /\ UNCHANGED storage

ListAddresses(c) ==
    /\ pc[c] = "addresses"
    /\ todo' = [todo EXCEPT ![c] = {a \in Address : Visible(c).devices[a] # NULL}]
    /\ EndStatement(c)
    /\ pc' = [pc EXCEPT ![c] = "select_device"]
    /\ UNCHANGED <<call, ret, at, rows, found>>

(* One SELECT per address, each a transaction of its own.                   *)
SelectDevice(c) ==
    /\ pc[c] = "select_device" /\ todo[c] # {}
    /\ IF tx[c] THEN UNCHANGED storage ELSE LockShared(c, FALSE)
    /\ Goto(c, "fetch_device")

(* Any result but a row is reported as a missing device.                    *)
SelectDeviceBusy(c) ==
    /\ pc[c] = "select_device" /\ todo[c] # {}
    /\ ~tx[c] /\ SharedRefused(c)
    /\ Raise(c, "device not found")
    /\ UNCHANGED storage

FetchDevice(c) ==
    /\ pc[c] = "fetch_device"
    /\ \E a \in todo[c] :
         /\ found' = [found EXCEPT ![c][a] = Visible(c).devices[a]]
         /\ todo' = [todo EXCEPT ![c] = @ \ {a}]
    /\ EndStatement(c)
    /\ pc' = [pc EXCEPT ![c] = "select_device"]
    /\ UNCHANGED <<call, ret, at, rows>>

ListDevicesDone(c) ==
    /\ pc[c] = "select_device" /\ todo[c] = {}
    /\ Return(c, 0)
    /\ UNCHANGED storage

-----------------------------------------------------------------------------
(* Steps of a call under way; a process that runs takes them.               *)
Step(c) ==
    \/ NoSuchTable(c) \/ BeginInTransaction(c) \/ LockBusy(c) \/ SkipCreate(c)
    \/ Lock(c) \/ UseOpenTransaction(c) \/ ReserveBusy(c) \/ Reserve(c)
    \/ Create(c) \/ AddWorker(c) \/ AddWorkerFull(c) \/ Upsert(c)
    \/ StartRepair(c) \/ StartRepairFails(c)
    \/ BreakdownNoDevices(c) \/ BreakdownDevice(c)
    \/ BreakdownJobFails(c) \/ BreakdownJob(c)
    \/ FinishRepairFails(c) \/ FinishRepairSelect(c)
    \/ FinishRepairJob(c) \/ FinishRepairDevice(c)
    \/ Commit(c) \/ CommitBusy(c) \/ AutocommitBusy(c) \/ PublishCommit(c)
    \/ ListWorkers(c) \/ ListJobsRow(c) \/ ListJobsDone(c)
    \/ ListAddressesBusy(c) \/ ListAddresses(c)
    \/ SelectDevice(c) \/ SelectDeviceBusy(c) \/ FetchDevice(c)
    \/ ListDevicesDone(c)

Next ==
    \E c \in Conn :
        \/ Open(c) \/ Close(c) \/ Crash(c)
        \/ \E r \in Requests : Invoke(c, r)
        \/ Step(c)

Spec == Init /\ [][Next]_vars

(* A call under way goes on unless its process dies; nothing is promised of *)
(* clients, which may stop calling.                                         *)
FairSpec == Spec /\ \A c \in Conn : WF_vars(Step(c))

-----------------------------------------------------------------------------
(* Properties.                                                              *)

(* The change each call promises, made to the database db at once.          *)
Effect(c, db) ==
    LET r == call[c] IN
    CASE r.op = "migrate"       -> CreateObject(db, SchemaObjects[at[c]])
      [] r.op = "add_worker"    -> InsertWorker(db, r.max_jobs)
      [] r.op = "upsert_device" -> UpsertDevice(db, r.address, r.row)
      [] r.op = "breakdown"     -> Breakdown(db, r.address)
      [] r.op = "start_repair"  -> StartJob(db, r.job, r.worker)
      [] r.op = "finish_repair" -> FinishRepair(db, r.job)
      [] OTHER                  -> db

(* The file only changes when a call commits, and then by exactly what that *)
(* call promises, applied to the file as it is at that moment: no update of *)
(* another process is lost, no half of a transaction and nothing of an      *)
(* abandoned one is written.                                                *)
CommitsAreAtomic ==
    [][disk' # disk =>
         \E c \in Conn : pc[c] = "publish" /\ disk' = Effect(c, disk)]_vars

(* The calls of all processes together change the file as RepairLedger's    *)
(* indivisible operations do.                                               *)
Ledger == INSTANCE RepairLedger
            WITH db <- disk,
                 UpsertRows <- {r.row : r \in
                     {q \in Requests : q.op = "upsert_device"}},
                 Capacities <- {r.max_jobs : r \in
                     {q \in Requests : q.op = "add_worker"}}

ImplementsLedger == Ledger!Spec

(* What the client of c was told is in the file.                            *)
IsRecorded(c) ==
    CASE Op(c) = "breakdown" ->
           /\ JobExists(disk, ret[c].id)
           /\ disk.jobs[ret[c].id].device = call[c].address
      [] Op(c) = "finish_repair" ->
           /\ JobExists(disk, call[c].job)
           /\ disk.jobs[call[c].job].status = "Done"
      [] OTHER -> TRUE

(* A breakdown or finish_repair that returned is in the file and stays      *)
(* there, whatever other processes do and whichever process dies.           *)
AnswersAreRecorded == \A c \in Conn : ret[c].ok => IsRecorded(c)

(* Two breakdowns are never given the same job id.                          *)
JobIdsAreUnique ==
    \A c, d \in Conn :
        c # d /\ ret[c].ok /\ ret[d].ok
              /\ Op(c) = "breakdown" /\ Op(d) = "breakdown"
            => ret[c].id # ret[d].id

(* result is what one look at the first n rows of jobs gives: the rows with *)
(* the status asked for, each once and in their order.                      *)
IsSelection(result, jobs, n, status) ==
    LET asked == {j \in 1..n : Selects(status, jobs[j])} IN
    \E place \in [1..Len(result) -> asked] :
        /\ \A j \in asked : \E i \in DOMAIN place : place[i] = j
        /\ \A i, k \in DOMAIN place : i < k => place[i] < place[k]
        /\ \A i \in DOMAIN place : result[i] = jobs[place[i]]

(* list_jobs reads one snapshot although it steps row by row: what it has   *)
(* read so far is what one look at the table gives.                         *)
JobScanIsSnapshot ==
    \A c \in Conn : pc[c] = "rows" /\ Op(c) = "list_jobs" =>
        IsSelection(rows[c], Visible(c).jobs, at[c] - 1, call[c].status)

(* Between reading the addresses and reading the rows list_devices holds no *)
(* lock; still each address it has is that of a committed device, so no row *)
(* it shows is undone later and none it looks for has gone.                 *)
DeviceScanIsCommitted ==
    \A c \in Conn : pc[c] \in {"select_device", "fetch_device"} /\ ~tx[c] =>
        \A a \in Address :
            a \in todo[c] \/ found[c][a] # NULL => disk.devices[a] # NULL

(* However migrations of several processes interleave and wherever one dies,*)
(* the file holds a prefix of the statements: jobs is never there without   *)
(* the tables its foreign keys name.                                        *)
MigrationIsPrefix ==
    \A k \in 1..Len(SchemaObjects) : SchemaObjects[k] \in disk.schema =>
        \A i \in 1..k : SchemaObjects[i] \in disk.schema

(* A process between two calls holds no lock on the file, unless a          *)
(* transaction was left open by a call that threw.                          *)
IdleHoldsNoLock ==
    \A c \in Conn : pc[c] \in {"idle", "closed"} /\ ~tx[c] => lock[c] = "unlocked"

(* On the file shared by all processes too no faulty device is forgotten,   *)
(* when working devices only are registered: breakdown, start_repair,       *)
(* finish_repair and upsert_device of several processes interleave, are     *)
(* refused and die, and a faulty device has a job that is not Done.         *)
FaultyDeviceHasJob == Ledger!FaultyDeviceHasJob

(* Every call answers: refused locks make it throw, they never make it wait *)
(* for another process, so no two processes wait for each other.            *)
CallReturns ==
    \A c \in Conn : pc[c] \notin {"idle", "closed"} ~> pc[c] \in {"idle", "closed"}

-----------------------------------------------------------------------------
(* What the documentation says and the code does not keep.                  *)

(* "Применить встроенные миграции (создать таблицы)", esm/Engine.h:75: when *)
(* migrate has returned the tables are in the file.                         *)
MigratedTablesExist ==
    \A c \in Conn : ret[c].ok /\ Op(c) = "migrate" => disk.schema = SchemaObject

(* "Вставить работника и вернуть его id", storage/WorkerRepository.h:30:    *)
(* the id add_worker has returned is the id of a stored worker.             *)
AddedWorkerIsStored ==
    \A c \in Conn :
        ret[c].ok /\ Op(c) = "add_worker" => WorkerExists(disk, ret[c].id)

(* "Загрузка всех адресов устройств", storage/Repositories.h:32: the list   *)
(* of devices is empty only when no device is stored.                       *)
EmptyListMeansNoDevices ==
    [][\A c \in Conn :
          pc[c] = "prepare" /\ Op(c) = "list_devices" /\ ret'[c].ok =>
             \A a \in Address : Visible(c).devices[a] = NULL]_vars
=============================================================================
