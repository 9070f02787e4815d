----------------------------- MODULE GuiProofs -----------------------------
(* The window is one more client of Engine: what is proved of Engine holds  *)
(* of the window and the other processes together.                          *)
EXTENDS GuiWindow, EngineLedger

(* A step of a call under way neither changes the call nor closes the       *)
(* connection.                                                              *)
LEMMA StepKeepsCall ==
    ASSUME NEW c \in Conn, pc \in [Conn -> Label], Step(c)
    PROVE  /\ call' = call
           /\ \E label \in Label \ {"closed"} : pc' = [pc EXCEPT ![c] = label]
<1> DEFINE Goal == /\ call' = call
                   /\ \E label \in Label \ {"closed"} : pc' = [pc EXCEPT ![c] = label]
<1>1. ASSUME NEW label \in Label \ {"closed"}, Goto(c, label)
      PROVE  Goal
  BY <1>1 DEF Goto, client
<1>2. ASSUME NEW answer, Finish(c, answer)
      PROVE  Goal
  BY <1>2 DEF Finish, Label
<1>3. ASSUME NEW why, Raise(c, why)
      PROVE  Goal
  BY <1>2, <1>3 DEF Raise
<1>4. ASSUME NEW id, Return(c, id)
      PROVE  Goal
  BY <1>2, <1>4 DEF Return
<1>5. ASSUME NextStatement(c)
      PROVE  Goal
  BY <1>4, <1>5 DEF NextStatement, Label
<1>6. ASSUME NEW id, AfterWrite(c, id)
      PROVE  Goal
  <2>1. CASE Goto(c, "commit")
    BY <1>1, <2>1 DEF Label
  <2>2. CASE NextStatement(c)
    BY <1>5, <2>2
  <2>3. CASE Return(c, id)
    BY <1>4, <2>3
  <2>4. QED
    BY <1>6, <2>1, <2>2, <2>3 DEF AfterWrite
<1>7. CASE \/ NoSuchTable(c) \/ BeginInTransaction(c) \/ LockBusy(c)
           \/ ReserveBusy(c) \/ AddWorkerFull(c) \/ StartRepairFails(c)
           \/ BreakdownNoDevices(c) \/ BreakdownJobFails(c) \/ FinishRepairFails(c)
           \/ CommitBusy(c) \/ AutocommitBusy(c) \/ SelectDeviceBusy(c)
  <2>1. \E why : Raise(c, why)
    BY <1>7 DEF NoSuchTable, BeginInTransaction, LockBusy, ReserveBusy, AddWorkerFull,
         StartRepairFails, BreakdownNoDevices, BreakdownJobFails, FinishRepairFails,
         CommitBusy, AutocommitBusy, SelectDeviceBusy
  <2>2. QED
    BY <1>3, <2>1
<1>8. CASE \/ ListWorkers(c) \/ ListJobsDone(c) \/ ListAddressesBusy(c)
           \/ ListDevicesDone(c)
  <2>1. Return(c, 0)
    BY <1>8 DEF ListWorkers, ListJobsDone, ListAddressesBusy, ListDevicesDone
  <2>2. QED
    BY <1>4, <2>1
<1>9. CASE \/ Lock(c) \/ UseOpenTransaction(c) \/ Reserve(c) \/ BreakdownDevice(c)
           \/ BreakdownJob(c) \/ FinishRepairSelect(c) \/ FinishRepairJob(c)
           \/ FinishRepairDevice(c) \/ Commit(c) \/ SelectDevice(c)
  <2>1. FirstStep(c) \in Label \ {"closed"}
    BY DEF FirstStep, Label
  <2>2. \E label \in Label \ {"closed"} : Goto(c, label)
    BY <1>9, <2>1 DEF Lock, UseOpenTransaction, Reserve, BreakdownDevice,
         BreakdownJob, FinishRepairSelect, FinishRepairJob, FinishRepairDevice, Commit,
         SelectDevice, Label
  <2>3. QED
    BY <1>1, <2>2
<1>10. CASE ListJobsRow(c)
  <2>1. pc[c] = "rows" /\ UNCHANGED <<pc, call>>
    BY <1>10 DEF ListJobsRow
  <2>2. pc' = [pc EXCEPT ![c] = "rows"]
    BY <2>1
  <2>3. QED
    BY <2>1, <2>2 DEF Label
<1>11. CASE ListAddresses(c) \/ FetchDevice(c)
  BY <1>11 DEF ListAddresses, FetchDevice, Label
<1>12. CASE SkipCreate(c)
  BY <1>5, <1>12 DEF SkipCreate
<1>13. CASE Create(c) \/ AddWorker(c) \/ Upsert(c) \/ StartRepair(c)
  <2>1. \E id : AfterWrite(c, id)
    BY <1>13 DEF Create, AddWorker, Upsert, StartRepair
  <2>2. QED
    BY <1>6, <2>1
<1>14. CASE PublishCommit(c)
  BY <1>4, <1>5, <1>14 DEF PublishCommit
<1>15. QED
  BY <1>7, <1>8, <1>9, <1>10, <1>11, <1>12, <1>13, <1>14 DEF Step

-----------------------------------------------------------------------------
(* What a handler may call next is in Requests because the agenda holds     *)
(* tables while a refresh is under way.                                     *)
HandlerFits ==
    /\ event \in Event
    /\ agenda \in Seq(Table)
    /\ event \in {"refresh", "list"} <=> agenda # << >>
    /\ event = "save" => Op(App) \in DOMAIN RefreshedBy
    /\ event \in {"close", "none"} \/ pc[App] # "closed"

CallsTyped == pc \in [Conn -> Label] /\ call \in [Conn -> Request]

(* Every step of the window is a step of Engine, or none.                   *)
LEMMA GuiStepIsEngineStep ==
    ASSUME HandlerFits, [GuiNext]_guiVars
    PROVE  [Next]_vars
<1>1. App \in Conn
  BY AppAssumption
<1>2. CASE CallStep
  BY <1>1, <1>2 DEF CallStep, Next
<1>3. CASE OpenEngine \/ CloseOldEngine \/ OpenDbFails
  BY <1>1, <1>3 DEF OpenEngine, CloseOldEngine, OpenDbFails, Next
<1>4. CASE MigrateEngine
  BY <1>1, <1>4, WindowRequestsAssumption DEF MigrateEngine, Next
<1>5. CASE \/ OpenDbDone \/ SaveFails \/ SaveDone \/ FillTable \/ LeaveTableEmpty
           \/ \E table \in Table : PressRefresh(table)
  BY <1>5 DEF OpenDbDone, SaveFails, SaveDone, FillTable, LeaveTableEmpty,
              AfterRefresh, PressRefresh
<1>6. CASE StartRefresh
  <2>1. Head(agenda) \in Table
    BY <1>6 DEF StartRefresh, HandlerFits
  <2>2. ListCall[Head(agenda)] \in Requests
    BY <2>1, WindowRequestsAssumption
  <2>3. QED
    BY <1>1, <1>6, <2>2 DEF StartRefresh, Next
<1>7. CASE \E r \in SaveRequests : Save(r)
  BY <1>1, <1>7 DEF Save, SaveRequests, Next
<1>8. CASE Restart
  BY <1>1, <1>8 DEF Restart, Next
<1>9. CASE Others
  BY <1>9, AppAssumption DEF Others, Next
<1>10. CASE UNCHANGED guiVars
  BY <1>10 DEF guiVars
<1>11. QED
  BY <1>2, <1>3, <1>4, <1>5, <1>6, <1>7, <1>8, <1>9, <1>10 DEF GuiNext, HandlerStep

(* The calls keep their types, and another process leaves the call of the   *)
(* window and its place alone.                                              *)
LEMMA OthersLeaveCall ==
    ASSUME CallsTyped, Others
    PROVE  CallsTyped' /\ pc'[App] = pc[App] /\ call'[App] = call[App]
<1>1. PICK c \in Conn \ {App} :
           \/ Open(c) \/ Close(c) \/ Crash(c)
           \/ \E r \in OtherRequests : Invoke(c, r)
           \/ Step(c)
  BY DEF Others
<1>2. App \in Conn /\ OtherRequests \subseteq Request
  BY AppAssumption, RequestsAssumption
<1>3. CASE Open(c) \/ Close(c) \/ Crash(c)
  BY <1>2, <1>3 DEF Open, Close, Crash, Goto, client, CallsTyped, Label
<1>4. CASE \E r \in OtherRequests : Invoke(c, r)
  BY <1>2, <1>4 DEF Invoke, CallsTyped, Label
<1>5. CASE Step(c)
  BY <1>2, <1>5, StepKeepsCall DEF CallsTyped
<1>6. QED
  BY <1>1, <1>3, <1>4, <1>5

LEMMA HandlerFitsStep ==
    ASSUME CallsTyped, HandlerFits, [GuiNext]_guiVars
    PROVE  CallsTyped' /\ HandlerFits'
<1>1. /\ App \in Conn
      /\ Requests \subseteq Request
      /\ \A t \in Table : ListCall[t] \in Request
      /\ MigrateRequest \in Request
  BY AppAssumption, RequestsAssumption, WindowRequestsAssumption
<1>2. /\ << >> \in Seq(Table)
      /\ <<"workers", "devices", "jobs">> \in Seq(Table) \ {<< >>}
      /\ \A t \in Table : <<t>> \in Seq(Table) \ {<< >>}
  BY DEF Table
<1> USE <1>1, <1>2
<1>3. CASE CallStep
  <2>1. /\ CallsTyped' /\ call'[App] = call[App] /\ pc'[App] # "closed"
    BY <1>3, StepKeepsCall DEF CallStep, CallsTyped
  <2>2. QED
    BY <1>3, <2>1 DEF CallStep, HandlerFits, Op
<1>4. CASE OpenEngine
  BY <1>4 DEF OpenEngine, Open, Goto, client, CallsTyped, HandlerFits, Label, Event
<1>5. CASE CloseOldEngine \/ OpenDbFails
  BY <1>5 DEF CloseOldEngine, OpenDbFails, Close, Goto, client, CallsTyped,
              HandlerFits, Label, Event
<1>6. CASE MigrateEngine
  BY <1>6 DEF MigrateEngine, Invoke, CallsTyped, HandlerFits, Label, Event
<1>7. CASE OpenDbDone \/ SaveFails \/ \E table \in Table : PressRefresh(table)
  BY <1>7 DEF OpenDbDone, SaveFails, PressRefresh, vars, client, CallsTyped,
              HandlerFits, Event, Op, HasAnswer
<1>8. CASE SaveDone
  <2>1. Op(App) \in DOMAIN RefreshedBy
    BY <1>8 DEF SaveDone, HandlerFits
  <2>2. RefreshedBy[Op(App)] \in Table
    BY <2>1 DEF RefreshedBy, Table
  <2>3. QED
    BY <1>8, <2>2 DEF SaveDone, vars, client, CallsTyped, HandlerFits, Event, HasAnswer
<1>9. CASE StartRefresh
  <2>1. Head(agenda) \in Table
    BY <1>9 DEF StartRefresh, HandlerFits
  <2>2. QED
    BY <1>9, <2>1 DEF StartRefresh, Invoke, CallsTyped, HandlerFits, Label, Event
<1>10. CASE FillTable \/ LeaveTableEmpty
  <2>1. AfterRefresh
    BY <1>10 DEF FillTable, LeaveTableEmpty
  <2>2. agenda \in Seq(Table) /\ agenda # << >>
    BY <2>1 DEF AfterRefresh, HandlerFits
  <2>3. Tail(agenda) \in Seq(Table) /\ (Tail(agenda) = << >> <=> Len(agenda) = 1)
    <3>1. Tail(agenda) \in Seq(Table) /\ Len(Tail(agenda)) = Len(agenda) - 1
      BY <2>2, HeadTailProperties
    <3>2. Tail(agenda) = << >> <=> Len(Tail(agenda)) = 0
      BY <3>1, EmptySeq
    <3>3. QED
      BY <2>2, <3>1, <3>2
  <2>4. QED
    BY <2>1, <2>3 DEF AfterRefresh, vars, client, CallsTyped, HandlerFits, Event,
                      HasAnswer
<1>11. CASE \E r \in SaveRequests : Save(r)
  BY <1>11 DEF Save, SaveRequests, Invoke, CallsTyped, HandlerFits, Label, Event, Op
<1>12. CASE Restart
  <2>1. CallsTyped'
    BY <1>12 DEF Restart, Close, Crash, Goto, vars, client, CallsTyped, Label
  <2>2. QED
    BY <1>12, <2>1 DEF Restart, HandlerFits, Event
<1>13. CASE Others
  BY <1>13, OthersLeaveCall DEF Others, window, HandlerFits, Op
<1>14. CASE UNCHANGED guiVars
  BY <1>14 DEF guiVars, vars, client, window, CallsTyped, HandlerFits, Op
<1>15. QED
  BY <1>3, <1>4, <1>5, <1>6, <1>7, <1>8, <1>9, <1>10, <1>11, <1>12, <1>13, <1>14
     DEF GuiNext, HandlerStep

LEMMA GuiStart ==
    ASSUME GuiInit
    PROVE  CallsTyped /\ HandlerFits
<1>1. [op |-> "migrate"] \in Request
  BY DEF Request
<1>2. QED
  BY <1>1, EmptySeq DEF GuiInit, Init, CallsTyped, HandlerFits, Label, Event

(* The window and the other processes together use the file as the clients  *)
(* of Engine do, so what is proved of Engine holds for them: its handlers   *)
(* call nothing out of turn and never use an engine that is not open.       *)
THEOREM GuiUsesEngine == GuiSpec => Spec
<1>1. GuiInit => Init
  BY DEF GuiInit
<1>2. CallsTyped /\ HandlerFits /\ [GuiNext]_guiVars => [Next]_vars
  BY GuiStepIsEngineStep
<1>3. CallsTyped /\ HandlerFits /\ [GuiNext]_guiVars => (CallsTyped /\ HandlerFits)'
  BY HandlerFitsStep
<1>4. QED
  BY <1>1, <1>2, <1>3, GuiStart, PTL DEF GuiSpec, Spec

-----------------------------------------------------------------------------
(* What the other processes leave alone, and how a call of the window ends. *)

EngineInv ==
    /\ ScanInv /\ JobScanInv /\ AnswerInv
    /\ \A c \in Conn : CopyHasJobs(c)

LEMMA EngineInvHolds == GuiSpec => []EngineInv
BY GuiUsesEngine, ScanInvInductive, JobScanInvInductive, AnswerInvInductive,
   CopiesHaveJobs, PTL DEF EngineInv

LEMMA EngineParts ==
    ASSUME EngineInv
    PROVE  /\ TypeOK /\ StorageTypeOK /\ LockInv /\ App \in Conn
           /\ \A c \in Conn : Fits(c) /\ Unanswered(c) /\ NothingFound(c)
BY TypeParts, AppAssumption DEF EngineInv, ScanInv, AnswerInv, ViewInv, LockInv

LEMMA OthersLeaveWindow ==
    ASSUME EngineInv, Others
    PROVE  /\ pc'[App] = pc[App] /\ call'[App] = call[App] /\ ret'[App] = ret[App]
           /\ rows'[App] = rows[App] /\ found'[App] = found[App]
           /\ tx'[App] = tx[App]
<1>1. PICK c \in Conn \ {App} :
           \/ Open(c) \/ Close(c) \/ Crash(c)
           \/ \E r \in OtherRequests : Invoke(c, r)
           \/ Step(c)
  BY DEF Others
<1>2. \/ Open(c) \/ Close(c) \/ Crash(c)
      \/ \E r \in Requests : Invoke(c, r)
      \/ Step(c)
  BY <1>1, AppAssumption
<1>3. TypeOK /\ Fits(c) /\ Unanswered(c) /\ NothingFound(c) /\ App \in Conn \ {c}
  BY EngineParts
<1>4. Good(c) /\ ScanMoves(c) /\ JobScanMoves(c) /\ AnswerMoves(c)
  BY <1>2, <1>3, StepIsGood, StepScan, StepRows, StepAnswer
<1>5. QED
  BY <1>3, <1>4 DEF Good, OthersKeep, OthersWait, ScanMoves, JobScanMoves, AnswerMoves

(* A list_... call that returns without an error has changed nothing, and   *)
(* read to the end of its table.                                            *)
LEMMA ListingEnds ==
    ASSUME TypeOK, NEW c \in Conn, Fits(c), Step(c), IsRead(c),
           pc'[c] = "idle", ret'[c].ok
    PROVE  /\ disk' = disk /\ tx'[c] = tx[c]
           /\ found'[c] = found[c] /\ rows'[c] = rows[c]
           /\ \/ pc[c] = "rows" /\ Op(c) = "list_workers"
              \/ /\ pc[c] = "rows" /\ Op(c) = "list_jobs"
                 /\ at[c] > Len(Visible(c).jobs)
              \/ pc[c] = "prepare" /\ Op(c) = "list_devices"
              \/ pc[c] = "select_device"
<1>1. ASSUME \E why : Raise(c, why)
      PROVE  FALSE
  BY <1>1 DEF Raise, Finish, TypeOK
<1>2. ASSUME \E label \in Label \ {"idle"} : Goto(c, label)
      PROVE  FALSE
  BY <1>2 DEF Goto, TypeOK
<1>3. pc[c] \notin Writing \cup {"reserve"} /\ Op(c) # "migrate"
  BY DEF Fits, CallFits, IsRead
<1>4. CASE ListWorkers(c) \/ ListJobsDone(c)
  <2>1. disk' = disk /\ tx'[c] = tx[c]
    BY <1>4, TypeParts, EndStatementStep DEF ListWorkers, ListJobsDone
  <2>2. QED
    BY <1>4, <2>1 DEF ListWorkers, ListJobsDone, Return
<1>5. CASE ListAddressesBusy(c) \/ ListDevicesDone(c)
  BY <1>5 DEF ListAddressesBusy, ListDevicesDone, Return, storage
<1>6. CASE \/ NoSuchTable(c) \/ BeginInTransaction(c) \/ LockBusy(c)
           \/ SelectDeviceBusy(c)
  BY <1>1, <1>6 DEF NoSuchTable, BeginInTransaction, LockBusy, SelectDeviceBusy
<1>7. CASE Lock(c) \/ UseOpenTransaction(c) \/ SelectDevice(c)
  <2>1. FirstStep(c) \in Label \ {"idle"}
    BY DEF FirstStep, Label
  <2>2. QED
    BY <1>2, <1>7, <2>1 DEF Lock, UseOpenTransaction, SelectDevice, Label
<1>8. CASE ListJobsRow(c) \/ ListAddresses(c) \/ FetchDevice(c)
  BY <1>8 DEF ListJobsRow, ListAddresses, FetchDevice, TypeOK
<1>9. CASE SkipCreate(c)
  BY <1>3, <1>9 DEF SkipCreate, ObjectExists
<1>10. CASE \/ ReserveBusy(c) \/ Reserve(c) \/ Create(c) \/ AddWorker(c)
            \/ AddWorkerFull(c) \/ Upsert(c) \/ StartRepair(c) \/ StartRepairFails(c)
            \/ BreakdownNoDevices(c) \/ BreakdownDevice(c) \/ BreakdownJobFails(c)
            \/ BreakdownJob(c) \/ FinishRepairFails(c) \/ FinishRepairSelect(c)
            \/ FinishRepairJob(c) \/ FinishRepairDevice(c) \/ Commit(c)
            \/ CommitBusy(c) \/ AutocommitBusy(c) \/ PublishCommit(c)
  BY <1>3, <1>10 DEF ReserveBusy, Reserve, Create, AddWorker, AddWorkerFull, Upsert,
     StartRepair, StartRepairFails, BreakdownNoDevices, BreakdownDevice,
     BreakdownJobFails, BreakdownJob, FinishRepairFails, FinishRepairSelect,
     FinishRepairJob, FinishRepairDevice, Commit, CommitBusy, AutocommitBusy,
     PublishCommit, Writing
<1>11. QED
  BY <1>4, <1>5, <1>6, <1>7, <1>8, <1>9, <1>10 DEF Step

LEMMA StepRuns ==
    ASSUME NEW c \in Conn, Step(c)
    PROVE  pc[c] \notin {"closed", "idle"}
BY DEF Step, NoSuchTable, BeginInTransaction, LockBusy, SkipCreate, Lock,
   UseOpenTransaction, ReserveBusy, Reserve, Create, AddWorker, AddWorkerFull, Upsert,
   StartRepair, StartRepairFails, BreakdownNoDevices, BreakdownDevice,
   BreakdownJobFails, BreakdownJob, FinishRepairFails, FinishRepairSelect,
   FinishRepairJob, FinishRepairDevice, Commit, CommitBusy, AutocommitBusy,
   PublishCommit, ListWorkers, ListJobsRow, ListJobsDone, ListAddressesBusy,
   ListAddresses, SelectDevice, SelectDeviceBusy, FetchDevice, ListDevicesDone

-----------------------------------------------------------------------------
(* The state of the window.                                                 *)

(* A call of the window is under way only inside a handler that made it,    *)
(* and list_workers has returned rows only until its table is filled.       *)
CallOfHandler ==
    /\ pc[App] \notin {"closed", "idle"} =>
         event \in {"save", "list"} \/ (event = "migrate" /\ Op(App) = "migrate")
    /\ event = "list" => call[App] = ListCall[Head(agenda)]
    /\ listed # << >> => event = "list" /\ HasAnswer

WindowInv == GuiTypeOK /\ HandlerFits /\ CallOfHandler

LEMMA CallOfHandlerStep ==
    ASSUME EngineInv, HandlerFits, CallOfHandler, [GuiNext]_guiVars
    PROVE  CallOfHandler'
<1>0. TypeOK /\ App \in Conn
  BY EngineParts
<1>1. CASE CallStep
  <2>1. /\ Step(App) /\ UNCHANGED <<event, agenda>>
        /\ listed' = IF pc[App] = "rows" /\ Op(App) = "list_workers"
                     THEN Visible(App).workers ELSE listed
    BY <1>1 DEF CallStep
  <2>2. pc[App] \notin {"closed", "idle"} /\ call' = call
    BY <1>0, <2>1, StepRuns, StepKeepsCall DEF TypeOK
  <2>3. listed = << >>
    BY <2>2 DEF CallOfHandler, HasAnswer
  <2>4. ASSUME pc[App] = "rows", Op(App) = "list_workers"
        PROVE  event = "list" /\ pc'[App] = "idle"
    <3>1. Op(App) \notin DOMAIN RefreshedBy
      BY <2>4 DEF RefreshedBy
    <3>2. event = "list"
      BY <2>2, <2>4, <3>1 DEF CallOfHandler, HandlerFits
    <3>3. ListWorkers(App)
      BY <2>1, <2>4 DEF Step, NoSuchTable, BeginInTransaction, LockBusy, SkipCreate,
         Lock, UseOpenTransaction, ReserveBusy, Reserve, Create, AddWorker,
         AddWorkerFull, Upsert, StartRepair, StartRepairFails, BreakdownNoDevices,
         BreakdownDevice, BreakdownJobFails, BreakdownJob, FinishRepairFails,
         FinishRepairSelect, FinishRepairJob, FinishRepairDevice, Commit, CommitBusy,
         AutocommitBusy, PublishCommit, ListJobsRow, ListJobsDone, ListAddressesBusy,
         ListAddresses, SelectDevice, SelectDeviceBusy, FetchDevice, ListDevicesDone
    <3>4. QED
      BY <1>0, <3>2, <3>3 DEF ListWorkers, Return, Finish, TypeOK
  <2>5. QED
    BY <2>1, <2>2, <2>3, <2>4 DEF CallOfHandler, Op, HasAnswer
<1>2. CASE OpenEngine \/ CloseOldEngine \/ OpenDbFails
  BY <1>0, <1>2 DEF OpenEngine, CloseOldEngine, OpenDbFails, Open, Close, Goto,
     CallOfHandler, TypeOK
<1>3. CASE MigrateEngine \/ (\E r \in SaveRequests : Save(r)) \/ StartRefresh
  BY <1>0, <1>3 DEF MigrateEngine, Save, StartRefresh, Invoke, CallOfHandler,
     HasAnswer, MigrateRequest, Op, TypeOK
<1>4. CASE \/ OpenDbDone \/ SaveFails \/ SaveDone \/ FillTable \/ LeaveTableEmpty
           \/ \E table \in Table : PressRefresh(table)
  BY <1>4 DEF OpenDbDone, SaveFails, SaveDone, FillTable, LeaveTableEmpty,
     AfterRefresh, PressRefresh, HasAnswer, vars, client, CallOfHandler
<1>5. CASE Restart
  BY <1>0, <1>5 DEF Restart, Close, Crash, Goto, vars, client, CallOfHandler, TypeOK
<1>6. CASE Others
  BY <1>6, OthersLeaveWindow DEF Others, window, CallOfHandler, HasAnswer, Op
<1>7. CASE UNCHANGED guiVars
  BY <1>7 DEF guiVars, vars, client, window, CallOfHandler, HasAnswer, Op
<1>8. QED
  BY <1>1, <1>2, <1>3, <1>4, <1>5, <1>6, <1>7 DEF GuiNext, HandlerStep

(* The three tables, each with rows of its own type.                        *)
LEMMA TableTypes ==
    ASSUME NEW s \in [workers : Seq(Int), devices : [Address -> Device \cup {NULL}],
                      jobs : Seq(Job)],
           NEW r \in [workers : Seq(Int), devices : [Address -> Device \cup {NULL}],
                      jobs : Seq(Job)],
           NEW t \in Table
    PROVE  [s EXCEPT ![t] = r[t]] \in
               [workers : Seq(Int), devices : [Address -> Device \cup {NULL}],
                jobs : Seq(Job)]
<1>1. CASE t = "workers"
  BY <1>1
<1>2. CASE t = "devices"
  BY <1>2
<1>3. CASE t = "jobs"
  BY <1>3
<1>4. QED
  BY <1>1, <1>2, <1>3 DEF Table

LEMMA GuiTypeStep ==
    ASSUME EngineInv, HandlerFits, GuiTypeOK, HandlerFits', [GuiNext]_guiVars
    PROVE  GuiTypeOK'
<1> DEFINE Tables == [workers : Seq(Int), devices : [Address -> Device \cup {NULL}],
                      jobs : Seq(Job)]
<1>0. /\ TypeOK /\ App \in Conn
      /\ << >> \in Seq(Int) /\ EmptyTable \in Tables
      /\ Unfilled \in [Table -> {"no", "yes", "draft"}]
      /\ NoReport \in [id : Nat, address : Address \cup {NULL}]
  BY EngineParts DEF EmptyTable, NoRows, Unfilled, NoReport
<1>1. /\ shown \in Tables /\ listed \in Seq(Int)
      /\ filled \in [Table -> {"no", "yes", "draft"}]
      /\ reported \in [id : Nat, address : Address \cup {NULL}]
  BY DEF GuiTypeOK
<1> DEFINE Typed == /\ shown' \in Tables /\ listed' \in Seq(Int)
                    /\ filled' \in [Table -> {"no", "yes", "draft"}]
                    /\ reported' \in [id : Nat, address : Address \cup {NULL}]
<1> SUFFICES Typed
  BY DEF GuiTypeOK, HandlerFits
<1>2. CASE CallStep
  <2>1. Visible(App).workers \in Seq(Int)
    BY <1>0, EngineParts, VisibleType DEF Database
  <2>2. QED
    BY <1>1, <1>2, <2>1 DEF CallStep
<1>3. CASE \/ OpenEngine \/ CloseOldEngine \/ OpenDbFails \/ MigrateEngine
           \/ (\E r \in SaveRequests : Save(r)) \/ OpenDbDone \/ SaveFails \/ Others
           \/ (\E table \in Table : PressRefresh(table)) \/ UNCHANGED guiVars
  BY <1>1, <1>3 DEF OpenEngine, CloseOldEngine, OpenDbFails, MigrateEngine, Save,
     OpenDbDone, SaveFails, Others, PressRefresh, guiVars, window
<1>4. CASE SaveDone
  <2>1. call[App] \in Request /\ ret[App].id \in Nat
    BY <1>0 DEF TypeOK, Answer
  <2>2. Reported \in [id : Nat, address : Address \cup {NULL}]
    BY <1>1, <2>1, RequestFields DEF Reported, Op
  <2>3. QED
    BY <1>1, <1>4, <2>2 DEF SaveDone
<1>5. ASSUME event \in {"refresh", "list"}
      PROVE  Head(agenda) \in Table
  BY <1>5 DEF HandlerFits
<1>6. CASE StartRefresh
  <2>1. Head(agenda) \in Table
    BY <1>5, <1>6 DEF StartRefresh
  <2>2. [shown EXCEPT ![Head(agenda)] = EmptyTable[Head(agenda)]] \in Tables
    BY <1>0, <1>1, <2>1, TableTypes
  <2>3. QED
    BY <1>1, <1>6, <2>2 DEF StartRefresh
<1>7. CASE FillTable
  <2>1. Head(agenda) \in Table
    BY <1>5, <1>7 DEF FillTable, AfterRefresh
  <2>2. Result \in Tables
    BY <1>0, <1>1 DEF Result, TypeOK
  <2>3. [shown EXCEPT ![Head(agenda)] = Result[Head(agenda)]] \in Tables
    BY <1>1, <2>1, <2>2, TableTypes
  <2>4. QED
    BY <1>0, <1>1, <1>7, <2>3 DEF FillTable, AfterRefresh
<1>8. CASE LeaveTableEmpty
  BY <1>0, <1>1, <1>8 DEF LeaveTableEmpty, AfterRefresh
<1>9. CASE Restart
  BY <1>0, <1>9 DEF Restart
<1>10. QED
  BY <1>2, <1>3, <1>4, <1>6, <1>7, <1>8, <1>9 DEF GuiNext, HandlerStep

LEMMA WindowStarts ==
    ASSUME GuiInit
    PROVE  WindowInv
<1>1. HandlerFits
  BY GuiStart
<1>2. << >> \in Seq(Int) /\ << >> \in Seq(Job)
  OBVIOUS
<1>3. GuiTypeOK
  BY <1>1, <1>2 DEF GuiInit, GuiTypeOK, HandlerFits, EmptyTable, NoRows, Unfilled,
     NoReport
<1>4. CallOfHandler
  BY AppAssumption DEF GuiInit, Init, CallOfHandler
<1>5. QED
  BY <1>1, <1>3, <1>4 DEF WindowInv

LEMMA WindowInvInductive == GuiSpec => []WindowInv
<1>1. EngineInv /\ WindowInv /\ [GuiNext]_guiVars => WindowInv'
  <2> SUFFICES ASSUME EngineInv, WindowInv, [GuiNext]_guiVars
               PROVE  WindowInv'
    OBVIOUS
  <2>1. CallsTyped /\ HandlerFits /\ GuiTypeOK /\ CallOfHandler
    BY EngineParts DEF WindowInv, CallsTyped, TypeOK
  <2>2. HandlerFits'
    BY <2>1, HandlerFitsStep
  <2>3. QED
    BY <2>1, <2>2, GuiTypeStep, CallOfHandlerStep DEF WindowInv
<1>2. QED
  BY <1>1, WindowStarts, EngineInvHolds, PTL DEF GuiSpec

(* The window's tables hold rows of their types, it is never inside a       *)
(* handler that uses an engine it has closed, and it has tables still to    *)
(* refresh exactly while a refresh is under way.                            *)
THEOREM WindowTypeCorrect == GuiSpec => []GuiTypeOK
BY WindowInvInductive, PTL DEF WindowInv

-----------------------------------------------------------------------------
(* The rows of the window are rows of the file.                             *)

(* Rows that a file has, jobs at a later state of theirs at best.           *)
WorkersIn(file, s) ==
    \A w \in DOMAIN s : w \in DOMAIN file.workers /\ file.workers[w] = s[w]
DevicesIn(file, f) ==
    \A a \in Address : f[a] # NULL => file.devices[a] # NULL
JobsIn(file, s) ==
    \A j \in DOMAIN s :
        j \in DOMAIN file.jobs /\ Ledger!Advances(s[j], file.jobs[j])

LEMMA RowsAdvance ==
    /\ \A job \in Job : Ledger!Advances(job, job)
    /\ \A x, y, z \in Job : Ledger!Advances(x, y) /\ Ledger!Advances(y, z)
                              => Ledger!Advances(x, z)
BY DEF Ledger!Advances, Ledger!StatusRank, Job, JobStatus

(* What was in the file is in it after every step.                          *)
LEMMA RowsRemain ==
    ASSUME NEW old \in Database, NEW new \in Database,
           new = old \/ RowsKept(old, new)
    PROVE  /\ \A s : WorkersIn(old, s) => WorkersIn(new, s)
           /\ \A f : DevicesIn(old, f) => DevicesIn(new, f)
           /\ \A s \in Seq(Job) : JobsIn(old, s) => JobsIn(new, s)
<1>1. CASE new = old
  BY <1>1
<1>2. CASE RowsKept(old, new)
  <2>1. \A s : WorkersIn(old, s) => WorkersIn(new, s)
    BY <1>2 DEF RowsKept, WorkersIn
  <2>2. \A f : DevicesIn(old, f) => DevicesIn(new, f)
    BY <1>2 DEF RowsKept, DevicesIn
  <2>3. ASSUME NEW s \in Seq(Job), JobsIn(old, s), NEW j \in DOMAIN s
        PROVE  j \in DOMAIN new.jobs /\ Ledger!Advances(s[j], new.jobs[j])
    <3>1. j \in DOMAIN old.jobs /\ Ledger!Advances(s[j], old.jobs[j])
      BY <2>3 DEF JobsIn
    <3>2. j \in DOMAIN new.jobs /\ Ledger!Advances(old.jobs[j], new.jobs[j])
      BY <1>2, <3>1 DEF RowsKept, JobsKept
    <3>3. s[j] \in Job /\ old.jobs[j] \in Job /\ new.jobs[j] \in Job
      BY <2>3, <3>1, <3>2, JobRowType
    <3>4. QED
      BY <3>1, <3>2, <3>3, RowsAdvance
  <2>4. QED
    BY <2>1, <2>2, <2>3 DEF JobsIn
<1>3. QED
  BY <1>1, <1>2

(* The call that refreshes table t has returned and its rows are not yet    *)
(* shown.                                                                   *)
Answered(t) == event = "list" /\ HasAnswer /\ ret[App].ok /\ Head(agenda) = t

AnswersCommitted ==
    ~tx[App] =>
        /\ Answered("workers") => WorkersIn(disk, listed)
        /\ Answered("devices") => DevicesIn(disk, found[App])
        /\ Answered("jobs") => JobsIn(disk, rows[App])

ShownCommitted ==
    /\ filled["workers"] = "yes" => WorkersIn(disk, shown.workers)
    /\ filled["devices"] = "yes" => DevicesIn(disk, shown.devices)
    /\ filled["jobs"] = "yes" => JobsIn(disk, shown.jobs)

(* The end of a list_... call outside a transaction: its rows are those of  *)
(* the file.                                                                *)
LEMMA AnswerCommitted ==
    ASSUME EngineInv, WindowInv, CallStep, ~tx'[App]
    PROVE  /\ Answered("workers")' => WorkersIn(disk', listed')
           /\ Answered("devices")' => DevicesIn(disk', found'[App])
           /\ Answered("jobs")' => JobsIn(disk', rows'[App])
<1>0. TypeOK /\ StorageTypeOK /\ App \in Conn /\ Fits(App) /\ NothingFound(App)
  BY EngineParts
<1>1. /\ Step(App) /\ event' = event /\ agenda' = agenda
      /\ listed' = IF pc[App] = "rows" /\ Op(App) = "list_workers"
                   THEN Visible(App).workers ELSE listed
  BY DEF CallStep
<1>2. pc[App] \notin {"closed", "idle"}
  BY <1>0, <1>1, StepRuns
<1> SUFFICES ASSUME NEW t \in Table, Answered(t)'
             PROVE  /\ t = "workers" => WorkersIn(disk', listed')
                    /\ t = "devices" => DevicesIn(disk', found'[App])
                    /\ t = "jobs" => JobsIn(disk', rows'[App])
  BY DEF Table
<1>3. event = "list" /\ Head(agenda) = t /\ pc'[App] = "idle" /\ ret'[App].ok
  BY <1>1 DEF Answered, HasAnswer
<1>4. call[App] = ListCall[t]
  BY <1>3 DEF WindowInv, CallOfHandler
<1>5. /\ t = "workers" => Op(App) = "list_workers"
      /\ t = "devices" => Op(App) = "list_devices"
      /\ t = "jobs" => Op(App) = "list_jobs" /\ call[App].status = NULL
  BY <1>4 DEF ListCall, Op
<1>6. IsRead(App)
  BY <1>5 DEF IsRead, Table
<1>7. /\ disk' = disk /\ tx'[App] = tx[App]
      /\ found'[App] = found[App] /\ rows'[App] = rows[App]
      /\ \/ pc[App] = "rows" /\ Op(App) = "list_workers"
         \/ /\ pc[App] = "rows" /\ Op(App) = "list_jobs"
            /\ at[App] > Len(Visible(App).jobs)
         \/ pc[App] = "prepare" /\ Op(App) = "list_devices"
         \/ pc[App] = "select_device"
  BY <1>0, <1>1, <1>3, <1>6, ListingEnds
<1>8. ~tx[App] /\ (pc[App] = "rows" => Visible(App) = disk)
  BY <1>0, <1>7 DEF Fits, LockFits, Visible, IsWriter, WriteLock
<1>9. CASE t = "workers"
  <2>1. listed' \in {<< >>, Visible(App).workers}
    BY <1>1, <1>2 DEF WindowInv, CallOfHandler, HasAnswer
  <2>2. (pc[App] = "rows" /\ Op(App) = "list_workers") \/ listed' = << >>
    BY <1>1, <1>2 DEF WindowInv, CallOfHandler, HasAnswer
  <2>3. WorkersIn(disk', listed')
    BY <1>7, <1>8, <2>1, <2>2 DEF WorkersIn
  <2>4. QED
    BY <1>9, <2>3
<1>10. CASE t = "devices"
  <2>1. CASE pc[App] = "prepare"
    BY <1>7, <1>10, <2>1, <1>0 DEF NothingFound, NoRows, DevicesIn
  <2>2. CASE pc[App] = "select_device"
    BY <1>0, <1>7, <1>8, <1>10, <2>2
       DEF EngineInv, ScanInv, DeviceScanIsCommitted, DevicesIn
  <2>3. QED
    BY <1>5, <1>7, <1>10, <2>1, <2>2
<1>11. CASE t = "jobs"
  <2>1. CASE pc[App] = "select_device"
    BY <1>0, <1>5, <1>11, <2>1 DEF EngineInv, JobScanInv, NoRowRead
  <2>2. CASE pc[App] = "rows"
    <3>1. \A j \in 1..(at[App] - 1) : rows[App][j] = disk.jobs[j]
      BY <1>0, <1>5, <1>8, <1>11, <2>2 DEF EngineInv, JobScanInv, JobScan
    <3>2. /\ Len(rows[App]) = at[App] - 1 /\ at[App] <= Len(disk.jobs) + 1
          /\ rows[App] \in Seq(Job) /\ disk.jobs \in Seq(Job) /\ at[App] \in Nat
      BY <1>0, <1>5, <1>8, <1>11, <2>2
         DEF EngineInv, JobScanInv, JobScan, TypeOK, StorageTypeOK, Database
    <3>3. ASSUME NEW j \in DOMAIN rows[App]
          PROVE  j \in DOMAIN disk.jobs /\ Ledger!Advances(rows[App][j], disk.jobs[j])
      <4>1. j \in 1..(at[App] - 1) /\ j \in DOMAIN disk.jobs
        BY <3>2
      <4>2. rows[App][j] = disk.jobs[j] /\ disk.jobs[j] \in Job
        BY <3>1, <3>2, <4>1
      <4>3. QED
        BY <4>1, <4>2, RowsAdvance
    <3>4. QED
      BY <1>7, <1>11, <3>3 DEF JobsIn
  <2>3. QED
    BY <1>5, <1>7, <1>11, <2>1, <2>2
<1>12. QED
  BY <1>9, <1>10, <1>11 DEF Table

(* A step that starts or ends a handler, or goes on with it, and leaves no  *)
(* answer waiting.                                                          *)
HandlerMoves ==
    \/ OpenEngine \/ CloseOldEngine \/ MigrateEngine \/ OpenDbFails \/ OpenDbDone
    \/ SaveFails \/ SaveDone \/ (\E r \in SaveRequests : Save(r))
    \/ (\E table \in Table : PressRefresh(table))

LEMMA GuiSteps ==
    ASSUME [GuiNext]_guiVars
    PROVE  \/ CallStep \/ Others \/ UNCHANGED guiVars
           \/ HandlerMoves \/ StartRefresh \/ FillTable \/ LeaveTableEmpty \/ Restart
BY DEF GuiNext, HandlerStep, HandlerMoves

LEMMA HandlerLeavesTables ==
    ASSUME HandlerMoves
    PROVE  event' # "list" /\ shown' = shown /\ filled' = filled
BY DEF HandlerMoves, OpenEngine, CloseOldEngine, MigrateEngine, OpenDbFails, OpenDbDone,
   SaveFails, SaveDone, Save, PressRefresh

LEMMA NoAnswerLeft ==
    ASSUME EngineInv, StartRefresh \/ FillTable \/ LeaveTableEmpty \/ Restart
    PROVE  event' # "list" \/ pc'[App] # "idle"
<1>1. TypeOK /\ App \in Conn
  BY EngineParts
<1>2. CASE StartRefresh
  BY <1>1, <1>2 DEF StartRefresh, Invoke, TypeOK
<1>3. CASE FillTable \/ LeaveTableEmpty \/ Restart
  BY <1>3 DEF FillTable, LeaveTableEmpty, AfterRefresh, Restart
<1>4. QED
  BY <1>2, <1>3

LEMMA AnswersCommittedStep ==
    ASSUME EngineInv, TypeOK', WindowInv, AnswersCommitted, [GuiNext]_guiVars,
           disk' = disk \/ RowsKept(disk, disk')
    PROVE  AnswersCommitted'
<1>0. /\ TypeOK /\ App \in Conn /\ disk \in Database /\ disk' \in Database
      /\ rows[App] \in Seq(Job)
  BY EngineParts DEF TypeOK, StorageTypeOK
<1>1. CASE CallStep
  BY <1>1, AnswerCommitted DEF AnswersCommitted
<1>2. CASE Others \/ UNCHANGED guiVars
  <2>1. /\ pc'[App] = pc[App] /\ ret'[App] = ret[App]
        /\ rows'[App] = rows[App] /\ found'[App] = found[App]
        /\ tx'[App] = tx[App]
        /\ event' = event /\ agenda' = agenda /\ listed' = listed
    BY <1>2, OthersLeaveWindow DEF Others, guiVars, vars, storage, client, window
  <2>2. \A t : Answered(t)' <=> Answered(t)
    BY <2>1 DEF Answered, HasAnswer
  <2>3. QED
    BY <1>0, <2>1, <2>2, RowsRemain DEF AnswersCommitted
<1>3. CASE HandlerMoves
  BY <1>3, HandlerLeavesTables DEF AnswersCommitted, Answered
<1>4. CASE StartRefresh \/ FillTable \/ LeaveTableEmpty \/ Restart
  BY <1>4, NoAnswerLeft DEF AnswersCommitted, Answered, HasAnswer
<1>5. QED
  BY <1>1, <1>2, <1>3, <1>4, GuiSteps

LEMMA ShownCommittedStep ==
    ASSUME EngineInv, TypeOK', WindowInv, AnswersCommitted, ShownCommitted,
           [GuiNext]_guiVars, disk' = disk \/ RowsKept(disk, disk')
    PROVE  ShownCommitted'
<1>0. /\ disk \in Database /\ disk' \in Database
      /\ shown.jobs \in Seq(Job)
  BY EngineParts DEF StorageTypeOK, TypeOK, WindowInv, GuiTypeOK
<1>1. /\ filled["workers"] = "yes" => WorkersIn(disk', shown.workers)
      /\ filled["devices"] = "yes" => DevicesIn(disk', shown.devices)
      /\ filled["jobs"] = "yes" => JobsIn(disk', shown.jobs)
  BY <1>0, RowsRemain DEF ShownCommitted
<1>2. CASE shown' = shown /\ filled' = filled
  BY <1>1, <1>2 DEF ShownCommitted
<1>3. /\ filled \in [Table -> {"no", "yes", "draft"}]
      /\ shown \in [workers : Seq(Int), devices : [Address -> Device \cup {NULL}],
                    jobs : Seq(Job)]
      /\ event \in {"refresh", "list"} => Head(agenda) \in Table
  BY DEF WindowInv, GuiTypeOK
<1>4. CASE StartRefresh
  <2>1. PICK t \in Table : t = Head(agenda)
    BY <1>3, <1>4 DEF StartRefresh
  <2>2. /\ shown' = [shown EXCEPT ![t] = EmptyTable[t]]
        /\ filled' = [filled EXCEPT ![t] = "no"]
    BY <1>4, <2>1 DEF StartRefresh
  <2>3. \A u \in Table : filled'[u] = "yes" => u # t /\ filled[u] = "yes"
    BY <1>3, <2>2
  <2>4. /\ t # "workers" => shown'.workers = shown.workers
        /\ t # "devices" => shown'.devices = shown.devices
        /\ t # "jobs" => shown'.jobs = shown.jobs
    BY <1>3, <2>2
  <2>5. QED
    BY <1>1, <2>3, <2>4 DEF ShownCommitted, Table
<1>5. CASE FillTable
  <2>1. PICK t \in Table : t = Head(agenda)
    BY <1>3, <1>5 DEF FillTable, AfterRefresh
  <2>2. /\ shown' = [shown EXCEPT ![t] = Result[t]]
        /\ filled' = [filled EXCEPT ![t] = IF tx[App] THEN "draft" ELSE "yes"]
        /\ Answered(t) /\ disk' = disk
    BY <1>5, <2>1 DEF FillTable, AfterRefresh, Answered, vars, storage
  <2>3. \A u \in Table : filled'[u] = "yes" =>
          IF u = t THEN ~tx[App] ELSE filled[u] = "yes"
    BY <1>3, <2>2
  <2>4. /\ shown'.workers = IF t = "workers" THEN listed ELSE shown.workers
        /\ shown'.devices = IF t = "devices" THEN found[App] ELSE shown.devices
        /\ shown'.jobs = IF t = "jobs" THEN rows[App] ELSE shown.jobs
    BY <1>3, <2>2 DEF Result
  <2>5. ~tx[App] => /\ t = "workers" => WorkersIn(disk', listed)
                    /\ t = "devices" => DevicesIn(disk', found[App])
                    /\ t = "jobs" => JobsIn(disk', rows[App])
    BY <2>2 DEF AnswersCommitted
  <2>6. QED
    BY <1>1, <2>3, <2>4, <2>5 DEF ShownCommitted, Table
<1>6. CASE Restart
  BY <1>6 DEF Restart, Unfilled, Table, ShownCommitted
<1>7. CASE CallStep \/ Others \/ UNCHANGED guiVars \/ LeaveTableEmpty
  BY <1>2, <1>7 DEF CallStep, Others, guiVars, window, LeaveTableEmpty
<1>8. CASE HandlerMoves
  BY <1>2, <1>8, HandlerLeavesTables
<1>9. QED
  BY <1>4, <1>5, <1>6, <1>7, <1>8, GuiSteps

(* Whatever other processes write and however often a refresh was refused,  *)
(* the rows of the window are rows of the file: its calls read under a lock *)
(* or one committed row at a time, and no call takes a row back.            *)
THEOREM ShownRowsCommitted == GuiSpec => []ShownRowsAreCommitted
<1>1. GuiInit => AnswersCommitted /\ ShownCommitted
  BY DEF GuiInit, AnswersCommitted, ShownCommitted, Answered, Unfilled, Table
<1>2. /\ EngineInv /\ EngineInv' /\ WindowInv /\ AnswersCommitted /\ ShownCommitted
      /\ [GuiNext]_guiVars /\ [RowsKept(disk, disk')]_disk
      => AnswersCommitted' /\ ShownCommitted'
  <2> SUFFICES ASSUME EngineInv, EngineInv', WindowInv, AnswersCommitted,
                      ShownCommitted, [GuiNext]_guiVars, [RowsKept(disk, disk')]_disk
               PROVE  AnswersCommitted' /\ ShownCommitted'
    OBVIOUS
  <2>1. TypeOK'
    BY DEF EngineInv, ScanInv, ViewInv, LockInv
  <2>2. QED
    BY <2>1, AnswersCommittedStep, ShownCommittedStep
<1>3. ShownCommitted => ShownRowsAreCommitted
  BY DEF ShownCommitted, ShownRowsAreCommitted, WorkersIn, DevicesIn, JobsIn,
     WorkerExists, JobExists
<1>4. GuiSpec => [][RowsKept(disk, disk')]_disk
  BY GuiUsesEngine, FileRowsStay, PTL
<1>5. QED
  BY <1>1, <1>2, <1>3, <1>4, EngineInvHolds, WindowInvInductive, PTL DEF GuiSpec

-----------------------------------------------------------------------------
(* The job the window announced.                                            *)

Reports(report, jobs) ==
    report.id \in DOMAIN jobs /\ jobs[report.id].device = report.address

(* It is in the file, and in the table of jobs unless that is empty or is   *)
(* the one the handler is about to refresh.                                 *)
ReportInv ==
    reported # NoReport =>
        /\ Reports(reported, disk.jobs)
        /\ \/ filled["jobs"] = "no"
           \/ Reports(reported, shown.jobs)
           \/ event = "refresh" /\ agenda = <<"jobs">>
        /\ Answered("jobs") => Reports(reported, rows[App])

LEMMA ReportKept ==
    ASSUME NEW old, NEW new, JobsKept(old, new), NEW report, Reports(report, old.jobs)
    PROVE  Reports(report, new.jobs)
BY DEF Reports, JobsKept

(* The end of list_jobs: it returns the announced job, also when it ran in  *)
(* a transaction that a refused COMMIT left open.                           *)
LEMMA AnswerReports ==
    ASSUME EngineInv, WindowInv, CallStep, Answered("jobs")',
           NEW report, Reports(report, disk.jobs)
    PROVE  Reports(report, rows'[App])
<1>0. /\ TypeOK /\ StorageTypeOK /\ App \in Conn /\ Fits(App) /\ Step(App)
      /\ NoRowRead(App) /\ JobScan(App) /\ CopyHasJobs(App)
  BY EngineParts DEF EngineInv, JobScanInv, CallStep
<1>1. event = "list" /\ Head(agenda) = "jobs" /\ pc'[App] = "idle" /\ ret'[App].ok
  BY DEF CallStep, Answered, HasAnswer
<1>2. call[App] = ListCall["jobs"]
  BY <1>1 DEF WindowInv, CallOfHandler
<1>3. Op(App) = "list_jobs" /\ call[App].status = NULL /\ IsRead(App)
  BY <1>2 DEF ListCall, Op, IsRead, Table
<1>4. /\ rows'[App] = rows[App]
      /\ \/ pc[App] = "rows" /\ at[App] > Len(Visible(App).jobs)
         \/ pc[App] = "select_device"
  BY <1>0, <1>1, <1>3, ListingEnds
<1>5. pc[App] = "rows" /\ at[App] > Len(Visible(App).jobs)
  BY <1>0, <1>3, <1>4 DEF NoRowRead
<1>6. PICK seen \in Database : seen = Visible(App)
  BY <1>0 DEF Visible, StorageTypeOK
<1>7. /\ at[App] <= Len(seen.jobs) + 1
      /\ Len(rows[App]) = at[App] - 1
      /\ \A j \in 1..(at[App] - 1) : rows[App][j] = seen.jobs[j]
  BY <1>0, <1>3, <1>5, <1>6 DEF JobScan
<1>8. seen.jobs \in Seq(Job) /\ rows[App] \in Seq(Job) /\ at[App] \in Nat
  BY <1>0, <1>6 DEF Database, TypeOK
<1>9. /\ DOMAIN rows[App] = DOMAIN seen.jobs
      /\ \A j \in DOMAIN rows[App] : rows[App][j] = seen.jobs[j]
  BY <1>5, <1>6, <1>7, <1>8
<1>10. Reports(report, seen.jobs)
  BY <1>0, <1>6, ReportKept DEF CopyHasJobs, Visible
<1>11. QED
  BY <1>4, <1>9, <1>10 DEF Reports

LEMMA ReportInvStep ==
    ASSUME EngineInv, WindowInv, ReportInv, [GuiNext]_guiVars,
           disk' = disk \/ RowsKept(disk, disk')
    PROVE  ReportInv'
<1>0. App \in Conn /\ TypeOK
  BY EngineParts
<1>1. \A report : Reports(report, disk.jobs) => Reports(report, disk'.jobs)
  BY ReportKept DEF RowsKept
<1>2. ASSUME reported' = reported, filled' = filled, shown' = shown,
             (event' = event /\ agenda' = agenda) \/ event # "refresh",
             Answered("jobs")' /\ reported # NoReport => Reports(reported, rows'[App])
      PROVE  ReportInv'
  BY <1>1, <1>2 DEF ReportInv, NoReport
<1>3. CASE CallStep
  <2>1. /\ reported' = reported /\ filled' = filled /\ shown' = shown
        /\ event' = event /\ agenda' = agenda
    BY <1>3 DEF CallStep
  <2>2. Answered("jobs")' /\ reported # NoReport => Reports(reported, rows'[App])
    BY <1>3, AnswerReports DEF ReportInv
  <2>3. QED
    BY <1>2, <2>1, <2>2
<1>4. CASE Others \/ UNCHANGED guiVars
  <2>1. /\ pc'[App] = pc[App] /\ ret'[App] = ret[App] /\ rows'[App] = rows[App]
        /\ reported' = reported /\ filled' = filled /\ shown' = shown
        /\ event' = event /\ agenda' = agenda
    BY <1>4, OthersLeaveWindow DEF Others, guiVars, vars, client, window
  <2>2. Answered("jobs")' <=> Answered("jobs")
    BY <2>1 DEF Answered, HasAnswer
  <2>3. Answered("jobs")' /\ reported # NoReport => Reports(reported, rows'[App])
    BY <2>1, <2>2 DEF ReportInv
  <2>4. QED
    BY <1>2, <2>1, <2>3
<1>5. CASE HandlerMoves
  <2>1. event # "refresh" /\ event' # "list" /\ shown' = shown /\ filled' = filled
    BY <1>5, HandlerLeavesTables DEF HandlerMoves, OpenEngine, CloseOldEngine,
       MigrateEngine, OpenDbFails, OpenDbDone, SaveFails, SaveDone, Save, PressRefresh
  <2>2. CASE reported' = reported
    BY <1>2, <2>1, <2>2 DEF Answered
  <2>3. CASE reported' # reported
    <3>1. SaveDone /\ Op(App) = "breakdown"
      BY <1>5, <2>3 DEF HandlerMoves, OpenEngine, CloseOldEngine, MigrateEngine,
         OpenDbFails, OpenDbDone, SaveFails, SaveDone, Save, PressRefresh, Reported
    <3>2. /\ ret[App].ok /\ event' = "refresh" /\ agenda' = <<"jobs">>
          /\ reported' = [id |-> ret[App].id, address |-> call[App].address]
      BY <3>1 DEF SaveDone, Reported, RefreshedBy
    <3>3. IsRecorded(App)
      BY <1>0, <3>2 DEF EngineInv, AnswerInv
    <3>4. Reports(reported', disk.jobs)
      BY <3>1, <3>2, <3>3 DEF IsRecorded, JobExists, Reports
    <3>5. QED
      BY <1>1, <3>2, <3>4 DEF ReportInv, Answered
  <2>4. QED
    BY <2>2, <2>3
<1>6. /\ filled \in [Table -> {"no", "yes", "draft"}]
      /\ shown \in [workers : Seq(Int), devices : [Address -> Device \cup {NULL}],
                    jobs : Seq(Job)]
      /\ event \in {"refresh", "list"} => Head(agenda) \in Table
  BY DEF WindowInv, GuiTypeOK
<1>7. CASE StartRefresh
  <2>1. PICK t \in Table : t = Head(agenda)
    BY <1>6, <1>7 DEF StartRefresh
  <2>2. /\ shown' = [shown EXCEPT ![t] = EmptyTable[t]]
        /\ filled' = [filled EXCEPT ![t] = "no"]
        /\ reported' = reported /\ agenda' = agenda
    BY <1>7, <2>1 DEF StartRefresh
  <2>3. ~Answered("jobs")'
    BY <1>7, NoAnswerLeft DEF Answered, HasAnswer
  <2>4. CASE t = "jobs"
    <3>1. filled'["jobs"] = "no"
      BY <1>6, <2>2, <2>4
    <3>2. QED
      BY <1>1, <2>2, <2>3, <3>1 DEF ReportInv
  <2>5. CASE t # "jobs"
    <3>1. shown'.jobs = shown.jobs /\ filled'["jobs"] = filled["jobs"]
      BY <1>6, <2>2, <2>5 DEF Table
    <3>2. agenda # <<"jobs">>
      BY <2>1, <2>5
    <3>3. QED
      BY <1>1, <2>2, <2>3, <3>1, <3>2 DEF ReportInv
  <2>6. QED
    BY <2>4, <2>5
<1>8. CASE FillTable
  <2>1. PICK t \in Table : t = Head(agenda)
    BY <1>6, <1>8 DEF FillTable, AfterRefresh
  <2>2. /\ shown' = [shown EXCEPT ![t] = Result[t]]
        /\ filled' = [filled EXCEPT ![t] = IF tx[App] THEN "draft" ELSE "yes"]
        /\ reported' = reported /\ Answered(t) /\ event = "list"
    BY <1>8, <2>1 DEF FillTable, AfterRefresh, Answered
  <2>3. ~Answered("jobs")'
    BY <1>8, NoAnswerLeft DEF Answered, HasAnswer
  <2>4. CASE t = "jobs"
    <3>1. shown'.jobs = rows[App]
      BY <1>6, <2>2, <2>4 DEF Result
    <3>2. reported # NoReport => Reports(reported, rows[App])
      BY <2>2, <2>4 DEF ReportInv
    <3>3. QED
      BY <1>1, <2>2, <2>3, <3>1, <3>2 DEF ReportInv
  <2>5. CASE t # "jobs"
    <3>1. shown'.jobs = shown.jobs /\ filled'["jobs"] = filled["jobs"]
      BY <1>6, <2>2, <2>5 DEF Table
    <3>2. QED
      BY <1>1, <2>2, <2>3, <3>1 DEF ReportInv
  <2>6. QED
    BY <2>4, <2>5
<1>9. CASE LeaveTableEmpty
  <2>1. ~Answered("jobs")'
    BY <1>9, NoAnswerLeft DEF Answered, HasAnswer
  <2>2. QED
    BY <1>2, <1>9, <2>1 DEF LeaveTableEmpty, AfterRefresh
<1>10. CASE Restart
  BY <1>10 DEF Restart, ReportInv
<1>11. QED
  BY <1>3, <1>4, <1>5, <1>7, <1>8, <1>9, <1>10, GuiSteps

(* The job on_breakdown announced is in the window's table of jobs once the *)
(* handler is over, or that table is empty because list_jobs was refused:   *)
(* the job is committed before the call returns, no process takes it back,  *)
(* and the refresh that follows reads the table to its end.                 *)
THEOREM ReportedJobShown == GuiSpec => []ReportedJobIsShown
<1>1. GuiInit => ReportInv
  BY DEF GuiInit, ReportInv
<1>2. /\ EngineInv /\ WindowInv /\ ReportInv
      /\ [GuiNext]_guiVars /\ [RowsKept(disk, disk')]_disk
      => ReportInv'
  <2> SUFFICES ASSUME EngineInv, WindowInv, ReportInv, [GuiNext]_guiVars,
                      [RowsKept(disk, disk')]_disk
               PROVE  ReportInv'
    OBVIOUS
  <2>1. QED
    BY ReportInvStep
<1>3. ReportInv => ReportedJobIsShown
  BY DEF ReportInv, ReportedJobIsShown, Reports
<1>4. GuiSpec => [][RowsKept(disk, disk')]_disk
  BY GuiUsesEngine, FileRowsStay, PTL
<1>5. QED
  BY <1>1, <1>2, <1>3, <1>4, EngineInvHolds, WindowInvInductive, PTL DEF GuiSpec
=============================================================================
