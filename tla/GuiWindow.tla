----------------------------- MODULE GuiWindow -----------------------------
(***************************************************************************)
(* The window of python/gui_tk.py as a client of Engine: one process uses   *)
(* its connection through the handlers of the window, the other processes   *)
(* call what they like.  A handler runs to its end before the next one      *)
(* starts (Tk has one thread, and message boxes are modal); between its     *)
(* calls the other processes go on.  The fields of the forms are left out:  *)
(* a handler that refuses them calls nothing.                               *)
(***************************************************************************)
EXTENDS Engine

CONSTANTS
    App,                     \* the connection of the window
    OtherRequests            \* the calls of the other processes

ASSUME AppAssumption == App \in Conn /\ OtherRequests \subseteq Requests

Table == {"workers", "devices", "jobs"}

(* The call that fills a table, and the table a call of a handler refreshes.*)
ListCall == [workers |-> [op |-> "list_workers"],
             devices |-> [op |-> "list_devices"],
             jobs    |-> [op |-> "list_jobs", status |-> NULL]]
RefreshedBy == [add_worker    |-> "workers",
                upsert_device |-> "devices",
                breakdown     |-> "jobs"]

MigrateRequest == [op |-> "migrate"]
SaveRequests == {r \in Requests : r.op \in DOMAIN RefreshedBy}

ASSUME WindowRequestsAssumption ==
    {MigrateRequest} \cup {ListCall[t] : t \in Table} \subseteq Requests

VARIABLES
    event,                   \* what the handler under way does; "none": idle
    agenda,                  \* tables it has still to refresh
    shown,                   \* the rows of the three tables
    listed,                  \* the result of list_workers
    filled,                  \* history: whether and how each table was filled
    reported                 \* history: the last job on_breakdown announced

window == <<event, agenda, shown, listed, filled, reported>>
guiVars == <<vars, window>>

Event == {"none", "close", "open", "migrate", "save", "refresh", "list"}

EmptyTable == [workers |-> << >>, devices |-> NoRows, jobs |-> << >>]
(* A table is filled once list_... returned, or it is a draft, because that *)
(* call ran in a transaction left open by a refused COMMIT.                 *)
Unfilled == [t \in Table |-> "no"]
NoReport == [id |-> 0, address |-> NULL]

GuiTypeOK ==
    /\ event \in Event
    /\ agenda \in Seq(Table)
    /\ shown \in [workers : Seq(Int), devices : [Address -> Device \cup {NULL}],
                  jobs : Seq(Job)]
    /\ listed \in Seq(Int)
    /\ filled \in [Table -> {"no", "yes", "draft"}]
    /\ reported \in [id : Nat, address : Address \cup {NULL}]
    /\ event \in {"close", "none"} \/ pc[App] # "closed"
    /\ event \in {"refresh", "list"} <=> agenda # << >>

GuiInit ==
    /\ Init
    /\ event = "none" /\ agenda = << >> /\ shown = EmptyTable /\ listed = << >>
    /\ filled = Unfilled /\ reported = NoReport

-----------------------------------------------------------------------------
(* Handlers.  HasAnswer: the call the handler waits for has returned.       *)

HasAnswer == pc[App] = "idle"

(* on_open_db: the engine of before is closed by the assignment of the new  *)
(* one, which is then migrated.                                             *)
CloseOldEngine ==
    /\ event = "none"
    /\ Close(App)
    /\ event' = "close"
    /\ UNCHANGED <<agenda, shown, listed, filled, reported>>

OpenEngine ==
    /\ event \in {"none", "close"}
    /\ Open(App)
    /\ event' = "open"
    /\ UNCHANGED <<agenda, shown, listed, filled, reported>>

MigrateEngine ==
    /\ event = "open"
    /\ Invoke(App, MigrateRequest)
    /\ event' = "migrate"
    /\ UNCHANGED <<agenda, shown, listed, filled, reported>>

(* A bug: after the error the handler goes on to the refreshes.             *)
OpenDbFailsGoesOn ==
    /\ event = "migrate" /\ HasAnswer /\ ~ret[App].ok
    /\ Close(App)
    /\ event' = "refresh"
    /\ agenda' = <<"workers", "devices", "jobs">>
    /\ UNCHANGED <<shown, listed, filled, reported>>

(* self.engine = None; the tables keep their rows.                          *)
OpenDbFails ==
    /\ event = "migrate" /\ HasAnswer /\ ~ret[App].ok
    /\ Close(App)
    /\ event' = "none"
    /\ UNCHANGED <<agenda, shown, listed, filled, reported>>

OpenDbDone ==
    /\ event = "migrate" /\ HasAnswer /\ ret[App].ok
    /\ event' = "refresh"
    /\ agenda' = <<"workers", "devices", "jobs">>
    /\ UNCHANGED <<vars, shown, listed, filled, reported>>

(* on_add_worker, on_upsert_device, on_breakdown: a call, then the refresh  *)
(* of one table.                                                            *)
Save(r) ==
    /\ event = "none"
    /\ Invoke(App, r)
    /\ event' = "save"
    /\ UNCHANGED <<agenda, shown, listed, filled, reported>>

SaveFails ==
    /\ event = "save" /\ HasAnswer /\ ~ret[App].ok
    /\ event' = "none"
    /\ UNCHANGED <<vars, agenda, shown, listed, filled, reported>>

Reported == IF Op(App) = "breakdown"
            THEN [id |-> ret[App].id, address |-> call[App].address]
            ELSE reported

(* A bug: the handler ends without the refresh.                             *)
SaveDoneUnrefreshed ==
    /\ event = "save" /\ HasAnswer /\ ret[App].ok
    /\ event' = "none"
    /\ reported' = Reported
    /\ UNCHANGED <<vars, agenda, shown, listed, filled>>

SaveDone ==
    /\ event = "save" /\ HasAnswer /\ ret[App].ok
    /\ event' = "refresh"
    /\ agenda' = <<RefreshedBy[Op(App)]>>
    /\ reported' = Reported
    /\ UNCHANGED <<vars, shown, listed, filled>>

(* The refresh buttons.  Without an engine they do nothing.                 *)
PressRefresh(table) ==
    /\ event = "none" /\ pc[App] # "closed"
    /\ event' = "refresh"
    /\ agenda' = <<table>>
    /\ UNCHANGED <<vars, shown, listed, filled, reported>>

(* refresh_workers, refresh_devices, refresh_jobs: the table is emptied     *)
(* before the rows are asked for.                                           *)
StartRefresh ==
    /\ event = "refresh"
    /\ Invoke(App, ListCall[Head(agenda)])
    /\ event' = "list"
    /\ shown' = [shown EXCEPT ![Head(agenda)] = EmptyTable[Head(agenda)]]
    /\ filled' = [filled EXCEPT ![Head(agenda)] = "no"]
    /\ UNCHANGED <<agenda, listed, reported>>

Result == [workers |-> listed, devices |-> found[App], jobs |-> rows[App]]

AfterRefresh ==
    /\ event = "list" /\ HasAnswer
    /\ agenda' = Tail(agenda)
    /\ event' = IF Len(agenda) = 1 THEN "none" ELSE "refresh"
    /\ listed' = << >>
    /\ UNCHANGED <<vars, reported>>

FillTable ==
    /\ AfterRefresh
    /\ ret[App].ok
    /\ shown' = [shown EXCEPT ![Head(agenda)] = Result[Head(agenda)]]
    /\ filled' = [filled EXCEPT ![Head(agenda)] = IF tx[App] THEN "draft" ELSE "yes"]

(* The exception of the call is swallowed: the table stays empty.           *)
LeaveTableEmpty ==
    /\ AfterRefresh
    /\ ~ret[App].ok
    /\ UNCHANGED <<shown, filled>>

(* A step of the call under way; list_workers returns what is visible to it.*)
CallStep ==
    /\ Step(App)
    /\ listed' = IF pc[App] = "rows" /\ Op(App) = "list_workers"
                 THEN Visible(App).workers ELSE listed
    /\ UNCHANGED <<event, agenda, shown, filled, reported>>

(* The steps that end the handler under way.                                *)
HandlerStep ==
    \/ CallStep \/ (event # "none" /\ OpenEngine) \/ MigrateEngine
    \/ OpenDbFails \/ OpenDbDone \/ SaveFails \/ SaveDone
    \/ StartRefresh \/ FillTable \/ LeaveTableEmpty

(* The window is closed or its process dies, and is started again.          *)
Restart ==
    /\ Close(App) \/ Crash(App) \/ (pc[App] = "closed" /\ UNCHANGED vars)
    /\ event' = "none" /\ agenda' = << >> /\ shown' = EmptyTable
    /\ listed' = << >> /\ filled' = Unfilled /\ reported' = NoReport

Others ==
    /\ \E c \in Conn \ {App} :
          \/ Open(c) \/ Close(c) \/ Crash(c)
          \/ \E r \in OtherRequests : Invoke(c, r)
          \/ Step(c)
    /\ UNCHANGED window

GuiNext ==
    \/ HandlerStep
    \/ CloseOldEngine \/ (event = "none" /\ OpenEngine)
    \/ \E r \in SaveRequests : Save(r)
    \/ \E table \in Table : PressRefresh(table)
    \/ Restart
    \/ Others

GuiSpec == GuiInit /\ [][GuiNext]_guiVars

(* Tk runs a handler to its end, whatever the other processes do.           *)
FairGuiSpec == GuiSpec /\ WF_guiVars(HandlerStep)

-----------------------------------------------------------------------------
(* Properties.                                                              *)

(* Whatever other processes write and however often a refresh was refused,  *)
(* the rows of the window are rows of the file, jobs at an earlier state of *)
(* theirs at worst: not so only for a draft.                                *)
ShownRowsAreCommitted ==
    /\ filled["workers"] = "yes" =>
          \A w \in DOMAIN shown.workers :
              WorkerExists(disk, w) /\ disk.workers[w] = shown.workers[w]
    /\ filled["devices"] = "yes" =>
          \A a \in Address : shown.devices[a] # NULL => disk.devices[a] # NULL
    /\ filled["jobs"] = "yes" =>
          \A j \in DOMAIN shown.jobs :
              JobExists(disk, j) /\ Ledger!Advances(shown.jobs[j], disk.jobs[j])

(* The job the window announced is in its table when the handler is over,   *)
(* or its last refresh was refused: the operator sees the breakdown there   *)
(* although the table of devices is not refreshed and may still show the    *)
(* device as working.                                                       *)
ReportedJobIsShown ==
    event = "none" /\ reported # NoReport =>
        \/ filled["jobs"] = "no"
        \/ /\ reported.id \in DOMAIN shown.jobs
           /\ shown.jobs[reported.id].device = reported.address

(* Every handler ends, however the locks of the other processes fall.       *)
WindowResponds == event # "none" ~> event = "none"
=============================================================================
