# Equipment status monitoring: TLA+ models and proofs

This directory models the equipment monitor in TLA+: `esm::Engine` and the
SQLite storage below it, the window that calls it, the device classes and the
Haskell index of devices. TLC checks small instances and TLAPS proves theorems
about every instance. `PROJECT.json` lists the components,
the runs, the mutants that show each property can fail, the source lines each
definition stands for, the findings, the hazards and the theorems.

## 1. The system

| Component | State | Operations | Talks to |
|---|---|---|---|
| `Engine` (`esm/Engine.*`) | one connection, through its `SqliteStorage` | `migrate`, `add_worker`, `list_workers`, `upsert_device`, `list_devices`, `breakdown`, `start_repair`, `finish_repair`, `list_jobs` | the repositories, and SQLite directly through `handle()` |
| `DeviceRepository` | none | `upsert`, `listAddresses` | SQLite |
| `WorkerRepository` | none | `insert`, `list` | SQLite |
| `SqliteStorage` | `sqlite3*` | open (with `PRAGMA foreign_keys`), `exec`, `begin`, `commit`, `rollback`, close; `applyMigrationFile` is never called | SQLite |
| SQLite (vendored, `sqlite/`) | the database file, its locks, the journal | statements | the file, shared by all processes |
| Device hierarchy (`Device`, `HealthyDevice`, `ReserveDevice`, `FaultyDeviceEx`) | name, address, priority, uptime, fault | `breakDown`, `repair`, `clone`, `setPriority` | stored by `upsert_device` |
| `DeviceCollection` | a vector of devices | `add`, `emplace`, `find`, `sort_by_priority_desc` | the hierarchy |
| `FaultyDevice` (older, stand-alone) | name, address, priority, fault | `<=>`, `==`, `repair`, `ipv4_to_u32`, `u32_to_ipv4` | bindings, GUI |
| Bindings (`bindings/`) | none | copies of results, both Boost.Python and pybind11 | `Engine` from Python |
| GUI (`python/gui_tk.py`) | an engine or none, three tables on the screen | `on_open_db`, `on_upsert_device`, `on_add_worker`, `on_breakdown`, `refresh_*` | `Engine` through the bindings |
| Haskell (`haskell/`) | an immutable hash tree, a state monad over it | `insertDevice`, `findByAddress`, `deleteByAddress`, a parser of device lines | its own `Main` only |
| `main.cpp`, `demo.py`, tests | none | - | - |

What is hard here:

* **Several processes on one file.** The GUI, the demo and scripts each open the
  same `.db`. SQLite's file locks decide the interleaving, and since no busy
  timeout is set every refused lock is an error at once, at any of five places
  in a call (schema read, SHARED, RESERVED, EXCLUSIVE for COMMIT, EXCLUSIVE for
  autocommit).
* **Errors in the middle of a transaction.** `breakdown` and `finish_repair` are
  explicit transactions. Two of their error paths do not roll back: a failed
  prepare right after BEGIN (`Engine.cpp:105`) and a refused COMMIT
  (`Engine.cpp:131`, `193`). The connection then stays inside the transaction,
  and every later call on it behaves differently.
* **Reads that are not one statement.** `list_devices` is one transaction for
  the addresses and one for each row. `listAddresses` does not tell the end of
  the table from an error.
* **A window that may be stale.** Its tables are filled by calls that can be
  refused, are emptied before the call, and are refreshed one at a time while
  other processes write.
* **The same rule written twice.** Breaking down and repairing a device is in
  the classes and in `Engine`'s SQL; the order of importance is in
  `DeviceCollection` and in `FaultyDevice`; the priority of a faulty device is
  raised in two places and can be taken away in a third.
* **A tree that must not forget.** The Haskell index adds and removes branches
  that several addresses share.
* **State machines spread over columns.** A job is a status, a worker and two
  timestamps, written by different statements; a device's `is_faulty` must agree
  with its jobs.

What makes each component correct: for `Engine`, that the file changes only by
whole operations, that what a caller was told is in the file and stays there,
and that job rows and device rows never contradict each other; for migration,
that the file always holds a prefix of it; for the storage, that locks exclude
each other and that every call ends; for the window, that it shows what is in the
file and that every handler ends; for the devices, that orders, life cycles and
address conversions agree; for the tree, that it finds exactly what was added
and not deleted.

## 2. Modules

| Module | What it is |
|---|---|
| `EsmData` | The database as a value (which schema objects exist, the rows of `devices`, `workers`, `jobs`) and the effect of each SQL statement on it. |
| `RepairLedger` | The abstract specification: one variable `db`, every operation one indivisible step. |
| `SqliteStorage` | Connections to one file: `disk` is the committed database, `lock[c]` the lock of a connection, `work[c]` its uncommitted copy, `tx[c]` whether a BEGIN is open, `parsed[c]` whether it has read the schema. Actions are the lock and transaction steps of SQLite. |
| `Engine` | Every call of the C++ code as a sequence of steps on that storage: `pc[c]` is the place in the call, `call[c]` the call and its arguments, `ret[c]` its answer. Implements `RepairLedger` with `db <- disk`. |
| `GuiWindow` | The window as a client of `Engine`, composed with other processes: `event` is what the handler under way does, `agenda` the tables it has still to refresh, `shown` the rows on the screen. |
| `Ipv4` | `ipv4_to_u32` and `u32_to_ipv4` on texts given as lists of digits, with the errors. |
| `Devices` | The device objects, `DeviceCollection` (`devices`, its vector) and a vector of `FaultyDevice` (`faults`) beside it. |
| `AddressIndex` | The abstract specification of the Haskell tree: for each address the list of its devices. |
| `HashTree` | The tree of `HashTree.hs` with its operations, as the state of the monad. |
| `HashTreeIndex` | `HashTree` and `AddressIndex` side by side: every operation is done on both. |
| `MCLedger`, `MCEngine`, `MCGui`, `MCDevices`, `MCHashTree` | Small instances for TLC: which rows are registered, which calls clients make, which texts are typed, which addresses share bytes. |
| `EsmDataLemmas` | Lemmas: the type and the fields of what each statement returns. |
| `RepairLedgerProofs` | Theorems about `RepairLedger`. |
| `EngineProofs` | Theorems about the types and locks of `Engine`, after lemmas on what each storage step changes and keeps. |
| `EngineRefinement` | Theorems about what calls commit and answer: `Engine` implements `RepairLedger`. |
| `EngineLedger` | The theorems of `RepairLedger` carried over to the file of `Engine`, and what `list_jobs` and `list_devices` return. |
| `GuiProofs` | The window and the other processes implement `Engine`; what the window shows is in the file. |
| `DeviceProofs` | Theorems about `Devices`. |
| `HashTreeProofs` | Theorems about `HashTree` and `HashTreeIndex`. |

How `Engine` corresponds to the code:

* A step is one SQL statement or one lock it takes; between two steps any other
  connection may run. A connection runs one call at a time, since the bindings
  call C++ with the interpreter lock held.
* `prepare` is `sqlite3_prepare_v2` and the first `sqlite3_step` of a call up to
  the SHARED lock. `NoSuchTable`, `LockBusy`, `BeginInTransaction` are its error
  paths. A call that writes goes on to `reserve` (`ReserveBusy`, `Reserve`),
  then to `execute`.
* `breakdown` is `BreakdownDevice`, `BreakdownJob`; `finish_repair` is
  `FinishRepairSelect`, `FinishRepairJob`, `FinishRepairDevice`, each with its
  error action. Both end in `Commit`, `PublishCommit` or in `CommitBusy`, which
  throws and leaves the transaction open as the code does.
* A single write statement outside a transaction is committed by SQLite
  (`Commit`, `PublishCommit`) or rolled back (`AutocommitBusy`). In a transaction
  an earlier call left open, it is neither (`UseOpenTransaction`, `AfterWrite`).
* `list_jobs` is one step per row. `list_devices` is `ListAddresses`, then
  `SelectDevice`, `FetchDevice` for each address, with the two loops that take a
  refused lock for the end (`ListAddressesBusy`) or for a missing row
  (`SelectDeviceBusy`).
* `Crash` ends a process at any step of a call; `Close` is the destructor.

How `GuiWindow` corresponds to `gui_tk.py`: one action starts each call of a
handler and one or two take its return (`OpenDbDone`, `OpenDbFails`, `SaveDone`,
`SaveFails`, `FillTable`, `LeaveTableEmpty`); between them `CallStep` is a step
of `Engine` and `Others` a step of any other process. `StartRefresh` empties the
table before the call, as the code does. Tk runs one handler at a time and its
message boxes are modal, so no handler starts inside another. The assignment in
`on_open_db` makes the new engine before it drops the old one; the model closes
first, which no one can tell, since opening takes no lock. `filled` and
`reported` only record history for the properties.

How `Devices` corresponds to the classes: an object is its class, name, address
and priority. `emplace` takes a typed address, as the callers do. `breakDown`
and `repair` give a new object (`addBrokenDown`, `addRepaired`), and the
collection keeps the old one because it has no way to remove it. `std::sort` is
any permutation its comparator finds nothing wrong with. Faults are made,
changed and sorted in a vector of their own, as the tests do: by `operator<=>`
(`isLess`, on `FaultyDevice`'s own `rank`), in its direction or by `std::greater`
(`sortFaults`). `repair` makes a device of a fault and leaves the fault where it
is. `planned`, `sortedBy` and `cleared` only record history.

How `HashTree` corresponds to `HashTree.hs`: the three kinds of tree are
records, lists of pairs are sequences, and every function of the module is an
operator of the same name (`replaceChild` is the part of `deleteChild` after its
recursive call). The code recurs over the four bytes of an address; the model
takes the subtrees those bytes lead to (`subtreesOn`) and gives what the
recursion returns at each depth as a function of the depth: `insertByBytes` and
`deleteByBytes` at 0 are the new tree. `toList` is the recursion over the five
levels written out. The base of a byte is the constant `Radix`.

Abstractions: names, skills, fault texts and the values of timestamps are left
out (whether a timestamp is set is kept). A commit writes the file in one step:
SQLite's journal and its recovery are taken to be correct. When a connection's
cached schema is stale, SQLite reprepares a statement and this is not a step.
`sqlite3_open` and memory do not fail. A worker's row is its `max_jobs` and ids
are positions, since no operation deletes a worker or a job.

## 3. Runs

All bounds are in the `.cfg` files. `MaxRowId` is the last AUTOINCREMENT id: the
code's bound is 2^63 - 1, an instance has 1 or 2, and the step that finds no id left is
the code's own error path (`SQLITE_FULL`), so the bound cuts nothing off.
`Requests` is the set of calls clients make; each run takes those that matter to
its question, and a client may repeat them for ever.

| Run | Instance | What it shows |
|---|---|---|
| `MCLedger` | 2 devices, 2 jobs, 2 workers, any storable rows | types; `JobsAreSound` (foreign keys hold, status, worker and timestamps of a job agree); `JobsOnlyAdvance` (no job is reopened or reassigned); `LastFinishHeals` (the last repair of a device leaves it working) |
| `MCRepair` | 2 connections, 1 device, 2 ids; report, start, finish, hire | types; `LocksCompatible`; `CommitsAreAtomic`; `AnswersAreRecorded`; `JobIdsAreUnique`; `ImplementsLedger` (refinement of `RepairLedger`) |
| `MCRead` | 2 connections, 2 devices, 2 ids; report, register, finish, list open jobs, list devices; symmetric in connections and devices | `JobScanIsSnapshot`, `DeviceScanIsCommitted`, `IdleHoldsNoLock`; `FaultyDeviceHasJob`: when working devices are registered, no faulty device is forgotten |
| `MCLive` | 2 connections, 1 device, 1 id; migrate, report and the three lists; `FairSpec` | `MigrationIsPrefix`; `CallReturns`: every call answers or its process dies |
| `MCHashTree` | bytes of two bits; 4 addresses, of which two share two bytes, two three, two all four; 2 names, 5 devices | types (no empty branch, no double byte, every address on its path); `FindGivesIndex` (refinement of `AddressIndex`); `ListAgreesWithFind`; `DeleteUndoesInsert` |
| `MCDevices` | 3 devices of any class and faults together, 2 names, 2 addresses, 9 texts of which 3 are addresses | types; `FaultyDeviceKeepsPriority`; `ComparatorIsStrictWeak`; `PlanIsByImportance`; `StoredLifeCycleAgrees` (the classes against `Engine`'s SQL); `ShownAddressFindsDevice`; `SortedFaultsGroupByPriority` (faults sorted by `<=>` in either direction keep those that are `==` together, and by `std::greater` go by falling importance) |
| `MCGui` | the window and one more process, 1 device, 1 id; the window migrates, hires, reports and lists, the other finishes repairs; `FairGuiSpec` | types and the use of the engine; `ShownRowsAreCommitted`; `ReportedJobIsShown`; `WindowResponds`: every handler ends |

Two connections are enough for what the locks can do to one call: refuse any
lock, by a reader, a writer, a committing writer or a stranded transaction; a
third adds no new kind of refusal. Two jobs of one device are needed for a finish
that leaves another job open, two ids for a job id given twice. Three devices
are what a transitive order, a stale copy between two others and a fault between
two equal ones need. In the
tree, four addresses give every way two paths can part, and five devices more
than one to an address in more than one leaf. Arithmetic is on small numbers:
the model checker's integers have 32 bits, so typed addresses begin with 1, and
`ULongMax` is 999, which one of the texts exceeds.

Runs that end in a counterexample, each against a sentence of the repository:

| Run | Property | What happens |
|---|---|---|
| `MCStranded` | `MigratedTablesExist` | `breakdown` before `migrate` throws with its transaction open; `migrate` then returns and nothing is in the file |
| `MCHire` | `AddedWorkerIsStored` | after a refused COMMIT, `add_worker` returns the id of a worker that is never committed |
| `MCEmptyList` | `EmptyListMeansNoDevices` | `list_devices` is empty because another process commits |
| `MCPriority` | `FaultyDeviceHasPriority` | `breakdown` leaves the priority of a device at None |
| `MCFaultOrder` | `FaultsSortAsCommented` | a fault without a priority stands before one of priority Low after a sort by `operator<=>`, whose comment (`FaultyDevice.h:88`) says descending priority, then name, then address |

The first three are about calls of a process and are checked on `Engine`;
`MCPriority` is about the effect of an operation and is checked on `RepairLedger`;
`MCFaultOrder` is checked on `Devices`. Neither direction gives the order the
comment describes: `std::sort` by `operator<=>` has the less important faults
first, and `std::greater` has the more important ones first but turns names and
addresses round as well.

Met while modelling and not run separately: a refused lock between two rows of
`list_devices` is reported as "device not found" (`SelectDeviceBusy`),
`start_repair` returns normally when its UPDATE matched no row, for a job that
does not exist or that another worker has (`IsStartable`), `breakdown`
leaves `is_reserve` set, and `start_repair` never looks at `max_jobs`. Of the
classes: `setPriority(None)` on a faulty device is accepted, against README.md:3
(`FaultyDeviceKeepsPriority` excepts it); storing a reserve device that broke
down clears `is_reserve`, and storing one without a priority raises it, where
`Engine::breakdown` does neither (`StoredLifeCycleAgrees` excepts both). Of the
window: after a refused COMMIT a refresh shows uncommitted rows (a "draft" in
`ShownRowsAreCommitted`), and after a breakdown its table of devices keeps the
old state until the next refresh; no property is about either.
`DeviceScanIsCommitted` and `ShownRowsAreCommitted` say of a device that it is
in the file, not that its columns were ever there together.

Fairness: `FairSpec` assumes `WF_vars(Step(c))`, that a process inside a call
goes on running. The code justifies no more: clients need not call, and nothing
retries. `CallReturns` needs no fairness between processes, because a lock that
is not free is refused and not waited for. `FairGuiSpec` assumes
`WF_guiVars(HandlerStep)`: Tk runs a handler to its end. It does not assume that
anyone opens the database or presses a button, nor that the other process goes on.

## 4. Theorems

Assumptions on the constants: `NullAssumption` (`NULL` is no number),
`NoRowAssumption` (and no device row), `RowIdAssumption` (the id bound is a
natural), `UpsertRowsAssumption`, `CapacitiesAssumption` and
`RequestsAssumption` (callers pass rows, numbers and calls of their types). The
sets of connections, addresses and requests are arbitrary.

`RepairLedgerProofs`, about the abstract operations:

| Theorem | Argument |
|---|---|
| `TypeCorrect` | each statement maps databases to databases (`EsmDataLemmas`) |
| `JobsSound` | `JobsAreSound` is inductive given the types: no row of `devices` or `workers` is ever deleted, and a statement that sets one of status, worker and timestamps sets all that must agree |
| `FaultyDevicesHaveJobs` | inductive given the types: `breakdown` makes device and job together, `finish_repair` clears the device of the job it ends |
| `JobsAdvance`, `LastFinish` | action properties; both need `JobsAreSound` of the state before: an Open job has no worker yet, the device of a job is there |

`EngineProofs`, about the locks. `TypeOK` is not inductive: that `migrate`'s
statement number is in range and that the job `finish_repair` updates exists
depend on where the call is. `LockInv` adds `Fits(c)` for each connection: the lock that each
place of a call implies (`LockFits`) and the kind of call, transaction
flag and counter that can be there (`CallFits`), and `LocksCompatible`. `Good(c)`
says what one step does: it keeps types and `Fits(c)`, leaves the other
connections alone, raises its lock only behind SQLite's test of the others'
locks, and changes the file only from `publish`. One lemma per group of actions
shows `Good(c)`; `GoodKeepsInv` then needs no action by name.

| Theorem | Argument |
|---|---|
| `EngineTypeCorrect`, `LocksExclude` | conjuncts of `LockInv` |
| `IdleIsUnlocked` | from `LockFits` |

`EngineRefinement`, about what is committed. `ViewFits(c)` relates the private
copy of a connection to the file: at each statement of a call `work[c]` is the file with the
call's earlier statements done (`work[c] = Effect(c, disk)` before a commit), and
the file still admits the call. It excepts calls inside a transaction that an
earlier call left open; these never come to a commit. Another connection's commit cannot
break it, because that one holds the EXCLUSIVE lock and a connection whose copy
matters holds a lock too (`OthersView`).

| Theorem | Argument |
|---|---|
| `CommitsAtomic` | from `ViewFits` at `publish` |
| `MigrationInOrder` | `MigrationIsPrefix` is a conjunct of the inductive `ViewInv`: a CREATE runs when the earlier ones are in the file, and the schema only grows |
| `LedgerImplemented` | each `publish` step is a step of `RepairLedger` or changes nothing (`CommitIsLedgerStep`), every other step leaves the file alone |
| `AnswersRecorded`, `JobIdsUnique` | `AnswerInv`: a call under way has no answer, the two transactions answer only from `publish` (`AnswerMoves`), and a commit keeps the jobs there are (`CommitKeepsJobs`) |

`EngineLedger` composes the two (`RepairLedgerProofs` is instantiated with
`db <- disk`, so that `LedgerImplemented` gives its premise) and adds what a call
that reads returns. `CopiesHaveJobs` says that a private copy has the jobs of the
file, also in a transaction that a refused COMMIT left open: what such a
connection lists lacks no committed job.

| Theorem | Argument |
|---|---|
| `NoFaultyDeviceForgotten`, `FileJobsSound`, `FileJobsAdvance`, `FileLastFinish` | the theorems of `RepairLedgerProofs`, of the file, along the refinement |
| `FileRowsStay` | a commit keeps workers, devices and jobs (`CommitKeepsWorkers`, `CommitKeepsDevices`, `CommitKeepsJobs`), nothing else touches the file |
| `JobScanSnapshot` | `JobScanInv`: while `list_jobs` steps over the rows, those it has are the selection from the part it has passed of the table it still sees (`JobScan`). A commit needs the EXCLUSIVE lock, which the reader's SHARED one refuses (`ReaderKeepsView`); a reader inside a stranded transaction reads its own copy, which only it changes. `SelectionGrows` is the step from a row to the next |
| `DeviceScanCommitted` | `ScanMoves(c)` says how a step changes the list under way; an address enters it only from the file (`LockFits`: at a read the connection sees the file), and no commit deletes a device (`CommitKeepsDevices`) |

`GuiProofs`, about the window, for any number of other processes. A step of a
handler is a call of `Engine` only if what it calls is in `Requests` and the
connection is open, which needs the invariant `HandlerFits` (the agenda is not
empty during a refresh, a save under way has a table to refresh). With it every
theorem about `Engine` holds of the window and the other processes together,
and the other processes leave the window's connection alone
(`OthersLeaveWindow`). It assumes `AppAssumption` and
`WindowRequestsAssumption`: the calls of the window are among the requests of
`Engine`.

| Theorem | Argument |
|---|---|
| `GuiUsesEngine` | `GuiSpec => Spec`, from `HandlerFits` |
| `WindowTypeCorrect` | `WindowInv` adds `CallOfHandler`: the call under way is the one the handler made, and what `list_workers` returned is there only until its table is filled |
| `ShownRowsCommitted` | inductive with `AnswersCommitted` between the end of a call and the filling of its table: outside a transaction its rows are rows of the file (`AnswerCommitted`, from `ListingEnds` and the invariants of the two scans), and both they and those shown remain so by `FileRowsStay` |
| `ReportedJobShown` | `ReportInv`: the announced job is in the file (`AnswersRecorded`) and in the table of jobs, unless that is empty or next to be refreshed; `list_jobs` ends with every row of what it sees (`AnswerReports`), a stranded transaction included (`CopiesHaveJobs`) |

`DeviceProofs`, for any names and addresses and any number of devices, under
`NameAssumption`, `AddressAssumption` (addresses are 32-bit values, as their type
`std::uint32_t` says, and those of accepted texts are among them) and
`ULongAssumption`:

| Theorem | Argument |
|---|---|
| `DevicesTypeCorrect`, `FaultyKeepsPriority` | conjuncts of `DevicesInv`, which adds that a collection, and a vector of faults, not changed since a sort is ordered; one lemma for each kind of change |
| `PlanByImportance` | from the order in `DevicesInv`, and `FindIsFirst`: `find` gives the first object of an address |
| `ComparatorStrictWeak` | the three priorities have different ranks (`OrderOfPriorities`) |
| `SortedFaultsGroup` | from the order of faults in `DevicesInv`: along a sorted vector `rank` never rises, or never falls, whatever names and addresses decide among equals; so between two faults of one rank there is no other (`RankOfPriorities`). It does not claim the order of the comment, which `MCFaultOrder` refutes |
| `ShownAddressFinds` | `ShownAddressIsRead`: `ipv4_to_u32` takes what `u32_to_ipv4` writes and gives the address back, for each 32-bit value: a value is composed of its octets (`OctetsCompose`), the one to three digits of an octet read as that octet (`NumeralIsRead`) |
| `LifeCyclesAgree` | field by field (`FaultyRowFields`, `HealthyRowFields`, `StoredRowFields`) |

`HashTreeProofs`, for any addresses, names and files and any radix, under
`FilesAssumption` (a file is a list of devices). `TypeOK` speaks of what the path
of every address meets on its way down, which makes it inductive: an operation
on one address replaces the subtrees on its own path (`Rewrites`), and another
path meets them only as far down as the two are the same (`SubtreesAfter`). So
each operation needs two things: that it rewrites its path, and that the
subtrees it leaves there are right (`InsertStep`, `DeleteStep`, from lemmas on
lists of branches and buckets). The recursive functions over the depth are
unfolded by giving the function outright (`SubtreesByDepth`, `InsertByDepth`,
`DeleteByDepth`); `fromList` is taken through the trees of the beginnings of its
list (`TreesOfList`, `UpTo`), a concatenation of lists through the beginnings of
those lists (`JoinedLists`).

| Theorem | Argument |
|---|---|
| `TreeIsRight` | `TreeAfter` from `InsertStep` and `DeleteStep`; `ListIsRight` for a tree that starts from a file |
| `FindIsIndex` | `TypeOK` with `IndexIsMeaning`: under `TypeOK` the only leaf on a path is at its end (`FindAtTheEnd`), so an operation changes what is found exactly as it changes its bucket (`FindAfterInsert`, `FindAfterDelete`) |
| `DeleteRestoresTree` | from the leaf up: the delete leaves at each depth what the insert found there (`DeleteAfterInsertBucket`, `ReplaceAfterInsert`) |
| `ListIsFind` | of joined lists of which only one has devices of an address, those stand together in the result as they did in that one (`TogetherInJoined`); so the list of a leaf is right (`ListOfLast`), and that of a node whose branches have right lists (`ListOfInner`), since only one branch lies on the path of an address; level by level up to the root (`ListOfTree`). Every branch is on the path of an address, so nothing else is in the list. Without addresses `TypeOK` says nothing, and the tree is Empty (`NothingWithoutAddresses`) |

What stays with TLC is liveness (`CallReturns`, `WindowResponds`) and ENABLED,
which the prover does not reach. Every other property of a passing run is stated
by a theorem.

## 5. Plan

Done: the modules above, and the theorems about all of them. Next: two windows on
one file, `GuiWindow` instantiated twice over one `Engine`.

## 6. Not modelled

* SQLite below its locks (pager, B-tree, virtual machine, parser), Boost,
  pybind11 and googletest are vendored libraries: they are all but some four
  thousand of the repository's 3.6 million lines, which is why the mapped lines are
  a small share of the repository though they cover the program itself.
* `applyMigrationFile` and the files in `migrations/`: nothing runs them.
* `DeviceParser.hs`: pure text, a line gives a device or an error.
* The bindings beyond the calls they pass on: they copy results.
* The demonstrations and tests: read, not modelled.
