--------------------------- MODULE SqliteStorage ---------------------------
(***************************************************************************)
(* Connections of storage/SqliteStorage.cpp to one database file, at the    *)
(* level of SQLite's file locks (rollback journal, no busy timeout: a lock  *)
(* that is not free is refused at once).                                    *)
(*                                                                          *)
(* A connection that writes has a private copy of the database, its page    *)
(* cache and journal; the file changes in one step when a transaction is    *)
(* committed under the EXCLUSIVE lock, and a hot journal left by a crash    *)
(* before that step restores the file, so a crash changes nothing.          *)
(***************************************************************************)
EXTENDS EsmData

CONSTANT Conn                \* connections, one in each Engine object

VARIABLES
    disk,                    \* the committed database
    lock,                    \* lock[c]: the lock of c on the file
    work,                    \* work[c]: what c sees while it may write
    tx,                      \* tx[c]: BEGIN done, COMMIT or ROLLBACK not yet
    parsed                   \* parsed[c]: c has read the schema of the file

storage == <<disk, lock, work, tx, parsed>>

LockLevel == {"unlocked", "shared", "reserved", "pending", "exclusive"}
WriteLock == {"reserved", "pending", "exclusive"}

StorageTypeOK ==
    /\ disk \in Database
    /\ lock \in [Conn -> LockLevel]
    /\ work \in [Conn -> Database]
    /\ tx \in [Conn -> BOOLEAN]
    /\ parsed \in [Conn -> BOOLEAN]

StorageInit ==
    /\ disk \in {EmptyDatabase, MigratedDatabase}
    /\ lock = [c \in Conn |-> "unlocked"]
    /\ work = [c \in Conn |-> EmptyDatabase]
    /\ tx = [c \in Conn |-> FALSE]
    /\ parsed = [c \in Conn |-> FALSE]

IsWriter(c) == lock[c] \in WriteLock

(* A bug: a connection sees what another one has not committed.             *)
VisibleUncommitted(c) ==
    IF IsWriter(c) THEN work[c]
    ELSE IF \E d \in Conn : IsWriter(d) THEN work[CHOOSE d \in Conn : IsWriter(d)]
    ELSE disk

(* What a statement of c reads: its own uncommitted changes, or the file.   *)
Visible(c) == IF IsWriter(c) THEN work[c] ELSE disk

(* Bugs: a second writer is let in until the first one commits; a commit    *)
(* does not wait for readers.                                               *)
ReservedRefusedByCommit(c) == \E d \in Conn \ {c} : lock[d] = "exclusive"
ExclusiveRefusedByWriter(c) == \E d \in Conn \ {c} : IsWriter(d)

(* A lock is refused because of the lock of another connection.             *)
SharedRefused(c)    == \E d \in Conn \ {c} : lock[d] \in {"pending", "exclusive"}
ReservedRefused(c)  == \E d \in Conn \ {c} : lock[d] \in WriteLock
ExclusiveRefused(c) == \E d \in Conn \ {c} : lock[d] # "unlocked"

(* Any statement but BEGIN has its schema read under the first lock.        *)
LockShared(c, begins) ==
    /\ ~SharedRefused(c)
    /\ lock' = [lock EXCEPT ![c] = "shared"]
    /\ parsed' = [parsed EXCEPT ![c] = @ \/ ~begins]
    /\ UNCHANGED <<disk, work, tx>>

(* A write statement goes on from SHARED to RESERVED; the BEGIN IMMEDIATE   *)
(* of SqliteStorage::begin also opens a transaction.  The statement that    *)
(* follows it reads the schema.                                             *)
LockReserved(c, begins) ==
    /\ ~ReservedRefused(c)
    /\ lock' = [lock EXCEPT ![c] = "reserved"]
    /\ work' = [work EXCEPT ![c] = disk]
    /\ tx' = [tx EXCEPT ![c] = begins]
    /\ parsed' = [parsed EXCEPT ![c] = TRUE]
    /\ UNCHANGED disk

Execute(c, db) ==
    /\ work' = [work EXCEPT ![c] = db]
    /\ UNCHANGED <<disk, lock, tx, parsed>>

LockExclusive(c) ==
    /\ ~ExclusiveRefused(c)
    /\ lock' = [lock EXCEPT ![c] = "exclusive"]
    /\ UNCHANGED <<disk, work, tx, parsed>>

(* A refused EXCLUSIVE lock leaves the PENDING lock behind, and a refused   *)
(* COMMIT the transaction.                                                  *)
KeepPending(c) ==
    /\ ExclusiveRefused(c)
    /\ lock' = [lock EXCEPT ![c] = "pending"]
    /\ UNCHANGED <<disk, work, tx, parsed>>

(* Every lock is free and private changes are gone.                         *)
DropLocks(c) ==
    /\ lock' = [lock EXCEPT ![c] = "unlocked"]
    /\ work' = [work EXCEPT ![c] = EmptyDatabase]
    /\ tx' = [tx EXCEPT ![c] = FALSE]

Unlock(c) == DropLocks(c) /\ UNCHANGED <<disk, parsed>>

(* A bug: a statement that was read to its end is not finalized.            *)
EndStatementUnfinalized(c) == UNCHANGED storage

(* The end of a statement that only read.  Inside an open transaction it    *)
(* changes nothing.                                                         *)
EndStatement(c) == IF tx[c] THEN UNCHANGED storage ELSE Unlock(c)

(* ROLLBACK; undoing a CREATE makes the connection forget the schema.       *)
Rollback(c) ==
    /\ DropLocks(c)
    /\ parsed' = [parsed EXCEPT ![c] = work[c].schema = disk.schema]
    /\ UNCHANGED disk

(* sqlite3_close, or the end of the process.                                *)
Disconnect(c) ==
    /\ DropLocks(c)
    /\ parsed' = [parsed EXCEPT ![c] = FALSE]
    /\ UNCHANGED disk

Publish(c) == disk' = work[c] /\ DropLocks(c) /\ UNCHANGED parsed

(* Never two writers, and nobody else reads while the file is written.      *)
LocksCompatible ==
    \A c, d \in Conn : c # d =>
        /\ ~(IsWriter(c) /\ IsWriter(d))
        /\ lock[c] = "exclusive" => lock[d] = "unlocked"
=============================================================================
