------------------------------- MODULE LockFile -------------------------------
(***************************************************************************)
(* How StorageEngine::open and Drop (lib.rs) keep a second engine off a    *)
(* database: an exclusive lock on a .cyl-lock file beside it.  Engines may *)
(* be in one process or in several; the operating system's part (a lock    *)
(* belongs to the file opened, not to its name; an unlinked file lives on  *)
(* while it is open; a dead process releases its locks) is external.       *)
(*                                                                         *)
(* Bound: MaxInode lock files in a run.                                    *)
(***************************************************************************)
EXTENDS Integers, FiniteSets

CONSTANTS Engine, MaxInode

ASSUME InodeAssumption == MaxInode \in Nat

VARIABLES dbFile,       \* whether the .cyl file exists
          lockPath,     \* the file that .cyl-lock names, 0 = none
          inodes,       \* lock files created so far
          pc,           \* per engine: next step of open or Drop
          sawDb,        \* db_exists of open
          lockFile      \* the lock file the engine has open, 0 = none

vars == <<dbFile, lockPath, inodes, pc, sawDb, lockFile>>

TypeOK == /\ dbFile \in BOOLEAN
          /\ lockPath \in 0..MaxInode /\ inodes \in 0..MaxInode
          /\ pc \in [Engine -> {"closed", "looked", "unlocked", "locked", "open",
                                "checkpointed", "unlinked"}]
          /\ sawDb \in [Engine -> BOOLEAN] /\ lockFile \in [Engine -> 0..MaxInode]

Init == /\ dbFile = FALSE /\ lockPath = 0 /\ inodes = 0
        /\ pc = [e \in Engine |-> "closed"]
        /\ sawDb = [e \in Engine |-> FALSE] /\ lockFile = [e \in Engine |-> 0]

Goto(e, step) == pc' = [pc EXCEPT ![e] = step]
Holds(e) == pc[e] \in {"locked", "open", "checkpointed", "unlinked"}

\* The engine is gone: its lock file is closed and the lock with it.
Release(e) == Goto(e, "closed") /\ lockFile' = [lockFile EXCEPT ![e] = 0]

\* open: db_exists is read before the lock is taken, ...
Look(e) == /\ pc[e] = "closed"
           /\ sawDb' = [sawDb EXCEPT ![e] = dbFile]
           /\ Goto(e, "looked")
           /\ UNCHANGED <<dbFile, lockPath, inodes, lockFile>>

\* ... the lock file is opened, created if there is none, ...
OpenLockFile(e) ==
    /\ pc[e] = "looked"
    /\ IF lockPath # 0 THEN UNCHANGED <<lockPath, inodes>>
       ELSE inodes < MaxInode /\ inodes' = inodes + 1 /\ lockPath' = inodes'
    /\ lockFile' = [lockFile EXCEPT ![e] = lockPath']
    /\ Goto(e, "unlocked")
    /\ UNCHANGED <<dbFile, sawDb>>

\* ... locked, or DatabaseLocked is returned, ...
Locked(inode) == \E e \in Engine : Holds(e) /\ lockFile[e] = inode
TryLock(e) ==
    /\ pc[e] = "unlocked"
    /\ IF Locked(lockFile[e]) THEN Release(e) ELSE Goto(e, "locked") /\ UNCHANGED lockFile
    /\ UNCHANGED <<dbFile, lockPath, inodes, sawDb>>

\* ... and the page file is opened or created; create_new fails on a file that appeared
\* since db_exists was read.
OpenPageFile(e) ==
    /\ pc[e] = "locked"
    /\ IF dbFile /\ ~ sawDb[e] THEN Release(e) ELSE Goto(e, "open") /\ UNCHANGED lockFile
    /\ dbFile' = TRUE
    /\ UNCHANGED <<lockPath, inodes, sawDb>>

\* Mutant: the lock is released before the name is removed.
DropCheckpointReleased(e) == /\ pc[e] = "open" /\ Goto(e, "checkpointed")
                             /\ lockFile' = [lockFile EXCEPT ![e] = 0]
                             /\ UNCHANGED <<dbFile, lockPath, inodes, sawDb>>

\* Drop: catalog, header, checkpoint, the log removed, ...
DropCheckpoint(e) == /\ pc[e] = "open" /\ Goto(e, "checkpointed")
                     /\ UNCHANGED <<dbFile, lockPath, inodes, sawDb, lockFile>>

\* ... .cyl-lock unlinked, whatever file it names by now, ...
DropUnlink(e) == /\ pc[e] = "checkpointed"
                 /\ lockPath' = 0
                 /\ Goto(e, "unlinked")
                 /\ UNCHANGED <<dbFile, inodes, sawDb, lockFile>>

\* ... and the fields dropped, lock_file among them.
DropRelease(e) == /\ pc[e] = "unlinked" /\ Release(e)
                  /\ UNCHANGED <<dbFile, lockPath, inodes, sawDb>>

Kill(e) == /\ pc[e] # "closed" /\ Release(e)
           /\ UNCHANGED <<dbFile, lockPath, inodes, sawDb>>

\* Engines that may still write to the database.
Using(e) == pc[e] \in {"open", "checkpointed"}
=============================================================================
