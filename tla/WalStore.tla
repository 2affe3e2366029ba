------------------------------ MODULE WalStore ------------------------------
(***************************************************************************)
(* The write-ahead log of cypherlite-storage, one file operation per step: *)
(* WalWriter (wal/writer.rs), Recovery::recover (wal/recovery.rs),         *)
(* Checkpoint::run (wal/checkpoint.rs) and the parts of                    *)
(* StorageEngine::open and Drop (lib.rs) that drive them.                  *)
(*                                                                         *)
(* The engine is used through &mut, so one operation runs at a time; what  *)
(* interleaves with it is the death of the process between any two file    *)
(* operations (Kill) and a file operation that returns an error, except    *)
(* the header writes of commit and reset (HeaderFailing).  The operating   *)
(* system survives here: what was written before a kill is read            *)
(* afterwards.  Module WalPowerLoss takes that away and adds those two.    *)
(*                                                                         *)
(* Bounds: MaxFrames slots in the log, MaxQueue queued frames.             *)
(***************************************************************************)
EXTENDS PageWrites

CONSTANTS InitialData,  \* contents of every page of a new database
          MaxFrames,    \* bound: slots of the log file
          MaxQueue,     \* bound: frames queued by one transaction
          FullSync      \* wal_sync_mode = SyncMode::Full

ASSUME InitialAssumption == InitialData \in Data
ASSUME BoundsAssumption == MaxFrames \in Nat /\ MaxQueue \in Nat
ASSUME SyncAssumption == FullSync \in BOOLEAN

VARIABLES main,         \* the data pages of the .cyl file
          walFile,      \* "absent", "empty" (created, header not written), "valid"
          walCount,     \* frame_count of the header in the log file
          walFrames,    \* the slots of the log file
          pc,           \* next file operation of the running call
          caller,       \* on whose behalf a shared piece of code runs
          i,            \* loop index of the running call
          memCount,     \* WalWriter.header.frame_count
          queue         \* WalWriter.uncommitted_frames

disk == <<main, walFile, walCount, walFrames>>
process == <<pc, caller, i, memCount, queue>>
vars == <<main, walFile, walCount, walFrames, pc, caller, i, memCount, queue>>

Slot == 1..MaxFrames

NoFrames == [s \in Slot |-> Absent]

PCs == {"closed", "create", "recover", "ready", "frames", "commit_sync", "copy",
        "reset_header", "reset_len", "reset_sync", "unlink"}

TypeOK ==
    /\ main \in [Page -> Data]
    /\ walFile \in {"absent", "empty", "valid"}
    /\ walCount \in 0..MaxFrames
    /\ walFrames \in [Slot -> Frame \cup {Absent, Torn}]
    /\ pc \in PCs
    /\ caller \in {"none", "recover", "checkpoint", "drop"}
    /\ i \in Nat \ {0}
    /\ memCount \in 0..MaxFrames
    /\ queue \in Seq(Frame)

Init == /\ main = [p \in Page |-> InitialData]
        /\ walFile = "absent" /\ walCount = 0 /\ walFrames = NoFrames
        /\ pc = "closed" /\ caller = "none" /\ i = 1 /\ memCount = 0 /\ queue = <<>>

-----------------------------------------------------------------------------
(* Opening the database: recovery, then WalWriter::open or ::create.       *)

\* No log file: recovery is skipped and WalWriter::create truncates a new one ...
CreateWal == /\ pc = "closed" /\ walFile = "absent"
             /\ walFile' = "empty" /\ walCount' = 0 /\ walFrames' = NoFrames
             /\ pc' = "create"
             /\ UNCHANGED <<main, caller, i, memCount, queue>>

\* ... and writes its header.
CreateHeader == /\ pc = "create"
                /\ walFile' = "valid"
                /\ pc' = "ready"
                /\ UNCHANGED <<main, walCount, walFrames, caller, i, memCount, queue>>

\* A log without a header: recovery finds nothing, WalWriter::open fails on
\* read_exact, and open() returns that error, now and at every later try.
OpenFails == /\ pc = "closed" /\ walFile = "empty"
             /\ UNCHANGED vars

\* frame_count = 0: nothing to replay and no reset.
OpenClean == /\ pc = "closed" /\ walFile = "valid" /\ walCount = 0
             /\ pc' = "ready"
             /\ UNCHANGED <<disk, caller, i, memCount, queue>>

\* Mutant: the replay loop starts at the second frame.
OpenRecoverAtTwo == /\ pc = "closed" /\ walFile = "valid" /\ walCount > 0
                    /\ pc' = "recover" /\ caller' = "recover" /\ i' = 2
                    /\ memCount' = walCount
                    /\ UNCHANGED <<disk, queue>>

OpenRecover == /\ pc = "closed" /\ walFile = "valid" /\ walCount > 0
               /\ pc' = "recover" /\ caller' = "recover" /\ i' = 1
               /\ memCount' = walCount
               /\ UNCHANGED <<disk, queue>>

\* One iteration of the replay loop: a frame that fails its checksum is skipped.
RecoverFrame == /\ pc = "recover" /\ i <= memCount /\ walFrames[i] # Absent
                /\ main' = IF walFrames[i] = Torn THEN main
                           ELSE [main EXCEPT ![walFrames[i].page] = walFrames[i].data]
                /\ i' = i + 1
                /\ UNCHANGED <<walFile, walCount, walFrames, pc, caller, memCount, queue>>

\* The loop ends, or breaks at a slot that cannot be read; the main file is
\* synced (if anything was replayed) before the log is reset.
RecoverDone == /\ pc = "recover"
               /\ i <= memCount => walFrames[i] = Absent
               /\ pc' = "reset_header"
               /\ UNCHANGED <<disk, caller, i, memCount, queue>>

\* write_page or sync fails in recovery: open() returns the error.
RecoverFails == /\ pc = "recover"
                /\ pc' = "closed" /\ caller' = "none" /\ i' = 1 /\ memCount' = 0
                /\ UNCHANGED <<disk, queue>>

-----------------------------------------------------------------------------
(* Transactions: write_frame, commit, discard.                             *)

WriteFrame(f) == /\ pc = "ready" /\ Len(queue) < MaxQueue
                 /\ queue' = Append(queue, f)
                 /\ UNCHANGED <<disk, pc, caller, i, memCount>>

Discard == /\ pc = "ready" /\ queue # <<>>
           /\ queue' = <<>>
           /\ UNCHANGED <<disk, pc, caller, i, memCount>>

\* commit() with an empty queue returns at once: no step.
Commit == /\ pc = "ready" /\ queue # <<>>
          /\ memCount + Len(queue) <= MaxFrames
          /\ pc' = "frames" /\ i' = 1
          /\ UNCHANGED <<disk, caller, memCount, queue>>

\* What follows a commit: the caller continues, or Drop runs its checkpoint
\* (Checkpoint::run returns Ok(0) at once when the log holds no frame).
AfterCommit(n) == /\ pc' = IF caller = "drop" THEN IF n = 0 THEN "unlink" ELSE "copy"
                           ELSE "ready"
                  /\ i' = 1

\* Mutant: the seek to the end of the committed frames is missing.
CommitFrameAtStart == /\ pc = "frames" /\ i <= Len(queue)
                      /\ walFrames' = [walFrames EXCEPT ![i] = queue[i]]
                      /\ i' = i + 1
                      /\ UNCHANGED <<main, walFile, walCount, pc, caller, memCount, queue>>

CommitFrame == /\ pc = "frames" /\ i <= Len(queue)
               /\ walFrames' = [walFrames EXCEPT ![memCount + i] = queue[i]]
               /\ i' = i + 1
               /\ UNCHANGED <<main, walFile, walCount, pc, caller, memCount, queue>>

\* Mutant: the header is written before the last frame.
CommitHeaderEarly == /\ pc = "frames" /\ i >= Len(queue)
                     /\ memCount' = memCount + Len(queue)
                     /\ walCount' = memCount'
                     /\ IF FullSync THEN pc' = "commit_sync" /\ i' = 1 /\ UNCHANGED queue
                        ELSE AfterCommit(memCount') /\ queue' = <<>>
                     /\ UNCHANGED <<main, walFile, walFrames, caller>>

\* Mutant: commit returns without the sync.
CommitHeaderUnsynced == /\ pc = "frames" /\ i > Len(queue)
                        /\ memCount' = memCount + Len(queue)
                        /\ walCount' = memCount'
                        /\ AfterCommit(memCount') /\ queue' = <<>>
                        /\ UNCHANGED <<main, walFile, walFrames, caller>>

\* The header names the new frames: from here on a restart replays them.
CommitHeader == /\ pc = "frames" /\ i > Len(queue)
                /\ memCount' = memCount + Len(queue)
                /\ walCount' = memCount'
                /\ IF FullSync THEN pc' = "commit_sync" /\ i' = 1 /\ UNCHANGED queue
                   ELSE AfterCommit(memCount') /\ queue' = <<>>
                /\ UNCHANGED <<main, walFile, walFrames, caller>>

CommitSync == /\ pc = "commit_sync"
              /\ queue' = <<>>
              /\ AfterCommit(memCount)
              /\ UNCHANGED <<disk, caller, memCount>>

\* write_all of a frame fails; the slot keeps its bytes or holds a part of the new ones.
CommitFrameFails == /\ pc = "frames" /\ i <= Len(queue)
                    /\ \E s \in {walFrames[memCount + i], Torn} :
                         walFrames' = [walFrames EXCEPT ![memCount + i] = s]
                    /\ AfterCommit(memCount)
                    /\ UNCHANGED <<main, walFile, walCount, caller, memCount, queue>>

\* write_all of the header fails, after frame_count was advanced in memory.
CommitHeaderFails == /\ pc = "frames" /\ i > Len(queue)
                     /\ memCount' = memCount + Len(queue)
                     /\ AfterCommit(memCount')
                     /\ UNCHANGED <<disk, caller, queue>>

\* sync_all fails: the error is returned and the frames stay queued.
CommitSyncFails == /\ pc = "commit_sync"
                   /\ AfterCommit(memCount)
                   /\ UNCHANGED <<disk, caller, memCount, queue>>

-----------------------------------------------------------------------------
(* Checkpoint, reset, and closing the database.                            *)

\* Mutant: the copying loop counts from 0.
CheckpointFromZero == /\ pc = "ready" /\ memCount > 0
                      /\ pc' = "copy" /\ caller' = "checkpoint" /\ i' = 0
                      /\ UNCHANGED <<disk, memCount, queue>>

Checkpoint == /\ pc = "ready" /\ memCount > 0
              /\ pc' = "copy" /\ caller' = "checkpoint" /\ i' = 1
              /\ UNCHANGED <<disk, memCount, queue>>

CopyFrame == /\ pc = "copy" /\ i <= memCount /\ Intact(walFrames[i])
             /\ main' = [main EXCEPT ![walFrames[i].page] = walFrames[i].data]
             /\ i' = i + 1
             /\ UNCHANGED <<walFile, walCount, walFrames, pc, caller, memCount, queue>>

\* Mutant: the copying loop ends one frame early.
CopyDoneEarly == /\ pc = "copy" /\ i >= memCount
                 /\ pc' = "reset_header"
                 /\ UNCHANGED <<disk, caller, i, memCount, queue>>

\* All frames copied: the main file is synced.
CopyDone == /\ pc = "copy" /\ i > memCount
            /\ pc' = "reset_header"
            /\ UNCHANGED <<disk, caller, i, memCount, queue>>

\* Where Checkpoint::run returns: on an error Drop keeps the log and ends.
CheckpointReturns(ok) ==
    IF caller = "drop"
    THEN /\ pc' = IF ok THEN "unlink" ELSE "closed"
         /\ queue' = IF ok THEN queue ELSE <<>>
         /\ memCount' = 0
         /\ caller' = IF ok THEN caller ELSE "none"
    ELSE /\ pc' = "ready" /\ caller' = "none"
         /\ UNCHANGED <<queue, memCount>>

\* A frame cannot be read or fails its checksum, or the main file cannot be written.
CopyFails == /\ pc = "copy"
             /\ CheckpointReturns(FALSE)
             /\ i' = 1
             /\ UNCHANGED disk

\* reset(): frame_count = 0 in memory and in the file, then set_len.
ResetHeader == /\ pc = "reset_header"
               /\ memCount' = 0 /\ walCount' = 0
               /\ pc' = "reset_len" /\ i' = 1
               /\ UNCHANGED <<main, walFile, walFrames, caller, queue>>

\* write_all of the header fails, after frame_count was cleared in memory.
ResetHeaderFails == /\ pc = "reset_header" /\ caller = "checkpoint"
                    /\ memCount' = 0 /\ i' = 1
                    /\ pc' = "ready" /\ caller' = "none"
                    /\ UNCHANGED <<disk, queue>>

\* Recovery's writer runs with SyncMode::Normal; open() then reads the header back.
ResetLen == /\ pc = "reset_len"
            /\ walFrames' = NoFrames
            /\ \/ /\ FullSync /\ caller # "recover"
                  /\ pc' = "reset_sync"
                  /\ UNCHANGED <<caller, queue, memCount>>
               \/ /\ ~ FullSync \/ caller = "recover"
                  /\ CheckpointReturns(TRUE)
            /\ UNCHANGED <<main, walFile, walCount, i>>

ResetSync == /\ pc = "reset_sync"
             /\ CheckpointReturns(TRUE)
             /\ UNCHANGED <<disk, i>>

\* set_len fails in a checkpoint: the error is returned, the frames stay in the file.
ResetLenFails == /\ pc = "reset_len" /\ caller # "recover"
                 /\ CheckpointReturns(FALSE)
                 /\ UNCHANGED <<disk, i>>

\* Drop: save_catalog queues a catalog page and commits, whatever else is queued.
Close(f) == /\ pc = "ready"
            /\ queue' = Append(queue, f)
            /\ memCount + Len(queue') <= MaxFrames
            /\ pc' = "frames" /\ caller' = "drop" /\ i' = 1
            /\ UNCHANGED <<disk, memCount>>

\* Drop: save_catalog fails before it queues anything (its error is dropped).
CloseNoCatalog == /\ pc = "ready"
                  /\ pc' = IF memCount = 0 THEN "unlink" ELSE "copy"
                  /\ caller' = "drop" /\ i' = 1
                  /\ UNCHANGED <<disk, memCount, queue>>

\* Drop after a successful checkpoint removes the log.
Unlink == /\ pc = "unlink"
          /\ walFile' = "absent" /\ walCount' = 0 /\ walFrames' = NoFrames
          /\ pc' = "closed" /\ caller' = "none" /\ queue' = <<>>
          /\ UNCHANGED <<main, i, memCount>>

\* The process dies between two file operations.
Kill == /\ pc # "closed"
        /\ pc' = "closed" /\ caller' = "none" /\ i' = 1 /\ memCount' = 0 /\ queue' = <<>>
        /\ UNCHANGED disk

Opening == CreateWal \/ CreateHeader \/ OpenFails \/ OpenClean \/ OpenRecover
           \/ RecoverFrame \/ RecoverDone

Committing == \/ \E f \in Frame : WriteFrame(f)
              \/ Discard \/ Commit \/ CommitFrame \/ CommitHeader \/ CommitSync

Checkpointing == Checkpoint \/ CopyFrame \/ CopyDone \/ ResetHeader \/ ResetLen \/ ResetSync

Closing == \/ \E f \in Frame : Close(f)
           \/ Unlink

Working == Opening \/ Committing \/ Checkpointing \/ Closing

Failing == \/ RecoverFails \/ CommitFrameFails \/ CommitSyncFails
           \/ CopyFails \/ ResetLenFails \/ CloseNoCatalog \/ Kill

\* These two leave the writer and the file with different counts.  They are not in
\* Next, which keeps the counts equal; module WalPowerLoss takes them.
HeaderFailing == CommitHeaderFails \/ ResetHeaderFails

Next == Working \/ Failing

Spec == Init /\ [][Next]_vars

-----------------------------------------------------------------------------
(* What must hold.                                                         *)

\* The page images a restart would read: recovery replays the frames that the
\* header of the log counts over the main file.
Recovered == Overlay(main, walFrames, walCount)

\* Whole transactions only: seen through Recovered, the log is the page map of
\* module PageStore, whatever dies or fails on the way (wal/writer.rs, commit;
\* wal/recovery.rs; wal/checkpoint.rs).
Promise == INSTANCE PageStore WITH store <- Recovered, pending <- queue
Implements == Promise!Spec

\* A commit that returned Ok is what a restart finds: writing its frames over
\* the recovered images once more changes nothing (WalWriter::commit).
Acknowledged == /\ pc \in {"frames", "commit_sync"} /\ pc' \notin {"closed", pc}
                /\ queue # <<>> /\ queue' = <<>>
AckedIsRecoverable ==
    [][Acknowledged => Overlay(Recovered', queue, Len(queue)) = Recovered']_vars

\* The log is dropped (reset or removed) only when the main file alone already
\* holds everything a restart would find (Checkpoint::run, Recovery::recover, Drop).
ResetKeepsImages == [][walCount' < walCount => main = Recovered]_vars

(***************************************************************************)
(* The invariant that makes it so.  Counted frames are intact; the writer  *)
(* and the file agree on the count while the database is open; the frames  *)
(* a commit has written so far are the queue's, above the counted ones; a  *)
(* copying loop has made the first i-1 frames redundant.                   *)
(***************************************************************************)
CountedIntact == \A s \in 1..walCount : Intact(walFrames[s])

CountsAgree == /\ walFile # "valid" => walCount = 0
               /\ pc \notin {"closed", "create"} => walFile = "valid" /\ memCount = walCount
               /\ pc \in {"closed", "create"} => memCount = 0 /\ queue = <<>>
               /\ pc = "create" => walFile = "empty"
               /\ pc = "unlink" => walCount = 0
               /\ pc \in {"reset_len", "reset_sync"} => walCount = 0
               /\ pc = "recover" => caller = "recover" /\ queue = <<>>

CommitProgress == pc = "frames" =>
    /\ queue # <<>> /\ i \in 1..(Len(queue) + 1)
    /\ memCount + Len(queue) <= MaxFrames
    /\ \A j \in 1..(i - 1) : walFrames[memCount + j] = queue[j]

CopyProgress ==
    /\ pc \in {"copy", "recover"} => /\ i \in 1..(memCount + 1)
                                    /\ Overlay(main, walFrames, i - 1) = main
    /\ pc = "reset_header" => Recovered = main

SyncProgress == pc = "commit_sync" => Overlay(Recovered, queue, Len(queue)) = Recovered

Inv == TypeOK /\ CountedIntact /\ CountsAgree /\ CommitProgress /\ CopyProgress /\ SyncProgress
=============================================================================
