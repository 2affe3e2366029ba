---------------------------- MODULE WalPowerLoss ----------------------------
(***************************************************************************)
(* WalStore when the machine may lose power.  A write reaches the disk     *)
(* when its file is synced; until then each location may keep any contents *)
(* it had since the last sync, and a slot of the log may also be torn.     *)
(* wal_sync_mode is Full or Normal as in WalStore; the page file is synced *)
(* by recovery and by checkpoint only.  Creating and removing the log file *)
(* are taken to be durable at once.                                        *)
(*                                                                         *)
(* Bound: MaxFailures failures (errors, kills, power losses) per behaviour.*)
(***************************************************************************)
EXTENDS WalStore

CONSTANT MaxFailures

VARIABLES mainMay,      \* contents a page may have after a loss of power
          countMay,     \* ... the counter in the header of the log
          lengthMay,    \* ... the length of the log, in slots
          slotMay,      \* ... a slot of the log, if the log reaches that far
          failures,     \* failures so far
          acked,        \* history: images left by the commits that returned Ok
          attempted     \* history: contents other commits may have left

losses == <<mainMay, countMay, lengthMay, slotMay>>
allVars == <<vars, losses, failures, acked, attempted>>

Length(frames) == Cardinality({s \in Slot : frames[s] # Absent})

MayTypeOK == /\ TypeOK
             /\ mainMay \in [Page -> SUBSET Data] /\ countMay \in SUBSET (0..MaxFrames)
             /\ lengthMay \in SUBSET (0..MaxFrames)
             /\ slotMay \in [Slot -> SUBSET (Frame \cup {Torn})]
             /\ failures \in 0..MaxFailures
             /\ acked \in [Page -> Data] /\ attempted \in [Page -> SUBSET Data]

PowerInit == /\ Init
             /\ mainMay = [p \in Page |-> {main[p]}]
             /\ countMay = {walCount}
             /\ lengthMay = {0} /\ slotMay = [s \in Slot |-> {}]
             /\ failures = 0
             /\ acked = main /\ attempted = [p \in Page |-> {}]

\* Steps that sync the page file, and steps that sync the log.
MainSynced == pc \in {"recover", "copy"} /\ pc' = "reset_header"
WalSynced == \/ pc = "commit_sync" /\ queue' = <<>> /\ pc' # "closed"
             \/ pc = "reset_sync" /\ pc' # "closed"
             \/ pc = "create" /\ pc' = "ready" /\ FullSync
             \/ walFile' # walFile

Rewritten(s) == walFrames'[s] # walFrames[s] /\ Intact(walFrames'[s])

Track ==
    /\ mainMay' = [p \in Page |-> {main'[p]} \cup IF MainSynced THEN {} ELSE mainMay[p]]
    /\ countMay' = {walCount'} \cup IF WalSynced THEN {} ELSE countMay
    /\ lengthMay' = {Length(walFrames')} \cup IF WalSynced THEN {} ELSE lengthMay
    /\ slotMay' = [s \in Slot |-> ({walFrames'[s]} \ {Absent}) \cup
                     IF WalSynced THEN {}
                     ELSE slotMay[s] \cup IF Rewritten(s) THEN {Torn} ELSE {}]

Queued(p) == {f.data : f \in {queue[k] : k \in Writes(queue, Len(queue), p)}}

Record ==
    /\ acked' = IF Acknowledged THEN Overlay(acked, queue, Len(queue)) ELSE acked
    /\ attempted' = [p \in Page |->
         IF Acknowledged /\ Queued(p) # {} THEN {}
         ELSE attempted[p] \cup IF pc = "frames" THEN Queued(p) ELSE {}]

\* What a slot may hold if n slots of the log are left.
Left(n, s) == IF s > n THEN {Absent} ELSE IF slotMay[s] = {} THEN {Torn} ELSE slotMay[s]

\* Every location keeps one of the contents it may have.
PowerLoss ==
    /\ main' \in [Page -> Data] /\ \A p \in Page : main'[p] \in mainMay[p]
    /\ walCount' \in countMay
    /\ \E n \in lengthMay, f \in [Slot -> Frame \cup {Absent, Torn}] :
         /\ \A s \in Slot : f[s] \in Left(n, s)
         /\ walFrames' = f
    /\ pc' = "closed" /\ caller' = "none" /\ i' = 1 /\ memCount' = 0 /\ queue' = <<>>
    /\ UNCHANGED walFile
    /\ mainMay' = [p \in Page |-> {main'[p]}]
    /\ countMay' = {walCount'}
    /\ lengthMay' = {Length(walFrames')}
    /\ slotMay' = [s \in Slot |-> {walFrames'[s]} \ {Absent}]

PowerNext ==
    \/ Working /\ Track /\ Record /\ UNCHANGED failures
    \/ /\ failures < MaxFailures /\ failures' = failures + 1
       /\ \/ (Failing \/ HeaderFailing) /\ Track
          \/ PowerLoss
       /\ Record

PowerSpec == PowerInit /\ [][PowerNext]_allVars

-----------------------------------------------------------------------------
(* What must hold, with one failure and SyncMode::Full.                    *)

\* REQ-TX-007, "fsync committed transaction WAL frames for durability": while the
\* database is down, the images a restart finds hold every transaction whose commit
\* returned Ok, overwritten at most by transactions whose commit was begun later.
AckedSurvives == pc = "closed" =>
    \A p \in Page : Recovered[p] \in {acked[p]} \cup attempted[p]

(***************************************************************************)
(* The invariant that makes it so.  Whatever has failed, the images which  *)
(* the open database works on (View) are kept until a restart finds them.  *)
(* As long as nothing has failed, the writer and the file agree (Inv), and *)
(* what is not synced yet is of the commit, the checkpoint or the reset    *)
(* under way.                                                              *)
(***************************************************************************)
Owed(p) == {acked[p]} \cup attempted[p]

View == Overlay(main, walFrames, IF pc = "closed" THEN walCount ELSE memCount)

ViewOwed == \A p \in Page : View[p] \in Owed(p)

\* The writer has counted nothing between sessions, and nothing when the log is emptied.
Counts == /\ walFile # "valid" => walCount = 0 /\ pc \in {"closed", "create"}
          /\ pc \in {"closed", "create", "reset_len", "reset_sync", "unlink"} => memCount = 0

\* Recovery stops at a slot that cannot be read: no slot behind it can be read either.
Unbroken(n) == \A s, t \in 1..n : s < t /\ walFrames[s] = Absent => walFrames[t] = Absent
Readable == /\ pc = "closed" => Unbroken(walCount)
            /\ pc = "recover" => Unbroken(memCount)

\* A copying loop has made the first i-1 frames redundant; a commit has made the queue so.
Copied == /\ pc \in {"copy", "recover"} => /\ i \in 1..(memCount + 1)
                                          /\ Overlay(main, walFrames, i - 1) = main
          /\ pc = "reset_header" => View = main
Published == pc = "commit_sync" => Overlay(View, queue, Len(queue)) = View

Kept == ViewOwed /\ CommitProgress /\ Counts /\ Readable /\ Copied /\ Published

\* Every loss of power now leaves what is owed.
LossSurvived ==
    \A m \in [Page -> Data], f \in [Slot -> Frame \cup {Absent, Torn}], c \in countMay, n \in lengthMay :
      (\A p \in Page : m[p] \in mainMay[p]) /\ (\A s \in Slot : f[s] \in Left(n, s)) =>
        \A p \in Page : Overlay(m, f, c)[p] \in Owed(p)

\* The log's slots end with the frames counted and those the commit under way has written.
Used == IF pc = "frames" THEN walCount + i - 1 ELSE walCount
Tidy == pc # "reset_len" => \A s \in Slot : s > Used => walFrames[s] = Absent

\* The page file is synced, but for what a checkpoint has written.
MainMay == \A p \in Page : \/ mainMay[p] = {main[p]}
                           \/ pc = "copy" /\ Writes(walFrames, walCount, p) # {}

\* The log is synced ...
LogSynced == /\ countMay = {walCount} /\ lengthMay = {walCount}
             /\ \A s \in Slot : slotMay[s] = {walFrames[s]} \ {Absent}

\* ... but for the frames of a commit, above the n counted before, and the header that counts them.
SyncedTo(n) == /\ countMay \subseteq {n, walCount} /\ \A k \in lengthMay : n <= k
               /\ \A s \in 1..n : slotMay[s] = {walFrames[s]}
               /\ \A j \in 1..Len(queue) : slotMay[n + j] \subseteq {queue[j], Torn}
CountedBefore == walCount - Len(queue)

LogMay ==
    /\ pc \notin {"frames", "commit_sync", "reset_len", "reset_sync"} => LogSynced
    /\ pc = "frames" => SyncedTo(walCount)
    /\ pc = "commit_sync" => /\ CountedBefore \in Nat /\ SyncedTo(CountedBefore)
                             /\ \A p \in Page : /\ Queued(p) \subseteq attempted[p]
                                               /\ Overlay(main, walFrames, CountedBefore)[p] \in Owed(p)
    /\ pc \in {"reset_len", "reset_sync"} => LossSurvived

Undisturbed ==
    failures = 0 => /\ Inv /\ Tidy /\ MainMay /\ LogMay
                    /\ pc = "closed" => walFile = "absent"
                    /\ pc # "recover" /\ caller # "recover"

\* All of it, for the system with one failure of the machine (write_frame, commit, recover).
PowerInv == MayTypeOK /\ AckedSurvives /\ Kept /\ Undisturbed
=============================================================================
