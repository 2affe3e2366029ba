--------------------------- MODULE WalStoreProofs ---------------------------
(***************************************************************************)
(* Proofs about WalStore for every set of pages and contents and every     *)
(* bound.  The argument: Inv is inductive, and under Inv every step of     *)
(* WalStore, a kill and a failing write included, is, seen through         *)
(* Recovered, a step of PageStore or no step at all.                       *)
(*                                                                         *)
(* And about WalPowerLoss, with SyncMode::Full and one failure: PowerInv   *)
(* is inductive.  Kept is kept by every step and every failure; Calm holds *)
(* until the failure, and under it any loss of power leaves what is owed.  *)
(***************************************************************************)
EXTENDS WalPowerLoss, WellFoundedInduction, FiniteSetTheorems, TLAPS

-----------------------------------------------------------------------------
(* The largest element of a finite set of positions.                       *)

\* A non-empty set of positions has a last one.
LEMMA LastExists ==
  ASSUME NEW n \in Nat, NEW S \in SUBSET (1..n), S # {}
  PROVE  \E m \in S : \A k \in S : k <= m
<1> DEFINE T == {t \in Nat : n - t \in S}
<1>1. PICK k0 \in S : TRUE
  OBVIOUS
<1>2. n - k0 \in T
  <2>1. n - k0 \in Nat /\ n - (n - k0) = k0
    OBVIOUS
  <2> QED BY <2>1
<1>3. IsWellFoundedOn(OpToRel(<, Nat), Nat)
  BY NatLessThanWellFounded
<1>4. T \subseteq Nat /\ T # {}
  BY <1>2
<1>5. PICK x \in T : \A y \in T : ~ (<<y, x>> \in OpToRel(<, Nat))
  <2> HIDE DEF T
  <2> QED BY <1>3, <1>4, WFMin
<1>6. ASSUME NEW k \in S  PROVE  k <= n - x
  <2>1. n - k \in T
    <3>1. n - k \in Nat /\ n - (n - k) = k
      OBVIOUS
    <3> QED BY <3>1
  <2>2. ~ (n - k < x)
    <3>1. n - k \in Nat /\ x \in Nat
      OBVIOUS
    <3> QED BY <1>5, <2>1, <3>1 DEF OpToRel
  <2> QED BY <2>2
<1>7. n - x \in S
  OBVIOUS
<1> QED BY <1>6, <1>7

\* Max is that position.
LEMMA MaxIsLast ==
  ASSUME NEW n \in Nat, NEW S \in SUBSET (1..n), S # {}
  PROVE  Max(S) \in S /\ \A k \in S : k <= Max(S)
BY LastExists DEF Max

\* Any element that is an upper bound is Max.
LEMMA MaxIs ==
  ASSUME NEW S \in SUBSET Int, NEW m \in S, \A k \in S : k <= m
  PROVE  Max(S) = m
<1>1. \A x \in S : (\A y \in S : x >= y) => x = m
  OBVIOUS
<1> QED BY <1>1 DEF Max

-----------------------------------------------------------------------------
(* Overlay.                                                                *)

\* What the first n slots say about a page is page contents.
LEMMA OverlayType ==
  ASSUME NEW base \in [Page -> Data], NEW n \in Nat, NEW f,
         \A j \in 1..n : f[j] \in Frame \cup {Absent, Torn}
  PROVE  Overlay(base, f, n) \in [Page -> Data]
<1> SUFFICES ASSUME NEW p \in Page  PROVE Overlay(base, f, n)[p] \in Data
  BY DEF Overlay
<1>1. CASE Writes(f, n, p) = {}
  BY <1>1 DEF Overlay
<1>2. CASE Writes(f, n, p) # {}
  <2>1. Writes(f, n, p) \in SUBSET (1..n)
    BY DEF Writes
  <2>2. Max(Writes(f, n, p)) \in Writes(f, n, p)
    BY <1>2, <2>1, MaxIsLast
  <2>3. f[Max(Writes(f, n, p))] \in Frame
    BY <2>2 DEF Writes, Intact
  <2>4. f[Max(Writes(f, n, p))].data \in Data
    BY <2>3 DEF Frame
  <2> QED BY <1>2, <2>4 DEF Overlay
<1> QED BY <1>1, <1>2

\* No frames, no change.
LEMMA OverlayNone ==
  ASSUME NEW base \in [Page -> Data], NEW f
  PROVE  Overlay(base, f, 0) = base
<1>1. \A p \in Page : Writes(f, 0, p) = {}
  BY DEF Writes
<1> QED BY <1>1 DEF Overlay

\* Only the first n slots count.
LEMMA OverlaySame ==
  ASSUME NEW base, NEW n \in Nat, NEW f, NEW g, \A j \in 1..n : f[j] = g[j]
  PROVE  Overlay(base, f, n) = Overlay(base, g, n)
<1> SUFFICES ASSUME NEW p \in Page
             PROVE  (IF Writes(f, n, p) = {} THEN base[p] ELSE f[Max(Writes(f, n, p))].data)
                    = (IF Writes(g, n, p) = {} THEN base[p] ELSE g[Max(Writes(g, n, p))].data)
  BY DEF Overlay
<1>1. Writes(f, n, p) = Writes(g, n, p)
  BY DEF Writes
<1>2. CASE Writes(f, n, p) = {}
  BY <1>1, <1>2
<1>3. CASE Writes(f, n, p) # {}
  <2>1. Writes(f, n, p) \in SUBSET (1..n)
    BY DEF Writes
  <2>2. Max(Writes(f, n, p)) \in 1..n
    BY <1>3, <2>1, MaxIsLast
  <2> QED BY <1>1, <1>3, <2>2
<1> QED BY <1>2, <1>3

\* Writing slot k of the n over the base, early, makes no difference.
LEMMA OverlayAbsorbs ==
  ASSUME NEW base \in [Page -> Data], NEW n \in Nat, NEW f, NEW k \in 1..n,
         f[k] \in Frame, Intact(f[k])
  PROVE  Overlay([base EXCEPT ![f[k].page] = f[k].data], f, n) = Overlay(base, f, n)
<1> DEFINE b == [base EXCEPT ![f[k].page] = f[k].data]
<1> SUFFICES ASSUME NEW p \in Page
             PROVE  (IF Writes(f, n, p) = {} THEN b[p] ELSE f[Max(Writes(f, n, p))].data)
                    = (IF Writes(f, n, p) = {} THEN base[p] ELSE f[Max(Writes(f, n, p))].data)
  BY DEF Overlay
<1>1. CASE p = f[k].page
  <2>1. k \in Writes(f, n, p)
    BY <1>1 DEF Writes
  <2> QED BY <2>1
<1>2. CASE p # f[k].page
  <2>1. b[p] = base[p]
    BY <1>2
  <2> QED BY <2>1
<1> QED BY <1>1, <1>2

\* A copying loop: if the first k-1 frames are redundant, writing frame k makes
\* the first k redundant.
LEMMA OverlayStep ==
  ASSUME NEW base \in [Page -> Data], NEW k \in Nat \ {0}, NEW f,
         f[k] \in Frame, Intact(f[k]), Overlay(base, f, k - 1) = base
  PROVE  Overlay([base EXCEPT ![f[k].page] = f[k].data], f, k)
         = [base EXCEPT ![f[k].page] = f[k].data]
<1> DEFINE b == [base EXCEPT ![f[k].page] = f[k].data]
<1> SUFFICES ASSUME NEW p \in Page
             PROVE  (IF Writes(f, k, p) = {} THEN b[p] ELSE f[Max(Writes(f, k, p))].data) = b[p]
  BY DEF Overlay
<1>1. CASE p = f[k].page
  <2>1. k \in Writes(f, k, p) /\ Writes(f, k, p) \in SUBSET Int
    BY <1>1 DEF Writes
  <2>2. \A j \in Writes(f, k, p) : j <= k
    BY DEF Writes
  <2>3. Max(Writes(f, k, p)) = k
    BY <2>1, <2>2, MaxIs
  <2> QED BY <1>1, <2>1, <2>3
<1>2. CASE p # f[k].page
  <2>1. Writes(f, k, p) = Writes(f, k - 1, p)
    BY <1>2 DEF Writes
  <2>2. base[p] = IF Writes(f, k - 1, p) = {} THEN base[p]
                  ELSE f[Max(Writes(f, k - 1, p))].data
    BY DEF Overlay
  <2>3. b[p] = base[p]
    BY <1>2
  <2> QED BY <2>1, <2>2, <2>3
<1> QED BY <1>1, <1>2

\* Counting the frames of a transaction in applies the transaction.
LEMMA OverlayAppend ==
  ASSUME NEW base \in [Page -> Data], NEW n \in Nat, NEW f, NEW q \in Seq(Frame),
         \A j \in 1..Len(q) : f[n + j] = q[j]
  PROVE  Overlay(base, f, n + Len(q)) = Overlay(Overlay(base, f, n), q, Len(q))
<1> DEFINE m == n + Len(q)
           b == Overlay(base, f, n)
<1>0. Len(q) \in Nat /\ m \in Nat /\ \A j \in 1..Len(q) : q[j] \in Frame
  OBVIOUS
<1> SUFFICES ASSUME NEW p \in Page
             PROVE  (IF Writes(f, m, p) = {} THEN base[p] ELSE f[Max(Writes(f, m, p))].data)
                    = (IF Writes(q, Len(q), p) = {} THEN b[p]
                       ELSE q[Max(Writes(q, Len(q), p))].data)
  BY DEF Overlay
<1>1. CASE Writes(q, Len(q), p) = {}
  <2>1. ASSUME NEW j \in Writes(f, m, p)  PROVE j \in Writes(f, n, p)
    <3>1. CASE j <= n
      BY <1>0, <3>1 DEF Writes
    <3>2. CASE j > n
      <4>1. j - n \in 1..Len(q) /\ n + (j - n) = j
        BY <1>0, <3>2 DEF Writes
      <4>2. f[j] = q[j - n]
        BY <4>1
      <4>3. j - n \in Writes(q, Len(q), p)
        BY <4>1, <4>2 DEF Writes
      <4> QED BY <1>1, <4>3
    <3> QED BY <1>0, <3>1, <3>2 DEF Writes
  <2>2. Writes(f, n, p) \subseteq Writes(f, m, p)
    BY <1>0 DEF Writes
  <2>3. Writes(f, m, p) = Writes(f, n, p)
    BY <2>1, <2>2
  <2>4. b[p] = IF Writes(f, n, p) = {} THEN base[p] ELSE f[Max(Writes(f, n, p))].data
    BY DEF Overlay
  <2> QED BY <1>1, <2>3, <2>4
<1>2. CASE Writes(q, Len(q), p) # {}
  <2> DEFINE last == Max(Writes(q, Len(q), p))
  <2>1. Writes(q, Len(q), p) \in SUBSET (1..Len(q))
    BY DEF Writes
  <2>2. last \in Writes(q, Len(q), p) /\ \A k \in Writes(q, Len(q), p) : k <= last
    BY <1>0, <1>2, <2>1, MaxIsLast
  <2>3. last \in 1..Len(q) /\ f[n + last] = q[last]
    BY <2>1, <2>2
  <2>4. n + last \in Writes(f, m, p)
    BY <1>0, <2>2, <2>3 DEF Writes
  <2>5. ASSUME NEW j \in Writes(f, m, p)  PROVE j <= n + last
    <3>1. CASE j <= n
      BY <1>0, <2>3, <3>1 DEF Writes
    <3>2. CASE j > n
      <4>1. j - n \in 1..Len(q) /\ n + (j - n) = j
        BY <1>0, <3>2 DEF Writes
      <4>2. f[j] = q[j - n]
        BY <4>1
      <4>3. j - n \in Writes(q, Len(q), p)
        BY <4>1, <4>2 DEF Writes
      <4>4. j - n <= last
        BY <2>2, <4>3
      <4> QED BY <1>0, <2>3, <4>1, <4>4
    <3> QED BY <1>0, <3>1, <3>2 DEF Writes
  <2>6. Writes(f, m, p) \in SUBSET Int
    BY DEF Writes
  <2>7. Max(Writes(f, m, p)) = n + last
    BY <2>4, <2>5, <2>6, MaxIs
  <2>8. Writes(f, m, p) # {}
    BY <2>4
  <2> HIDE DEF last
  <2> QED BY <1>2, <2>3, <2>7, <2>8 DEF last
<1> QED BY <1>1, <1>2

\* Applying a transaction twice is applying it once.
LEMMA OverlayTwice ==
  ASSUME NEW base, NEW q, NEW n \in Nat
  PROVE  Overlay(Overlay(base, q, n), q, n) = Overlay(base, q, n)
<1> DEFINE b == Overlay(base, q, n)
<1> SUFFICES ASSUME NEW p \in Page
             PROVE  (IF Writes(q, n, p) = {} THEN b[p] ELSE q[Max(Writes(q, n, p))].data)
                    = (IF Writes(q, n, p) = {} THEN base[p] ELSE q[Max(Writes(q, n, p))].data)
  BY DEF Overlay
<1>1. b[p] = IF Writes(q, n, p) = {} THEN base[p] ELSE q[Max(Writes(q, n, p))].data
  BY DEF Overlay
<1> QED BY <1>1

-----------------------------------------------------------------------------
(* Types and the progress of a commit.                                     *)

Progress == TypeOK /\ CommitProgress

LEMMA InitProgress == Init => Progress
BY InitialAssumption, BoundsAssumption
   DEF Init, Progress, TypeOK, CommitProgress, NoFrames, Slot, PCs

LEMMA StepProgress ==
  ASSUME Progress, [Next]_vars
  PROVE  Progress'
<1> USE InitialAssumption, BoundsAssumption, SyncAssumption
    DEF Progress, TypeOK, PCs, disk
<1>1. ASSUME CreateWal  PROVE Progress'
  BY <1>1 DEF CreateWal, CommitProgress, NoFrames, Slot
<1>2. ASSUME CreateHeader  PROVE Progress'
  BY <1>2 DEF CreateHeader, CommitProgress
<1>3. ASSUME OpenFails  PROVE Progress'
  BY <1>3 DEF OpenFails, CommitProgress, vars
<1>4. ASSUME OpenClean  PROVE Progress'
  BY <1>4 DEF OpenClean, CommitProgress
<1>5. ASSUME OpenRecover  PROVE Progress'
  BY <1>5 DEF OpenRecover, CommitProgress
<1>6. ASSUME RecoverFrame  PROVE Progress'
  BY <1>6 DEF RecoverFrame, CommitProgress, Frame, Slot
<1>7. ASSUME RecoverDone  PROVE Progress'
  BY <1>7 DEF RecoverDone, CommitProgress
<1>8. ASSUME RecoverFails  PROVE Progress'
  BY <1>8 DEF RecoverFails, CommitProgress
<1>9. ASSUME NEW f \in Frame, WriteFrame(f)  PROVE Progress'
  BY <1>9 DEF WriteFrame, CommitProgress
<1>10. ASSUME Discard  PROVE Progress'
  BY <1>10 DEF Discard, CommitProgress
<1>11. ASSUME Commit  PROVE Progress'
  BY <1>11 DEF Commit, CommitProgress
<1>12. ASSUME CommitFrame  PROVE Progress'
  BY <1>12 DEF CommitFrame, CommitProgress, Slot
<1>13. ASSUME CommitHeader  PROVE Progress'
  <2>1. CASE FullSync
    BY <1>13, <2>1 DEF CommitHeader, CommitProgress
  <2>2. CASE ~ FullSync
    BY <1>13, <2>2 DEF CommitHeader, CommitProgress, AfterCommit
  <2> QED BY <2>1, <2>2
<1>14. ASSUME CommitSync  PROVE Progress'
  BY <1>14 DEF CommitSync, CommitProgress, AfterCommit
<1>15. ASSUME CommitFrameFails  PROVE Progress'
  BY <1>15 DEF CommitFrameFails, CommitProgress, AfterCommit, Slot
<1>17. ASSUME CommitSyncFails  PROVE Progress'
  BY <1>17 DEF CommitSyncFails, CommitProgress, AfterCommit
<1>18. ASSUME Checkpoint  PROVE Progress'
  BY <1>18 DEF Checkpoint, CommitProgress
<1>19. ASSUME CopyFrame  PROVE Progress'
  BY <1>19 DEF CopyFrame, CommitProgress, Frame, Slot, Intact
<1>20. ASSUME CopyDone  PROVE Progress'
  BY <1>20 DEF CopyDone, CommitProgress
<1>21. ASSUME CopyFails  PROVE Progress'
  <2>1. CASE caller = "drop"
    BY <1>21, <2>1 DEF CopyFails, CommitProgress, CheckpointReturns
  <2>2. CASE caller # "drop"
    BY <1>21, <2>2 DEF CopyFails, CommitProgress, CheckpointReturns
  <2> QED BY <2>1, <2>2
<1>22. ASSUME ResetHeader  PROVE Progress'
  BY <1>22 DEF ResetHeader, CommitProgress
<1>24. ASSUME ResetLen  PROVE Progress'
  BY <1>24 DEF ResetLen, CommitProgress, CheckpointReturns, NoFrames, Slot
<1>25. ASSUME ResetSync  PROVE Progress'
  BY <1>25 DEF ResetSync, CommitProgress, CheckpointReturns
<1>26. ASSUME ResetLenFails  PROVE Progress'
  <2>1. CASE caller = "drop"
    BY <1>26, <2>1 DEF ResetLenFails, CommitProgress, CheckpointReturns
  <2>2. CASE caller # "drop"
    BY <1>26, <2>2 DEF ResetLenFails, CommitProgress, CheckpointReturns
  <2> QED BY <2>1, <2>2
<1>27. ASSUME NEW f \in Frame, Close(f)  PROVE Progress'
  BY <1>27 DEF Close, CommitProgress
<1>28. ASSUME CloseNoCatalog  PROVE Progress'
  BY <1>28 DEF CloseNoCatalog, CommitProgress
<1>29. ASSUME Unlink  PROVE Progress'
  BY <1>29 DEF Unlink, CommitProgress, NoFrames, Slot
<1>30. ASSUME Kill  PROVE Progress'
  BY <1>30 DEF Kill, CommitProgress
<1>31. CASE UNCHANGED vars
  BY <1>31 DEF vars, CommitProgress
<1> QED
  BY <1>1, <1>2, <1>3, <1>4, <1>5, <1>6, <1>7, <1>8, <1>9, <1>10, <1>11, <1>12, <1>13,
     <1>14, <1>15, <1>17, <1>18, <1>19, <1>20, <1>21, <1>22, <1>24, <1>25,
     <1>26, <1>27, <1>28, <1>29, <1>30, <1>31
     DEF Next, Working, Failing, Opening, Committing, Checkpointing, Closing

-----------------------------------------------------------------------------
(* The rest of the invariant.                                              *)

LEMMA QueuedIntact ==
  ASSUME NEW q \in Seq(Frame), NEW j \in 1..Len(q)
  PROVE  q[j] \in Frame /\ Intact(q[j])
BY SlotMarks DEF Intact

\* What the file counts is intact, and the writer counts the same.
LEMMA StepCounts ==
  ASSUME Inv, [Next]_vars
  PROVE  CountedIntact' /\ CountsAgree'
<1> USE BoundsAssumption, SyncAssumption DEF Inv, TypeOK, CountedIntact, CountsAgree, disk
<1>1. ASSUME CreateWal  PROVE CountedIntact' /\ CountsAgree'
  BY <1>1 DEF CreateWal
<1>2. ASSUME CreateHeader  PROVE CountedIntact' /\ CountsAgree'
  BY <1>2 DEF CreateHeader
<1>3. ASSUME OpenFails  PROVE CountedIntact' /\ CountsAgree'
  BY <1>3 DEF OpenFails, vars
<1>4. ASSUME OpenClean  PROVE CountedIntact' /\ CountsAgree'
  BY <1>4 DEF OpenClean
<1>5. ASSUME OpenRecover  PROVE CountedIntact' /\ CountsAgree'
  BY <1>5 DEF OpenRecover
<1>6. ASSUME RecoverFrame  PROVE CountedIntact' /\ CountsAgree'
  BY <1>6 DEF RecoverFrame
<1>7. ASSUME RecoverDone  PROVE CountedIntact' /\ CountsAgree'
  BY <1>7 DEF RecoverDone
<1>8. ASSUME RecoverFails  PROVE CountedIntact' /\ CountsAgree'
  BY <1>8 DEF RecoverFails
<1>9. ASSUME NEW f \in Frame, WriteFrame(f)  PROVE CountedIntact' /\ CountsAgree'
  BY <1>9 DEF WriteFrame
<1>10. ASSUME Discard  PROVE CountedIntact' /\ CountsAgree'
  BY <1>10 DEF Discard
<1>11. ASSUME Commit  PROVE CountedIntact' /\ CountsAgree'
  BY <1>11 DEF Commit
<1>12. ASSUME CommitFrame  PROVE CountedIntact' /\ CountsAgree'
  BY <1>12 DEF CommitFrame, CommitProgress, Slot
<1>13. ASSUME CommitHeader  PROVE CountedIntact' /\ CountsAgree'
  <2>1. walCount' = memCount + Len(queue) /\ memCount' = walCount' /\ walFrames' = walFrames
    BY <1>13 DEF CommitHeader
  <2>2. CountsAgree'
    <3>1. CASE FullSync
      BY <1>13, <3>1 DEF CommitHeader
    <3>2. CASE ~ FullSync
      BY <1>13, <3>2 DEF CommitHeader, AfterCommit
    <3> QED BY <3>1, <3>2
  <2>3. ASSUME NEW s \in 1..(memCount + Len(queue))  PROVE Intact(walFrames[s])
    <3>1. CASE s <= memCount
      BY <1>13, <3>1 DEF CommitHeader
    <3>2. CASE s > memCount
      <4>1. s - memCount \in 1..Len(queue) /\ memCount + (s - memCount) = s
        BY <3>2
      <4>2. \A j \in 1..Len(queue) : walFrames[memCount + j] = queue[j]
        BY <1>13 DEF CommitHeader, CommitProgress
      <4>3. walFrames[s] = queue[s - memCount]
        BY <4>1, <4>2
      <4> QED BY <4>1, <4>3, QueuedIntact
    <3> QED BY <3>1, <3>2
  <2> QED BY <2>1, <2>2, <2>3
<1>14. ASSUME CommitSync  PROVE CountedIntact' /\ CountsAgree'
  BY <1>14 DEF CommitSync, AfterCommit, CommitProgress
<1>15. ASSUME CommitFrameFails  PROVE CountedIntact' /\ CountsAgree'
  BY <1>15 DEF CommitFrameFails, AfterCommit, CommitProgress
<1>17. ASSUME CommitSyncFails  PROVE CountedIntact' /\ CountsAgree'
  BY <1>17 DEF CommitSyncFails, AfterCommit, CommitProgress
<1>18. ASSUME Checkpoint  PROVE CountedIntact' /\ CountsAgree'
  BY <1>18 DEF Checkpoint
<1>19. ASSUME CopyFrame  PROVE CountedIntact' /\ CountsAgree'
  BY <1>19 DEF CopyFrame
<1>20. ASSUME CopyDone  PROVE CountedIntact' /\ CountsAgree'
  BY <1>20 DEF CopyDone
<1>21. ASSUME CopyFails  PROVE CountedIntact' /\ CountsAgree'
  <2>1. CASE caller = "drop"
    BY <1>21, <2>1 DEF CopyFails, CheckpointReturns
  <2>2. CASE caller # "drop"
    BY <1>21, <2>2 DEF CopyFails, CheckpointReturns
  <2> QED BY <2>1, <2>2
<1>22. ASSUME ResetHeader  PROVE CountedIntact' /\ CountsAgree'
  BY <1>22 DEF ResetHeader
<1>24. ASSUME ResetLen  PROVE CountedIntact' /\ CountsAgree'
  <2>1. CASE caller = "drop"
    BY <1>24, <2>1 DEF ResetLen, CheckpointReturns, NoFrames
  <2>2. CASE caller # "drop"
    BY <1>24, <2>2 DEF ResetLen, CheckpointReturns, NoFrames
  <2> QED BY <2>1, <2>2
<1>25. ASSUME ResetSync  PROVE CountedIntact' /\ CountsAgree'
  <2>1. CASE caller = "drop"
    BY <1>25, <2>1 DEF ResetSync, CheckpointReturns
  <2>2. CASE caller # "drop"
    BY <1>25, <2>2 DEF ResetSync, CheckpointReturns
  <2> QED BY <2>1, <2>2
<1>26. ASSUME ResetLenFails  PROVE CountedIntact' /\ CountsAgree'
  <2>1. CASE caller = "drop"
    BY <1>26, <2>1 DEF ResetLenFails, CheckpointReturns
  <2>2. CASE caller # "drop"
    BY <1>26, <2>2 DEF ResetLenFails, CheckpointReturns
  <2> QED BY <2>1, <2>2
<1>27. ASSUME NEW f \in Frame, Close(f)  PROVE CountedIntact' /\ CountsAgree'
  BY <1>27 DEF Close
<1>28. ASSUME CloseNoCatalog  PROVE CountedIntact' /\ CountsAgree'
  BY <1>28 DEF CloseNoCatalog
<1>29. ASSUME Unlink  PROVE CountedIntact' /\ CountsAgree'
  BY <1>29 DEF Unlink
<1>30. ASSUME Kill  PROVE CountedIntact' /\ CountsAgree'
  BY <1>30 DEF Kill
<1>31. CASE UNCHANGED vars
  BY <1>31 DEF vars
<1> QED
  BY <1>1, <1>2, <1>3, <1>4, <1>5, <1>6, <1>7, <1>8, <1>9, <1>10, <1>11, <1>12, <1>13, <1>14, <1>15, <1>17, <1>18, <1>19, <1>20, <1>21, <1>22, <1>24, <1>25, <1>26, <1>27, <1>28, <1>29, <1>30, <1>31
     DEF Next, Working, Failing, Opening, Committing, Checkpointing, Closing

-----------------------------------------------------------------------------
(* What each step does to the images a restart would find.                 *)

\* The steps that do not touch the files' contents.
QuietStep == UNCHANGED <<main, walCount, walFrames>>

LEMMA QuietRecovered ==
  ASSUME QuietStep  PROVE Recovered' = Recovered
BY DEF QuietStep, Recovered

\* The only step that changes what a restart finds is the header write of a
\* commit, and it applies the whole queue.
LEMMA RecoveredStep ==
  ASSUME Inv, [Next]_vars
  PROVE  IF CommitHeader THEN Recovered' = Overlay(Recovered, queue, Len(queue))
                         ELSE Recovered' = Recovered
<1> USE DEF Inv
<1>1. ASSUME CreateWal  PROVE Recovered' = Recovered
  <2>1. walCount = 0 /\ walCount' = 0 /\ main' = main
    BY <1>1 DEF CreateWal, CountsAgree
  <2> QED BY <2>1, OverlayNone DEF Recovered, TypeOK
<1>2. ASSUME i \in 1..walCount, UNCHANGED <<walCount, walFrames>>,
             main' = [main EXCEPT ![walFrames[i].page] = walFrames[i].data]
      PROVE  Recovered' = Recovered
  <2>1. Intact(walFrames[i]) /\ walFrames[i] \in Frame /\ walCount \in Nat
    BY <1>2, BoundsAssumption DEF CountedIntact, TypeOK, Intact, Slot
  <2>2. Overlay(main', walFrames, walCount) = Overlay(main, walFrames, walCount)
    BY <1>2, <2>1, OverlayAbsorbs DEF TypeOK
  <2> QED BY <1>2, <2>2 DEF Recovered
<1>3. ASSUME RecoverFrame  PROVE Recovered' = Recovered
  <2>1. i \in 1..walCount /\ Intact(walFrames[i])
    BY <1>3, BoundsAssumption DEF RecoverFrame, CountsAgree, CountedIntact, TypeOK
  <2> QED BY <1>2, <1>3, <2>1 DEF RecoverFrame, Intact
<1>4. ASSUME CopyFrame  PROVE Recovered' = Recovered
  <2>1. i \in 1..walCount
    BY <1>4, BoundsAssumption DEF CopyFrame, CountsAgree, TypeOK
  <2> QED BY <1>2, <1>4, <2>1 DEF CopyFrame
<1>5. ASSUME NEW s, NEW k \in Slot, k > walCount,
             UNCHANGED <<main, walCount>>, walFrames' = [walFrames EXCEPT ![k] = s]
      PROVE  Recovered' = Recovered
  <2>1. walCount \in Nat /\ \A j \in 1..walCount : walFrames'[j] = walFrames[j]
    BY <1>5, BoundsAssumption DEF TypeOK, Slot
  <2>2. Overlay(main, walFrames, walCount) = Overlay(main, walFrames', walCount)
    BY <2>1, OverlaySame
  <2> QED BY <1>5, <2>2 DEF Recovered
<1>6. ASSUME CommitFrame \/ CommitFrameFails  PROVE Recovered' = Recovered
  <2>1. memCount + i \in Slot /\ memCount + i > walCount
    BY <1>6, BoundsAssumption
       DEF CommitFrame, CommitFrameFails, CommitProgress, CountsAgree, TypeOK, Slot
  <2>2. UNCHANGED <<main, walCount>>
    BY <1>6 DEF CommitFrame, CommitFrameFails
  <2> QED BY <1>5, <1>6, <2>1, <2>2 DEF CommitFrame, CommitFrameFails
<1>7. ASSUME CommitHeader  PROVE Recovered' = Overlay(Recovered, queue, Len(queue))
  <2>1. \A j \in 1..Len(queue) : walFrames[memCount + j] = queue[j]
    BY <1>7, BoundsAssumption DEF CommitHeader, CommitProgress, TypeOK
  <2>2. memCount = walCount /\ walCount' = memCount + Len(queue)
        /\ walFrames' = walFrames /\ main' = main
    BY <1>7 DEF CommitHeader, CountsAgree
  <2>3. Overlay(main, walFrames, memCount + Len(queue))
        = Overlay(Overlay(main, walFrames, memCount), queue, Len(queue))
    BY <2>1, BoundsAssumption, OverlayAppend DEF TypeOK
  <2> QED BY <2>2, <2>3 DEF Recovered
<1>8. ASSUME ResetHeader  PROVE Recovered' = Recovered
  <2>1. Recovered = main
    BY <1>8 DEF ResetHeader, CopyProgress
  <2>2. main' = main /\ walCount' = 0
    BY <1>8 DEF ResetHeader
  <2> QED BY <2>1, <2>2, OverlayNone DEF Recovered, TypeOK
<1>9. ASSUME ResetLen \/ Unlink  PROVE Recovered' = Recovered
  <2>1. walCount = 0 /\ walCount' = 0 /\ main' = main
    BY <1>9 DEF ResetLen, Unlink, CountsAgree
  <2> QED BY <2>1, OverlayNone DEF Recovered, TypeOK
<1>10. ASSUME \/ CreateHeader \/ OpenFails \/ OpenClean \/ OpenRecover \/ RecoverDone
              \/ RecoverFails \/ Discard \/ Commit \/ CommitSync \/ CommitSyncFails
              \/ UNCHANGED vars
              \/ \E f \in Frame : WriteFrame(f)
       PROVE  Recovered' = Recovered
  BY <1>10, QuietRecovered
     DEF CreateHeader, OpenFails, OpenClean, OpenRecover, RecoverDone, RecoverFails, Discard,
         Commit, CommitSync, CommitSyncFails, WriteFrame, QuietStep, disk, vars
<1>11. ASSUME \/ Checkpoint \/ CopyDone \/ CopyFails \/ ResetSync
              \/ ResetLenFails \/ CloseNoCatalog \/ Kill
              \/ \E f \in Frame : Close(f)
       PROVE  Recovered' = Recovered
  BY <1>11, QuietRecovered
     DEF Checkpoint, CopyDone, CopyFails, ResetSync, ResetLenFails,
         CloseNoCatalog, Kill, Close, QuietStep, disk
<1> QED
  BY <1>1, <1>3, <1>4, <1>6, <1>7, <1>8, <1>9, <1>10, <1>11
     DEF Next, Working, Failing, Opening, Committing, Checkpointing, Closing

-----------------------------------------------------------------------------
(* The copying loops, and the commit that waits for its sync.              *)

\* A step that enters no copying loop and leaves none.
LEMMA NotCopying ==
  ASSUME pc' \notin {"copy", "recover", "reset_header"}  PROVE CopyProgress'
BY DEF CopyProgress

\* A step that starts one.
LEMMA StartCopying ==
  ASSUME TypeOK, main' = main, pc' \in {"copy", "recover"}, i' = 1, memCount' \in Nat
  PROVE  CopyProgress'
<1>1. Overlay(main', walFrames', i' - 1) = main'
  BY OverlayNone DEF TypeOK
<1>2. i' \in 1..(memCount' + 1)
  <2>1. \A n \in Nat : 1 \in 1..(n + 1)
    OBVIOUS
  <2> QED BY <2>1
<1>3. pc' # "reset_header"
  OBVIOUS
<1> QED BY <1>1, <1>2, <1>3 DEF CopyProgress

\* Drop goes from its commit straight to its checkpoint.
LEMMA AfterCommitCopies ==
  ASSUME TypeOK, AfterCommit(memCount'), main' = main, memCount' \in Nat
  PROVE  CopyProgress'
<1>1. CASE pc' = "copy"
  BY <1>1, StartCopying DEF AfterCommit
<1>2. CASE pc' # "copy"
  BY <1>2, NotCopying DEF AfterCommit
<1> QED BY <1>1, <1>2

\* One iteration.
LEMMA CopyOne ==
  ASSUME TypeOK, CopyProgress, pc \in {"copy", "recover"}, i <= memCount,
         Intact(walFrames[i]),
         main' = [main EXCEPT ![walFrames[i].page] = walFrames[i].data],
         i' = i + 1, UNCHANGED <<walFrames, pc, memCount>>
  PROVE  CopyProgress'
<1>1. i \in Nat \ {0} /\ walFrames[i] \in Frame /\ memCount \in Nat
  BY BoundsAssumption DEF TypeOK, Slot, Intact
<1>2. Overlay(main, walFrames, i - 1) = main
  BY DEF CopyProgress
<1>3. Overlay(main', walFrames, i) = main'
  BY <1>1, <1>2, OverlayStep DEF TypeOK
<1>4. i' - 1 = i /\ i' \in 1..(memCount' + 1)
  BY <1>1
<1>5. Overlay(main', walFrames', i' - 1) = main'
  BY <1>3, <1>4
<1> QED BY <1>4, <1>5 DEF CopyProgress

LEMMA StepCopy ==
  ASSUME Inv, [Next]_vars  PROVE CopyProgress'
<1> USE DEF Inv
<1>1. ASSUME \/ CreateWal \/ CreateHeader \/ OpenClean \/ RecoverFails \/ Discard \/ Commit
             \/ CommitFrame \/ ResetHeader \/ Unlink \/ Kill
             \/ (\E f \in Frame : WriteFrame(f))
             \/ (\E f \in Frame : Close(f))
      PROVE  CopyProgress'
  BY <1>1, NotCopying
     DEF CreateWal, CreateHeader, OpenClean, RecoverFails, Discard, Commit, CommitFrame,
         ResetHeader, Unlink, Kill, WriteFrame, Close
<1>2. ASSUME CopyFails \/ ResetLen \/ ResetSync \/ ResetLenFails  PROVE CopyProgress'
  BY <1>2, NotCopying DEF CopyFails, ResetLen, ResetSync, ResetLenFails, CheckpointReturns
<1>3. ASSUME OpenRecover \/ Checkpoint  PROVE CopyProgress'
  BY <1>3, BoundsAssumption, StartCopying DEF OpenRecover, Checkpoint, disk, TypeOK
<1>4. ASSUME CloseNoCatalog  PROVE CopyProgress'
  <2>1. CASE memCount = 0
    BY <1>4, <2>1, NotCopying DEF CloseNoCatalog
  <2>2. CASE memCount # 0
    BY <1>4, <2>2, BoundsAssumption, StartCopying DEF CloseNoCatalog, disk, TypeOK
  <2> QED BY <2>1, <2>2
<1>5. ASSUME CommitSync \/ CommitFrameFails \/ CommitSyncFails  PROVE CopyProgress'
  BY <1>5, BoundsAssumption, AfterCommitCopies
     DEF CommitSync, CommitFrameFails, CommitSyncFails, disk, TypeOK
<1>6. ASSUME CommitHeader  PROVE CopyProgress'
  <2>1. CASE FullSync
    BY <1>6, <2>1, NotCopying DEF CommitHeader
  <2>2. CASE ~ FullSync
    BY <1>6, <2>2, BoundsAssumption, AfterCommitCopies DEF CommitHeader, TypeOK
  <2> QED BY <2>1, <2>2
<1>7. ASSUME RecoverFrame  PROVE CopyProgress'
  <2>1. i \in 1..walCount
    BY <1>7, BoundsAssumption DEF RecoverFrame, TypeOK, CountsAgree
  <2>2. Intact(walFrames[i])
    BY <2>1 DEF CountedIntact
  <2> QED BY <1>7, <2>2, CopyOne DEF RecoverFrame, Intact
<1>8. ASSUME CopyFrame  PROVE CopyProgress'
  BY <1>8, CopyOne DEF CopyFrame
<1>9. ASSUME CopyDone \/ RecoverDone  PROVE CopyProgress'
  <2>1. memCount = walCount /\ pc \in {"copy", "recover"}
    BY <1>9 DEF CopyDone, RecoverDone, CountsAgree
  <2>2. i \in 1..(walCount + 1) /\ Overlay(main, walFrames, i - 1) = main
    BY <2>1 DEF CopyProgress
  <2>3. ~ (i <= memCount)
    BY <1>9, <2>1, <2>2, BoundsAssumption
       DEF CopyDone, RecoverDone, CountedIntact, Intact, TypeOK
  <2>4. i - 1 = walCount
    BY <2>1, <2>2, <2>3, BoundsAssumption DEF TypeOK
  <2>5. Recovered = main
    BY <2>2, <2>4 DEF Recovered
  <2>6. Recovered' = main' /\ pc' = "reset_header"
    BY <1>9, <2>5 DEF CopyDone, RecoverDone, disk, Recovered
  <2> QED BY <2>6 DEF CopyProgress
<1>10. ASSUME OpenFails \/ UNCHANGED vars  PROVE CopyProgress'
  BY <1>10 DEF OpenFails, vars, CopyProgress, Recovered
<1> QED
  BY <1>1, <1>2, <1>3, <1>4, <1>5, <1>6, <1>7, <1>8, <1>9, <1>10
     DEF Next, Working, Failing, Opening, Committing, Checkpointing, Closing

LEMMA StepSync ==
  ASSUME Inv, [Next]_vars  PROVE SyncProgress'
<1> USE DEF Inv
<1>1. CASE CommitHeader
  <2>1. CASE FullSync
    <3>1. Len(queue) \in Nat
      BY DEF TypeOK
    <3>2. Recovered' = Overlay(Recovered, queue, Len(queue)) /\ queue' = queue
      BY <1>1, <2>1, RecoveredStep DEF CommitHeader
    <3>3. Overlay(Recovered', queue, Len(queue)) = Recovered'
      BY <3>1, <3>2, OverlayTwice
    <3> QED BY <3>2, <3>3 DEF SyncProgress
  <2>2. CASE ~ FullSync
    BY <1>1, <2>2 DEF CommitHeader, AfterCommit, SyncProgress
  <2> QED BY <2>1, <2>2
<1>2. CASE ~ CommitHeader
  <2>1. ASSUME Opening \/ Checkpointing \/ Closing  PROVE SyncProgress'
    <3>1. CASE pc' = "commit_sync"
      BY <2>1, <3>1
         DEF Opening, Checkpointing, Closing, CreateWal, CreateHeader, OpenFails, OpenClean,
             OpenRecover, RecoverFrame, RecoverDone, Checkpoint, CopyFrame, CopyDone,
             ResetHeader, ResetLen, ResetSync, CheckpointReturns, Close, Unlink, vars,
             SyncProgress, Recovered
    <3> QED BY <3>1 DEF SyncProgress
  <2>2. ASSUME Committing  PROVE pc' # "commit_sync"
    BY <1>2, <2>2
       DEF Committing, WriteFrame, Discard, Commit, CommitFrame, CommitSync, AfterCommit
  <2>3. ASSUME Failing  PROVE pc' # "commit_sync"
    BY <2>3
       DEF Failing, RecoverFails, CommitFrameFails, CommitSyncFails,
           CopyFails, ResetLenFails, CloseNoCatalog, Kill, AfterCommit,
           CheckpointReturns
  <2>4. CASE UNCHANGED vars
    BY <2>4 DEF vars, SyncProgress, Recovered
  <2> QED BY <2>1, <2>2, <2>3, <2>4 DEF Next, Working, SyncProgress
<1> QED BY <1>1, <1>2

-----------------------------------------------------------------------------
(* The theorems.                                                           *)

\* Values keep their types, with a commit's progress, whatever Next does.
THEOREM TypeCorrect == Spec => []TypeOK
<1>1. Progress => TypeOK
  BY DEF Progress
<1> QED BY <1>1, InitProgress, StepProgress, PTL DEF Spec

LEMMA InitInv == Init => Inv
<1> SUFFICES ASSUME Init  PROVE Inv
  OBVIOUS
<1>1. TypeOK /\ CommitProgress
  BY InitProgress DEF Progress
<1> QED BY <1>1 DEF Init, Inv, CountedIntact, CountsAgree, CopyProgress, SyncProgress

LEMMA StepInv ==
  ASSUME Inv, [Next]_vars  PROVE Inv'
BY StepProgress, StepCounts, StepCopy, StepSync DEF Inv, Progress

\* The frames the header of the log counts are intact, writer and file agree on the count, and what a checkpoint or a recovery
\* has copied so far is redundant in the log (writer.rs, recovery.rs, checkpoint.rs).
THEOREM InvCorrect == Spec => []Inv
BY InitInv, StepInv, PTL DEF Spec

\* The log gives up frames only when the main file holds what they say.
THEOREM ResetCorrect == Spec => ResetKeepsImages
<1>1. ASSUME Inv, [Next]_vars, walCount' < walCount  PROVE main = Recovered
  <2>1. CASE ResetHeader
    BY <1>1, <2>1 DEF ResetHeader, Inv, CopyProgress
  <2>2. ASSUME CreateWal \/ CommitHeader \/ Unlink  PROVE FALSE
    <3>1. CASE CreateWal \/ Unlink
      BY <1>1, <3>1 DEF CreateWal, Unlink, Inv, CountsAgree
    <3>2. CASE CommitHeader
      BY <1>1, <3>2, BoundsAssumption DEF CommitHeader, Inv, CountsAgree, TypeOK
    <3> QED BY <2>2, <3>1, <3>2
  <2>3. CASE UNCHANGED walCount
    BY <1>1, <2>3, BoundsAssumption DEF Inv, TypeOK
  <2>4. ResetHeader \/ CreateWal \/ CommitHeader \/ Unlink \/ UNCHANGED walCount
    <3>1. ASSUME Opening \/ Committing \/ Checkpointing \/ Closing
          PROVE  ResetHeader \/ CreateWal \/ CommitHeader \/ Unlink \/ UNCHANGED walCount
      BY <3>1
         DEF Opening, Committing, Checkpointing, Closing, CreateHeader, OpenFails, OpenClean,
             OpenRecover, RecoverFrame, RecoverDone, WriteFrame, Discard, Commit, CommitFrame,
             CommitSync, Checkpoint, CopyFrame, CopyDone, ResetLen, ResetSync, Close, disk, vars
    <3>2. ASSUME Failing  PROVE UNCHANGED walCount
      BY <3>2
         DEF Failing, RecoverFails, CommitFrameFails, CommitSyncFails,
             CopyFails, ResetLenFails, CloseNoCatalog, Kill, disk
    <3> QED BY <1>1, <3>1, <3>2 DEF Next, Working, vars
  <2> QED BY <2>1, <2>2, <2>3, <2>4
<1> QED BY <1>1, InvCorrect, PTL DEF Spec, ResetKeepsImages

\* A commit that returned Ok is what a restart finds (WalWriter::commit).
THEOREM AckedCorrect == Spec => AckedIsRecoverable
<1>1. ASSUME Inv, [Next]_vars, Acknowledged
      PROVE  Overlay(Recovered', queue, Len(queue)) = Recovered'
  <2>1. CASE CommitHeader
    <3>1. Len(queue) \in Nat
      BY <1>1 DEF Inv, TypeOK
    <3> QED BY <1>1, <2>1, <3>1, RecoveredStep, OverlayTwice
  <2>2. CASE pc = "commit_sync"
    <3>1. ~ CommitHeader
      BY <2>2 DEF CommitHeader
    <3> QED BY <1>1, <2>2, <3>1, RecoveredStep DEF Inv, SyncProgress
  <2>3. CASE pc = "frames" /\ ~ CommitHeader
    <3>1. CASE Opening \/ Committing \/ Checkpointing \/ Closing
      BY <1>1, <2>3, <3>1
         DEF Acknowledged, Opening, Committing, Checkpointing, Closing, CreateWal,
             CreateHeader, OpenFails, OpenClean, OpenRecover, RecoverFrame, RecoverDone,
             WriteFrame, Discard, Commit, CommitFrame, CommitSync, Checkpoint, CopyFrame,
             CopyDone, ResetHeader, ResetLen, ResetSync, Close, Unlink
    <3>2. CASE Failing
      BY <1>1, <2>3, <3>2
         DEF Acknowledged, Failing, RecoverFails, CommitFrameFails,
             CommitSyncFails, CopyFails, ResetLenFails, CloseNoCatalog, Kill
    <3> QED BY <1>1, <3>1, <3>2 DEF Acknowledged, Next, Working, vars
  <2> QED BY <1>1, <2>1, <2>2, <2>3 DEF Acknowledged
<1> QED BY <1>1, InvCorrect, PTL DEF Spec, AckedIsRecoverable

\* What a step may do to the queue.
LEMMA QueueStep ==
  ASSUME [Next]_vars
  PROVE  \/ queue' \in {queue, <<>>}
         \/ ~ CommitHeader /\ \E f \in Frame : queue' = Append(queue, f)
<1>1. CASE CommitHeader
  BY <1>1 DEF CommitHeader
<1>2. CASE Opening \/ Checkpointing \/ Unlink
  BY <1>2
     DEF Opening, Checkpointing, CreateWal, CreateHeader, OpenFails, OpenClean, OpenRecover,
         RecoverFrame, RecoverDone, Checkpoint, CopyFrame, CopyDone, ResetHeader, ResetLen,
         ResetSync, Unlink, CheckpointReturns, vars
<1>3. CASE Discard \/ Commit \/ CommitFrame \/ CommitSync
  BY <1>3 DEF Discard, Commit, CommitFrame, CommitSync
<1>4. ASSUME NEW f \in Frame, WriteFrame(f) \/ Close(f)
      PROVE  ~ CommitHeader /\ queue' = Append(queue, f)
  BY <1>4 DEF WriteFrame, Close, CommitHeader
<1>5. CASE Failing
  BY <1>5
     DEF Failing, RecoverFails, CommitFrameFails, CommitSyncFails,
         CopyFails, ResetLenFails, CloseNoCatalog, Kill, CheckpointReturns
<1>6. CASE UNCHANGED vars
  BY <1>6 DEF vars
<1> QED
  BY <1>1, <1>2, <1>3, <1>4, <1>5, <1>6 DEF Next, Working, Committing, Closing

\* Seen through Recovered, the log is the page map of PageStore: transactions take
\* effect whole or not at all, and nothing else changes what a restart finds.
THEOREM WalImplementsPageStore == Spec => Implements
<1>1. Init => Promise!Init
  <2>1. ASSUME NEW base \in [Page -> Data]  PROVE Overlay(base, NoFrames, 0) = base
    BY OverlayNone
  <2>2. [p \in Page |-> InitialData] \in [Page -> Data]
    BY InitialAssumption
  <2> QED BY <2>1, <2>2 DEF Init, Promise!Init, Recovered
<1>2. ASSUME Inv, [Next]_vars  PROVE [Promise!Next]_(Promise!vars)
  <2>1. CASE CommitHeader
    <3>1. queue # <<>>
      BY <1>2, <2>1 DEF CommitHeader, Inv, CommitProgress
    <3>2. queue' \in {queue, <<>>}
      BY <1>2, <2>1, QueueStep
    <3>3. Recovered' = Promise!Overlay(Recovered, queue, Len(queue))
      BY <1>2, <2>1, RecoveredStep
         DEF Overlay, Promise!Overlay, Writes, Promise!Writes, Intact, Promise!Intact, Max,
             Promise!Max
    <3> QED BY <3>1, <3>2, <3>3 DEF Promise!Next, Promise!Publish
  <2>2. CASE ~ CommitHeader
    <3>1. Recovered' = Recovered
      BY <1>2, <2>2, RecoveredStep
    <3>2. CASE queue' \in {queue, <<>>}
      BY <3>1, <3>2 DEF Promise!Next, Promise!Forget, Promise!vars
    <3>3. CASE \E f \in Frame : queue' = Append(queue, f)
      BY <3>1, <3>3 DEF Promise!Next, Promise!Write, Frame, Promise!Frame
    <3> QED BY <1>2, <3>2, <3>3, QueueStep
  <2> QED BY <2>1, <2>2
<1> QED BY <1>1, <1>2, InvCorrect, PTL DEF Spec, Implements, Promise!Spec

-----------------------------------------------------------------------------
(* A machine with one failure: more about Overlay.                         *)

\* The last frame of a page decides, whatever there was before.
LEMMA OverlayLast ==
  ASSUME NEW base, NEW other, NEW f, NEW n \in Nat, NEW p \in Page
  PROVE  /\ Writes(f, n, p) = {} => Overlay(base, f, n)[p] = base[p]
         /\ Writes(f, n, p) # {} => Overlay(base, f, n)[p] = Overlay(other, f, n)[p]
BY DEF Overlay

\* Slots that fail the checksum do not count.
LEMMA OverlaySkip ==
  ASSUME NEW base, NEW f, NEW k \in Nat, NEW n \in Nat, k <= n,
         \A s \in (k + 1)..n : ~ Intact(f[s])
  PROVE  Overlay(base, f, n) = Overlay(base, f, k)
<1>1. ASSUME NEW p \in Page  PROVE Writes(f, n, p) = Writes(f, k, p)
  BY DEF Writes
<1> QED BY <1>1 DEF Overlay

\* A queue says of a page what one of its frames says.
LEMMA OverlayQueue ==
  ASSUME NEW base, queue \in Seq(Frame), NEW p \in Page
  PROVE  /\ Queued(p) = {} => Overlay(base, queue, Len(queue))[p] = base[p]
         /\ Queued(p) # {} => Overlay(base, queue, Len(queue))[p] \in Queued(p)
<1> DEFINE W == Writes(queue, Len(queue), p)
<1>1. Len(queue) \in Nat /\ W \in SUBSET (1..Len(queue))
  BY DEF Writes
<1>2. Queued(p) = {} <=> W = {}
  BY DEF Queued
<1>3. CASE W = {}
  BY <1>1, <1>2, <1>3 DEF Overlay
<1>4. CASE W # {}
  <2>1. Max(W) \in W
    BY <1>1, <1>4, MaxIsLast
  <2>2. queue[Max(W)].data \in Queued(p)
    BY <2>1 DEF Queued
  <2> QED BY <1>2, <1>4, <2>2 DEF Overlay
<1> QED BY <1>3, <1>4

\* What the queue writes is page contents.
LEMMA QueuedType ==
  ASSUME queue \in Seq(Frame), NEW p \in Page  PROVE Queued(p) \subseteq Data
<1>1. \A k \in Writes(queue, Len(queue), p) : queue[k] \in Frame
  BY DEF Writes
<1> QED BY <1>1 DEF Queued, Frame

-----------------------------------------------------------------------------
(* The images the open database works on, in the steps that succeed.       *)

LEMMA QuietView ==
  ASSUME UNCHANGED <<main, walFrames, memCount>>, pc # "closed", pc' # "closed"
  PROVE  View' = View
BY DEF View

\* No frame counts, here or there.
LEMMA ViewIsMain ==
  ASSUME TypeOK, (IF pc = "closed" THEN walCount ELSE memCount) = 0
  PROVE  View = main
BY OverlayNone DEF View, TypeOK

LEMMA ViewStep ==
  ASSUME TypeOK, TypeOK', Kept, Working
  PROVE  IF CommitHeader THEN View' = Overlay(View, queue, Len(queue)) ELSE View' = View
<1> USE DEF Kept, Counts
<1>1. ASSUME CreateWal  PROVE View' = View
  <2>1. walCount = 0 /\ pc = "closed" /\ memCount' = 0 /\ pc' = "create" /\ main' = main
    BY <1>1 DEF CreateWal
  <2>2. Overlay(main', walFrames', 0) = main'
    BY OverlayNone DEF TypeOK
  <2> QED BY <2>1, <2>2, ViewIsMain DEF View
<1>2. ASSUME OpenClean  PROVE View' = View
  BY <1>2 DEF OpenClean, View, disk
<1>3. ASSUME OpenRecover  PROVE View' = View
  BY <1>3 DEF OpenRecover, View, disk
<1>4. ASSUME i \in 1..memCount, pc # "closed", UNCHANGED <<pc, memCount, walFrames>>,
             Intact(walFrames[i]),
             main' = [main EXCEPT ![walFrames[i].page] = walFrames[i].data]
      PROVE  View' = View
  <2>1. walFrames[i] \in Frame /\ memCount \in Nat /\ main \in [Page -> Data]
    BY <1>4, BoundsAssumption DEF TypeOK, Intact, Slot
  <2>2. Overlay(main', walFrames, memCount) = Overlay(main, walFrames, memCount)
    BY <1>4, <2>1, OverlayAbsorbs
  <2> QED BY <1>4, <2>2 DEF View
<1>5. ASSUME RecoverFrame  PROVE View' = View
  <2>1. i \in 1..memCount
    BY <1>5, BoundsAssumption DEF RecoverFrame, TypeOK
  <2>2. CASE walFrames[i] = Torn
    BY <1>5, <2>2, QuietView DEF RecoverFrame
  <2>3. CASE walFrames[i] # Torn
    BY <1>4, <1>5, <2>1, <2>3 DEF RecoverFrame, Intact
  <2> QED BY <2>2, <2>3
<1>6. ASSUME CopyFrame  PROVE View' = View
  <2>1. i \in 1..memCount
    BY <1>6, BoundsAssumption DEF CopyFrame, TypeOK
  <2> QED BY <1>4, <1>6, <2>1 DEF CopyFrame
<1>7. ASSUME CommitFrame  PROVE View' = View
  <2>1. memCount \in Nat /\ memCount' = memCount /\ main' = main /\ pc = "frames" /\ pc' = "frames"
    BY <1>7, BoundsAssumption DEF CommitFrame, TypeOK
  <2>2. \A s \in 1..memCount : walFrames'[s] = walFrames[s]
    BY <1>7, <2>1 DEF CommitFrame, TypeOK, Slot
  <2>3. Overlay(main, walFrames', memCount) = Overlay(main, walFrames, memCount)
    BY <2>1, <2>2, OverlaySame
  <2> QED BY <2>1, <2>3 DEF View
<1>8. ASSUME CommitHeader  PROVE View' = Overlay(View, queue, Len(queue))
  <2>1. /\ pc = "frames" /\ pc' # "closed" /\ memCount' = memCount + Len(queue)
        /\ UNCHANGED <<main, walFrames>>
    BY <1>8 DEF CommitHeader, AfterCommit
  <2>2. \A j \in 1..Len(queue) : walFrames[memCount + j] = queue[j]
    BY <1>8 DEF CommitHeader, CommitProgress, TypeOK
  <2>3. memCount \in Nat /\ queue \in Seq(Frame) /\ main \in [Page -> Data]
    BY BoundsAssumption DEF TypeOK
  <2>4. Overlay(main, walFrames, memCount + Len(queue))
        = Overlay(Overlay(main, walFrames, memCount), queue, Len(queue))
    BY <2>2, <2>3, OverlayAppend
  <2> QED BY <2>1, <2>4 DEF View
<1>9. ASSUME ResetHeader  PROVE View' = View
  <2>1. View = main /\ main' = main /\ pc' = "reset_len" /\ memCount' = 0
    BY <1>9 DEF ResetHeader, Copied
  <2>2. Overlay(main', walFrames', 0) = main'
    BY OverlayNone DEF TypeOK
  <2> QED BY <2>1, <2>2 DEF View
<1>10. ASSUME ResetLen \/ ResetSync  PROVE View' = View
  <2>1. memCount = 0 /\ memCount' = 0 /\ main' = main /\ pc # "closed" /\ pc' # "closed"
    BY <1>10 DEF ResetLen, ResetSync, CheckpointReturns, disk
  <2>2. Overlay(main', walFrames', 0) = main'
    BY OverlayNone DEF TypeOK
  <2> QED BY <2>1, <2>2, ViewIsMain DEF View
<1>11. ASSUME Unlink  PROVE View' = View
  <2>1. memCount = 0 /\ walCount' = 0 /\ main' = main /\ pc = "unlink" /\ pc' = "closed"
    BY <1>11 DEF Unlink
  <2>2. Overlay(main', walFrames', 0) = main'
    BY OverlayNone DEF TypeOK
  <2> QED BY <2>1, <2>2, ViewIsMain DEF View
<1>12. ASSUME \/ CreateHeader \/ RecoverDone \/ Discard \/ Commit \/ CommitSync \/ Checkpoint
              \/ CopyDone \/ (\E f \in Frame : WriteFrame(f)) \/ (\E f \in Frame : Close(f))
       PROVE  View' = View
  <2>1. UNCHANGED <<main, walFrames, memCount>> /\ pc # "closed" /\ pc' # "closed"
    BY <1>12 DEF CreateHeader, RecoverDone, Discard, Commit, CommitSync, Checkpoint, CopyDone,
                 WriteFrame, Close, AfterCommit, disk
  <2> QED BY <2>1, QuietView
<1>13. ASSUME OpenFails  PROVE View' = View
  BY <1>13 DEF OpenFails, vars, View
<1> QED
  BY <1>1, <1>2, <1>3, <1>5, <1>6, <1>7, <1>8, <1>9, <1>10, <1>11, <1>12, <1>13
     DEF Working, Opening, Committing, Checkpointing, Closing

-----------------------------------------------------------------------------
(* What the last transactions may have left, in the steps that succeed.    *)

\* With SyncMode::Full a commit is acknowledged when it has synced the log.
LEMMA AckSteps ==
  ASSUME FullSync, Working, Acknowledged  PROVE CommitSync
<1>1. pc \in {"frames", "commit_sync"} /\ pc' # pc /\ queue # <<>> /\ queue' = <<>>
  BY DEF Acknowledged
<1>2. ~ Opening /\ ~ Checkpointing /\ ~ Closing
  BY <1>1 DEF Opening, CreateWal, CreateHeader, OpenFails, OpenClean, OpenRecover, RecoverFrame,
              RecoverDone, Checkpointing, Checkpoint, CopyFrame, CopyDone, ResetHeader, ResetLen,
              ResetSync, Closing, Close, Unlink
<1>3. ~ CommitHeader /\ ~ CommitFrame /\ ~ Commit /\ ~ Discard /\ \A f \in Frame : ~ WriteFrame(f)
  BY <1>1 DEF CommitHeader, CommitFrame, Commit, Discard, WriteFrame
<1> QED BY <1>2, <1>3 DEF Working, Committing

\* Until then more may be left, never less, and what is being written may be.
LEMMA OwedGrows ==
  ASSUME Record, ~ Acknowledged, NEW p \in Page
  PROVE  Owed(p) \subseteq Owed(p)' /\ (pc = "frames" => Queued(p) \subseteq Owed(p)')
BY DEF Record, Owed

LEMMA StepOwed ==
  ASSUME FullSync, TypeOK, TypeOK', MayTypeOK, Kept, Working, Record
  PROVE  ViewOwed'
<1> SUFFICES ASSUME NEW p \in Page  PROVE View'[p] \in Owed(p)'
  BY DEF ViewOwed
<1>0. View[p] \in Owed(p) /\ queue \in Seq(Frame) /\ Len(queue) \in Nat
  BY DEF Kept, ViewOwed, TypeOK
<1>1. CASE CommitHeader
  <2>1. ~ Acknowledged /\ pc = "frames"
    BY <1>1 DEF Acknowledged, CommitHeader
  <2>2. View' = Overlay(View, queue, Len(queue))
    BY <1>1, ViewStep
  <2>3. Overlay(View, queue, Len(queue))[p] \in {View[p]} \cup Queued(p)
    BY <1>0, OverlayQueue
  <2> QED BY <1>0, <2>1, <2>2, <2>3, OwedGrows
<1>2. CASE ~ CommitHeader /\ ~ Acknowledged
  <2>1. View' = View
    BY <1>2, ViewStep
  <2> QED BY <1>0, <1>2, <2>1, OwedGrows
<1>3. CASE ~ CommitHeader /\ Acknowledged
  <2>1. View' = View
    BY <1>3, ViewStep
  <2>2. pc = "commit_sync"
    BY <1>3, AckSteps DEF CommitSync
  <2>3. Overlay(View, queue, Len(queue)) = View
    BY <2>2 DEF Kept, Published
  <2>4. acked' = Overlay(acked, queue, Len(queue))
    BY <1>3 DEF Record
  <2>5. CASE Queued(p) = {}
    <3>1. acked'[p] = acked[p]
      BY <1>0, <2>4, <2>5, OverlayQueue
    <3>2. attempted'[p] = attempted[p]
      BY <2>2, <2>5 DEF Record
    <3> QED BY <1>0, <2>1, <3>1, <3>2 DEF Owed
  <2>6. CASE Queued(p) # {}
    <3>1. Writes(queue, Len(queue), p) # {}
      BY <2>6 DEF Queued
    <3>2. Overlay(View, queue, Len(queue))[p] = Overlay(acked, queue, Len(queue))[p]
      BY <1>0, <3>1, OverlayLast
    <3> QED BY <2>1, <2>3, <2>4, <3>2 DEF Owed
  <2> QED BY <2>5, <2>6
<1> QED BY <1>1, <1>2, <1>3

-----------------------------------------------------------------------------
(* The other parts of Kept, in the steps that succeed.                     *)

LEMMA StepCountsKept ==
  ASSUME TypeOK, Kept, Working  PROVE Counts'
<1> USE BoundsAssumption DEF Kept, TypeOK, Counts, disk
<1>1. CASE Opening
  BY <1>1 DEF Opening, CreateWal, CreateHeader, OpenFails, OpenClean, OpenRecover, RecoverFrame,
              RecoverDone, vars
<1>2. ASSUME \/ Discard \/ Commit \/ CommitFrame \/ CommitSync \/ (\E f \in Frame : WriteFrame(f))
      PROVE  Counts'
  BY <1>2 DEF Discard, Commit, CommitFrame, CommitSync, WriteFrame, AfterCommit
<1>3. ASSUME CommitHeader  PROVE Counts'
  <2>1. memCount' \in Nat /\ memCount' # 0 /\ pc = "frames" /\ walFile' = walFile
    BY <1>3 DEF CommitHeader, CommitProgress
  <2>2. pc' \in {"commit_sync", "copy", "ready"}
    BY <1>3, <2>1 DEF CommitHeader, AfterCommit
  <2> QED BY <2>1, <2>2
<1>4. ASSUME Checkpoint \/ CopyFrame \/ CopyDone \/ ResetHeader  PROVE Counts'
  BY <1>4 DEF Checkpoint, CopyFrame, CopyDone, ResetHeader
<1>5. ASSUME ResetLen \/ ResetSync  PROVE Counts'
  BY <1>5 DEF ResetLen, ResetSync, CheckpointReturns
<1>6. CASE Closing
  BY <1>6 DEF Closing, Close, Unlink
<1> QED
  BY <1>1, <1>2, <1>3, <1>4, <1>5, <1>6 DEF Working, Committing, Checkpointing

\* Recovery does not change the log it reads.
LEMMA StepReadable ==
  ASSUME TypeOK, Kept, Working  PROVE Readable'
<1> USE BoundsAssumption DEF Kept, TypeOK, Readable, Unbroken, disk
<1>1. CASE Opening
  <2>1. CASE CreateWal \/ CreateHeader \/ OpenClean \/ RecoverDone
    BY <2>1 DEF CreateWal, CreateHeader, OpenClean, RecoverDone
  <2>2. CASE OpenRecover
    BY <2>2 DEF OpenRecover
  <2>3. CASE RecoverFrame \/ OpenFails
    BY <2>3 DEF RecoverFrame, OpenFails, vars
  <2> QED BY <1>1, <2>1, <2>2, <2>3 DEF Opening
<1>2. CASE Unlink
  BY <1>2 DEF Unlink
<1>3. CASE Committing \/ Checkpointing \/ (\E f \in Frame : Close(f))
  <2>1. pc' \notin {"closed", "recover"}
    BY <1>3 DEF Committing, WriteFrame, Discard, Commit, CommitFrame, CommitHeader, CommitSync,
                AfterCommit, Checkpointing, Checkpoint, CopyFrame, CopyDone, ResetHeader, ResetLen,
                ResetSync, CheckpointReturns, Close
  <2> QED BY <2>1
<1> QED BY <1>1, <1>2, <1>3 DEF Working, Closing

\* A loop that starts, and one that goes on.
LEMMA StartCopied ==
  ASSUME TypeOK', pc' \in {"copy", "recover"}, i' = 1  PROVE Copied'
<1>1. Overlay(main', walFrames', i' - 1) = main'
  BY OverlayNone DEF TypeOK
<1>2. memCount' \in Nat
  BY BoundsAssumption DEF TypeOK
<1>3. \A n \in Nat : 1 \in 1..(n + 1)
  OBVIOUS
<1> QED BY <1>1, <1>2, <1>3 DEF Copied

LEMMA NotCopied ==
  ASSUME pc' \notin {"copy", "recover", "reset_header"}  PROVE Copied'
BY DEF Copied

LEMMA StepCopied ==
  ASSUME TypeOK, TypeOK', Kept, Working  PROVE Copied'
<1> USE DEF Kept
<1>1. CASE OpenRecover \/ Checkpoint
  BY <1>1, StartCopied DEF OpenRecover, Checkpoint
<1>2. CASE CommitHeader \/ CommitSync
  <2>1. pc' = "copy" => i' = 1
    BY <1>2 DEF CommitHeader, CommitSync, AfterCommit
  <2>2. pc' \notin {"recover", "reset_header"}
    BY <1>2 DEF CommitHeader, CommitSync, AfterCommit
  <2> QED BY <2>1, <2>2, StartCopied, NotCopied
<1>3. ASSUME i <= memCount, pc \in {"copy", "recover"}, UNCHANGED <<walFrames, pc, memCount>>,
             i' = i + 1, Overlay(main', walFrames, i) = main'
      PROVE  Copied'
  <2>1. i \in Nat \ {0} /\ memCount \in Nat
    BY BoundsAssumption DEF TypeOK
  <2>2. i' - 1 = i /\ i' \in 1..(memCount + 1)
    BY <1>3, <2>1
  <2> QED BY <1>3, <2>2 DEF Copied
<1>4. ASSUME RecoverFrame \/ CopyFrame  PROVE Copied'
  <2>1. /\ i <= memCount /\ pc \in {"copy", "recover"} /\ UNCHANGED <<walFrames, pc, memCount>>
        /\ i' = i + 1
    BY <1>4 DEF RecoverFrame, CopyFrame
  <2>2. i \in Nat \ {0} /\ memCount \in Nat /\ i \in Slot /\ i - 1 \in Nat
    BY <2>1, BoundsAssumption DEF TypeOK, Slot
  <2>3. Overlay(main, walFrames, i - 1) = main /\ main \in [Page -> Data]
    BY <2>1 DEF Copied, TypeOK
  <2>4. CASE ~ Intact(walFrames[i])
    <3>1. main' = main
      BY <1>4, <2>4 DEF RecoverFrame, CopyFrame, Intact
    <3>2. \A s \in ((i - 1) + 1)..i : ~ Intact(walFrames[s])
      <4>1. ((i - 1) + 1)..i = {i}
        BY <2>2
      <4> QED BY <2>4, <4>1
    <3>3. Overlay(main, walFrames, i) = Overlay(main, walFrames, i - 1)
      BY <2>2, <3>2, OverlaySkip
    <3> QED BY <1>3, <2>1, <2>3, <3>1, <3>3
  <2>5. CASE Intact(walFrames[i])
    <3>1. main' = [main EXCEPT ![walFrames[i].page] = walFrames[i].data]
      BY <1>4, <2>5 DEF RecoverFrame, CopyFrame, Intact
    <3>2. walFrames[i] \in Frame
      BY <2>2, <2>5 DEF TypeOK, Intact
    <3>3. Overlay(main', walFrames, i) = main'
      BY <2>2, <2>3, <2>5, <3>1, <3>2, OverlayStep
    <3> QED BY <1>3, <2>1, <3>3
  <2> QED BY <2>4, <2>5
<1>5. ASSUME RecoverDone \/ CopyDone  PROVE Copied'
  <2>1. /\ pc \in {"copy", "recover"} /\ pc' = "reset_header" /\ UNCHANGED <<main, walFrames, memCount>>
    BY <1>5 DEF RecoverDone, CopyDone, disk
  <2>2. i \in Nat \ {0} /\ memCount \in Nat /\ i <= memCount + 1 /\ i - 1 \in Nat
    BY <2>1, BoundsAssumption DEF TypeOK, Copied
  <2>3. \A s \in ((i - 1) + 1)..memCount : ~ Intact(walFrames[s])
    <3>1. CASE i > memCount
      BY <2>2, <3>1
    <3>2. CASE i <= memCount
      <4>1. walFrames[i] = Absent /\ pc = "recover"
        BY <1>5, <2>2, <3>2 DEF RecoverDone, CopyDone
      <4>2. \A s \in (i + 1)..memCount : walFrames[s] = Absent
        BY <2>2, <3>2, <4>1 DEF Readable, Unbroken
      <4>3. ASSUME NEW s \in ((i - 1) + 1)..memCount  PROVE s = i \/ s \in (i + 1)..memCount
        BY <2>2
      <4> QED BY <4>1, <4>2, <4>3 DEF Intact
    <3> QED BY <2>2, <3>1, <3>2
  <2>4. Overlay(main, walFrames, memCount) = Overlay(main, walFrames, i - 1)
    BY <2>2, <2>3, OverlaySkip
  <2>5. Overlay(main, walFrames, i - 1) = main
    BY <2>1 DEF Copied
  <2>6. Overlay(main', walFrames', memCount') = main'
    BY <2>1, <2>4, <2>5
  <2> QED BY <2>1, <2>6 DEF Copied, View
<1>6. CASE \/ CreateWal \/ CreateHeader \/ OpenClean \/ Discard \/ Commit \/ CommitFrame
           \/ ResetHeader \/ ResetLen \/ ResetSync \/ Unlink
           \/ (\E f \in Frame : WriteFrame(f)) \/ (\E f \in Frame : Close(f))
  <2>1. pc' \notin {"copy", "recover", "reset_header"}
    BY <1>6 DEF CreateWal, CreateHeader, OpenClean, Discard, Commit, CommitFrame, ResetHeader,
                ResetLen, ResetSync, CheckpointReturns, Unlink, WriteFrame, Close
  <2> QED BY <2>1, NotCopied
<1>7. CASE OpenFails
  <2>1. pc' = "closed"
    BY <1>7 DEF OpenFails, vars
  <2> QED BY <2>1, NotCopied
<1> QED
  BY <1>1, <1>2, <1>4, <1>5, <1>6, <1>7 DEF Working, Opening, Committing, Checkpointing, Closing

\* The header that counts a queue makes it redundant.
LEMMA StepPublished ==
  ASSUME TypeOK, TypeOK', Kept, Working  PROVE Published'
<1>1. CASE CommitHeader
  <2>1. Len(queue) \in Nat
    BY DEF TypeOK
  <2>2. View' = Overlay(View, queue, Len(queue))
    BY <1>1, ViewStep
  <2>3. Overlay(View', queue, Len(queue)) = View'
    BY <2>1, <2>2, OverlayTwice
  <2>4. pc' = "commit_sync" => queue' = queue
    BY <1>1 DEF CommitHeader, AfterCommit
  <2> QED BY <2>3, <2>4 DEF Published
<1>2. CASE ~ CommitHeader
  <2>1. pc' # "commit_sync"
    BY <1>2 DEF Working, Opening, CreateWal, CreateHeader, OpenFails, OpenClean, OpenRecover,
                RecoverFrame, RecoverDone, vars, Committing, WriteFrame, Discard, Commit,
                CommitFrame, CommitSync, AfterCommit, Checkpointing, Checkpoint, CopyFrame,
                CopyDone, ResetHeader, ResetLen, ResetSync, CheckpointReturns, Closing, Close, Unlink
  <2> QED BY <2>1 DEF Published
<1> QED BY <1>1, <1>2

LEMMA StepKept ==
  ASSUME FullSync, MayTypeOK, Kept, Working, Record
  PROVE  Kept' /\ TypeOK'
<1>1. TypeOK' /\ CommitProgress'
  BY StepProgress DEF Progress, Kept, MayTypeOK, Next
<1> QED
  BY <1>1, StepOwed, StepCountsKept, StepReadable, StepCopied, StepPublished DEF Kept, MayTypeOK

-----------------------------------------------------------------------------
(* Types.                                                                  *)

\* The length of a log is counted in slots.
LEMMA LengthType ==
  ASSUME NEW f  PROVE Length(f) \in 0..MaxFrames
<1> DEFINE S == {s \in Slot : f[s] # Absent}
<1>1. MaxFrames \in Nat /\ MaxFrames - 1 + 1 = MaxFrames
  BY BoundsAssumption
<1>2. IsFiniteSet(Slot) /\ Cardinality(Slot) = MaxFrames
  BY <1>1, FS_Interval DEF Slot
<1>3. S \subseteq Slot
  OBVIOUS
<1>4. IsFiniteSet(S) /\ Cardinality(S) <= Cardinality(Slot)
  BY <1>2, <1>3, FS_Subset
<1>5. Cardinality(S) \in Nat
  BY <1>4, FS_CardinalityType
<1> QED BY <1>1, <1>2, <1>4, <1>5 DEF Length

\* Slots without a gap are as many as the last one's number.
LEMMA LengthIs ==
  ASSUME NEW f, NEW n \in 0..MaxFrames, \A s \in Slot : f[s] # Absent <=> s <= n
  PROVE  Length(f) = n
<1>1. MaxFrames \in Nat /\ n \in Nat
  BY BoundsAssumption
<1>2. {s \in Slot : f[s] # Absent} = 1..n
  BY <1>1 DEF Slot
<1>3. Cardinality(1..n) = n
  BY <1>1, FS_Interval
<1> QED BY <1>2, <1>3 DEF Length

LEMMA RecordTypes ==
  ASSUME MayTypeOK, Record
  PROVE  acked' \in [Page -> Data] /\ attempted' \in [Page -> SUBSET Data]
<1>1. Overlay(acked, queue, Len(queue)) \in [Page -> Data]
  <2>1. \A j \in 1..Len(queue) : queue[j] \in Frame \cup {Absent, Torn}
    BY DEF MayTypeOK, TypeOK
  <2>2. Len(queue) \in Nat
    BY DEF MayTypeOK, TypeOK
  <2> QED BY <2>1, <2>2, OverlayType DEF MayTypeOK
<1>2. acked' \in [Page -> Data]
  BY <1>1 DEF Record, MayTypeOK
<1>3. \A p \in Page : Queued(p) \subseteq Data
  BY QueuedType DEF MayTypeOK, TypeOK
<1>4. attempted' \in [Page -> SUBSET Data]
  BY <1>3 DEF Record, MayTypeOK
<1> QED BY <1>2, <1>4

LEMMA TrackTypes ==
  ASSUME MayTypeOK, TypeOK', Track
  PROVE  /\ mainMay' \in [Page -> SUBSET Data] /\ countMay' \in SUBSET (0..MaxFrames)
         /\ lengthMay' \in SUBSET (0..MaxFrames)
         /\ slotMay' \in [Slot -> SUBSET (Frame \cup {Torn})]
<1>1. mainMay' \in [Page -> SUBSET Data]
  BY DEF Track, MayTypeOK, TypeOK
<1>2. countMay' \in SUBSET (0..MaxFrames)
  BY DEF Track, MayTypeOK, TypeOK
<1>3. lengthMay' \in SUBSET (0..MaxFrames)
  BY LengthType DEF Track, MayTypeOK
<1>4. slotMay' \in [Slot -> SUBSET (Frame \cup {Torn})]
  BY DEF Track, MayTypeOK, TypeOK
<1> QED BY <1>1, <1>2, <1>3, <1>4

-----------------------------------------------------------------------------
(* A failure: an error, or the death of the process.                       *)

\* As long as the writer and the file agree, a restart finds what the database works on.
LEMMA ViewIsRecovered ==
  ASSUME Inv  PROVE View = Recovered
<1>1. CASE pc = "create"
  BY <1>1 DEF Inv, CountsAgree, View, Recovered
<1>2. CASE pc # "create"
  BY <1>2 DEF Inv, CountsAgree, View, Recovered
<1> QED BY <1>1, <1>2

\* An error return other than that of a header write, or a kill.
LEMMA FailingKept ==
  ASSUME FullSync, Inv, Kept, Failing, Record
  PROVE  Kept' /\ TypeOK'
<1>1. Inv'
  BY StepInv DEF Next
<1>2. ~ CommitHeader /\ ~ Acknowledged
  <2>1. CASE CommitFrameFails
    <3>1. i \in Nat /\ Len(queue) \in Nat /\ i <= Len(queue) /\ queue' = queue
      BY <2>1 DEF CommitFrameFails, Inv, TypeOK
    <3> QED BY <3>1 DEF CommitHeader, Acknowledged
  <2>2. CASE CommitSyncFails
    BY <2>2 DEF CommitSyncFails, CommitHeader, Acknowledged
  <2>3. CASE Kill
    BY <2>3 DEF Kill, CommitHeader, Acknowledged
  <2>4. CASE RecoverFails \/ CopyFails \/ ResetLenFails \/ CloseNoCatalog
    BY <2>4 DEF RecoverFails, CopyFails, ResetLenFails, CloseNoCatalog, CommitHeader, Acknowledged
  <2> QED BY <2>1, <2>2, <2>3, <2>4 DEF Failing
<1>3. Recovered' = Recovered
  BY <1>2, RecoveredStep DEF Next
<1>4. View' = Recovered'
  <2>1. pc' = "create" => walCount' = 0 /\ memCount' = 0
    BY <1>1 DEF Inv, CountsAgree
  <2>2. pc' \notin {"closed", "create"} => memCount' = walCount'
    BY <1>1 DEF Inv, CountsAgree
  <2> QED BY <2>1, <2>2 DEF View, Recovered
<1>5. View' = View
  BY <1>3, <1>4, ViewIsRecovered
<1>6. ViewOwed'
  BY <1>2, <1>5, OwedGrows DEF Kept, ViewOwed
<1>7. Counts'
  BY DEF Failing, RecoverFails, CommitFrameFails, CommitSyncFails, CopyFails, ResetLenFails,
         CloseNoCatalog, Kill, CheckpointReturns, AfterCommit, disk, Counts, Kept
<1>8. Readable'
  <2>1. pc' = "recover" => memCount' = walCount'
    BY <1>1 DEF Inv, CountsAgree
  <2>2. CountedIntact'
    BY <1>1 DEF Inv
  <2> QED BY <2>1, <2>2 DEF CountedIntact, Readable, Unbroken, Intact
<1>9. Copied' /\ Published'
  <2>1. CopyProgress' /\ SyncProgress'
    BY <1>1 DEF Inv
  <2> QED BY <1>4, <2>1 DEF CopyProgress, SyncProgress, Copied, Published
<1> QED BY <1>1, <1>6, <1>7, <1>8, <1>9 DEF Kept, Inv

\* The header cannot be written when it has changed in memory: the writer and the file
\* disagree from now on.
LEMMA HeaderFailingKept ==
  ASSUME Inv, Kept, HeaderFailing, Record
  PROVE  Kept' /\ TypeOK'
<1>0. /\ ~ Acknowledged /\ main \in [Page -> Data] /\ memCount \in Nat /\ MaxFrames \in Nat
      /\ queue \in Seq(Frame) /\ Len(queue) \in Nat
  BY BoundsAssumption DEF HeaderFailing, CommitHeaderFails, ResetHeaderFails, Acknowledged, Inv, TypeOK
<1>1. CASE CommitHeaderFails
  <2>1. /\ memCount' = memCount + Len(queue) /\ UNCHANGED <<main, walFile, walCount, walFrames, caller, queue>>
        /\ pc = "frames" /\ pc' \in {"ready", "copy"} /\ i' = 1 /\ queue # <<>>
        /\ memCount' \in 0..MaxFrames /\ walFile = "valid"
    <3>1. memCount + Len(queue) <= MaxFrames /\ memCount + Len(queue) # 0
      BY <1>0, <1>1 DEF CommitHeaderFails, Kept, CommitProgress
    <3> QED BY <1>0, <1>1, <3>1 DEF CommitHeaderFails, AfterCommit, disk, Inv, CountsAgree, CommitProgress
  <2>2. TypeOK'
    BY <2>1 DEF Inv, TypeOK, PCs
  <2>3. \A j \in 1..Len(queue) : walFrames[memCount + j] = queue[j]
    BY <1>0, <1>1 DEF CommitHeaderFails, Kept, CommitProgress, Inv, TypeOK
  <2>4. View' = Overlay(View, queue, Len(queue))
    BY <1>0, <2>1, <2>3, OverlayAppend DEF View
  <2>5. ViewOwed'
    <3> SUFFICES ASSUME NEW p \in Page  PROVE View'[p] \in Owed(p)'
      BY DEF ViewOwed
    <3>1. View'[p] \in {View[p]} \cup Queued(p)
      BY <1>0, <2>4, OverlayQueue
    <3> QED BY <1>0, <2>1, <3>1, OwedGrows DEF Kept, ViewOwed
  <2>6. Copied'
    BY <2>1, <2>2, StartCopied, NotCopied
  <2> QED BY <2>1, <2>2, <2>5, <2>6 DEF Kept, Counts, Readable, Published, CommitProgress
<1>2. CASE ResetHeaderFails
  <2>1. /\ memCount' = 0 /\ pc = "reset_header" /\ pc' = "ready" /\ i' = 1 /\ caller' = "none"
        /\ UNCHANGED <<main, walFile, walCount, walFrames, queue>>
    BY <1>2 DEF ResetHeaderFails, disk
  <2>2. TypeOK'
    BY <1>0, <2>1 DEF Inv, TypeOK, PCs
  <2>3. View' = View
    <3>1. View = main
      BY <2>1 DEF Kept, Copied
    <3>2. Overlay(main', walFrames', 0) = main'
      BY <1>0, <2>1, OverlayNone
    <3> QED BY <2>1, <3>1, <3>2 DEF View
  <2>4. ViewOwed'
    BY <1>0, <2>3, OwedGrows DEF Kept, ViewOwed
  <2> QED BY <2>1, <2>2, <2>4 DEF Kept, Counts, Readable, Copied, Published, CommitProgress, Inv, CountsAgree
<1> QED BY <1>1, <1>2 DEF HeaderFailing

-----------------------------------------------------------------------------
(* As long as nothing has failed.                                          *)

Calm == /\ Inv /\ Tidy /\ MainMay /\ LogMay
        /\ pc = "closed" => walFile = "absent"
        /\ pc # "recover" /\ caller # "recover"

LEMMA StepPhase ==
  ASSUME FullSync, Calm, Working
  PROVE  /\ pc' = "closed" => walFile' = "absent"
         /\ pc' # "recover" /\ caller' # "recover"
<1> USE DEF Calm
<1>1. CASE Opening
  <2>1. pc \notin {"closed", "recover"} \/ walFile = "absent"
    OBVIOUS
  <2>2. CreateWal \/ CreateHeader
    BY <1>1, <2>1 DEF Opening, OpenFails, OpenClean, OpenRecover, RecoverFrame, RecoverDone
  <2> QED BY <2>2 DEF CreateWal, CreateHeader
<1>2. CASE Committing
  BY <1>2 DEF Committing, WriteFrame, Discard, Commit, CommitFrame, CommitHeader, CommitSync,
              AfterCommit, disk
<1>3. CASE Checkpointing
  BY <1>3 DEF Checkpointing, Checkpoint, CopyFrame, CopyDone, ResetHeader, ResetLen, ResetSync,
              CheckpointReturns, disk
<1>4. CASE Closing
  BY <1>4 DEF Closing, Close, Unlink
<1> QED BY <1>1, <1>2, <1>3, <1>4 DEF Working

\* Of opening, only the creation of a log takes place.
LEMMA CalmOpening ==
  ASSUME Calm, Opening  PROVE CreateWal \/ CreateHeader
BY DEF Calm, Opening, OpenFails, OpenClean, OpenRecover, RecoverFrame, RecoverDone

LEMMA StepTidy ==
  ASSUME FullSync, Calm, Working  PROVE Tidy'
<1> USE DEF Calm, Tidy
<1>0. TypeOK /\ MaxFrames \in Nat /\ Len(queue) \in Nat
  BY BoundsAssumption DEF Inv, TypeOK
<1>1. ASSUME UNCHANGED <<walCount, walFrames>>, pc \notin {"frames", "reset_len"}, pc' # "frames"
      PROVE  Tidy'
  BY <1>1 DEF Used
<1>2. ASSUME walFrames' = NoFrames  PROVE Tidy'
  BY <1>2 DEF NoFrames
<1>3. CASE Opening
  BY <1>1, <1>2, <1>3, CalmOpening DEF CreateWal, CreateHeader
<1>4. CASE \/ Discard \/ CommitSync \/ Checkpoint \/ CopyFrame \/ CopyDone \/ ResetSync
           \/ (\E f \in Frame : WriteFrame(f))
  <2>1. UNCHANGED <<walCount, walFrames>> /\ pc \notin {"frames", "reset_len"} /\ pc' # "frames"
    BY <1>4 DEF Discard, CommitSync, AfterCommit, Checkpoint, CopyFrame, CopyDone, ResetSync,
                CheckpointReturns, WriteFrame, disk
  <2> QED BY <1>1, <2>1
<1>5. CASE Commit \/ (\E f \in Frame : Close(f))
  <2>1. UNCHANGED <<walCount, walFrames>> /\ pc = "ready" /\ pc' = "frames" /\ i' = 1
    BY <1>5 DEF Commit, Close, disk
  <2>2. walCount \in Nat /\ Used' = walCount /\ Used = walCount
    BY <1>0, <2>1 DEF Used, TypeOK
  <2> QED BY <2>1, <2>2
<1>6. CASE CommitFrame
  <2>1. /\ pc = "frames" /\ pc' = "frames" /\ i' = i + 1 /\ walCount' = walCount
        /\ walFrames' = [walFrames EXCEPT ![memCount + i] = queue[i]]
    BY <1>6 DEF CommitFrame
  <2>2. memCount = walCount /\ walCount \in Nat /\ i \in Nat
    BY <1>0, <2>1 DEF Inv, CountsAgree, TypeOK
  <2>3. Used = walCount + i - 1 /\ Used' = walCount + i
    BY <2>1, <2>2 DEF Used
  <2>4. ASSUME NEW s \in Slot, s > Used'  PROVE walFrames'[s] = Absent
    <3>1. s # memCount + i /\ s > Used
      BY <2>2, <2>3, <2>4 DEF Slot
    <3>2. walFrames[s] = Absent
      BY <2>1, <3>1
    <3> QED BY <1>0, <2>1, <3>1, <3>2 DEF TypeOK
  <2> QED BY <2>4
<1>7. CASE CommitHeader
  <2>1. /\ pc = "frames" /\ pc' = "commit_sync" /\ walCount' = memCount + Len(queue)
        /\ walFrames' = walFrames /\ i > Len(queue)
    BY <1>7 DEF CommitHeader
  <2>2. memCount = walCount /\ walCount \in Nat /\ i = Len(queue) + 1
    BY <1>0, <2>1 DEF Inv, CountsAgree, CommitProgress, TypeOK
  <2>3. Used = walCount' /\ Used' = walCount'
    BY <1>0, <2>1, <2>2 DEF Used
  <2> QED BY <2>1, <2>3
<1>8. CASE ResetHeader
  BY <1>8 DEF ResetHeader
<1>9. CASE ResetLen \/ Unlink
  BY <1>2, <1>9 DEF ResetLen, Unlink
<1> QED
  BY <1>3, <1>4, <1>5, <1>6, <1>7, <1>8, <1>9 DEF Working, Committing, Checkpointing, Closing

LEMMA StepMainMay ==
  ASSUME FullSync, Calm, MayTypeOK, Working, Track  PROVE MainMay'
<1> USE DEF Calm
<1>0. /\ TypeOK /\ MaxFrames \in Nat
      /\ \A p \in Page : mainMay'[p] = {main'[p]} \cup IF MainSynced THEN {} ELSE mainMay[p]
  BY BoundsAssumption DEF Inv, Track
<1>1. ASSUME main' = main, pc # "copy"  PROVE MainMay'
  BY <1>0, <1>1 DEF MainMay
<1>2. CASE CopyFrame
  <2>1. /\ pc = "copy" /\ pc' = "copy" /\ UNCHANGED <<walCount, walFrames>> /\ ~ MainSynced
        /\ main' = [main EXCEPT ![walFrames[i].page] = walFrames[i].data]
        /\ i <= memCount /\ Intact(walFrames[i])
    BY <1>2 DEF CopyFrame, MainSynced
  <2>2. i \in 1..walCount
    BY <1>0, <2>1 DEF Inv, CountsAgree, TypeOK
  <2> SUFFICES ASSUME NEW p \in Page
               PROVE  mainMay'[p] = {main'[p]} \/ Writes(walFrames, walCount, p) # {}
    BY <2>1 DEF MainMay
  <2>3. CASE p = walFrames[i].page
    BY <2>1, <2>2, <2>3 DEF Writes
  <2>4. CASE p # walFrames[i].page
    <3>1. main'[p] = main[p]
      BY <1>0, <2>1, <2>4 DEF TypeOK
    <3> QED BY <1>0, <2>1, <3>1 DEF MainMay
  <2> QED BY <2>3, <2>4
<1>3. CASE CopyDone
  <2>1. MainSynced
    BY <1>3 DEF CopyDone, MainSynced
  <2> QED BY <1>0, <2>1 DEF MainMay
<1>4. CASE Opening
  BY <1>1, <1>4, CalmOpening DEF CreateWal, CreateHeader
<1>5. CASE Committing \/ Closing
  BY <1>1, <1>5 DEF Committing, WriteFrame, Discard, Commit, CommitFrame, CommitHeader, CommitSync,
                    Closing, Close, Unlink, disk
<1>6. CASE Checkpoint \/ ResetHeader \/ ResetLen \/ ResetSync
  BY <1>1, <1>6 DEF Checkpoint, ResetHeader, ResetLen, ResetSync, disk
<1> QED BY <1>2, <1>3, <1>4, <1>5, <1>6 DEF Working, Checkpointing

-----------------------------------------------------------------------------
(* What of the log is not synced, as long as nothing has failed.           *)

\* Slots of a commit that has written k-1 frames above the c counted.
LEMMA SlotsOfCommit ==
  ASSUME NEW c \in Nat, NEW n \in Nat, NEW len \in Nat, c + len <= n, NEW k \in 1..(len + 1)
  PROVE  /\ c + k - 1 \in 0..n /\ c <= c + k - 1
         /\ \A s \in 1..n : c < s /\ s <= c + k - 1 =>
              s - c \in 1..(k - 1) /\ s - c \in 1..len /\ c + (s - c) = s
OBVIOUS

\* The log has the slots in use and no other.
LEMMA LengthThen ==
  ASSUME Inv', Tidy', pc' # "reset_len"
  PROVE  Length(walFrames') = Used' /\ Used' \in Nat /\ walCount' <= Used'
<1>0. /\ walCount' \in 0..MaxFrames /\ MaxFrames \in Nat /\ walFrames' \in [Slot -> Frame \cup {Absent, Torn}]
      /\ i' \in Nat /\ queue' \in Seq(Frame) /\ Len(queue') \in Nat
  BY BoundsAssumption DEF Inv, TypeOK
<1>1. \A s \in Slot : s > Used' => walFrames'[s] = Absent
  BY DEF Tidy
<1>2. ASSUME NEW s \in Slot, s <= walCount'  PROVE walFrames'[s] # Absent
  BY <1>0, <1>2 DEF Inv, CountedIntact, Intact, Slot
<1>3. CASE pc' = "frames"
  <2>1. /\ memCount' = walCount' /\ i' \in 1..(Len(queue') + 1) /\ memCount' + Len(queue') <= MaxFrames
        /\ \A j \in 1..(i' - 1) : walFrames'[memCount' + j] = queue'[j]
    BY <1>3 DEF Inv, CountsAgree, CommitProgress
  <2>2. Used' = walCount' + i' - 1
    BY <1>3 DEF Used
  <2>3. /\ Used' \in 0..MaxFrames /\ walCount' <= Used'
        /\ \A s \in Slot : walCount' < s /\ s <= Used' =>
             s - walCount' \in 1..(i' - 1) /\ s - walCount' \in 1..Len(queue') /\ walCount' + (s - walCount') = s
    <3>1. walCount' \in Nat /\ walCount' + Len(queue') <= MaxFrames
      BY <1>0, <2>1
    <3>2. /\ walCount' + i' - 1 \in 0..MaxFrames /\ walCount' <= walCount' + i' - 1
          /\ \A s \in 1..MaxFrames : walCount' < s /\ s <= walCount' + i' - 1 =>
               s - walCount' \in 1..(i' - 1) /\ s - walCount' \in 1..Len(queue') /\ walCount' + (s - walCount') = s
      BY ONLY <1>0, <2>1, <3>1, SlotsOfCommit
    <3> QED BY <2>2, <3>2 DEF Slot
  <2>4. ASSUME NEW s \in Slot, s <= Used'  PROVE walFrames'[s] # Absent
    <3>1. CASE s <= walCount'
      BY <1>2, <3>1
    <3>2. CASE walCount' < s
      <4>1. s - walCount' \in 1..(i' - 1) /\ s - walCount' \in 1..Len(queue') /\ walCount' + (s - walCount') = s
        BY <2>3, <2>4, <3>2
      <4>2. walFrames'[memCount' + (s - walCount')] = queue'[s - walCount']
        BY <2>1, <4>1
      <4>3. queue'[s - walCount'] # Absent
        BY <1>0, <4>1, QueuedIntact DEF Intact
      <4> QED BY <2>1, <4>1, <4>2, <4>3
    <3>3. s \in Int /\ walCount' \in Int
      BY <1>0 DEF Slot
    <3> QED BY <3>1, <3>2, <3>3
  <2>5. ASSUME NEW s \in Slot  PROVE walFrames'[s] # Absent <=> s <= Used'
    <3>1. s \in Int /\ Used' \in Int
      BY <1>0, <2>3 DEF Slot
    <3>2. s <= Used' \/ s > Used'
      BY <3>1
    <3>3. ~ (s <= Used' /\ s > Used')
      BY <3>1
    <3> QED BY <1>1, <2>4, <3>2, <3>3
  <2>6. Length(walFrames') = Used'
    BY <2>3, <2>5, LengthIs
  <2> QED BY <2>3, <2>6
<1>4. CASE pc' # "frames"
  <2>1. Used' = walCount'
    BY <1>4 DEF Used
  <2>2. \A s \in Slot : walFrames'[s] # Absent <=> s <= walCount'
    BY <1>0, <1>1, <1>2, <2>1 DEF Slot
  <2> QED BY <1>0, <2>1, <2>2, LengthIs
<1> QED BY <1>3, <1>4

LEMMA StaySynced ==
  ASSUME MayTypeOK, Track, Inv', Tidy', LogSynced, UNCHANGED <<walCount, walFrames>>,
         pc' \notin {"reset_len", "frames"}
  PROVE  LogSynced'
<1>1. Length(walFrames') = walCount'
  BY LengthThen DEF Used
<1>2. lengthMay' = {walCount'} /\ countMay' = {walCount'}
  BY <1>1 DEF Track, LogSynced
<1>3. \A s \in Slot : slotMay'[s] = {walFrames'[s]} \ {Absent}
  BY DEF Track, LogSynced, Rewritten
<1> QED BY <1>2, <1>3 DEF LogSynced

LEMMA NowSynced ==
  ASSUME Track, Inv', Tidy', WalSynced, pc' \notin {"reset_len", "frames"}
  PROVE  LogSynced'
<1>1. Length(walFrames') = walCount'
  BY LengthThen DEF Used
<1> QED BY <1>1 DEF Track, LogSynced

\* A commit starts above what is counted.
LEMMA StartFrames ==
  ASSUME MayTypeOK, Track, Inv, Tidy, Inv', Tidy', LogSynced, UNCHANGED <<walCount, walFrames>>,
         pc = "ready", pc' = "frames", i' = 1
  PROVE  SyncedTo(walCount)'
<1>0. /\ walCount \in 0..MaxFrames /\ MaxFrames \in Nat /\ Len(queue') \in Nat
      /\ walCount + Len(queue') <= MaxFrames
  BY BoundsAssumption DEF Inv, TypeOK, CommitProgress, CountsAgree
<1>1. Length(walFrames') = walCount'
  BY <1>0, LengthThen DEF Used
<1>2. lengthMay' = {walCount'} /\ countMay' = {walCount'}
  BY <1>1 DEF Track, LogSynced
<1>3. \A s \in Slot : slotMay'[s] = {walFrames[s]} \ {Absent}
  BY DEF Track, LogSynced, Rewritten
<1>4. ASSUME NEW s \in 1..walCount  PROVE slotMay'[s] = {walFrames[s]}
  <2>1. s \in Slot /\ walFrames[s] # Absent
    BY <1>0 DEF Inv, CountedIntact, Intact, Slot
  <2> QED BY <1>3, <2>1
<1>5. ASSUME NEW j \in 1..Len(queue')  PROVE slotMay'[walCount + j] = {}
  <2>1. walCount + j \in Slot /\ walCount + j > walCount
    BY <1>0 DEF Slot
  <2>2. walFrames[walCount + j] = Absent
    BY <2>1 DEF Tidy, Used
  <2> QED BY <1>3, <2>1, <2>2
<1> QED BY <1>0, <1>2, <1>4, <1>5 DEF SyncedTo

\* A slot that is not the one being written.
LEMMA OtherSlot ==
  ASSUME Track, ~ WalSynced, NEW s \in Slot, walFrames'[s] = walFrames[s]
  PROVE  slotMay'[s] = ({walFrames[s]} \ {Absent}) \cup slotMay[s]
BY DEF Track, Rewritten

LEMMA FramesMay ==
  ASSUME MayTypeOK, Track, Calm, Inv', Tidy', CommitFrame
  PROVE  SyncedTo(walCount)'
<1>0. /\ walCount \in 0..MaxFrames /\ MaxFrames \in Nat /\ queue \in Seq(Frame) /\ Len(queue) \in Nat
      /\ walCount + Len(queue) <= MaxFrames /\ memCount = walCount /\ i \in 1..Len(queue)
      /\ \A j \in 1..(i - 1) : walFrames[walCount + j] = queue[j]
      /\ walFrames \in [Slot -> Frame \cup {Absent, Torn}]
  BY BoundsAssumption DEF CommitFrame, Calm, Inv, TypeOK, CommitProgress, CountsAgree
<1>1. /\ pc = "frames" /\ pc' = "frames" /\ UNCHANGED <<walFile, walCount, queue>>
      /\ walFrames' = [walFrames EXCEPT ![walCount + i] = queue[i]] /\ SyncedTo(walCount)
  BY <1>0 DEF CommitFrame, Calm, LogMay
<1>2. ~ WalSynced
  BY <1>1 DEF WalSynced
<1>3. countMay' \subseteq {walCount', walCount'}
  BY <1>1, <1>2 DEF Track, SyncedTo
<1>4. ASSUME NEW k \in lengthMay'  PROVE walCount' <= k
  <2>1. k = Length(walFrames') \/ k \in lengthMay
    BY <1>2 DEF Track
  <2> QED BY <1>1, <2>1, LengthThen DEF SyncedTo
<1>5. ASSUME NEW s \in 1..walCount  PROVE slotMay'[s] = {walFrames'[s]}
  <2>1. s \in Slot /\ s # walCount + i /\ walFrames[s] # Absent
    BY <1>0 DEF Calm, Inv, CountedIntact, Intact, Slot
  <2>2. walFrames'[s] = walFrames[s]
    BY <1>0, <1>1, <2>1
  <2> QED BY <1>1, <1>2, <2>1, <2>2, OtherSlot DEF SyncedTo
<1>6. ASSUME NEW j \in 1..Len(queue)  PROVE slotMay'[walCount + j] \subseteq {queue[j], Torn}
  <2>1. walCount + j \in Slot /\ walCount + i \in Slot /\ slotMay[walCount + j] \subseteq {queue[j], Torn}
    BY <1>0, <1>1 DEF Slot, SyncedTo
  <2>2. CASE j = i
    <3>1. walFrames'[walCount + j] = queue[j]
      BY <1>0, <1>1, <2>1, <2>2
    <3> QED BY <1>2, <2>1, <3>1 DEF Track
  <2>3. CASE j # i
    <3>1. walFrames'[walCount + j] = walFrames[walCount + j]
      BY <1>0, <1>1, <2>1, <2>3
    <3>2. walFrames[walCount + j] \in {queue[j], Absent}
      <4>1. CASE j < i
        BY <1>0, <4>1
      <4>2. CASE j > i
        <5>1. walCount + j > Used
          BY <1>0, <1>1, <4>2 DEF Used
        <5> QED BY <1>1, <2>1, <5>1 DEF Calm, Tidy
      <4> QED BY <1>0, <2>3, <4>1, <4>2
    <3> QED BY <1>2, <2>1, <3>1, <3>2, OtherSlot
  <2> QED BY <2>2, <2>3
<1> QED BY <1>1, <1>3, <1>4, <1>5, <1>6 DEF SyncedTo

\* The header counts the frames before they are synced.
LEMMA HeaderMay ==
  ASSUME FullSync, MayTypeOK, Track, Record, Calm, Kept, Inv', Tidy', CommitHeader
  PROVE  /\ CountedBefore' = walCount /\ SyncedTo(CountedBefore)'
         /\ \A p \in Page : /\ Queued(p)' \subseteq attempted'[p]
                           /\ Overlay(main', walFrames', walCount)[p] \in Owed(p)'
<1>0. /\ walCount \in 0..MaxFrames /\ MaxFrames \in Nat /\ queue \in Seq(Frame) /\ Len(queue) \in Nat
      /\ walCount + Len(queue) <= MaxFrames /\ memCount = walCount /\ queue # <<>>
      /\ \A j \in 1..Len(queue) : walFrames[walCount + j] = queue[j]
  BY BoundsAssumption DEF CommitHeader, Calm, Inv, TypeOK, CommitProgress, CountsAgree
<1>1. /\ pc = "frames" /\ pc' = "commit_sync" /\ UNCHANGED <<main, walFile, walFrames, queue>>
      /\ walCount' = walCount + Len(queue) /\ SyncedTo(walCount)
  BY <1>0 DEF CommitHeader, Calm, LogMay
<1>2. ~ WalSynced /\ ~ Acknowledged
  BY <1>0, <1>1 DEF WalSynced, Acknowledged
<1>3. CountedBefore' = walCount
  BY <1>0, <1>1 DEF CountedBefore
<1>4. countMay' \subseteq {walCount, walCount'}
  BY <1>1, <1>2 DEF Track, SyncedTo
<1>5. ASSUME NEW k \in lengthMay'  PROVE walCount <= k
  <2>1. k = Length(walFrames') \/ k \in lengthMay
    BY <1>2 DEF Track
  <2>2. Length(walFrames') >= walCount
    BY <1>0, <1>1, LengthThen DEF Used
  <2> QED BY <1>1, <2>1, <2>2 DEF SyncedTo
<1>6. ASSUME NEW s \in 1..walCount  PROVE slotMay'[s] = {walFrames'[s]}
  <2>1. s \in Slot /\ walFrames[s] # Absent /\ walFrames'[s] = walFrames[s]
    BY <1>0, <1>1 DEF Calm, Inv, CountedIntact, Intact, Slot
  <2> QED BY <1>1, <1>2, <2>1, OtherSlot DEF SyncedTo
<1>7. ASSUME NEW j \in 1..Len(queue)  PROVE slotMay'[walCount + j] \subseteq {queue[j], Torn}
  <2>1. walCount + j \in Slot
    BY <1>0 DEF Slot
  <2>2. slotMay[walCount + j] \subseteq {queue[j], Torn}
    BY <1>1 DEF SyncedTo
  <2>3. walFrames'[walCount + j] = walFrames[walCount + j]
    BY <1>1
  <2>4. slotMay'[walCount + j] = ({walFrames[walCount + j]} \ {Absent}) \cup slotMay[walCount + j]
    BY <1>2, <2>1, <2>3, OtherSlot
  <2> QED BY <1>0, <2>2, <2>4
<1>8. SyncedTo(CountedBefore)'
  BY <1>1, <1>3, <1>4, <1>5, <1>6, <1>7 DEF SyncedTo
<1>9. ASSUME NEW p \in Page
      PROVE  Queued(p)' \subseteq attempted'[p] /\ Overlay(main', walFrames', walCount)[p] \in Owed(p)'
  <2>1. Queued(p)' = Queued(p)
    BY <1>1 DEF Queued
  <2>2. Queued(p) \subseteq attempted'[p]
    BY <1>1, <1>2 DEF Record
  <2>3. Overlay(main', walFrames', walCount) = View
    BY <1>0, <1>1 DEF View
  <2>4. View[p] \in Owed(p)
    BY DEF Kept, ViewOwed
  <2> QED BY <1>2, <2>1, <2>2, <2>3, <2>4, OwedGrows
<1> QED BY <1>3, <1>8, <1>9

-----------------------------------------------------------------------------
(* What a restart finds after a loss of power.                             *)

\* Slots that are synced are found as they are.
LEMMA LossFinds ==
  ASSUME NEW m, NEW f, NEW c \in 0..MaxFrames, NEW n \in Nat, c <= n,
         \A s \in 1..c : slotMay[s] = {walFrames[s]},
         \A s \in Slot : f[s] \in Left(n, s),
         NEW p \in Page, m[p] = main[p] \/ Writes(walFrames, c, p) # {}
  PROVE  Overlay(m, f, c)[p] = Overlay(main, walFrames, c)[p]
<1>0. c \in Nat /\ MaxFrames \in Nat
  BY BoundsAssumption
<1>1. ASSUME NEW s \in 1..c  PROVE f[s] = walFrames[s]
  <2>1. s \in Slot /\ ~ (s > n) /\ f[s] \in Left(n, s)
    BY <1>0 DEF Slot
  <2> QED BY <2>1 DEF Left
<1>2. Overlay(m, f, c) = Overlay(m, walFrames, c)
  BY <1>0, <1>1, OverlaySame
<1>3. CASE Writes(walFrames, c, p) # {}
  BY <1>0, <1>2, <1>3, OverlayLast
<1>4. CASE Writes(walFrames, c, p) = {}
  BY <1>0, <1>2, <1>4, OverlayLast
<1> QED BY <1>3, <1>4

\* Slots of a queue that may be torn or missing change a page to what the queue says, if at all.
LEMMA OverlayMixed ==
  ASSUME NEW base, NEW f, NEW b \in Nat, queue \in Seq(Frame), NEW p \in Page,
         \A j \in 1..Len(queue) : f[b + j] \in {queue[j], Torn, Absent}
  PROVE  Overlay(base, f, b + Len(queue))[p] \in {Overlay(base, f, b)[p]} \cup Queued(p)
<1> DEFINE n == b + Len(queue)
           W == Writes(f, n, p)
           V == Writes(f, b, p)
<1>0. Len(queue) \in Nat /\ n \in Nat /\ W \in SUBSET (1..n) /\ V \in SUBSET W
  BY DEF Writes
<1>1. CASE W = {}
  BY <1>0, <1>1 DEF Overlay
<1>2. CASE W # {}
  <2>1. Max(W) \in W /\ \A k \in W : k <= Max(W)
    BY <1>0, <1>2, MaxIsLast
  <2>2. Overlay(base, f, n)[p] = f[Max(W)].data
    BY <1>2 DEF Overlay
  <2>3. CASE Max(W) <= b
    <3>1. Max(W) \in V
      BY <2>1, <2>3 DEF Writes
    <3>2. Max(V) = Max(W)
      <4>1. V \in SUBSET Int /\ \A k \in V : k <= Max(W)
        BY <1>0, <2>1
      <4> QED BY <3>1, <4>1, MaxIs
    <3>3. Overlay(base, f, b)[p] = f[Max(V)].data
      BY <3>1 DEF Overlay
    <3> QED BY <2>2, <3>2, <3>3
  <2>4. CASE Max(W) > b
    <3>1. Max(W) \in 1..n /\ Intact(f[Max(W)]) /\ f[Max(W)].page = p
      BY <2>1 DEF Writes
    <3> DEFINE j == Max(W) - b
    <3>2. j \in 1..Len(queue) /\ b + j = Max(W)
      BY <1>0, <2>4, <3>1
    <3>3. f[Max(W)] = queue[j]
      BY <3>1, <3>2 DEF Intact
    <3>4. j \in Writes(queue, Len(queue), p)
      BY <3>1, <3>2, <3>3 DEF Writes
    <3>5. queue[j].data \in Queued(p)
      BY <3>4 DEF Queued
    <3> QED BY <2>2, <3>3, <3>5
  <2>5. Max(W) \in Int
    BY <1>0, <2>1
  <2> QED BY <2>3, <2>4, <2>5
<1> QED BY <1>1, <1>2

\* reset() has cleared the count: the log may still count its frames, all of them copied.
LEMMA ResetHeaderMay ==
  ASSUME MayTypeOK, Track, Record, Calm, Kept, ResetHeader
  PROVE  LossSurvived'
<1>0. /\ walCount \in 0..MaxFrames /\ MaxFrames \in Nat /\ memCount = walCount /\ main \in [Page -> Data]
      /\ pc = "reset_header" /\ pc' = "reset_len" /\ walCount' = 0
      /\ UNCHANGED <<main, walFile, walFrames>>
  BY BoundsAssumption DEF ResetHeader, Calm, Inv, TypeOK, CountsAgree
<1>1. LogSynced /\ View = main
  BY <1>0 DEF Calm, LogMay, Kept, Copied
<1>2. ~ WalSynced /\ ~ MainSynced /\ ~ Acknowledged
  BY <1>0 DEF WalSynced, MainSynced, Acknowledged
<1>3. ASSUME NEW s \in Slot  PROVE walFrames[s] # Absent <=> s <= walCount
  <2>1. s > walCount => walFrames[s] = Absent
    BY <1>0 DEF Calm, Tidy, Used
  <2>2. s <= walCount => walFrames[s] # Absent
    BY <1>0 DEF Calm, Inv, CountedIntact, Intact, Slot
  <2> QED BY <1>0, <2>1, <2>2 DEF Slot
<1>4. Length(walFrames) = walCount
  BY <1>0, <1>3, LengthIs
<1>5. countMay' = {0, walCount} /\ lengthMay' = {walCount}
  BY <1>0, <1>1, <1>2, <1>4 DEF Track, LogSynced
<1>6. ASSUME NEW p \in Page  PROVE mainMay'[p] = {main[p]}
  BY <1>0, <1>2 DEF Track, Calm, MainMay
<1>7. ASSUME NEW s \in Slot  PROVE slotMay'[s] = slotMay[s]
  BY <1>0, <1>1, <1>2 DEF Track, LogSynced, Rewritten
<1> SUFFICES ASSUME NEW m \in [Page -> Data], NEW f \in [Slot -> Frame \cup {Absent, Torn}],
                    NEW c \in {0, walCount}, NEW n \in {walCount},
                    \A p \in Page : m[p] \in mainMay'[p],
                    \A s \in Slot : f[s] \in Left(n, s)',
                    NEW p \in Page
             PROVE  Overlay(m, f, c)[p] \in Owed(p)'
  BY <1>5 DEF LossSurvived
<1>8. \A s \in Slot : f[s] \in Left(n, s)
  BY <1>0, <1>7 DEF Left
<1>9. m[p] = main[p]
  BY <1>6
<1>10. \A s \in 1..c : slotMay[s] = {walFrames[s]}
  BY <1>0, <1>1, <1>3 DEF LogSynced, Slot
<1>11. Overlay(m, f, c)[p] = Overlay(main, walFrames, c)[p]
  BY <1>0, <1>8, <1>9, <1>10, LossFinds
<1>12. Overlay(main, walFrames, c) = View
  BY <1>0, <1>1, OverlayNone DEF View
<1> QED BY <1>2, <1>11, <1>12, OwedGrows DEF Kept, ViewOwed

\* The frames are cut off: the log may be empty now, or what it may have been before.
LEMMA ResetLenMay ==
  ASSUME FullSync, MayTypeOK, Track, Record, Calm, Kept, ResetLen
  PROVE  LossSurvived'
<1>0. /\ MaxFrames \in Nat /\ memCount = 0 /\ walCount = 0 /\ walCount' = 0 /\ main \in [Page -> Data]
      /\ pc = "reset_len" /\ pc' = "reset_sync" /\ UNCHANGED <<main, walFile>> /\ walFrames' = NoFrames
  BY BoundsAssumption DEF ResetLen, Calm, Inv, TypeOK, CountsAgree, Kept, Counts
<1>1. LossSurvived
  BY <1>0 DEF Calm, LogMay
<1>2. ~ WalSynced /\ ~ MainSynced /\ ~ Acknowledged
  BY <1>0 DEF WalSynced, MainSynced, Acknowledged
<1>3. Length(walFrames') = 0
  <2>1. \A s \in Slot : walFrames'[s] # Absent <=> s <= 0
    BY <1>0 DEF NoFrames, Slot
  <2>2. 0 \in 0..MaxFrames
    BY <1>0
  <2> QED BY <2>1, <2>2, LengthIs
<1>4. countMay' = {0} \cup countMay /\ lengthMay' = {0} \cup lengthMay
  BY <1>0, <1>2, <1>3 DEF Track
<1>5. ASSUME NEW p \in Page  PROVE mainMay'[p] = {main[p]} /\ mainMay[p] = {main[p]}
  BY <1>0, <1>2 DEF Track, Calm, MainMay
<1>6. ASSUME NEW s \in Slot  PROVE slotMay'[s] = slotMay[s]
  BY <1>0, <1>2 DEF Track, Rewritten, NoFrames, Intact
<1> SUFFICES ASSUME NEW m \in [Page -> Data], NEW f \in [Slot -> Frame \cup {Absent, Torn}],
                    NEW c \in {0} \cup countMay, NEW n \in {0} \cup lengthMay,
                    \A p \in Page : m[p] \in mainMay'[p],
                    \A s \in Slot : f[s] \in Left(n, s)',
                    NEW p \in Page
             PROVE  Overlay(m, f, c)[p] \in Owed(p)'
  BY <1>4 DEF LossSurvived
<1>7. \A s \in Slot : f[s] \in Left(n, s)
  BY <1>6 DEF Left
<1>8. \A q \in Page : m[q] = main[q]
  BY <1>5
<1>9. c \in Nat /\ c <= MaxFrames /\ n \in Nat
  <2>1. c \in 0..MaxFrames /\ n \in 0..MaxFrames
    <3>1. 0 \in 0..MaxFrames
      BY <1>0
    <3> QED BY <3>1 DEF MayTypeOK
  <2> QED BY <1>0, <2>1
<1>10. CASE c = 0 \/ n = 0
  <2>1. ASSUME NEW s \in 1..c  PROVE ~ Intact(f[s])
    <3>1. n = 0 /\ s \in Slot /\ s > n
      BY <1>0, <1>9, <1>10 DEF Slot
    <3>2. f[s] = Absent
      BY <1>7, <3>1 DEF Left
    <3> QED BY <3>2 DEF Intact
  <2>2. Overlay(m, f, c) = Overlay(m, f, 0)
    BY <1>9, <2>1, OverlaySkip
  <2>3. Overlay(m, f, 0) = m
    BY OverlayNone
  <2>4. View = main
    BY <1>0, ViewIsMain DEF MayTypeOK
  <2>5. main[p] \in Owed(p)
    BY <2>4 DEF Kept, ViewOwed
  <2> QED BY <1>2, <1>8, <2>2, <2>3, <2>5, OwedGrows
<1>11. CASE c # 0 /\ n # 0
  <2>1. \A q \in Page : m[q] \in mainMay[q]
    BY <1>5, <1>8
  <2>2. Overlay(m, f, c)[p] \in Owed(p)
    BY <1>1, <1>7, <1>11, <2>1 DEF LossSurvived
  <2> QED BY <1>2, <2>2, OwedGrows
<1> QED BY <1>10, <1>11

LEMMA StepLogMay ==
  ASSUME FullSync, MayTypeOK, Track, Record, Calm, Kept, Inv', Tidy', Working
  PROVE  LogMay'
<1>1. ASSUME LogSynced', pc' \notin {"frames", "commit_sync", "reset_len", "reset_sync"}
      PROVE  LogMay'
  BY <1>1 DEF LogMay
<1>2. ASSUME pc' = "frames", SyncedTo(walCount)'  PROVE LogMay'
  BY <1>2 DEF LogMay
<1>3. CASE Opening \/ CommitSync \/ ResetSync \/ Unlink
  <2>1. pc' \notin {"frames", "commit_sync", "reset_len", "reset_sync"}
    BY <1>3, CalmOpening DEF CreateWal, CreateHeader, CommitSync, AfterCommit, ResetSync,
                             CheckpointReturns, Unlink
  <2>2. WalSynced
    <3>1. CASE CreateWal \/ CreateHeader \/ Unlink
      BY <3>1 DEF CreateWal, CreateHeader, Unlink, WalSynced, Calm, Inv, CountsAgree
    <3>2. CASE CommitSync \/ ResetSync
      BY <3>2 DEF CommitSync, AfterCommit, ResetSync, CheckpointReturns, WalSynced
    <3> QED BY <1>3, <3>1, <3>2, CalmOpening
  <2> QED BY <1>1, <2>1, <2>2, NowSynced
<1>4. CASE Discard \/ Checkpoint \/ CopyFrame \/ CopyDone \/ (\E f \in Frame : WriteFrame(f))
  <2>1. /\ UNCHANGED <<walCount, walFrames>> /\ pc \in {"ready", "copy"}
        /\ pc' \notin {"frames", "commit_sync", "reset_len", "reset_sync"}
    BY <1>4 DEF Discard, Checkpoint, CopyFrame, CopyDone, WriteFrame, disk
  <2>2. LogSynced
    BY <2>1 DEF Calm, LogMay
  <2> QED BY <1>1, <2>1, <2>2, StaySynced
<1>5. CASE Commit \/ (\E f \in Frame : Close(f))
  <2>1. UNCHANGED <<walCount, walFrames>> /\ pc = "ready" /\ pc' = "frames" /\ i' = 1
    BY <1>5 DEF Commit, Close, disk
  <2>2. LogSynced /\ Inv /\ Tidy
    BY <2>1 DEF Calm, LogMay
  <2> QED BY <1>2, <2>1, <2>2, StartFrames
<1>6. CASE CommitFrame
  <2>1. pc' = "frames"
    BY <1>6 DEF CommitFrame
  <2> QED BY <1>2, <1>6, <2>1, FramesMay
<1>7. CASE CommitHeader
  <2>1. pc' = "commit_sync" /\ walCount \in Nat
    BY <1>7, BoundsAssumption DEF CommitHeader, Calm, Inv, TypeOK
  <2> QED BY <1>7, <2>1, HeaderMay DEF LogMay
<1>8. CASE ResetHeader
  <2>1. pc' = "reset_len"
    BY <1>8 DEF ResetHeader
  <2> QED BY <1>8, <2>1, ResetHeaderMay DEF LogMay
<1>9. CASE ResetLen
  <2>1. pc' = "reset_sync"
    BY <1>9 DEF ResetLen, Calm
  <2> QED BY <1>9, <2>1, ResetLenMay DEF LogMay
<1> QED
  BY <1>3, <1>4, <1>5, <1>6, <1>7, <1>8, <1>9 DEF Working, Committing, Checkpointing, Closing

LEMMA StepCalm ==
  ASSUME FullSync, MayTypeOK, Track, Record, Calm, Kept, Working
  PROVE  Calm'
<1>1. Inv'
  BY StepInv DEF Calm, Next
<1>2. Tidy'
  BY StepTidy
<1> QED BY <1>1, <1>2, StepMainMay, StepLogMay, StepPhase DEF Calm

\* As long as nothing has failed, a loss of power leaves what is owed.
LEMMA CalmSurvives ==
  ASSUME Calm, Kept, MayTypeOK  PROVE LossSurvived
<1>0. /\ walCount \in 0..MaxFrames /\ MaxFrames \in Nat /\ queue \in Seq(Frame) /\ Len(queue) \in Nat
      /\ \A s \in 1..walCount : walFrames[s] # Absent
  BY BoundsAssumption DEF Calm, Inv, TypeOK, CountedIntact, Intact
<1>1. CASE pc \in {"reset_len", "reset_sync"}
  BY <1>1 DEF Calm, LogMay
<1>2. ASSUME NEW m \in [Page -> Data], NEW f \in [Slot -> Frame \cup {Absent, Torn}],
             NEW c \in countMay, NEW n \in lengthMay,
             \A p \in Page : m[p] \in mainMay[p], \A s \in Slot : f[s] \in Left(n, s),
             NEW p \in Page, pc \notin {"reset_len", "reset_sync"}
      PROVE  Overlay(m, f, c)[p] \in Owed(p)
  <2>0. n \in Nat
    <3>1. n \in 0..MaxFrames
      BY DEF MayTypeOK
    <3> QED BY <1>0, <3>1
  <2>1. m[p] = main[p] \/ (pc = "copy" /\ Writes(walFrames, walCount, p) # {})
    <3>1. \A q \in Page : mainMay[q] = {main[q]} \/ (pc = "copy" /\ Writes(walFrames, walCount, q) # {})
      BY ONLY Calm DEF Calm, MainMay
    <3>2. m[p] \in mainMay[p]
      BY <1>2
    <3> QED BY <3>1, <3>2
  <2>2. CASE pc # "commit_sync"
    <3>1. /\ c = walCount /\ walCount <= n /\ \A s \in 1..walCount : slotMay[s] = {walFrames[s]}
      <4>1. CASE pc = "frames"
        BY <4>1 DEF Calm, LogMay, SyncedTo
      <4>2. CASE pc # "frames"
        <5>1. LogSynced
          BY <1>2, <2>2, <4>2 DEF Calm, LogMay
        <5>2. \A s \in 1..walCount : s \in Slot
          BY <1>0 DEF Slot
        <5> QED BY <1>0, <5>1, <5>2 DEF LogSynced
      <4> QED BY <4>1, <4>2
    <3>2. Overlay(m, f, c)[p] = Recovered[p]
      BY <1>0, <1>2, <2>0, <2>1, <3>1, LossFinds DEF Recovered
    <3> QED BY <3>2, ViewIsRecovered DEF Calm, Kept, ViewOwed
  <2>3. CASE pc = "commit_sync"
    <3> DEFINE b == CountedBefore
    <3>1. /\ b \in Nat /\ SyncedTo(b) /\ Queued(p) \subseteq attempted[p]
          /\ Overlay(main, walFrames, b)[p] \in Owed(p)
      BY <2>3 DEF Calm, LogMay
    <3>2. walCount = b + Len(queue) /\ b \in 0..MaxFrames /\ b <= walCount
      BY <1>0, <3>1 DEF CountedBefore
    <3> HIDE DEF b
    <3>3. /\ c \in {b, walCount} /\ b <= n /\ \A s \in 1..b : slotMay[s] = {walFrames[s]}
          /\ \A j \in 1..Len(queue) : slotMay[b + j] \subseteq {queue[j], Torn}
      BY <3>1 DEF SyncedTo
    <3>4. Overlay(m, f, b)[p] \in Owed(p)
      <4>1. m[p] = main[p]
        BY <2>1, <2>3
      <4>2. Overlay(m, f, b)[p] = Overlay(main, walFrames, b)[p]
        BY <1>2, <2>0, <3>2, <3>3, <4>1, LossFinds
      <4> QED BY <3>1, <4>2
    <3>5. ASSUME NEW j \in 1..Len(queue)  PROVE f[b + j] \in {queue[j], Torn, Absent}
      <4>1. b + j \in Slot
        BY <1>0, <3>2 DEF Slot
      <4>2. f[b + j] \in Left(n, b + j)
        BY <1>2, <4>1
      <4> QED BY <3>3, <4>2 DEF Left
    <3>6. Overlay(m, f, b + Len(queue))[p] \in {Overlay(m, f, b)[p]} \cup Queued(p)
      BY <1>0, <3>1, <3>5, OverlayMixed
    <3>7. Queued(p) \subseteq Owed(p)
      BY <3>1 DEF Owed
    <3> QED BY <3>2, <3>3, <3>4, <3>6, <3>7
  <2> QED BY <2>2, <2>3
<1> QED BY <1>1, <1>2 DEF LossSurvived

\* The power fails.
LEMMA PowerLossKept ==
  ASSUME MayTypeOK, Calm, Kept, PowerLoss, Record
  PROVE  /\ Kept' /\ TypeOK'
         /\ mainMay' \in [Page -> SUBSET Data] /\ countMay' \in SUBSET (0..MaxFrames)
         /\ lengthMay' \in SUBSET (0..MaxFrames)
         /\ slotMay' \in [Slot -> SUBSET (Frame \cup {Torn})]
<1>0. /\ main' \in [Page -> Data] /\ \A p \in Page : main'[p] \in mainMay[p]
      /\ walCount' \in countMay /\ pc' = "closed" /\ caller' = "none" /\ i' = 1 /\ memCount' = 0
      /\ queue' = <<>> /\ walFile' = walFile /\ MaxFrames \in Nat
  BY BoundsAssumption DEF PowerLoss
<1>1. PICK n \in lengthMay, f \in [Slot -> Frame \cup {Absent, Torn}] :
        (\A s \in Slot : f[s] \in Left(n, s)) /\ walFrames' = f
  BY DEF PowerLoss
<1>2. walCount' \in 0..MaxFrames /\ n \in 0..MaxFrames
  BY <1>0 DEF MayTypeOK
<1>3. TypeOK'
  <2>1. walFile \in {"absent", "empty", "valid"}
    BY DEF MayTypeOK, TypeOK
  <2>2. queue' \in Seq(Frame) /\ i' \in Nat \ {0} /\ memCount' \in 0..MaxFrames
    BY <1>0
  <2> QED BY <1>0, <1>1, <1>2, <2>1, <2>2 DEF TypeOK, PCs
<1>4. ViewOwed'
  <2>1. View' = Overlay(main', f, walCount')
    BY <1>0, <1>1 DEF View
  <2>2. ~ Acknowledged
    BY <1>0 DEF Acknowledged
  <2>3. ASSUME NEW p \in Page  PROVE View'[p] \in Owed(p)'
    <3>1. Overlay(main', f, walCount')[p] \in Owed(p)
      BY <1>0, <1>1, CalmSurvives DEF LossSurvived
    <3> QED BY <2>1, <2>2, <3>1, OwedGrows
  <2> QED BY <2>3 DEF ViewOwed
<1>5. Counts'
  <2>1. walFile # "valid" => countMay = {0}
    BY DEF Kept, Counts, Calm, LogMay, LogSynced
  <2> QED BY <1>0, <2>1 DEF Counts
<1>6. Readable'
  <2>1. ASSUME NEW s \in 1..walCount', NEW t \in 1..walCount', s < t, walFrames'[s] = Absent
        PROVE  walFrames'[t] = Absent
    <3>1. s \in Slot /\ t \in Slot /\ s \in Int /\ t \in Int /\ n \in Int
      BY <1>0, <1>2 DEF Slot
    <3>2. Absent \in Left(n, s)
      BY <1>1, <2>1, <3>1
    <3>3. Absent \notin slotMay[s]
      BY <3>1, SlotMarks DEF MayTypeOK
    <3>4. s > n
      BY <3>2, <3>3, SlotMarks DEF Left
    <3>5. t > n
      BY <2>1, <3>1, <3>4
    <3>6. f[t] \in Left(n, t)
      BY <1>1, <3>1
    <3> QED BY <1>1, <3>5, <3>6 DEF Left
  <2> QED BY <1>0, <2>1 DEF Readable, Unbroken
<1>7. CommitProgress' /\ Copied' /\ Published'
  BY <1>0 DEF CommitProgress, Copied, Published
<1>8. mainMay' \in [Page -> SUBSET Data] /\ countMay' \in SUBSET (0..MaxFrames)
  BY <1>0, <1>2 DEF PowerLoss
<1>9. lengthMay' \in SUBSET (0..MaxFrames)
  BY LengthType DEF PowerLoss
<1>10. slotMay' \in [Slot -> SUBSET (Frame \cup {Torn})]
  BY <1>1 DEF PowerLoss
<1> QED BY <1>3, <1>4, <1>5, <1>6, <1>7, <1>8, <1>9, <1>10 DEF Kept

-----------------------------------------------------------------------------
(* The theorems.                                                           *)

LEMMA InitPower ==
  ASSUME MaxFailures \in Nat, PowerInit  PROVE PowerInv
<1>0. /\ Inv /\ main \in [Page -> Data] /\ MaxFrames \in Nat /\ walCount = 0 /\ memCount = 0
      /\ pc = "closed" /\ walFile = "absent" /\ walFrames = NoFrames /\ caller = "none"
      /\ acked = main /\ failures = 0 /\ attempted = [p \in Page |-> {}]
      /\ mainMay = [p \in Page |-> {main[p]}] /\ countMay = {0} /\ lengthMay = {0}
      /\ slotMay = [s \in Slot |-> {}]
  BY InitInv, BoundsAssumption DEF PowerInit, Init, Inv, TypeOK
<1>1. MayTypeOK
  <2>1. 0 \in 0..MaxFrames /\ 0 \in 0..MaxFailures
    BY <1>0
  <2> QED BY <1>0, <2>1 DEF MayTypeOK, Inv
<1>2. View = main
  BY <1>0, OverlayNone DEF View
<1>3. Kept
  BY <1>0, <1>2 DEF Kept, ViewOwed, Owed, CommitProgress, Counts, Readable, Unbroken, NoFrames, Copied,
                    Published
<1>4. AckedSurvives
  BY <1>0, <1>2 DEF AckedSurvives, Recovered, View
<1>5. LogSynced /\ Tidy /\ MainMay
  BY <1>0 DEF LogSynced, Tidy, MainMay, NoFrames
<1> QED BY <1>0, <1>1, <1>3, <1>4, <1>5 DEF PowerInv, Undisturbed, LogMay

\* A step that changes nothing.
LEMMA StutterPower ==
  ASSUME PowerInv, UNCHANGED allVars  PROVE PowerInv'
<1> USE DEF allVars, vars, losses
<1>1. TypeOK' /\ MayTypeOK'
  BY DEF PowerInv, MayTypeOK, TypeOK
<1>2. View' = View /\ Recovered' = Recovered /\ \A p \in Page : Owed(p)' = Owed(p)
  BY DEF View, Recovered, Owed
<1>3. AckedSurvives'
  BY <1>2 DEF PowerInv, AckedSurvives
<1>4. Kept'
  BY <1>2 DEF PowerInv, Kept, ViewOwed, CommitProgress, Counts, Readable, Unbroken, Copied, Published
<1>5. ASSUME failures = 0  PROVE Calm'
  <2>1. Calm
    BY <1>5 DEF PowerInv, Undisturbed, Calm
  <2>2. Inv'
    BY <2>1, StepInv DEF Calm
  <2>3. Tidy' /\ MainMay'
    BY <2>1 DEF Calm, Tidy, Used, MainMay
  <2>4. LossSurvived => LossSurvived'
    BY <1>2 DEF LossSurvived, Left
  <2>5. LogMay'
    BY <1>2, <2>1, <2>4 DEF Calm, LogMay, LogSynced, SyncedTo, CountedBefore, Queued
  <2> QED BY <2>1, <2>2, <2>3, <2>5 DEF Calm
<1> QED BY <1>1, <1>3, <1>4, <1>5 DEF PowerInv, Undisturbed, Calm

LEMMA StepPower ==
  ASSUME FullSync, MaxFailures \in {0, 1}, PowerInv, [PowerNext]_allVars
  PROVE  PowerInv'
<1>0. MayTypeOK /\ Kept /\ failures \in 0..MaxFailures /\ (failures = 0 => Calm)
  BY DEF PowerInv, MayTypeOK, Undisturbed, Calm
<1>1. ASSUME Kept', TypeOK', Record, failures' \in 0..MaxFailures, failures' = 0 => Calm',
             mainMay' \in [Page -> SUBSET Data], countMay' \in SUBSET (0..MaxFrames),
             lengthMay' \in SUBSET (0..MaxFrames), slotMay' \in [Slot -> SUBSET (Frame \cup {Torn})]
      PROVE  PowerInv'
  <2>1. MayTypeOK'
    BY <1>0, <1>1, RecordTypes DEF MayTypeOK
  <2>2. AckedSurvives'
    BY <1>1 DEF Kept, ViewOwed, View, Owed, AckedSurvives, Recovered
  <2> QED BY <1>1, <2>1, <2>2 DEF PowerInv, Undisturbed, Calm
<1>2. CASE Working /\ Track /\ Record /\ UNCHANGED failures
  <2>1. Kept' /\ TypeOK'
    BY <1>0, <1>2, StepKept
  <2>2. failures' = 0 => Calm'
    BY <1>0, <1>2, StepCalm
  <2> QED BY <1>0, <1>1, <1>2, <2>1, <2>2, TrackTypes
<1>3. ASSUME failures < MaxFailures, failures' = failures + 1, Record,
             ((Failing \/ HeaderFailing) /\ Track) \/ PowerLoss
      PROVE  PowerInv'
  <2>1. failures = 0 /\ failures' # 0 /\ failures' \in 0..MaxFailures /\ Calm /\ Inv
    BY <1>0, <1>3 DEF Calm
  <2>2. CASE (Failing \/ HeaderFailing) /\ Track
    <3>1. Kept' /\ TypeOK'
      BY <1>0, <1>3, <2>1, <2>2, FailingKept, HeaderFailingKept
    <3> QED BY <1>0, <1>1, <1>3, <2>1, <2>2, <3>1, TrackTypes
  <2>3. CASE PowerLoss
    BY <1>0, <1>1, <1>3, <2>1, <2>3, PowerLossKept
  <2> QED BY <1>3, <2>2, <2>3
<1>4. CASE UNCHANGED allVars
  BY <1>4, StutterPower
<1> QED BY <1>2, <1>3, <1>4 DEF PowerNext

\* With SyncMode::Full and at most one failure of any kind (an error return, the death of the
\* process, or a loss of power that keeps of every unsynced location whatever it may hold), what a
\* restart finds holds every transaction whose commit returned Ok, overwritten at most by
\* transactions whose commit was begun later (wal/writer.rs, commit and reset; wal/recovery.rs;
\* wal/checkpoint.rs; REQ-TX-007).
THEOREM OneFailureSurvived ==
  ASSUME FullSync, MaxFailures \in {0, 1}
  PROVE  PowerSpec => []PowerInv
<1>1. PowerInit => PowerInv
  BY InitPower
<1>2. PowerInv /\ [PowerNext]_allVars => PowerInv'
  BY StepPower
<1> QED BY <1>1, <1>2, PTL DEF PowerSpec
=============================================================================
