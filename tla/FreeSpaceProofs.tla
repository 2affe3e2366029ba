--------------------------- MODULE FreeSpaceProofs ---------------------------
(***************************************************************************)
(* Proofs about FreeSpace for every size of the page file and any number   *)
(* of deaths.  The hint is sound: every page below it is marked.  Hence    *)
(* the scan from the hint's byte finds the lowest free page, and since a   *)
(* page is marked before it is handed out it is not handed out twice.  And *)
(* a death leaks one page at most: the one marked and not yet handed out.  *)
(***************************************************************************)
EXTENDS FreeSpace, FiniteSetTheorems, WellFoundedInduction, TLAPS

\* A non-empty set of page numbers has a lowest one.
LEMMA LowestExists ==
  ASSUME NEW S \in SUBSET Page, S # {}
  PROVE  \E p \in S : \A q \in S : p <= q
<1>1. IsWellFoundedOn(OpToRel(<, Nat), Nat)
  BY NatLessThanWellFounded
<1>2. S \subseteq Nat
  BY DEF Page
<1>3. PICK x \in S : \A y \in S : ~ (<<y, x>> \in OpToRel(<, Nat))
  BY <1>1, <1>2, WFMin
<1>4. ASSUME NEW y \in S  PROVE x <= y
  <2>1. x \in Nat /\ y \in Nat
    BY <1>2
  <2>2. ~ (y < x)
    BY <1>3, <2>1 DEF OpToRel
  <2> QED BY <2>1, <2>2
<1> QED BY <1>4

\* While every page below the hint is marked, the scan finds the lowest free page.
LEMMA FoundIsLowest ==
  ASSUME TypeOK, HintSound, pc = "ready", fileLen >= 2, Free # {}
  PROVE  Found \in Free /\ \A q \in Free : Found <= q
<1>1. \A q \in Free : q \in Nat /\ hint \in Nat /\ hint <= q
  BY BoundsAssumption DEF Free, HintSound, Open, TypeOK, Page
<1>2. \A q \in Free : q \div BitsPerByte >= hint \div BitsPerByte
  BY <1>1 DEF BitsPerByte
<1>3. Candidates = Free
  BY <1>2 DEF Candidates, FromHint
<1>4. \E p \in Free : \A q \in Free : p <= q
  BY LowestExists DEF Free
<1> QED BY <1>3, <1>4 DEF Found

\* Inv holds initially ...
LEMMA InitInv == Init => Inv
BY BoundsAssumption DEF Init, Inv, TypeOK, HintSound, OwnedMarked, CreationOrder,
  CountsAgree, OwnedIsReadable, Open, Page, FirstDataPage

\* ... and every step keeps it.
LEMMA StepInv ==
  ASSUME Inv, [Next]_vars  PROVE Inv'
<1> USE BoundsAssumption
    DEF Inv, TypeOK, HintSound, OwnedMarked, CreationOrder, CountsAgree, OwnedIsReadable,
        Open, Page, FirstDataPage, disk
<1>1. CASE CreateFile
  BY <1>1 DEF CreateFile
<1>2. CASE CreateHeader
  BY <1>2 DEF CreateHeader
<1>3. CASE CreateMap
  <2>1. owned = {} /\ 0..1 \subseteq Page /\ \A q \in Page : q < 2 => q \in 0..1
    BY <1>3 DEF CreateMap
  <2> QED BY <1>3, <2>1 DEF CreateMap
<1>4. CASE OpenDatabase
  <2>1. fileLen >= 2 => \A q \in Page : q < 2 => q \in marked
    OBVIOUS
  <2> QED BY <1>4, <2>1 DEF OpenDatabase
<1>5. CASE AllocateMark
  <2>1. Found \in Free /\ \A q \in Free : Found <= q
    BY <1>5, FoundIsLowest DEF AllocateMark
  <2>2. \A q \in Page : q < Found + 1 => q \in marked \cup {Found}
    BY <2>1 DEF Free
  <2>3. Found >= 2
    BY <1>5, <2>1 DEF Free, AllocateMark
  <2> QED BY <1>5, <2>1, <2>2, <2>3 DEF AllocateMark, Free
<1>6. CASE AllocateCount
  <2>1. CASE target >= memCount
    BY <1>6, <2>1 DEF AllocateCount
  <2>2. CASE ~ (target >= memCount)
    BY <1>6, <2>2 DEF AllocateCount
  <2> QED BY <2>1, <2>2
<1>7. CASE AllocateExtend
  BY <1>7 DEF AllocateExtend
<1>8. ASSUME NEW p \in owned, Deallocate(p)  PROVE Inv'
  BY <1>8 DEF Deallocate
<1>9. CASE Close
  BY <1>9 DEF Close
<1>10. CASE Kill
  BY <1>10 DEF Kill
<1>11. CASE OpenFails \/ AllocateFails \/ UNCHANGED vars
  BY <1>11 DEF OpenFails, AllocateFails, vars, memory
<1> QED
  BY <1>1, <1>2, <1>3, <1>4, <1>5, <1>6, <1>7, <1>8, <1>9, <1>10, <1>11 DEF Next

\* Page numbers stay in range, every bit below the hint is set, and every owned page is
\* marked, inside the file and counted (allocate_page, complete_allocation,
\* deallocate_page, create_database, open_database).
THEOREM InvCorrect == Spec => []Inv
BY InitInv, StepInv, PTL DEF Spec

\* The page allocated is the lowest free one (allocate_page with next_free_hint).
THEOREM FirstFreeBitCorrect == Spec => FirstFreeBit
<1>1. ASSUME Inv, AllocateMark  PROVE \A q \in Free : target' <= q
  BY <1>1, FoundIsLowest DEF AllocateMark, Inv
<1> QED BY <1>1, InvCorrect, PTL DEF FirstFreeBit

\* A page that is handed out lies inside the file and below page_count, deaths included.
THEOREM OwnedIsReadableCorrect == Spec => []OwnedIsReadable
<1>1. Inv => OwnedIsReadable
  BY DEF Inv
<1> QED BY <1>1, InvCorrect, PTL

\* A page that is owned is not handed out again, whatever dies in between.
THEOREM NoDoubleAllocationCorrect == Spec => NoDoubleAllocation
<1>1. ASSUME Inv, AllocateMark  PROVE target' \notin owned
  <2>1. target' \in Free
    BY <1>1, FoundIsLowest DEF AllocateMark, Inv
  <2> QED BY <1>1, <2>1 DEF Inv, OwnedMarked, Free
<1> QED BY <1>1, InvCorrect, PTL DEF NoDoubleAllocation

-----------------------------------------------------------------------------
(* Leaks.                                                                  *)

Leaked == marked \ (owned \cup 0..1 \cup InFlight)

\* Pages leak one at a time, and only by a death in the middle of an allocation.
LEMMA LeakedStep ==
  ASSUME Inv, [Next]_vars
  PROVE  \/ Leaked' \subseteq Leaked /\ kills' >= kills
         \/ Leaked' \subseteq Leaked \cup {target} /\ kills' = kills + 1
<1> USE DEF Inv, TypeOK, Leaked, InFlight
<1>1. CASE CreateFile \/ CreateHeader \/ OpenFails \/ OpenDatabase \/ AllocateFails \/ Close \/ UNCHANGED vars
  BY <1>1 DEF CreateFile, CreateHeader, OpenFails, OpenDatabase, AllocateFails, Close, vars, disk, memory
<1>2. CASE CreateMap
  BY <1>2 DEF CreateMap
<1>3. CASE AllocateMark
  <2>1. Leaked' \subseteq Leaked
    BY <1>3 DEF AllocateMark
  <2> QED BY <1>3, <2>1 DEF AllocateMark
<1>4. CASE AllocateCount
  BY <1>4 DEF AllocateCount
<1>5. CASE AllocateExtend
  BY <1>5 DEF AllocateExtend
<1>6. ASSUME NEW p \in owned, Deallocate(p)  PROVE Leaked' \subseteq Leaked /\ kills' >= kills
  BY <1>6 DEF Deallocate
<1>7. CASE Kill
  BY <1>7 DEF Kill, disk
<1> QED BY <1>1, <1>2, <1>3, <1>4, <1>5, <1>6, <1>7 DEF Next

LEMMA LeakedFinite ==
  ASSUME TypeOK
  PROVE  IsFiniteSet(Leaked) /\ Cardinality(Leaked) \in Nat
<1>1. IsFiniteSet(Page)
  BY FS_Interval, BoundsAssumption DEF Page
<1>2. Leaked \subseteq Page
  BY DEF TypeOK, Leaked
<1> QED BY <1>1, <1>2, FS_Subset, FS_CardinalityType

LEMMA LeakBoundStep ==
  ASSUME Inv, LeakBound, [Next]_vars  PROVE LeakBound'
<1>1. Cardinality(Leaked) <= kills /\ kills \in Nat /\ kills' \in Nat
  BY StepInv DEF LeakBound, Leaked, Inv, TypeOK
<1>2. IsFiniteSet(Leaked) /\ Cardinality(Leaked) \in Nat
  BY LeakedFinite DEF Inv
<1>3. CASE Leaked' \subseteq Leaked /\ kills' >= kills
  <2>1. Cardinality(Leaked') <= Cardinality(Leaked) /\ Cardinality(Leaked') \in Nat
    BY <1>2, <1>3, FS_Subset, FS_CardinalityType
  <2> QED BY <1>1, <1>2, <1>3, <2>1 DEF LeakBound, Leaked
<1>4. CASE Leaked' \subseteq Leaked \cup {target} /\ kills' = kills + 1
  <2>1. IsFiniteSet(Leaked \cup {target}) /\ Cardinality(Leaked \cup {target}) <= Cardinality(Leaked) + 1
    BY <1>2, FS_AddElement
  <2>2. Cardinality(Leaked') <= Cardinality(Leaked \cup {target}) /\ Cardinality(Leaked') \in Nat
        /\ Cardinality(Leaked \cup {target}) \in Nat
    BY <1>4, <2>1, FS_Subset, FS_CardinalityType
  <2> QED BY <1>1, <1>2, <1>4, <2>1, <2>2 DEF LeakBound, Leaked
<1> QED BY <1>3, <1>4, LeakedStep

\* However often the process dies, no more pages are lost than it died times (allocate_page marks the
\* page before the caller has it).
THEOREM LeakBoundCorrect == Spec => []LeakBound
<1>1. Init => LeakBound
  <2>1. ASSUME Init  PROVE marked \ (owned \cup 0..1 \cup InFlight) = {} /\ kills = 0
    BY <2>1 DEF Init
  <2> QED BY <2>1, FS_EmptySet DEF LeakBound
<1> QED BY <1>1, InvCorrect, LeakBoundStep, PTL DEF Spec
=============================================================================
