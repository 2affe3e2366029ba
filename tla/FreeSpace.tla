------------------------------ MODULE FreeSpace ------------------------------
(***************************************************************************)
(* PageManager (page/page_manager.rs): creating the page file, allocating  *)
(* and freeing pages through the free-space map on page 1, one file        *)
(* operation per step.  None of it goes through the log.  The process may  *)
(* die between two steps; what was written stays.                          *)
(*                                                                         *)
(* Bounds: pages 0..MaxPage (the code's map has 32768 bits), MaxKills.     *)
(***************************************************************************)
EXTENDS Integers, FiniteSets

CONSTANTS MaxPage, MaxKills

ASSUME BoundsAssumption == MaxPage \in Nat \ {0, 1} /\ MaxKills \in Nat

Page == 0..MaxPage
FirstDataPage == 2                  \* FIRST_DATA_PAGE; 0 is the header, 1 the map
BitsPerByte == 8

VARIABLES fileLen,      \* length of the page file, in pages; -1 = no file
          marked,       \* the free-space map on disk: pages whose bit is set
          diskCount,    \* page_count in the header on disk
          pc,           \* next file operation
          target,       \* the page being allocated
          hint,         \* next_free_hint
          memCount,     \* page_count in memory
          owned,        \* history: pages handed out and not freed
          kills         \* deaths so far

disk == <<fileLen, marked, diskCount>>
memory == <<pc, target, hint, memCount>>
vars == <<disk, memory, owned, kills>>

TypeOK == /\ fileLen \in -1..(MaxPage + 1)
          /\ marked \subseteq Page /\ owned \subseteq Page
          /\ pc \in {"closed", "create_header", "create_map", "ready", "count", "extend"}
          /\ target \in Page
          /\ diskCount \in Nat /\ memCount \in Nat /\ hint \in Nat
          /\ kills \in Nat

Init == /\ fileLen = -1 /\ marked = {} /\ diskCount = 0
        /\ pc = "closed" /\ target = 0 /\ hint = FirstDataPage /\ memCount = 0
        /\ owned = {} /\ kills = 0

-----------------------------------------------------------------------------
(* create_database and open_database.                                      *)

\* create_new(true) ...
CreateFile == /\ pc = "closed" /\ fileLen = -1
              /\ fileLen' = 0 /\ pc' = "create_header"
              /\ UNCHANGED <<marked, diskCount, target, hint, memCount, owned, kills>>

\* ... the header page, which counts two pages, ...
CreateHeader == /\ pc = "create_header"
                /\ fileLen' = 1 /\ diskCount' = FirstDataPage /\ pc' = "create_map"
                /\ UNCHANGED <<marked, target, hint, memCount, owned, kills>>

\* ... and the map, with the bits of pages 0 and 1 set.
CreateMap == /\ pc = "create_map"
             /\ fileLen' = 2 /\ marked' = 0..1
             /\ memCount' = diskCount /\ hint' = FirstDataPage /\ pc' = "ready"
             /\ UNCHANGED <<diskCount, target, owned, kills>>

\* An empty file fails read_exact of the header, for ever.
OpenFails == /\ pc = "closed" /\ fileLen = 0
             /\ UNCHANGED vars

OpenDatabase == /\ pc = "closed" /\ fileLen > 0
                /\ memCount' = diskCount /\ hint' = FirstDataPage /\ pc' = "ready"
                /\ UNCHANGED <<disk, target, owned, kills>>

-----------------------------------------------------------------------------
(* allocate_page, complete_allocation, deallocate_page.                    *)

Free == Page \ marked

\* find_free_page starts at the byte of the hint, not at its bit, and wraps around.
FromHint == {p \in Free : p \div BitsPerByte >= hint \div BitsPerByte}
Candidates == IF FromHint = {} THEN Free ELSE FromHint
Found == CHOOSE p \in Candidates : \A q \in Candidates : p <= q

\* A file without its map fails read_exact of page 1, at every allocation.
AllocateFails == /\ pc = "ready" /\ (fileLen < 2 \/ Free = {})
                 /\ UNCHANGED vars

\* Mutant: the map is not written back.
AllocateUnmarked == /\ pc = "ready" /\ fileLen >= 2 /\ Free # {}
                    /\ target' = Found
                    /\ hint' = target' + 1
                    /\ pc' = "count"
                    /\ UNCHANGED <<fileLen, marked, diskCount, memCount, owned, kills>>

\* The map is written first and the hint moves past the page, ...
AllocateMark == /\ pc = "ready" /\ fileLen >= 2 /\ Free # {}
                /\ target' = Found
                /\ marked' = marked \cup {target'}
                /\ hint' = target' + 1
                /\ pc' = "count"
                /\ UNCHANGED <<fileLen, diskCount, memCount, owned, kills>>

\* ... then the header, if the page is beyond page_count, ...
AllocateCount == /\ pc = "count"
                 /\ IF target >= memCount THEN memCount' = target + 1 /\ diskCount' = memCount'
                    ELSE UNCHANGED <<memCount, diskCount>>
                 /\ pc' = "extend"
                 /\ UNCHANGED <<fileLen, marked, target, hint, owned, kills>>

\* Mutant: a file that ends where the page begins is not extended.
AllocateExtendShort == /\ pc = "extend"
                       /\ fileLen' = IF fileLen < target THEN target + 1 ELSE fileLen
                       /\ owned' = owned \cup {target}
                       /\ pc' = "ready"
                       /\ UNCHANGED <<marked, diskCount, target, hint, memCount, kills>>

\* ... then the file grows to hold the page.
AllocateExtend == /\ pc = "extend"
                  /\ fileLen' = IF fileLen < target + 1 THEN target + 1 ELSE fileLen
                  /\ owned' = owned \cup {target}
                  /\ pc' = "ready"
                  /\ UNCHANGED <<marked, diskCount, target, hint, memCount, kills>>

\* Mutant: the hint stays where it is.
DeallocateKeepingHint(p) == /\ pc = "ready" /\ fileLen >= 2
                            /\ marked' = marked \ {p}
                            /\ owned' = owned \ {p}
                            /\ UNCHANGED <<fileLen, diskCount, pc, target, hint, memCount, kills>>

\* Mutant: the bit is not cleared.
DeallocateKeepingBit(p) == /\ pc = "ready" /\ fileLen >= 2
                           /\ hint' = IF p < hint THEN p ELSE hint
                           /\ owned' = owned \ {p}
                           /\ UNCHANGED <<fileLen, marked, diskCount, pc, target, memCount, kills>>

\* Its callers free pages they own.
Deallocate(p) == /\ pc = "ready" /\ fileLen >= 2
                 /\ marked' = marked \ {p}
                 /\ hint' = IF p < hint THEN p ELSE hint
                 /\ owned' = owned \ {p}
                 /\ UNCHANGED <<fileLen, diskCount, pc, target, memCount, kills>>

\* Drop flushes the header.
Close == /\ pc = "ready"
         /\ diskCount' = memCount /\ pc' = "closed"
         /\ UNCHANGED <<fileLen, marked, target, hint, memCount, owned, kills>>

Kill == /\ pc # "closed" /\ kills < MaxKills
        /\ pc' = "closed" /\ kills' = kills + 1
        /\ UNCHANGED <<disk, target, hint, memCount, owned>>

Next == \/ CreateFile \/ CreateHeader \/ CreateMap \/ OpenFails \/ OpenDatabase
        \/ AllocateFails \/ AllocateMark \/ AllocateCount \/ AllocateExtend
        \/ \E p \in owned : Deallocate(p)
        \/ Close \/ Kill

Spec == Init /\ [][Next]_vars

-----------------------------------------------------------------------------
(* What must hold.                                                         *)

\* REQ-PAGE-004, "Find first free bit in FSM": with the hint of REQ-S-003 the page
\* allocated is still the lowest free one, after any mix of allocations, frees,
\* restarts and deaths.
FirstFreeBit == [][AllocateMark => \A q \in Free : target' <= q]_vars

\* A page handed out is handed out again only after it was freed, deaths included
\* (the map is written before the page is used).
NoDoubleAllocation == [][AllocateMark => target' \notin owned]_vars

\* An owned page can be read: the file reaches it, and the header on disk counts it.
OwnedIsReadable == \A p \in owned : p < fileLen /\ p < diskCount /\ p >= FirstDataPage

\* Pages leak only through deaths in the middle of an allocation, one page each.
InFlight == IF pc \in {"count", "extend"} THEN {target} ELSE {}
LeakBound == Cardinality(marked \ (owned \cup 0..1 \cup InFlight)) <= kills

\* Why: the bits below the hint are set, owned pages are marked, the pages of the
\* header and the map are never free, and the counts in memory and on disk agree
\* whenever the file is open.
Open == pc \in {"ready", "count", "extend"}
HintSound == Open /\ fileLen >= 2 => \A q \in Page : q < hint => q \in marked
OwnedMarked == owned \subseteq marked
CreationOrder == /\ fileLen < 2 => marked = {} /\ pc \notin {"count", "extend"}
                 /\ fileLen >= 2 => 0..1 \subseteq marked /\ pc \notin {"create_header", "create_map"}
                 /\ pc = "create_header" => fileLen = 0
                 /\ pc = "create_map" => fileLen = 1
                 /\ fileLen > 0 => diskCount >= FirstDataPage
CountsAgree == /\ Open => memCount = diskCount
               /\ pc \in {"count", "extend"} => target \in marked /\ target >= FirstDataPage
               /\ pc = "extend" => target < diskCount
Inv == TypeOK /\ HintSound /\ OwnedMarked /\ CreationOrder /\ CountsAgree /\ OwnedIsReadable
=============================================================================
