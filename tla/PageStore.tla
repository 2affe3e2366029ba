------------------------------ MODULE PageStore ------------------------------
(***************************************************************************)
(* What the write-ahead log promises its user: a map from pages to         *)
(* contents that changes only by whole transactions.  A transaction is the *)
(* list of page writes queued since the last commit or discard.  A crash   *)
(* may lose the queue; it never changes the map, and it never leaves a     *)
(* part of a transaction in it.                                            *)
(***************************************************************************)
EXTENDS PageWrites

CONSTANT InitialData    \* contents of every page before the first write

VARIABLES store,        \* what a restart would find on every page
          pending       \* page writes of the open transaction

vars == <<store, pending>>

Init == /\ store = [p \in Page |-> InitialData]
        /\ pending = <<>>

Write(f) == /\ pending' = Append(pending, f)
            /\ UNCHANGED store

\* The transaction takes effect as a whole.  Its caller may not have been told
\* yet (or may have been told of an error): then the queue is still there.
Publish == /\ pending # <<>>
           /\ store' = Overlay(store, pending, Len(pending))
           /\ pending' \in {pending, <<>>}

\* Discard, acknowledgement of a published transaction, or loss of the process.
Forget == /\ pending' = <<>>
          /\ UNCHANGED store

Next == \/ \E f \in Frame : Write(f)
        \/ Publish
        \/ Forget

Spec == Init /\ [][Next]_vars
=============================================================================
