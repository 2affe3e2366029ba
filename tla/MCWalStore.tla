----------------------------- MODULE MCWalStore -----------------------------
(* WalStore on small instances: two pages, two contents, a log of three    *)
(* slots and transactions of up to two frames.                             *)
EXTENDS WalStore, TLC

CONSTANTS p1, p2, d0, d1

MCPage == {p1, p2}
MCData == {d0, d1}
MCSymmetry == Permutations(MCPage)
=============================================================================
