----------------------------- MODULE MCCInterface -----------------------------
(* CInterface with two threads and one engine of another process.            *)
EXTENDS CInterface, TLC

CONSTANTS t1, t2
MCThreads == {t1, t2}
Symmetric == Permutations(MCThreads)
===============================================================================
