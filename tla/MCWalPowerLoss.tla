----------------------------- MODULE MCWalPowerLoss -----------------------------
(* WalPowerLoss on small instances.                                        *)
EXTENDS WalPowerLoss, TLC

CONSTANTS p1, p2, d0, d1

MCPage == {p1, p2}
MCData == {d0, d1}
MCSymmetry == Permutations(MCPage)
=============================================================================
