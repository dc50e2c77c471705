----------------------------- MODULE MC_ExpLock -----------------------------
EXTENDS ExpLock, TLC

CONSTANTS c1, c2, c3

MCCmds == {c1, c2, c3}

MCSymmetry == Permutations(MCCmds)
=============================================================================
