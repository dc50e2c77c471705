---------------------------- MODULE MC_Dispatcher ----------------------------
EXTENDS Dispatcher, TLC
CONSTANTS w1, w2, w3, w4, a, b, c, x, none
MCWorkers == {w1, w2, w3, w4}
MCCmds3 == {a, b, x}
MCCmds4 == {a, b, c, x}
MCExitCmds == {x}
MCWorkerSymmetry == Permutations(MCWorkers)
=============================================================================
