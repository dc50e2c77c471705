----------------------------- MODULE MC_Registry -----------------------------
EXTENDS Registry

CONSTANTS p1, p2, t1, t2

MCProcs == {p1}
MCThreads == {t1, t2}

(* X1.0, X1.1 and X2.0 may be left over from earlier sessions.          *)
MCLeftovers == {ProbeName(1, 0), ProbeName(1, 1), ProbeName(2, 0)}
=============================================================================
