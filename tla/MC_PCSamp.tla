----------------------------- MODULE MC_PCSamp -----------------------------
(***************************************************************************)
(* Two threads and two blobs of one thread's samples, [0,2) and [2,3) ns,  *)
(* queried over three function extents: f1 holds addresses [0,4) all the   *)
(* time, a library's function holds [4,8) in two address spaces, [0,1)    *)
(* and [1,3), so a sample of the first blob in it is split in two.  The   *)
(* sample at address 4 lies on the boundary of f1's range.                *)
(***************************************************************************)
EXTENDS PCSamp
CONSTANTS t1, t2

MCThreads == {t1, t2}
Ext(tb, te, ab, ae) == [tb |-> tb, te |-> te, ab |-> ab, ae |-> ae]
MCSubextents == << Ext(0, 3, 0, 4), Ext(0, 1, 4, 8), Ext(1, 3, 4, 8) >>
MCBlobs ==
    { [tb |-> 0, te |-> 2, interval |-> 3, pc |-> <<1, 4, 6>>, count |-> <<1, 2, 1>>],
      [tb |-> 2, te |-> 3, interval |-> 3, pc |-> <<4, 3>>, count |-> <<1, 1>>] }

ASSUME Tiles
=============================================================================
