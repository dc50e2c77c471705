---------------------------- MODULE MC_ViewEngine ----------------------------
(***************************************************************************)
(* A view with five temps per item, shaped like the pcsamp/usertime       *)
(* reports: a metric column, its percent of the total, a second temp with *)
(* a Min accumulator, the first temp displayed again (so it is copied),   *)
(* a percent of the third column, and a summary row.                      *)
(***************************************************************************)
EXTENDS ViewEngine

I(op, tr, t1, t2) == [op |-> op, tr |-> tr, t1 |-> t1, t2 |-> t2]

MCIV == << I("Metric", 0, 0, 0),
           I("PercentTmp", 1, 0, 0),
           I("Tmp", 2, 1, 0),
           I("Tmp", 3, 0, 0),
           I("PercentColumn", 4, 2, 0),
           I("Add", 0, 0, 0),
           I("Min", 0, 1, 0),
           I("Summary", 0, 0, 0) >>
=============================================================================
