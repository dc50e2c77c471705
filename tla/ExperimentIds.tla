---------------------------- MODULE ExperimentIds ----------------------------
(***************************************************************************)
(* What the experiment registry of a CLI process promises about           *)
(* experiment identifiers (spec 2, Experiment): an identifier is drawn    *)
(* from a monotonic counter under a global lock, the experiment opened    *)
(* under it is the one numbered by the latest draw, and an identifier is  *)
(* never listed twice while the process lives.  A draw may end without an *)
(* experiment (its database could not be made); closing takes an          *)
(* experiment off the list.                                               *)
(***************************************************************************)
EXTENDS Naturals

CONSTANT Procs

VARIABLES
    next,     \* the latest identifier drawn by each process
    listed,   \* identifiers of the experiments each process has open
    used      \* identifiers each process has ever listed

vars == <<next, listed, used>>

Init ==
    /\ next = [p \in Procs |-> 0]
    /\ listed = [p \in Procs |-> {}]
    /\ used = [p \in Procs |-> {}]

(* A new identifier is drawn.                                             *)
Allocate(p) ==
    /\ next' = [next EXCEPT ![p] = @ + 1]
    /\ UNCHANGED <<listed, used>>

(* The experiment numbered by the latest draw is listed.                  *)
Register(p) ==
    /\ next[p] > 0
    /\ next[p] \notin used[p]
    /\ listed' = [listed EXCEPT ![p] = @ \cup {next[p]}]
    /\ used' = [used EXCEPT ![p] = @ \cup {next[p]}]
    /\ UNCHANGED next

(* An open experiment is closed.                                          *)
Unregister(p, i) ==
    /\ i \in listed[p]
    /\ listed' = [listed EXCEPT ![p] = @ \ {i}]
    /\ UNCHANGED <<next, used>>

Next ==
    \E p \in Procs :
        \/ Allocate(p)
        \/ Register(p)
        \/ \E i \in listed[p] : Unregister(p, i)

Spec == Init /\ [][Next]_vars
=============================================================================
