-------------------------- MODULE MCRunResumable --------------------------
(* Instances of RunResumable small enough for TLC. *)
EXTENDS RunResumable, TLC

CONSTANTS d1, d2, d3

MCTasks == 1..N

\* The first task's process is not deterministic, and may return the bytes the
\* second returns: one object, two records.
MixedOutcomes == [t \in Tasks |-> CASE t = 1 -> {d1, d2} [] t = 2 -> {d2} [] OTHER -> {d3}]
=============================================================================
