------------------------ MODULE MCResumableWorkers ------------------------
(* Instances of ResumableWorkers small enough for TLC. *)
EXTENDS ResumableWorkers, TLC

CONSTANTS t1, t2, d1, d2

\* One result per task; two drivers' workers still write the same object.
DistinctOutcomes == [t \in Tasks |-> {IF t = t1 THEN d1 ELSE d2}]

Writers3 == 1..3
Interchangeable == Permutations(Workers) \union Permutations(Drivers)
=============================================================================
