----------------------------- MODULE MCDrivers -----------------------------
(***************************************************************************)
(* An instance of EnvironmentRecord and one of SkipFailed in one run of    *)
(* TLC.  The two share no state: a behaviour is of one of them, and the    *)
(* other stays where it begins.                                            *)
(***************************************************************************)
EXTENDS EnvironmentRecord, SkipFailed, TLC

VARIABLE program   \* the one that runs

DriversInit == Init /\ SkipInit /\ program \in {"resuming", "skipping"}

DriversNext ==
  /\ UNCHANGED program
  /\ \/ program = "resuming" /\ Next /\ UNCHANGED skipVars
     \/ program = "skipping" /\ SkipNext /\ UNCHANGED vars

DriversSpec == DriversInit /\ [][DriversNext]_<<program, vars, skipVars>>

\* A chunk's label is its own, and stands for it.
OwnLabels == [t \in Tasks |-> t]

Interchangeable == Permutations(Tasks) \union Permutations(Processes)
=============================================================================
