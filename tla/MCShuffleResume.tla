-------------------------- MODULE MCShuffleResume --------------------------
(* Instances of ShuffleResume small enough for TLC: three plans of one      *)
(* analysis' graph and another's.  Two shuffles over datasets that share a  *)
(* file and differ in the cap on another; a join of two sources.            *)
EXTENDS ShuffleResume

Known  == Partition("f", 0, 2)
Half   == blind("g", 0, 2)
Capped == [Half EXCEPT !.blind_limit = 1]

Route == [scheme |-> "hash", parts |-> 1]

\* A map calls a service, and is not in a module; the fold is.
Map(side)  == Callable(<< "map", side >>, {"scale"}, Unset)
Gather     == Callable(<< "gather" >>, {}, Unset)
Fold       == Callable(<< "fold" >>, {}, "fold")
Modules    == [name \in {"fold"} |-> Fold]

Dest   == << Partition("dest", 0, 1) >>
Reduce == << Partition("reduce", 0, 1) >>

Shuffle(partitions) ==
  Plan("repartitioned",
       << StageSpec("map_write", << >>, Map("only"), Route, partitions),
          StageSpec("gather", << 1 >>, Gather, Route, Dest) >>,
       {"scale"}, Unset)

Join ==
  Plan("joined",
       << StageSpec("map_write", << >>, Map("left"), Route, << Half >>),
          StageSpec("map_write", << >>, Map("right"), Route, << Capped >>),
          StageSpec("gather_join", << 1, 2 >>, Gather, Route, Dest),
          StageSpec("reduce", << 3 >>, Fold, << >>, Reduce) >>,
       {"scale"}, opaque(Gather))

Analyses == [pa |-> Shuffle(<< Known, Half >>), pb |-> Shuffle(<< Capped >>), pc |-> Join]

Instances == {<< >>, [scale |-> "here"]}

TwoPayloads(partition) == IF partition = Known THEN {1, 2} ELSE {1}

Interchangeable == Permutations(Procs)
=============================================================================
