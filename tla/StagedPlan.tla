----------------------------- MODULE StagedPlan -----------------------------
(***************************************************************************)
(* StagedPlan (python/graphed/shuffle.py): the plan of a graph with a      *)
(* repartition or a join.  A map stage per source evaluates each chunk up  *)
(* to the barrier and routes its rows; a gather per destination joins what *)
(* it was sent and evaluates the rest; a fold combines the destinations.   *)
(***************************************************************************)
EXTENDS GraphSession

CONSTANTS
  Data,     \* a source's chunks: [Sources -> Seq(Seq(Int))]
  Steps,    \* steps_per_file, also the destinations of a hash route
  Spread    \* the partitions repartition(n=) asks for

ASSUME StagedAssumption == {Steps, Spread} \subseteq Nat \ {0}

----------------------------------------------------------------------------
(* What can be built.                                                      *)

Barriers(nodes, is_join) ==
  {i \in DOMAIN nodes : kind(nodes[i].token) = IF is_join THEN "join" ELSE "exchange"}

\* The nodes that run after the barrier.
after(graph, barrier) == ir_cone(graph.nodes, Range(graph.outputs), {barrier})

ReadsPast(graph, barrier) ==
  \E i \in after(graph, barrier) : graph.nodes[i].token \in Sources

source_read(nodes, target) ==
  {nodes[i].token : i \in ir_cone(nodes, {target}, {})} \intersect Sources

\* Each side's source, in order.
sides(graph, barrier) ==
  [k \in DOMAIN graph.nodes[barrier].inputs |->
     CHOOSE token \in source_read(graph.nodes, graph.nodes[barrier].inputs[k]) : TRUE]

\* The sources the outputs read are the sides', one each.
barrier_sides(graph, is_join, read) ==
  /\ Barriers(graph.nodes, is_join) # {}
  /\ Cardinality(read) = IF is_join THEN 2 ELSE 1
  /\ LET barrier == Min(Barriers(graph.nodes, is_join))
     IN /\ graph.nodes[barrier].token # "coalesce"
        /\ ~ ReadsPast(graph, barrier)
        /\ \A target \in Range(graph.nodes[barrier].inputs) :
             \E token \in Partitioned : source_read(graph.nodes, target) = {token}

\* A positional join pairs one block with one block.
Paired(how, names) == how = "positional" => Len(Data[names[1]]) = Len(Data[names[2]])

buildable(graph, is_join, read) ==
  /\ barrier_sides(graph, is_join, read)
  /\ LET barrier == Min(Barriers(graph.nodes, is_join))
     IN Paired(graph.nodes[barrier].token, sides(graph, barrier))

\* The destinations of a join's rows: those the first exchange asks for.
join_parts(nodes) ==
  LET exchanges == SelectSeq(nodes, LAMBDA n : kind(n.token) = "exchange")
  IN IF exchanges # << >> /\ exchanges[1].token = "spread" THEN Spread ELSE Steps

routing(graph, barrier, names) ==
  LET token == graph.nodes[barrier].token
      by(scheme, key, parts) == [scheme |-> scheme, key |-> key, parts |-> parts]
  IN CASE token = "positional" -> by("position", "", Len(Data[names[1]]))
       [] token \in Keyed      -> by("hash", "__joinkey__", join_parts(graph.nodes))
       [] token = "hash"       -> by("hash", "__joinkey__", Steps)
       [] token = "spread"     -> by("count", "", Spread)
       [] OTHER                -> by("hash", "on", Steps)

----------------------------------------------------------------------------
(* The stages.                                                             *)

\* map_write: the barrier's input over one chunk.
map_value(graph, target, name, chunk, wired) ==
  evaluate_ir(graph, [n \in {name} |-> Rows(chunk)],
              cone_externals(graph.nodes, ir_cone(graph.nodes, {target}, {}), wired),
              << target >>, NoneGiven, TRUE)[1]

\* Routed by a hash each process salts its own way.
map_write_Salted(value, i, how) ==
  LET sent == partition(value.at, how.key, how.parts)
  IN CASE how.scheme = "position" -> [d \in {i} |-> value.at]
       [] how.scheme = "hash"     -> [d \in 1..how.parts |-> sent[((d + i) % how.parts) + 1]]
       [] OTHER -> [d \in 1..how.parts |->
                      IF d = ((i - 1) % how.parts) + 1 THEN value.at ELSE << >>]

\* Its rows by destination, an empty block where none go; a position route
\* has one destination.
map_write(value, i, how) ==
  CASE how.scheme = "position" -> [d \in {i} |-> value.at]
    [] how.scheme = "hash"     -> partition(value.at, how.key, how.parts)
    [] OTHER -> [d \in 1..how.parts |-> IF d = ((i - 1) % how.parts) + 1 THEN value.at ELSE << >>]

\* A side's blocks of destination d, in task order.
side_block(mappings, d) ==
  LET sent == SelectSeq(mappings, LAMBDA m : d \in DOMAIN m)
  IN Flattened([k \in DOMAIN sent |-> sent[k][d]])

\* gather: the values of the outputs, from the barrier's inputs on.
gather(graph, barrier, blocks, wired) ==
  LET targets == graph.nodes[barrier].inputs
  IN evaluate_ir(graph, [n \in {} |-> None],
                 cone_externals(graph.nodes, after(graph, barrier), wired), graph.outputs,
                 [t \in Range(targets) |->
                    Rows(blocks[CHOOSE k \in DOMAIN targets : targets[k] = t])],
                 TRUE)

Mapped(graph, barrier, names, wired) ==
  [k \in DOMAIN names |->
     [i \in DOMAIN Data[names[k]] |->
        map_value(graph, graph.nodes[barrier].inputs[k], names[k], Data[names[k]][i], wired)]]

\* Each destination's blocks, a side each.
Sent(values, how) ==
  [d \in 1..how.parts |->
     [k \in DOMAIN values |->
        side_block([i \in DOMAIN values[k] |-> map_write(values[k][i], i, how)], d)]]

Raised == [phase |-> "raised"]

Gathered(graph, barrier, names, how, blocks, wired) ==
  [phase |-> "staged", graph |-> graph, barrier |-> barrier, names |-> names,
   how |-> how, blocks |-> blocks,
   values |-> [d \in DOMAIN blocks |-> gather(graph, barrier, blocks[d], wired)]]

Routed(graph, barrier, names, how, values, wired) ==
  IF \E k \in DOMAIN values : Failed \in Range(values[k]) THEN Raised
  ELSE Gathered(graph, barrier, names, how, Sent(values, how), wired)

StagedOver(graph, barrier, names, wired) ==
  Routed(graph, barrier, names, routing(graph, barrier, names),
         Mapped(graph, barrier, names, wired), wired)

RunStages(graph, barrier, wired) ==
  StagedOver(graph, barrier, sides(graph, barrier), wired)
=============================================================================
