---------------------------- MODULE GraphArena ----------------------------
(***************************************************************************)
(* GraphArena (src/node.rs, src/store.rs): the recorded graph.  An arena   *)
(* is a sequence of nodes, a node's id its position, every input below it, *)
(* and equal nodes interned to one id.  A node's token is its operator     *)
(* with its params; `members' is empty but in a fused stage.               *)
(***************************************************************************)
EXTENDS JoinKernel

\* The operators a program records: two operands that commute, two that do
\* not, an identity (x + 0.0), a cut, the packed key of a join, a payload
\* evaluated in two ways, and the boundaries.  An exchange routes rows by a
\* field, by the packed key, to a count of partitions or by measured size.
Sources    == {"x", "y", "z"}
Operations == {"add", "sub", "zero", "keep", "pack_key"}
Reductions == {"total", "peak"}
Externals  == {"scaleUp", "scaleDown"}
Exchanges  == {"exchange", "hash", "spread", "coalesce"}
Boundaries == Reductions \union Exchanges \union Joins

kind(token) ==
  CASE token \in Sources    -> "source"
    [] token \in Operations -> "op"
    [] token \in Reductions -> "reduction"
    [] token \in Externals  -> "external"
    [] token \in Exchanges  -> "exchange"
    [] token \in Joins      -> "join"
    [] OTHER                -> token      \* "stage"

NodeKey(token, inputs) == [token |-> token, inputs |-> inputs, members |-> << >>]

is_boundary(node) == kind(node.token) # "op"

with_inputs(node, ids) == [node EXCEPT !.inputs = ids]

Ids(arena) == [i \in DOMAIN arena |-> i]

\* A table's entries for a sequence of ids.
At(table, ids) == [k \in DOMAIN ids |-> table[ids[k]]]

\* An arena whose inputs name only earlier nodes, each node in it once.
IsArena(arena) ==
  /\ \A i \in DOMAIN arena : Range(arena[i].inputs) \subseteq 1..(i - 1)
  /\ \A i, j \in DOMAIN arena : arena[i] = arena[j] => i = j

----------------------------------------------------------------------------
(* The store.                                                              *)

Holds(arena, ids) == Range(ids) \subseteq DOMAIN arena
\* An equal node is found, not added.
intern(arena, node) ==
  IF Contains(arena, node) THEN arena ELSE Append(arena, node)

IdOf(arena, node) == CHOOSE i \in DOMAIN arena : arena[i] = node

\* Each output once, in mark order.
mark_outputs(ids) ==
  FoldLeft(LAMBDA marked, id : IF Contains(marked, id) THEN marked ELSE Append(marked, id),
           << >>, ids)

\* A reduced graph: nodes, outputs, and where each node of the arena it was
\* reduced from landed, as the reduced id and the place in its stage (0 for
\* a node that is not in one).
Dropped == << 0, 0 >>

\* Interned again into a fresh store; the outputs and the landings ride the
\* same renaming, which has no node (0) for an input that comes later.
from_reduced(red) ==
  LET renamed(map, i) == IF i \in DOMAIN map THEN map[i] ELSE 0
      step(acc, node) ==
        LET key   == with_inputs(node, [k \in DOMAIN node.inputs |->
                                          renamed(acc.map, node.inputs[k])])
            nodes == intern(acc.nodes, key)
        IN [nodes |-> nodes, map |-> Append(acc.map, IdOf(nodes, key))]
      store == FoldLeft(step, [nodes |-> << >>, map |-> << >>], red.nodes)
  IN [nodes   |-> store.nodes,
      outputs |-> mark_outputs(At(store.map, red.outputs)),
      map     |-> [i \in DOMAIN red.map |->
                     IF red.map[i] = Dropped THEN Dropped
                     ELSE << store.map[red.map[i][1]], red.map[i][2] >>]]

----------------------------------------------------------------------------
(* Reachability.                                                           *)

\* The nodes roots depend on; the walk does not go past a stop node.
ir_cone(nodes, roots, stop) ==
  FoldLeft(LAMBDA seen, i :
             IF i \in seen /\ i \notin stop THEN seen \union Range(nodes[i].inputs) ELSE seen,
           roots, Reverse(Ids(nodes)))

Later(seen, more) == seen \o SelectSeq(more, LAMBDA e : ~ Contains(seen, e))

\* The post-order walk from the outputs in request order, a node's operands
\* in order, or swapped where `swap' says so.
PostOrder(arena, outputs, swap) ==
  LET operands(i) == IF swap[i] THEN Reverse(arena[i].inputs) ELSE arena[i].inputs
      below == FoldLeft(LAMBDA walks, i :
                          Append(walks,
                                 Append(FoldLeft(LAMBDA seen, k : Later(seen, walks[k]),
                                                 << >>, operands(i)), i)),
                        << >>, Ids(arena))
  IN FoldLeft(LAMBDA seen, o : Later(seen, below[o]), << >>, outputs)

\* The nodes `kept', in that order, their inputs renamed; the map sends a
\* node that is not kept to 0.
Compacted(arena, outputs, swap, kept) ==
  LET at == [i \in DOMAIN arena |->
               IF Contains(kept, i) THEN CHOOSE k \in DOMAIN kept : kept[k] = i ELSE 0]
      copy(i) == LET ids == IF swap[i] THEN Reverse(arena[i].inputs) ELSE arena[i].inputs
                 IN with_inputs(arena[i], At(at, ids))
  IN [nodes   |-> [k \in DOMAIN kept |-> copy(kept[k])],
      outputs |-> At(at, outputs),
      map     |-> at]

\* DCE: the outputs' cone, compacted in that order.
dead_code_elimination(arena, outputs, swap) ==
  Compacted(arena, outputs, swap, PostOrder(arena, outputs, swap))

Unstaged(graph) ==
  [graph EXCEPT !.map = [i \in DOMAIN @ |-> IF @[i] = 0 THEN Dropped ELSE << @[i], 0 >>]]

\* opt_level=0: DCE without the rewrites.
cone(arena, outputs) ==
  from_reduced(Unstaged(dead_code_elimination(arena, outputs,
                                              [i \in DOMAIN arena |-> FALSE])))
=============================================================================
