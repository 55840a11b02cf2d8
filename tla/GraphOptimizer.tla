-------------------------- MODULE GraphOptimizer --------------------------
(***************************************************************************)
(* GraphOptimizer (src/optimizer/): what a compile does to the outputs'    *)
(* cone.  Symmetric operands are oriented by structural keys, the engine   *)
(* merges nodes its rules make equal, and runs of operations between       *)
(* boundaries are fused into stages.  The incremental reducer keeps the    *)
(* oriented, merged form while the graph is recorded and finishes from it. *)
(***************************************************************************)
EXTENDS GraphArena

SYMMETRIC_OPS   == {"add"}
IDENTITY_TOKENS == {"zero"}

Modes == {"SingleUse", "Maximal"}

----------------------------------------------------------------------------
(* Structural keys.                                                        *)

Modulus == 30011

Code == [x |-> 2, y |-> 3, add |-> 5, sub |-> 7, zero |-> 11, keep |-> 13, total |-> 17,
         peak |-> 19, scaleUp |-> 23, scaleDown |-> 29, exchange |-> 31, hash |-> 37,
         spread |-> 41, coalesce |-> 43, inner |-> 47, left |-> 53, right |-> 59,
         outer |-> 61, positional |-> 67, z |-> 71, pack_key |-> 73]

\* The hash of a token and the keys under it, in order.
Mixed(token, keys) ==
  FoldLeft(LAMBDA h, b : ((h + b) * 131) % Modulus, 7919, << Code[token] >> \o keys)

\* Every operation of two operands taken to commute.
is_symmetric_AnyTwo(node) == Len(node.inputs) = 2

is_symmetric(node) == node.token \in SYMMETRIC_OPS /\ Len(node.inputs) = 2

is_identity(node) == node.token \in IDENTITY_TOKENS /\ Len(node.inputs) = 1

\* The key holds across the engine's rules: an identity has its input's,
\* and a symmetric operation hashes its operands' sorted.
structural_key(node, keys) ==
  IF is_identity(node) THEN keys[1]
  ELSE IF is_symmetric(node) /\ keys[2] < keys[1]
       THEN Mixed(node.token, Reverse(keys)) ELSE Mixed(node.token, keys)

\* In the order the operands were recorded.
swaps_ById(node, keys) == is_symmetric(node) /\ node.inputs[2] < node.inputs[1]

swaps(node, keys) == is_symmetric(node) /\ keys[2] < keys[1]

orient(node, keys) ==
  IF swaps(node, keys) THEN with_inputs(node, Reverse(node.inputs)) ELSE node

KeysOf(keys, node) == At(keys, node.inputs)

symmetric_swaps(arena) ==
  LET keys == FoldLeft(LAMBDA ks, node : Append(ks, structural_key(node, KeysOf(ks, node))),
                       << >>, arena)
  IN [i \in DOMAIN arena |-> swaps(arena[i], KeysOf(keys, arena[i]))]

----------------------------------------------------------------------------
(* The engine: equality saturation under commutativity and the identities. *)

\* Each node's class, named by the earliest node in it.
Classes(nodes) ==
  LET same(cs, i, j) ==
        LET a == KeysOf(cs, nodes[i])  b == KeysOf(cs, nodes[j])
        IN /\ nodes[i].token = nodes[j].token
           /\ \/ a = b
              \/ is_symmetric(nodes[i]) /\ is_symmetric(nodes[j]) /\ a = Reverse(b)
      class(cs, i) ==
        IF is_identity(nodes[i]) THEN cs[nodes[i].inputs[1]]
        ELSE LET like == {j \in 1..(i - 1) : ~ is_identity(nodes[j]) /\ same(cs, i, j)}
             IN IF like = {} THEN i ELSE cs[Min(like)]
  IN FoldLeft(LAMBDA cs, i : Append(cs, class(cs, i)), << >>, Ids(nodes))

\* Each class at its earliest node; the map is total.
Quotient(graph, class) ==
  LET kept  == SelectSeq(Ids(graph.nodes), LAMBDA i : class[i] = i)
      new   == [i \in DOMAIN graph.nodes |-> CHOOSE k \in DOMAIN kept : kept[k] = class[i]]
  IN [nodes   |-> [k \in DOMAIN kept |->
                     with_inputs(graph.nodes[kept[k]], KeysOf(new, graph.nodes[kept[k]]))],
      outputs |-> At(new, graph.outputs),
      map     |-> new]

canonicalize(graph) == Quotient(graph, Classes(graph.nodes))

\* Hash-consing, a plain pass.
cse(graph) ==
  LET step(acc, node) ==
        LET key == with_inputs(node, KeysOf(acc.map, node))
            nodes == intern(acc.nodes, key)
        IN [nodes |-> nodes, map |-> Append(acc.map, IdOf(nodes, key))]
      consed == FoldLeft(step, [nodes |-> << >>, map |-> << >>], graph.nodes)
  IN [nodes   |-> consed.nodes,
      outputs |-> At(consed.map, graph.outputs),
      map     |-> consed.map]

----------------------------------------------------------------------------
(* Stage fusion.                                                           *)

\* Each use of node i: the consumer and the operand it is.
Uses(graph, i) ==
  {u \in (DOMAIN graph.nodes) \X (1..2) :
     u[2] \in DOMAIN graph.nodes[u[1]].inputs /\ graph.nodes[u[1]].inputs[u[2]] = i}

Consumers(graph, i) == {u[1] : u \in Uses(graph, i)}

IsOperation(graph, i) == ~ is_boundary(graph.nodes[i])

\* A boundary joined like an operation.
Fusible_IntoBoundary(graph, i) ==
  IsOperation(graph, i) /\ ~ Contains(graph.outputs, i) /\ Uses(graph, i) # {}

\* An operation that may join what consumes it: no output, used, and by
\* operations alone.
Fusible(graph, i) ==
  /\ IsOperation(graph, i)
  /\ ~ Contains(graph.outputs, i)
  /\ Uses(graph, i) # {}
  /\ \A c \in Consumers(graph, i) : IsOperation(graph, c)

\* SingleUse: the one use decides.  Maximal: every consumer in one stage.
joins(graph, mode, heads, i) ==
  /\ Fusible(graph, i)
  /\ IF mode = "SingleUse" THEN Cardinality(Uses(graph, i)) = 1
     ELSE \A c, d \in Consumers(graph, i) : heads[c] = heads[d]

\* Each node's stage, named by its last node; one descending pass, so that
\* a node's consumers are settled when it is visited.
Heads(graph, mode) ==
  FoldLeft(LAMBDA heads, i :
             IF joins(graph, mode, heads, i)
             THEN [heads EXCEPT ![i] = heads[Min(Consumers(graph, i))]] ELSE heads,
           Ids(graph.nodes), Reverse(Ids(graph.nodes)))

\* A stage's members in order, each reading an earlier member or one of the
\* stage's inputs, which are numbered as they are first read.
fuse_stage(graph, members, heads, reduced) ==
  LET at(i)    == CHOOSE k \in DOMAIN members : members[k] = i
      outside  == FoldLeft(LAMBDA slots, i :
                    FoldLeft(LAMBDA ss, j : IF Contains(members, j) \/ Contains(ss, heads[j])
                                            THEN ss ELSE Append(ss, heads[j]),
                             slots, graph.nodes[i].inputs),
                    << >>, members)
      slot(c)  == CHOOSE k \in DOMAIN outside : outside[k] = c
      ref(j)   == IF Contains(members, j) THEN << "member", at(j) >>
                  ELSE << "input", slot(heads[j]) >>
      member(i) == [token  |-> graph.nodes[i].token,
                    inputs |-> [k \in DOMAIN graph.nodes[i].inputs |->
                                  ref(graph.nodes[i].inputs[k])]]
  IN [token   |-> "stage",
      inputs  |-> [k \in DOMAIN outside |-> reduced[outside[k]]],
      members |-> [k \in DOMAIN members |-> member(members[k])]]

\* The stages and boundaries `comps', in the order of their last nodes.
Staged(graph, heads, comps) ==
  LET reduced == [c \in Range(comps) |-> CHOOSE k \in DOMAIN comps : comps[k] = c]
      members == [c \in Range(comps) |-> SelectSeq(Ids(graph.nodes), LAMBDA i : heads[i] = c)]
      built(c) == IF IsOperation(graph, c) THEN fuse_stage(graph, members[c], heads, reduced)
                  ELSE with_inputs(graph.nodes[c],
                                   KeysOf([i \in DOMAIN heads |-> reduced[heads[i]]],
                                          graph.nodes[c]))
      place(i) == IF IsOperation(graph, i)
                  THEN CHOOSE k \in DOMAIN members[heads[i]] : members[heads[i]][k] = i ELSE 0
  IN [nodes   |-> [k \in DOMAIN comps |-> built(comps[k])],
      outputs |-> [k \in DOMAIN graph.outputs |-> reduced[heads[graph.outputs[k]]]],
      map     |-> [i \in DOMAIN graph.nodes |-> << reduced[heads[i]], place(i) >>]]

Components(graph, heads) ==
  Staged(graph, heads, SelectSeq(Ids(graph.nodes), LAMBDA i : heads[i] = i))

stage_fusion(graph, mode) == Components(graph, Heads(graph, mode))

\* A pass's re-indexing after the ones before it.
Onto(map, graph, dropped) ==
  [graph EXCEPT !.map = [i \in DOMAIN map |-> IF map[i] = 0 THEN dropped ELSE @[map[i]]]]

Canonical(graph) == Onto(graph.map, canonicalize(graph), 0)

Deduplicated(graph) == Onto(graph.map, cse(graph), 0)

Fused(graph, mode) == Onto(graph.map, stage_fusion(graph, mode), Dropped)

\* The four passes and their re-indexings, composed.
reduce_oriented(arena, outputs, swap, mode) ==
  Fused(Deduplicated(Canonical(dead_code_elimination(arena, outputs, swap))), mode)

reduce_with_outputs(arena, outputs, mode) ==
  from_reduced(reduce_oriented(arena, outputs, symmetric_swaps(arena), mode))

----------------------------------------------------------------------------
(* The incremental reducer.                                                *)

\* canon_nodes, canon_keys, and the map from the recorded arena.
NewReducer == [nodes |-> << >>, keys |-> << >>, map |-> << >>]

\* One recorded node: an identity is its input, and a symmetric operation
\* is oriented before it is interned.
StepNode(reducer, node) ==
  LET raw  == with_inputs(node, KeysOf(reducer.map, node))
      keys == KeysOf(reducer.keys, raw)
      key  == orient(raw, keys)
  IN IF is_identity(raw) THEN [reducer EXCEPT !.map = Append(@, raw.inputs[1])]
     ELSE IF Contains(reducer.nodes, key)
          THEN [reducer EXCEPT !.map = Append(@, IdOf(reducer.nodes, key))]
          ELSE [nodes |-> Append(reducer.nodes, key),
                keys  |-> Append(reducer.keys, structural_key(key, keys)),
                map   |-> Append(reducer.map, Len(reducer.nodes) + 1)]

\* The nodes recorded since the last step.
step(reducer, arena) ==
  FoldLeft(StepNode, reducer, SubSeq(arena, Len(reducer.map) + 1, Len(arena)))

finalize(reducer, outputs, mode) ==
  LET asIs == [i \in DOMAIN reducer.nodes |-> FALSE]
  IN from_reduced(Onto(reducer.map,
                       reduce_oriented(reducer.nodes, At(reducer.map, outputs), asIs, mode),
                       Dropped))
=============================================================================
