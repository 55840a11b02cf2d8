-------------------------- MODULE ChunkEvaluation --------------------------
(***************************************************************************)
(* ChunkEvaluation (python/graphed/execute.py, aggregate.py): a graph      *)
(* evaluated node by node over a chunk, each value dropped once its last   *)
(* consumer has run; which graphs may be evaluated per chunk; and how the  *)
(* chunks' values fold into the dataset's.                                 *)
(***************************************************************************)
EXTENDS GraphOptimizer

\* A value: the rows of an array, one number (none of them: None), or the
\* error its operation raised.
Rows(s)   == [shape |-> "rows", at |-> s]
Number(v) == [shape |-> "number", at |-> << v >>]
None      == [shape |-> "number", at |-> << >>]
Failed    == [shape |-> "failed", at |-> << >>]
Released  == [shape |-> "released", at |-> << >>]

Cut == 2   \* keep's threshold: it drops the rows below it

----------------------------------------------------------------------------
(* The array library, as the evaluator calls it.                           *)

Lengths(ins) == {Len(v.at) : v \in {w \in Range(ins) : w.shape = "rows"}}

\* One number beside rows, and one row beside many, repeat.
Element(v, i) == IF Len(v.at) = 1 THEN v.at[1] ELSE v.at[i]

Broadcast(f(_, _), a, b, lengths) ==
  IF None \in {a, b} THEN None
  ELSE IF lengths = {} THEN Number(f(a.at[1], b.at[1]))
  ELSE IF Cardinality(lengths \ {1}) > 1 THEN Failed
  ELSE LET n == IF lengths = {1} THEN 1 ELSE CHOOSE l \in lengths \ {1} : TRUE
       IN  Rows([i \in 1..n |-> f(Element(a, i), Element(b, i))])

Elementwise(f(_, _), a, b) == Broadcast(f, a, b, Lengths(<< a, b >>))

PlusNumbers(a, b)  == a + b
Arithmetic(token, a, b) == IF token = "add" THEN a + b ELSE a - b
SumOf(s) == FoldLeft(PlusNumbers, 0, s)

\* A reduction of no rows: 0 for a sum, nothing for a maximum.
eval_stage(token, ins) ==
  CASE token \in {"add", "sub"} ->
         Elementwise(LAMBDA a, b : Arithmetic(token, a, b), ins[1], ins[2])
    [] token = "keep"  -> Rows(SelectSeq(ins[1].at, LAMBDA v : v >= Cut))
    [] token = "total" -> Number(SumOf(ins[1].at))
    [] token = "peak"  -> IF ins[1].at = << >> THEN None ELSE Number(Max(Range(ins[1].at)))
    [] kind(token) = "join" ->
         IF Joinable(ins[1].at, ins[2].at, token)
         THEN Rows(join_blocks(ins[1].at, ins[2].at, token)) ELSE Failed
    [] OTHER           -> ins[1]            \* zero, pack_key, an exchange

\* The two evaluators of the one payload.
Payload(name, v) ==
  [v EXCEPT !.at = [i \in DOMAIN v.at |->
                      IF name = "scaleUp" THEN 2 * v.at[i] ELSE 3 * v.at[i]]]

----------------------------------------------------------------------------
(* evaluate_ir.                                                            *)

Unusable(ins) == \E v \in Range(ins) : v.shape \in {"failed", "released"}

\* A chunk's arrays of unequal length refused, as the dataset's would be.
RowsAligned(ins) == Cardinality(Lengths(ins)) <= 1

Evaluated(token, ins, chunked) ==
  IF Unusable(ins) \/ (chunked /\ kind(token) = "op" /\ ~ RowsAligned(ins)) THEN Failed
  ELSE eval_stage(token, ins)

\* The values whose last reader is i, those in keep aside.
released(inputs, i, keep) ==
  {v \in Range(inputs[i]) \ keep :
     \A c \in DOMAIN inputs : v \in Range(inputs[c]) => c <= i}

Entered(vals, v, gone) ==
  LET kept(w, k) == IF k \in gone THEN Released ELSE w
  IN Append([k \in DOMAIN vals |-> kept(vals[k], k)], kept(v, Len(vals) + 1))

\* Each value computed in order, and the ones released after it.
Stepwise(value(_, _), inputs, keep) ==
  FoldLeft(LAMBDA vals, i : Entered(vals, value(vals, i), released(inputs, i, keep)),
           << >>, Ids(inputs))

\* A fused stage, its members inline: the last one's value.
evaluate_stage(members, ins, chunked) ==
  LET refs(m) == SelectSeq(m.inputs, LAMBDA r : r[1] = "member")
      inputs  == [k \in DOMAIN members |->
                    [j \in DOMAIN refs(members[k]) |-> refs(members[k])[j][2]]]
      value(vals, k) ==
        LET m == members[k]
        IN Evaluated(m.token,
             [j \in DOMAIN m.inputs |-> IF m.inputs[j][1] = "member"
                                        THEN vals[m.inputs[j][2]] ELSE ins[m.inputs[j][2]]],
             chunked)
  IN Last(Stepwise(value, inputs, {Len(members)}))

\* An External node's payload and params: one payload, evaluated two ways.
External == [scaleUp   |-> [content_hash |-> "payload", params |-> "up"],
             scaleDown |-> [content_hash |-> "payload", params |-> "down"]]

\* What its evaluator is found by: the payload's hash with the params.
external_key(token) == << External[token].content_hash, External[token].params >>

\* A session's.
external_evaluators(recorded) ==
  LET nodes == SelectSeq(recorded, LAMBDA n : n.token \in Externals)
  IN [key \in {external_key(n.token) : n \in Range(nodes)} |->
        (CHOOSE n \in Range(nodes) : external_key(n.token) = key).token]

\* Those of the External nodes in a cone.
cone_externals(nodes, within, wired) ==
  LET keys == {external_key(nodes[i].token) : i \in {j \in within : nodes[j].token \in Externals}}
  IN [key \in keys \intersect DOMAIN wired |-> wired[key]]

evaluate_external(token, ins, evaluators) ==
  IF Unusable(ins) THEN Failed ELSE Payload(evaluators[external_key(token)], ins[1])

NodeValue(node, ins, sources, evaluators, chunked) ==
  IF node.token \in DOMAIN sources THEN sources[node.token]
  ELSE CASE kind(node.token) = "source"   -> Failed
         [] node.token = "stage"          -> evaluate_stage(node.members, ins, chunked)
         [] kind(node.token) = "external" -> evaluate_external(node.token, ins, evaluators)
         [] OTHER                         -> Evaluated(node.token, ins, chunked)

Walk(nodes, sources, evaluators, wanted, given, chunked, reached) ==
  LET value(vals, i) ==
        IF i \in DOMAIN given THEN given[i]
        ELSE IF i \notin reached THEN Released
        ELSE NodeValue(nodes[i], KeysOf(vals, nodes[i]), sources, evaluators, chunked)
      inputs == [i \in DOMAIN nodes |-> IF i \in reached \ DOMAIN given
                                       THEN nodes[i].inputs ELSE << >>]
  IN At(Stepwise(value, inputs, Range(wanted)), wanted)

\* The values of `wanted' (node ids), the sources bound by name, `given'
\* supplying the values of its nodes; only what wanted reaches past them
\* is evaluated.
evaluate_ir(graph, sources, evaluators, wanted, given, chunked) ==
  Walk(graph.nodes, sources, evaluators, wanted, given, chunked,
       ir_cone(graph.nodes, Range(wanted), DOMAIN given))

NoneGiven == [i \in {} |-> None]

----------------------------------------------------------------------------
(* What may be evaluated per chunk, and the fold of the chunks' values.    *)

\* A keyed join of one source finds the matches of one chunk alone.
KeyedJoinOfOne(nodes) ==
  /\ Cardinality({i \in DOMAIN nodes : kind(nodes[i].token) = "source"}) < 2
  /\ \E n \in Range(nodes) : n.token \in Keyed

\* A reduction that feeds a node, or is one of `refused', is a partial.
refuse_chunk_partials_Never(graph, refused) == FALSE

refuse_chunk_partials(graph, refused) ==
  \/ KeyedJoinOfOne(graph.nodes)
  \/ \E i \in DOMAIN graph.nodes :
       /\ kind(graph.nodes[i].token) = "reduction"
       /\ \/ \E n \in Range(graph.nodes) : Contains(n.inputs, i)
          \/ i \in refused

\* Where an array's value sits among the values of the compiled outputs.
slot_of(graph, id) ==
  CHOOSE k \in DOMAIN graph.outputs : graph.outputs[k] = graph.map[id][1]

\* Two chunks' values: rows concatenate; a sum adds and a maximum keeps
\* the larger, None leaving the other side as it is.
Combine(token, a, b) ==
  IF Failed \in {a, b} THEN Failed
  ELSE IF a.shape = "rows" THEN Rows(a.at \o b.at)
  ELSE IF None \in {a, b} THEN (IF a = None THEN b ELSE a)
  ELSE IF token = "peak" THEN Number(Max({a.at[1], b.at[1]}))
  ELSE Number(a.at[1] + b.at[1])

\* Chunks as one value; one that failed fails them all.
Flattened(chunks) == FoldLeft(LAMBDA s, c : s \o c, << >>, chunks)

Concat(values) ==
  IF Failed \in Range(values) THEN Failed
  ELSE Rows(Flattened([k \in DOMAIN values |-> values[k].at]))
=============================================================================
