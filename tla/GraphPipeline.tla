--------------------------- MODULE GraphPipeline ---------------------------
(***************************************************************************)
(* GraphPipeline (python/graphed/aggregate.py, materialization.py): what   *)
(* is done with a recorded graph.  A compiled one is planned and run chunk *)
(* by chunk; materialize evaluates results in this process, a pass over    *)
(* each source and the rest over the whole; head reads as little as its    *)
(* rows take.                                                              *)
(***************************************************************************)
EXTENDS StagedPlan, GraphBytes

CONSTANT
  Peeks    \* the row counts head is asked for

ASSUME PipelineAssumption == Peeks \subseteq Nat

VARIABLES
  artifact,  \* the compiled graph, with the request it answers
  run        \* what running or materializing came to

vars == << sessionVars, artifact, run >>

NoArtifact == [thread |-> "none"]
NoRun      == [phase |-> "none"]

WholeOf(token) == Rows(Flattened(Data[token]))

EverySource == [token \in Sources |-> WholeOf(token)]

\* The recorded graph's own value of a node over the whole dataset.
Whole(id) ==
  evaluate_ir([nodes |-> session.arena], EverySource, external_evaluators(session.arena),
              << id >>, NoneGiven, FALSE)[1]

sources_read(ids) ==
  {i \in ir_cone(session.arena, Range(ids), {}) : session.arena[i].token \in Sources}

partitioned(ids) == {i \in sources_read(ids) : session.arena[i].token \in Partitioned}

----------------------------------------------------------------------------
(* compile_ir and aggregate_plan.                                          *)

Arrays(t, picks) == At(held[t], picks)

compile_ir(t, picks, mode) ==
  /\ artifact = NoArtifact /\ run = NoRun
  /\ artifact' = [thread |-> t, picks |-> picks, mode |-> mode, calls |-> Calls,
                  view |-> compile_view(session, Arrays(t, picks), mode, incremental)]
  /\ UNCHANGED << sessionVars, run >>

\* The graph a worker has, read from the compiled one's bytes.
ir(view) == serialize_with(view.graph.nodes, view.graph.outputs)

Shipped(view) == Received(ir(view)) @@ [map |-> view.graph.map]

\* The fold of an output: rows concatenate, a reduction has its own.
fold_of(id) == session.forms[id] = "rows" \/ kind(session.arena[id].token) = "reduction"

\* A chunk's values of the outputs, each at its slot.
ChunkValues(graph, ids, sources, evaluators) ==
  At(evaluate_ir(graph, sources, evaluators, graph.outputs, NoneGiven, TRUE),
     [k \in DOMAIN ids |-> slot_of(graph, ids[k])])

\* Every chunk's values, combined output by output in chunk order; with a
\* failed one the run raises.
RunChunks(graph, ids, token, combine(_, _, _)) ==
  LET of(chunk) == ChunkValues(graph, ids, [n \in {token} |-> Rows(chunk)],
                               external_evaluators(session.arena))
      both(a, b) == [j \in DOMAIN ids |-> combine(j, a[j], b[j])]
  IN FoldLeft(LAMBDA acc, chunk : both(acc, of(chunk)), of(Head(Data[token])),
              Tail(Data[token]))

\* Each output's values, folded in order: chunks', or destinations'.
Folded(ids, j, values) ==
  FoldLeft(LAMBDA a, b : Combine(session.arena[ids[j]].token, a, b), Head(values), Tail(values))

OverChunks(graph, ids, over) ==
  [phase |-> "plan", ids |-> ids,
   values |-> RunChunks(graph, ids, session.arena[CHOOSE i \in over : TRUE].token,
                LAMBDA j, a, b : Combine(session.arena[ids[j]].token, a, b))]

\* A staged run's result: each output's value at each destination, folded.
OfStages(staged, ids) ==
  IF staged = Raised THEN Raised
  ELSE staged @@ [ids    |-> ids,
                  folded |-> [j \in DOMAIN ids |->
                                Folded(ids, j, [d \in DOMAIN staged.values |->
                                  staged.values[d][slot_of(staged.graph, ids[j])]])]]

OverStages(graph, ids, is_join) ==
  OfStages(RunStages(graph, Min(Barriers(graph.nodes, is_join)),
                     external_evaluators(session.arena)), ids)

Refusal == [phase |-> "refused"]

\* Two sources and a join make the join's plan.
over_join(graph, over) ==
  Cardinality(over) = 2 /\ Barriers(graph.nodes, TRUE) # {}

TokensOf(over) == {session.arena[i].token : i \in over}

Aggregated(graph, ids, over) ==
  IF refuse_chunk_partials(graph, {}) \/ \E i \in Range(ids) : ~ fold_of(i) THEN Refusal
  ELSE CASE Cardinality(over) = 1                     -> OverChunks(graph, ids, over)
         [] /\ over_join(graph, over)
            /\ artifact.mode # "cone"
            /\ buildable(graph, TRUE, TokensOf(over)) -> OverStages(graph, ids, TRUE)
         [] OTHER                                     -> Refusal

Requested == IdsOf(Arrays(artifact.thread, artifact.picks))

aggregate_plan ==
  /\ artifact # NoArtifact /\ run = NoRun
  /\ run' = Aggregated(Shipped(artifact.view), Requested, partitioned(Requested))
  /\ UNCHANGED << sessionVars, artifact >>

\* shuffle_plan, of one output: with a fold.  join_plan without one gives
\* its output's value at each destination, so a partial is not one.
Barred(graph, ids, is_join, folds) ==
  \/ refuse_chunk_partials(graph, IF folds THEN {} ELSE Range(graph.outputs))
  \/ Len(ids) > 1 /\ ~ folds
  \/ ~ buildable(graph, is_join, TokensOf(partitioned(ids)))

StagedRun(graph, ids, is_join, folds) ==
  IF Barred(graph, ids, is_join, folds) THEN Refusal ELSE OverStages(graph, ids, is_join)

staged_plan(is_join) ==
  /\ artifact # NoArtifact /\ run = NoRun
  /\ artifact.mode = "SingleUse" /\ Len(artifact.picks) = 1
  /\ run' = StagedRun(Shipped(artifact.view), Requested, is_join, ~ is_join)
  /\ UNCHANGED << sessionVars, artifact >>

shuffle_plan == staged_plan(FALSE)
join_plan    == staged_plan(TRUE)

----------------------------------------------------------------------------
(* materialize.                                                            *)

\* No cut: a pass carries a reduction's chunks too.
past_boundary_None == {}

\* The nodes at or downstream of a boundary.
past_boundary ==
  FoldLeft(LAMBDA past, i :
             IF \/ session.arena[i].token \in Boundaries
                \/ \E k \in Range(session.arena[i].inputs) : k \in past
             THEN past \union {i} ELSE past,
           {}, Ids(session.arena))

\* What the arrays `ids' take from a pass over source `nid': the nodes of
\* that source alone that are not past a boundary and that an array is or
\* a node outside consumes.
frontier(ids, nid, past) ==
  LET reached == ir_cone(session.arena, Range(ids), {})
      from == FoldLeft(LAMBDA acc, i :
                LET ins == Range(session.arena[i].inputs)
                IN IF i = nid \/ (ins # {} /\ ins \subseteq acc /\ i \notin past)
                   THEN acc \union {i} ELSE acc,
                {}, SelectSeq(Ids(session.arena), LAMBDA i : i \in reached))
  IN SelectSeq(Ids(session.arena), LAMBDA i :
       /\ i \in from
       /\ \/ Contains(ids, i)
          \/ \E c \in reached \ from : Contains(session.arena[c].inputs, i))

OfPass(values, pieces, carry) ==
  [pieces |-> SubSeq(values, 1, Len(pieces)),
   reads  |-> [i \in Range(carry) |->
                 values[Len(pieces) + SelectInSeq(carry, LAMBDA c : c = i)]]]

PassOver(nid, pieces, carry) ==
  OfPass(RunChunks(Reduced(session, pieces \o carry, "SingleUse", incremental), pieces \o carry,
                   session.arena[nid].token, LAMBDA j, a, b : Concat(<< a, b >>)),
         pieces, carry)

\* One optimized plan over source nid: the pieces' sums, and the whole
\* value of each node of the frontier.
run_pass(nid, pieces, beside, past) ==
  PassOver(nid, pieces,
           frontier(SelectSeq(beside, LAMBDA i : nid \in sources_read(<< i >>)), nid, past))

WholeFrom(graph, ids, given) ==
  [values |-> At(evaluate_ir(graph, EverySource, external_evaluators(session.arena),
                             graph.outputs, given, FALSE),
                 [k \in DOMAIN ids |-> slot_of(graph, ids[k])]),
   loads  |-> {graph.nodes[i].token :
                 i \in {j \in ir_cone(graph.nodes, Range(graph.outputs), DOMAIN given) :
                          graph.nodes[j].token \in Sources} \ DOMAIN given}]

\* The values already read, each at the node it landed on.
Given(graph, reads) ==
  [k \in {graph.map[i][1] : i \in {j \in DOMAIN reads : graph.map[j] # Dropped}} |->
     reads[CHOOSE i \in DOMAIN reads : graph.map[i] = << k, 0 >>]]

CutAt(graph, ids, reads) == WholeFrom(graph, ids, Given(graph, reads))

\* The rest in one graph, 1:1, cut at what is already read; and the sources
\* it still loads.
run_whole(ids, reads) == CutAt(cone(session.arena, ids), ids, reads)

\* A piece that one partitioned source alone feeds, short of a boundary,
\* runs in that source's pass.
InPass(id, past) ==
  /\ id \notin past
  /\ Cardinality(sources_read(<< id >>)) = 1 /\ partitioned(<< id >>) # {}

\* A piece is a deferred object over an array's rows; its result their sum.
PieceOf(value) == IF value = Failed THEN Failed ELSE Number(SumOf(value.at))

\* Which pieces run in a pass, and over which sources.
Split(ids, piece, past) ==
  LET passed == SelectSeq(piece, LAMBDA i : InPass(i, past))
  IN [ids    |-> ids, piece |-> piece, passed |-> passed,
      beside |-> ids \o SelectSeq(piece, LAMBDA i : ~ InPass(i, past)),
      nids   |-> UNION {partitioned(<< i >>) : i \in Range(passed)}]

WithPasses(call, past) ==
  call @@ [pass   |-> [nid \in call.nids |-> run_pass(nid, call.passed, call.beside, past)],
           others |-> partitioned(call.beside) \ call.nids]

\* What is read before the whole: by a pass, or, of the other partitioned
\* sources, whole.
WithReads(call) ==
  LET carries(nid) == DOMAIN call.pass[nid].reads
  IN call @@
     [reads |-> [i \in call.others \union UNION {carries(nid) : nid \in call.nids} |->
                   IF i \in call.others THEN WholeOf(session.arena[i].token)
                   ELSE call.pass[CHOOSE nid \in call.nids : i \in carries(nid)].reads[i]]]

WithWhole(call) == call @@ [whole |-> run_whole(call.beside, call.reads)]

Results(call) ==
  LET ofPass == [k \in DOMAIN call.passed |->
                   call.pass[CHOOSE nid \in call.nids : TRUE].pieces[k]]
      n      == Len(call.ids)
      pieces == ofPass \o SubSeq(call.whole.values, n + 1, Len(call.beside))
  IN [phase |-> "materialized",
      ids   |-> call.ids, values |-> SubSeq(call.whole.values, 1, n),
      piece |-> call.piece,
      sums  |-> [k \in DOMAIN call.piece |-> PieceOf(pieces[k])],
      again |-> {name \in call.whole.loads :
                   \E i \in call.nids \union call.others : session.arena[i].token = name}]

materialized(ids, piece, past) ==
  Results(WithWhole(WithReads(WithPasses(Split(ids, piece, past), past))))

materialize(t, picks, pick) ==
  /\ artifact = NoArtifact /\ run = NoRun
  /\ run' = materialized(IdsOf(Arrays(t, picks)), IdsOf(Arrays(t, pick)),
                         IF pick # << >> THEN past_boundary ELSE {})
  /\ UNCHANGED << sessionVars, artifact >>

----------------------------------------------------------------------------
(* head.                                                                   *)

FirstRows(s, n) == SubSeq(s, 1, Min({n, Len(s)}))

OutputOf(graph, reads) ==
  evaluate_ir(graph, reads, external_evaluators(session.arena), graph.outputs,
              NoneGiven, TRUE)[1]

\* The value over the first entries of each source it reads.
OverFirst(id, entries) ==
  OutputOf(cone(session.arena, << id >>),
           [token \in Sources |-> Rows(FirstRows(Flattened(Data[token]), entries))])

exhausted(id, entries) ==
  \A i \in sources_read(<< id >>) : Len(Flattened(Data[session.arena[i].token])) < entries

enough(value, n) == Len(value.at) >= n

FirstOf(value, n) == IF value = Failed THEN Failed ELSE Rows(FirstRows(value.at, n))

Tried(value, id, n, entries) ==
  [value |-> value, entries |-> 2 * entries,
   done  |-> value = Failed \/ exhausted(id, entries) \/ enough(value, n)]

\* Entries doubled until n rows survive, the data ends, or a read raises.
head_rows(id, n) ==
  LET widen(acc, k) ==
        IF acc.done THEN acc ELSE Tried(OverFirst(id, acc.entries), id, n, acc.entries)
      most == [k \in 1..(Len(Flattened(Data["x"])) + Len(Flattened(Data["y"])) + 1) |-> k]
  IN FirstOf(FoldLeft(widen, [value |-> Failed, entries |-> Max({n, 1}), done |-> FALSE],
                      most).value, n)

\* Past a boundary the rows take the whole dataset: head records a slice
\* there and materializes it.
head(t, pick, n) ==
  LET id == held[t][pick].id
  IN /\ artifact = NoArtifact /\ run = NoRun
     /\ session.forms[id] = "rows" /\ id \notin past_boundary
     /\ run' = [phase |-> "head", id |-> id, n |-> n, value |-> head_rows(id, n)]
     /\ UNCHANGED << sessionVars, artifact >>

----------------------------------------------------------------------------
Init == SessionInit /\ artifact = NoArtifact /\ run = NoRun

\* A thread reads a source once; of the calls made after a compile, one is
\* enough to disturb it.
Recording(t, token) ==
  /\ run = NoRun
  /\ token \in Sources => \A k \in DOMAIN written[t] : written[t][k].token # token
  /\ token \in Joins =>
       Cardinality({k \in DOMAIN written[t] : written[t][k].token \in Joins}) < program.joins
  /\ artifact # NoArtifact => Calls = artifact.calls
  /\ \E operands \in Operands(t, token) : Record(t, token, operands)
  /\ UNCHANGED << artifact, run >>

\* Of what a thread holds, requests are about the newest: alone or after
\* another array, beside a piece over it or over the one before.
Newest(t) == Len(held[t])

Picks(t) == {<< k, Newest(t) >> : k \in 1..(Newest(t) - 1)} \union {<< Newest(t) >>}

Pieces(t) ==
  {<< >>} \union {<< k >> : k \in {j \in (Newest(t) - 1)..Newest(t) :
                                  j > 0 /\ session.forms[held[t][j].id] = "rows"}}

Next ==
  \/ \E t \in Threads, token \in program.words : Recording(t, token)
  \/ aggregate_plan
  \/ shuffle_plan
  \/ join_plan
  \/ \E t \in {u \in Threads : Newest(u) > 0} :
       \/ \E picks \in Picks(t), mode \in Modes \union {"cone"} : compile_ir(t, picks, mode)
       \/ \E picks \in Picks(t), piece \in Pieces(t) : materialize(t, picks, piece)
       \/ \E n \in Peeks : head(t, Newest(t), n)

Spec == Init /\ [][Next]_vars

----------------------------------------------------------------------------
(* Properties.                                                             *)
\* The value at an address of the compiled graph: a node's, or a member's.
ValueAt(graph, landing) ==
  LET cut == IF landing[2] = 0 THEN graph
             ELSE [graph EXCEPT !.nodes[landing[1]].members = SubSeq(@, 1, landing[2])]
  IN evaluate_ir(cut, EverySource, external_evaluators(session.arena), << landing[1] >>,
                 NoneGiven, FALSE)[1]

\* Wherever a recorded node landed, in a stage too, the compiled graph has
\* that node's value there; a requested array landed on an output.
LandingsKeepTheirValues ==
  artifact # NoArtifact =>
    LET graph == artifact.view.graph
    IN /\ \A i \in DOMAIN graph.map :
            graph.map[i] # Dropped => ValueAt(graph, graph.map[i]) = Whole(i)
       /\ \A a \in Range(Arrays(artifact.thread, artifact.picks)) :
            /\ Contains(graph.outputs, graph.map[a.id][1])
            /\ ValueAt(graph, << graph.map[a.id][1], 0 >>) = Whole(a.id)

\* The bytes of a compiled graph are read as that graph, nodes and outputs,
\* members and their params too, which the reader refuses unless it is in
\* order: no stage reads a later one, so no two depend on each other, and a
\* member reads earlier members.  Bytes cut short are not read as another.
BytesAreTheGraph ==
  artifact # NoArtifact /\ run = NoRun =>
    LET graph == artifact.view.graph
        bytes == ir(artifact.view)
        whole == deserialize(bytes)
    IN /\ IsArena(graph.nodes)
       /\ whole.error = "" /\ whole.pos = Len(bytes)
       /\ GraphOf(whole) = [nodes |-> graph.nodes, outputs |-> graph.outputs]
       /\ deserialize(Front(bytes)).error = "truncated"

FreshGraph(alone) ==
  Reduced(alone.to, IdsOf(At(alone.held, artifact.picks)), artifact.mode, FALSE)

SameGraph(a, b) == a.nodes = b.nodes /\ a.outputs = b.outputs

SameView(a, b) == SameGraph(a.graph, b.graph) /\ a.frames = b.frames

\* A compile depends on its outputs alone.  Whatever the Session records
\* before, meanwhile and after, incremental or not, the graph is the one a
\* fresh Session compiles, and compiling again ships the same frames.
CompileIsStable ==
  artifact # NoArtifact =>
    /\ SameGraph(artifact.view.graph, FreshGraph(Solo(artifact.thread)))
    /\ SameView(artifact.view, compile_view(session, Arrays(artifact.thread, artifact.picks),
                                            artifact.mode, incremental))

\* A plan that runs folds its chunks' values into the value each output has
\* over the whole dataset, or it raises.
PlanFoldsToTheWhole ==
  run.phase = "plan" =>
    \/ Failed \in Range(run.values)
    \/ \A k \in DOMAIN run.ids : run.values[k] = Whole(run.ids[k])

\* materialize gives every array its whole value and every piece the sum of
\* its rows, whatever part ran in a pass and whatever after it; only a pass
\* raises what the whole does not, and a source the call has read is not loaded
\* again.  head's rows are the first rows of the value, however few it read.
MaterializedIsTheWhole ==
  /\ run.phase = "materialized" =>
       /\ \A k \in DOMAIN run.ids :
            \/ run.values[k] = Whole(run.ids[k])
            \/ run.values[k] = Failed /\ run.piece # << >>
       /\ \A k \in DOMAIN run.piece :
            run.sums[k] \in {PieceOf(Whole(run.piece[k])), Failed}
       /\ run.again = {}
  /\ run.phase = "head" =>
       LET whole == Whole(run.id)
       IN Failed \in {run.value, whole} \/ run.value = Rows(FirstRows(whole.at, run.n))

SameRows(a, b) ==
  IF a = Failed \/ b = Failed THEN a = b
  ELSE /\ a.shape = b.shape
       /\ \A v \in Range(a.at) \union Range(b.at) :
            Len(SelectSeq(a.at, LAMBDA w : w = v)) = Len(SelectSeq(b.at, LAMBDA w : w = v))

\* A side's rows with one key, in dataset order.
WithKey(rows, field, key) == SelectSeq(rows, LAMBDA row : key_field(row, field) = key)

\* A staged run comes to what its outputs are over the whole dataset, rows
\* in some order, or it raises; and a destination it routed by key to has
\* every row of a key or none, in the dataset's order.
StagedIsTheWhole ==
  run.phase = "staged" =>
    /\ \A j \in DOMAIN run.ids :
         run.folded[j] = Failed \/ SameRows(run.folded[j], Whole(run.ids[j]))
    /\ run.how.scheme = "hash" =>
         \A d \in DOMAIN run.blocks, k \in DOMAIN run.names :
           LET target == run.graph.nodes[run.barrier].inputs[k]
               side   == evaluate_ir(run.graph, EverySource, external_evaluators(session.arena),
                                     << target >>, NoneGiven, FALSE)[1].at
               block  == run.blocks[d][k]
           IN \A row \in Range(block) :
                LET key == key_field(row, run.how.key)
                IN WithKey(block, run.how.key, key) = WithKey(side, run.how.key, key)

\* A keyed join pairs the rows whose `on' fields agree, each pair once,
\* and keeps the rows its kind keeps; both backends pair the same rows.
JoinsAreRelational ==
  run.phase = "staged" /\ run.graph.nodes[run.barrier].token \in Keyed =>
    \A d \in DOMAIN run.blocks :
      LET how   == run.graph.nodes[run.barrier].token
          built == run.blocks[d][1]
          probe == run.blocks[d][2]
          pairs == match_indices(built, probe, how)
      IN /\ Range(pairs) = Relational(built, probe, how)
         /\ Len(pairs) = Cardinality(Range(pairs))
         /\ Range(match_sorted(built, probe, how)) = Range(pairs)
         /\ Len(match_sorted(built, probe, how)) = Len(pairs)
=============================================================================
