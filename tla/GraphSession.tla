--------------------------- MODULE GraphSession ---------------------------
(***************************************************************************)
(* GraphSession (python/graphed/session.py, execute.py): one Session that  *)
(* several threads record into and compile from.  Each record_* call       *)
(* checks its inputs, then adds its node and enters it in the Session's    *)
(* tables under one lock; a compile reads store and tables under it too.   *)
(***************************************************************************)
EXTENDS ChunkEvaluation, FiniteSetsExt

CONSTANTS
  Threads,
  Programs,        \* [words, calls, joins]: the operators a run's programs
                   \* draw on, how many calls each thread makes, how many joins
  Partitioned,     \* the sources that are read per partition
  MaxCalls         \* how many they make together

ASSUME SessionAssumption ==
  /\ Partitioned \subseteq Sources
  /\ \A p \in Programs : p.calls \in [Threads -> Nat] /\ p.joins \in Nat
  /\ MaxCalls \in Nat

VARIABLES
  session,     \* the store, the reducer and the tables
  incremental, \* Session(incremental=)
  program,     \* the one of Programs this run keeps to
  held,        \* the arrays each thread holds: [id, site]
  written      \* history: the calls each thread made

sessionVars == << session, incremental, program, held, written >>

NewSession == [arena |-> << >>, reducer |-> NewReducer, forms |-> << >>, rows |-> << >>,
               sites |-> << >>]

IdsOf(arrays) == [k \in DOMAIN arrays |-> arrays[k].id]

----------------------------------------------------------------------------
(* Checks before the lock; what they read is never changed once entered.   *)

\* The backend's op_form: which operands it takes, and what it gives.
op_form(token, forms) ==
  IF token \in Reductions THEN "number"
  ELSE IF "rows" \in Range(forms) THEN "rows" ELSE "number"

WellTyped(token, forms) ==
  /\ token \in {"keep"} \union Exchanges \union Reductions => forms = << "rows" >>
  /\ token \in Joins => forms = << "rows", "rows" >>

\* The row sets a node carries, each input's in turn.
carried(s, ids) == FoldLeft(LAMBDA rows, i : Later(rows, s.rows[i]), << >>, ids)

\* An operation pairs rows of one row set alone.
same_rows(s, ids) ==
  Cardinality({s.rows[i] : i \in Range(ids)} \ {<< >>}) < 2

Refused(s, token, ids) ==
  \/ ~ WellTyped(token, [k \in DOMAIN ids |-> s.forms[ids[k]]])
  \/ kind(token) # "join" /\ ~ same_rows(s, ids)

----------------------------------------------------------------------------
(* The add and the tables, one critical section.                           *)

\* setdefault: what a node was first entered with stays.
SetDefault(table, id, value) == IF id \in DOMAIN table THEN table ELSE Append(table, value)

\* A node's recordings: one for each line and what it read there.
WithSite(sites, id, site) ==
  IF id \notin DOMAIN sites THEN Append(sites, << site >>)
  ELSE IF Contains(sites[id], site) THEN sites
  ELSE [sites EXCEPT ![id] = Append(@, site)]

enter(s, token, arrays, line) ==
  LET ids   == IdsOf(arrays)
      node  == NodeKey(token, ids)
      arena == intern(s.arena, node)
      id    == IdOf(arena, node)
      form  == IF token \in Sources THEN "rows"
               ELSE op_form(token, [k \in DOMAIN ids |-> s.forms[ids[k]]])
      rows  == IF token \in Sources THEN (IF token \in Partitioned THEN << id >> ELSE << >>)
               ELSE IF token \in Joins THEN (IF carried(s, ids) = << >> THEN << >> ELSE << id >>)
               ELSE IF form = "rows" THEN carried(s, ids) ELSE << >>
      site  == [line |-> line, reads |-> [k \in DOMAIN arrays |-> arrays[k].site]]
  IN [to    |-> [arena   |-> arena,
                 reducer |-> step(s.reducer, arena),
                 forms   |-> SetDefault(s.forms, id, form),
                 rows    |-> SetDefault(s.rows, id, rows),
                 sites   |-> WithSite(s.sites, id, site)],
      array |-> [id |-> id, site |-> site]]

\* graphed.join: each side keyed and routed by the packed key, then joined.
join(s, how, arrays, line) ==
  LET lk == enter(s, "pack_key", << arrays[1] >>, line)
      rk == enter(lk.to, "pack_key", << arrays[2] >>, line)
      le == enter(rk.to, "hash", << lk.array >>, line)
      re == enter(le.to, "hash", << rk.array >>, line)
  IN enter(re.to, how, << le.array, re.array >>, line)

Called(s, token, arrays, line) ==
  IF token \in Keyed THEN join(s, token, arrays, line) ELSE enter(s, token, arrays, line)

----------------------------------------------------------------------------
(* Compiling.                                                              *)

\* The recordings the outputs were built from.
live(s, arrays) ==
  LET reads(sites) == sites \union UNION {Range(x.reads) : x \in sites}
  IN FoldLeft(LAMBDA sites, i : reads(sites), {a.site : a \in Range(arrays)}, s.arena)

\* A node's recordings that fed the outputs; with none, its first.
feeding(s, id, alive) ==
  LET fed == SelectSeq(s.sites[id], LAMBDA x : x \in alive)
  IN IF fed = << >> THEN << s.sites[id][1] >> ELSE fed

\* Its lines: the first feeding, those written before it, the others.
lines(s, id, alive) ==
  LET fed   == feeding(s, id, alive)
      first == SelectInSeq(s.sites[id], LAMBDA x : x = fed[1])
      order == << fed[1] >> \o SubSeq(s.sites[id], 1, first - 1) \o Tail(fed)
  IN FoldLeft(LAMBDA ls, x : Later(ls, << x.line >>), << >>, order)

\* One frame per address, from the lowest record id that landed there.
frames_by_key(graph, provenance) ==
  LET landed == {i \in DOMAIN graph.map : graph.map[i] # Dropped}
  IN [key \in {graph.map[i] : i \in landed} |->
        provenance[Min({i \in landed : graph.map[i] = key})]]

Reduced(s, ids, mode, stepped) ==
  IF mode = "cone" THEN cone(s.arena, ids)
  ELSE IF stepped THEN finalize(s.reducer, ids, mode)
  ELSE reduce_with_outputs(s.arena, ids, mode)

Framed(s, graph, alive) ==
  [graph  |-> graph,
   frames |-> frames_by_key(graph, [i \in DOMAIN graph.map |-> lines(s, i, alive)])]

compile_view(s, arrays, mode, stepped) ==
  Framed(s, Reduced(s, IdsOf(arrays), mode, stepped), live(s, arrays))

----------------------------------------------------------------------------
(* The threads.                                                            *)

SessionInit ==
  /\ session = NewSession
  /\ incremental \in BOOLEAN
  /\ program \in Programs
  /\ held = [t \in Threads |-> << >>]
  /\ written = [t \in Threads |-> << >>]

\* The operands a call may be given: positions among what t holds.
Operands(t, token) ==
  LET n == CASE token \in Sources         -> 0
             [] token \in {"add", "sub"} \union Joins -> 2
             [] OTHER                     -> 1
  IN [1..n -> DOMAIN held[t]]

Made(t, token, operands) ==
  [written EXCEPT ![t] = Append(@, [token |-> token, operands |-> operands])]

Calls == MapThenSumSet(LAMBDA t : Len(written[t]), Threads)

\* record_op, record_external, record_exchange and source.
Record(t, token, operands) ==
  LET arrays  == [k \in DOMAIN operands |-> held[t][operands[k]]]
      entered == Called(session, token, arrays, t)
  IN /\ Len(written[t]) < program.calls[t]
     /\ Calls < MaxCalls
     /\ ~ Refused(session, token, IdsOf(arrays))
     /\ session' = entered.to
     /\ held' = [held EXCEPT ![t] = Append(@, entered.array)]
     /\ written' = Made(t, token, operands)
     /\ UNCHANGED << incremental, program >>

\* What t's calls alone leave in a fresh Session.
Solo(t) ==
  FoldLeft(LAMBDA acc, call :
             LET entered == Called(acc.to, call.token,
                                   [k \in DOMAIN call.operands |-> acc.held[call.operands[k]]], t)
             IN [to |-> entered.to, held |-> Append(acc.held, entered.array)],
           [to |-> NewSession, held |-> << >>], written[t])
=============================================================================
