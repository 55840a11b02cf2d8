----------------------------- MODULE GraphBytes -----------------------------
(***************************************************************************)
(* GraphBytes (src/serialize.rs, src/param.rs, src/node.rs): the bytes a   *)
(* compiled graph travels as, and the nodes read from them.  Bytes are a   *)
(* sequence of fields, each a tag, a number or a whole string; a string is *)
(* a sequence of pieces, the separators of a token among them.             *)
(***************************************************************************)
EXTENDS GraphOptimizer

----------------------------------------------------------------------------
(* What a token stands for: a name and params, and a payload's descriptor. *)

Whole64(v) == [tag |-> "int", value |-> << v >>]
Str(s) == [tag |-> "str", value |-> s]

\* A params key's place among the keys in use.
KeyOrder == << "cut", "how", "key", "on", "parts", "scheme", "target_bytes", "way", "where" >>

\* Entries are put in key order, whatever order they were given in.
ParamMap(entries) ==
  LET place(e) == SelectInSeq(KeyOrder, LAMBDA key : << key >> = e.key)
  IN SortSeq(entries, LAMBDA a, b : place(a) < place(b))

Entry(key, value) == [key |-> << key >>, value |-> value]

\* As they are recorded; a column may be named anything.
Params(token) ==
  CASE token = "keep"     -> ParamMap(<< Entry("where", Str(<< "v", ">", "=", "%", "3B" >>)),
                                         Entry("cut", Whole64("2")) >>)
    [] token = "zero"     -> ParamMap(<< Entry("where", Str(<< "%", "|", ";" >>)) >>)
    [] token = "pack_key" -> ParamMap(<< Entry("on", Str(<< "a", "%", "7C" >>)) >>)
    [] token = "exchange" -> ParamMap(<< Entry("scheme", Str(<< "hash" >>)),
                                         Entry("key", Str(<< "on" >>)) >>)
    [] token = "hash"     -> ParamMap(<< Entry("scheme", Str(<< "hash" >>)),
                                         Entry("key", Str(<< "__joinkey__" >>)) >>)
    [] token = "spread"   -> ParamMap(<< Entry("scheme", Str(<< "count" >>)),
                                         Entry("parts", Whole64("2")) >>)
    [] token = "coalesce" -> ParamMap(<< Entry("scheme", Str(<< "coalesce" >>)),
                                         Entry("target_bytes", Whole64("100")) >>)
    [] token \in Joins    -> ParamMap(<< Entry("how", Str(<< token >>)) >>)
    [] token \in Externals -> ParamMap(<< Entry("way", Str(<< token >>)) >>)
    [] OTHER              -> << >>

\* Only a source, an operation or a reduction is named.
NameOf(token) == IF kind(token) \in {"source", "op", "reduction"} THEN << token >> ELSE << >>

\* A payload's; one of them is preprocessed.
Descriptor(token) ==
  IF token \notin Externals THEN << >>
  ELSE << << "correction" >>, << "sha" >>, << "onnx" >>, << "1" >>, << "schema" >>,
          IF token = "scaleUp" THEN << << "scaled" >> >> ELSE << >> >>

Spelling(token) ==
  [kind |-> kind(token), name |-> NameOf(token), params |-> Params(token),
   descriptor |-> Descriptor(token)]

Spelled == [token \in Sources \union Operations \union Reductions \union Externals
                        \union Exchanges \union Joins |-> Spelling(token)]

\* The token spelled so, if there is one.
Meaning(spelling) ==
  LET tokens == {t \in DOMAIN Spelled : Spelled[t] = spelling}
  IN IF tokens = {} THEN "unknown" ELSE CHOOSE t \in tokens : TRUE

----------------------------------------------------------------------------
(* The tokens of a stage's members.                                        *)

Separators == << "%", ";", "=", "|" >>
Hex        == [sep \in Range(Separators) |->
                 CASE sep = "%" -> "25" [] sep = ";" -> "3B" [] sep = "=" -> "3D" [] OTHER -> "7C"]

escape_token(s) ==
  FlattenSeq([i \in DOMAIN s |-> IF s[i] \in DOMAIN Hex THEN << "%", Hex[s[i]] >> ELSE << s[i] >>])

\* Each escape of one separator undone, left to right.
Unescaped(s, sep) ==
  FoldLeft(LAMBDA t, piece : IF t # << >> /\ Last(t) = "%" /\ piece = Hex[sep]
                             THEN Append(Front(t), sep) ELSE Append(t, piece), << >>, s)

\* The escaper's own sign first.
unescape_token_InOrder(s) == FoldLeft(Unescaped, s, Separators)

\* Its own sign last.
unescape_token(s) == FoldLeft(Unescaped, s, Reverse(Separators))

with_separator(parts, sep) ==
  FoldLeft(LAMBDA s, part : IF s = << "" >> THEN part ELSE s \o << sep >> \o part, << "" >>, parts)

\* The pieces between separators.
split_at(s, sep) ==
  FoldLeft(LAMBDA parts, piece : IF piece = sep THEN Append(parts, << >>)
                                 ELSE Append(Front(parts), Append(Last(parts), piece)),
           << << >> >>, s)

value_token(v) == IF v.tag = "int" THEN << "i" >> \o v.value ELSE << "s" >> \o escape_token(v.value)

value_from_token(s) == IF s[1] = "i" THEN Whole64(s[2]) ELSE Str(unescape_token(Tail(s)))

params_token(params) ==
  with_separator([i \in DOMAIN params |->
            escape_token(params[i].key) \o << "=" >> \o value_token(params[i].value)], ";")

params_from_token(s) ==
  LET entry(part) == LET at == SelectInSeq(part, LAMBDA piece : piece = "=")
                     IN [key   |-> unescape_token(SubSeq(part, 1, at - 1)),
                         value |-> value_from_token(SubSeq(part, at + 1, Len(part)))]
      parts == split_at(s, ";")
  IN ParamMap([i \in DOMAIN parts |-> entry(parts[i])])

\* op|<name>, with its params if it has any.
op_token(spelling) ==
  << "op", "|" >> \o escape_token(spelling.name)
    \o (IF spelling.params = << >> THEN << >> ELSE << "|" >> \o params_token(spelling.params))

parse_op_token(s) ==
  LET parts == split_at(s, "|")
  IN [kind |-> parts[1][1], name |-> unescape_token(parts[2]),
      params |-> IF Len(parts) < 3 THEN << >> ELSE params_from_token(parts[3]),
      descriptor |-> << >>]

----------------------------------------------------------------------------
(* The writer.                                                             *)

MAGIC == "GIR1"

Tag == [source |-> 0, op |-> 1, reduction |-> 2, external |-> 3, stage |-> 4, exchange |-> 5,
        join |-> 6, int |-> 0, str |-> 3, input |-> 0, member |-> 1]

put_each(s, put(_)) == << Len(s) >> \o FlattenSeq([i \in DOMAIN s |-> put(s[i])])

put_param(e) == << e.key, Tag[e.value.tag], e.value.value >>

put_params(params) == put_each(params, put_param)
put_inputs(ids)    == put_each(ids, LAMBDA id : << id >>)

put_member(m) ==
  << op_token(Spelled[m.token]) >> \o put_each(m.inputs, LAMBDA r : << Tag[r[1]], r[2] >>)

\* Five strings, and a flag before the sixth.
put_descriptor(d) ==
  SubSeq(d, 1, 5) \o (IF d[6] = << >> THEN << 0 >> ELSE << 1, d[6][1] >>)

put_payload(node, spelling) ==
  << Tag[spelling.kind] >>
    \o (IF spelling.name = << >> THEN << >> ELSE << spelling.name >>)
    \o (IF spelling.descriptor = << >> THEN << >> ELSE put_descriptor(spelling.descriptor))
    \o put_params(spelling.params)
    \o (IF spelling.kind = "source" THEN << >> ELSE put_inputs(node.inputs))

put_node(node) ==
  IF node.token = "stage"
  THEN << Tag["stage"] >> \o put_inputs(node.inputs) \o put_each(node.members, put_member)
  ELSE put_payload(node, Spelled[node.token])

serialize_with(nodes, outputs) ==
  << MAGIC >> \o put_each(nodes, put_node) \o put_inputs(outputs)

----------------------------------------------------------------------------
(* The reader: where it is, what it got, and what stopped it.              *)

Reader(buf) == [buf |-> buf, pos |-> 0, got |-> << >>, error |-> ""]

Stopped(r, error) == IF r.error = "" THEN [r EXCEPT !.error = error] ELSE r

\* A reader that stopped gets no more.
one_field(r) ==
  IF r.error = "" /\ r.pos < Len(r.buf)
  THEN [r EXCEPT !.pos = @ + 1, !.got = Append(@, r.buf[r.pos + 1])]
  ELSE [Stopped(r, "truncated") EXCEPT !.got = Append(@, 0)]

\* What the last field may be.
checked(r, ok(_), error) == IF r.error # "" \/ ok(Last(r.got)) THEN r ELSE Stopped(r, error)

Fresh(r) == [r EXCEPT !.got = << >>]

\* What q got is one thing that r gets.
Grouped(r, q) == [q EXCEPT !.got = Append(r.got, q.got)]

\* As many as the count, each told how many came before.
counted(r, one(_, _)) ==
  FoldLeft(LAMBDA q, k : one(q, k - 1), Fresh(r), [k \in 1..Last(r.got) |-> k])

many_of(r, counter, one(_, _)) ==
  Grouped(r, counted(counter, one))

many(r, one(_, _)) == many_of(r, one_field(r), one)

param(r, k) ==
  Grouped(r, one_field(checked(one_field(one_field(Fresh(r))), LAMBDA t : t \in {Tag["int"], Tag["str"]}, "tag")))

\* An input names one of the nodes before.
input(r, before) == checked(one_field(r), LAMBDA id : id \in 1..before, "ref")

inputs(r, before) == many(r, LAMBDA q, k : input(q, before))

\* A member reads the stage's inputs and the members before it.
ref(r, before) ==
  LET within(q) == checked(one_field(q), LAMBDA at : Last(q.got) = Tag["member"] => at <= before, "ref")
  IN Grouped(r, within(checked(one_field(Fresh(r)), LAMBDA t : t \in {0, 1}, "tag")))

stage_member(r, before) ==
  Grouped(r, many(one_field(Fresh(r)), LAMBDA q, k : ref(q, before)))

flagged(r) == IF Last(r.got) = 0 THEN r ELSE one_field(r)

descriptor(r) == Grouped(r, flagged(FoldLeft(LAMBDA q, k : one_field(q), Fresh(r), << 1, 2, 3, 4, 5, 6 >>)))

\* After its tag, by its kind.
payload(r, before, tag) ==
  CASE tag = Tag["source"]                        -> many(one_field(r), param)
    [] tag \in {Tag["op"], Tag["reduction"]}      -> inputs(many(one_field(r), param), before)
    [] tag = Tag["external"]                      -> inputs(many(descriptor(r), param), before)
    [] tag \in {Tag["exchange"], Tag["join"]}     -> inputs(many(r, param), before)
    [] tag = Tag["stage"]                         -> many(inputs(r, before), stage_member)
    [] OTHER                                      -> Stopped(r, "tag")

tagged(r, before) == payload(r, before, Last(r.got))

node_at(r, before) == Grouped(r, tagged(one_field(Fresh(r)), before))

ValueOf(e) == [key |-> e[1], value |-> IF e[2] = Tag["int"] THEN [tag |-> "int", value |-> e[3]]
                                      ELSE Str(e[3])]

ParamsOf(es) == ParamMap([i \in DOMAIN es |-> ValueOf(es[i])])

PayloadOf(d) == SubSeq(d, 1, 5) \o << IF d[6] = 0 THEN << >> ELSE << d[7] >> >>

KindOf(tag) == CHOOSE k \in {"source", "op", "reduction", "external", "exchange", "join"} : Tag[k] = tag

MemberOf(m) ==
  [token  |-> Meaning(parse_op_token(m[1])),
   inputs |-> [i \in DOMAIN m[2] |-> << IF m[2][i][1] = 0 THEN "input" ELSE "member", m[2][i][2] >>]]

Spelt(k, name, payload_, es) ==
  Meaning([kind |-> k, name |-> name, params |-> ParamsOf(es), descriptor |-> payload_])

InputsOf(s, k) == IF k = "source" THEN << >> ELSE Last(s)

Named(s, k) ==
  CASE k \in {"source", "op", "reduction"} -> Spelt(k, s[2], << >>, s[3])
    [] k = "external"                      -> Spelt(k, << >>, PayloadOf(s[2]), s[3])
    [] OTHER                               -> Spelt(k, << >>, << >>, s[2])

Plain(s, k) == [token |-> Named(s, k), inputs |-> InputsOf(s, k), members |-> << >>]

\* What was read, as a node.
NodeOf(s) ==
  IF s[1] = Tag["stage"]
  THEN [token |-> "stage", inputs |-> s[2], members |-> [i \in DOMAIN s[3] |-> MemberOf(s[3][i])]]
  ELSE Plain(s, KindOf(s[1]))

outputs_at(r) == inputs(r, Len(Last(r.got)))

\* << magic, nodes, outputs >>, read in order.
deserialize(buf) ==
  outputs_at(many(checked(one_field(Reader(buf)), LAMBDA m : m = MAGIC, "magic"), node_at))

\* Each node is interned again, in order: it keeps its id.
Store(ns) == FoldLeft(LAMBDA store, n : intern(store, NodeOf(n)), << >>, ns)

\* What a worker has of the bytes, if they are read to the end.
GraphOf(r) == [nodes |-> Store(r.got[2]), outputs |-> mark_outputs(r.got[3])]

Received(bytes) == GraphOf(deserialize(bytes))
=============================================================================
