--------------------------- MODULE AmbientWeight ---------------------------
(***************************************************************************)
(* The ambient weight of event contexts: threads that register variations  *)
(* on contexts of one Session and read the weights the contexts compose.   *)
(* A call of vary is a transaction under the Session's lock; a read of a   *)
(* weight takes that lock only for each look at the registry.              *)
(***************************************************************************)
EXTENDS AmbientComposition

CONSTANTS Names,        \* the nuisances
          Programs,     \* [threads, hand, calls, varies]: who runs, whether a label is built
                        \* by hand, the registrations a thread may ask for, and how many
          MaxReads,     \* bound: reads that compose
          ShiftBy, CentralBy, WeightBy     \* what a family multiplies into a value

NoLock == "free"

ASSUME ThreadsAssumption == \A p \in Programs : NoLock \notin p.threads

ASSUME CallsAssumption ==
  \A p \in Programs : \A c \in p.calls :
    /\ c.form \in {"shift", "weight", "loose"} /\ c.name \in Names
    /\ c.over \in {"w", "pt"} /\ c.placed \subseteq Names \ {c.name}
    /\ c.union \in BOOLEAN /\ c.clash \in BOOLEAN

VARIABLES program,     \* which of the programs runs
          registry,    \* the Session's points, their owners and the mint epoch
          lock,        \* who is in a transaction
          contexts,    \* the event contexts, in the order they were derived
          pool,        \* the containers, each with the family it was registered as
          pages,       \* container -> label -> the path two_level kept for it
          task,        \* what each thread is in the middle of
          returned,    \* ghost: the labels of the calls that returned
          varies, reads

vars == <<program, registry, lock, contexts, pool, pages, task, returned, varies, reads>>

Idle == [step |-> "idle"]
NoMemo == [epoch |-> -1]
NoFamily == [name |-> "none"]

W == 2                                  \* the unvaried array a flat weight is computed on
HandLabel == <<"b", "jes">>

Scale(member, k) == [l \in DOMAIN member |-> Times(member[l], k)]
Container(c) == pool[c].members
Members(ids) == [i \in DOMAIN ids |-> Container(ids[i])]

\* every label a context carries: its ambient's and its collection's
context_labels(ctx) == ctx.recorded \cup DOMAIN ctx.pt

\* registries that nothing locks
Free_Unlocked(t) == TRUE

\* the lock is free to take
Free(t) == lock = NoLock

-----------------------------------------------------------------------------
(* The memo of a context's composed weight. *)

current(ctx) == ctx.memo.epoch = registry.epoch
answered(ctx) == current(ctx) /\ ctx.memo.covers = Len(ctx.factors)
foldable(ctx) == current(ctx) /\ ctx.memo.settled

ambient_operands(ctx) ==
  IF foldable(ctx)
  THEN <<ctx.memo.composed>> \o SubSeq(ctx.factors, ctx.memo.covers + 1, Len(ctx.factors))
  ELSE ctx.factors

-----------------------------------------------------------------------------
(* Pages: the walk of two_level over operands, and whether it settled. *)

path_of(c, l) ==
  IF l \in DOMAIN pages[c] THEN pages[c][l] ELSE two_level(Container(c), l, registry)

\* a page after the walk over the labels; known is what the container already keeps
kept(members, known, labels) ==
  Updated(known, [l \in {k \in labels : settled(members, k, registry)} |->
                    two_level(members, l, registry)])

all_settled(operands, labels) ==
  \A i \in DOMAIN operands : labels \subseteq DOMAIN pages[operands[i]]

-----------------------------------------------------------------------------
(* vary: begin, gather and bind, then check and derive, or undo. What the
   weight form may fold onto is read before the call mints anything.       *)

Begin(t) ==
  /\ task[t] = Idle /\ Free(t) /\ varies < program.varies
  /\ \E call \in program.calls, c \in DOMAIN contexts :
       task' = [task EXCEPT ![t] =
                  [step |-> "gather", call |-> call, ctx |-> c, saved |-> registry]]
  /\ lock' = t /\ varies' = varies + 1
  /\ UNCHANGED <<program, registry, contexts, pool, pages, returned, reads>>

\* the array a call's members are computed from
operand(call, ctx) == IF call.over = "pt" THEN ctx.pt ELSE Only(Nominal, W)

carriers(call, ctx) == IF call.form = "loose" THEN DOMAIN ctx.pt ELSE context_labels(ctx)
inherited(call, ctx) == IF call.form = "weight" THEN ctx.families ELSE ctx.shifts

Gather(t) ==
  /\ task[t].step = "gather"
  /\ LET call == task[t].call
         ctx  == contexts[task[t].ctx]
         g    == gather(call, DOMAIN operand(call, ctx), carriers(call, ctx),
                        inherited(call, ctx), registry)
         m    == mint(g, call.name, registry)
         own  == {DefaultLabel(call.name)} \cup {JointLabel(call.name, l) : l \in g.joints}
         carried == call.form # "weight" /\ own \cap DOMAIN ctx.pt # {}
     IN  /\ registry' = m.registry
         /\ task' = [task EXCEPT ![t] =
                       [step |-> IF m.ok /\ ~carried THEN "derive" ELSE "undo", call |-> call,
                        ctx |-> @.ctx, saved |-> @.saved, joints |-> g.joints, default |-> g.default,
                        base |-> ambient_operands(ctx), foldable |-> foldable(ctx)]]
  /\ UNCHANGED <<program, lock, contexts, pool, pages, returned, varies, reads>>

Minted(t) == {DefaultLabel(task[t].call.name)}
               \cup {JointLabel(task[t].call.name, l) : l \in task[t].joints}

Return(t) ==
  /\ lock' = NoLock
  /\ returned' = returned \cup Minted(t)
  /\ task' = [task EXCEPT ![t] = Idle]
  /\ UNCHANGED <<program, registry, varies, reads>>

\* the loose form returns a container nothing in the Session holds
Loose(t) ==
  /\ task[t].step = "derive" /\ task[t].call.form = "loose"
  /\ Return(t)
  /\ UNCHANGED <<contexts, pool, pages>>

\* the shift form varies the collection; the ambient's record is copied, its memo with it
Shift(t) ==
  /\ task[t].step = "derive" /\ task[t].call.form = "shift"
  /\ LET call   == task[t].call
         ctx    == contexts[task[t].ctx]
         member == Scale(ctx.pt, ShiftBy[call.name])
         label  == DefaultLabel(call.name)
         joined == [j \in Minted(t) \ {label} |-> member[Tail(j)]]
         own    == Only(label, member[key_for(DOMAIN member, label, registry)])
     IN  contexts' = Append(contexts,
                       [ctx EXCEPT !.pt = Updated(@, Updated(joined, own)), !.shifts = @ \cup {call.name}])
  /\ Return(t)
  /\ UNCHANGED <<pool, pages>>

\* the factor the weight form registers
factor(call, ctx, joints) ==
  LET central == Scale(operand(call, ctx), CentralBy[call.name])
      member  == Scale(central, WeightBy[call.name])
      shifted == [j \in {JointLabel(call.name, l) : l \in joints} |-> Only(Nominal, member[Tail(j)])]
  IN  Updated(shifted, Updated(Only(DefaultLabel(call.name), member), Only(Nominal, central)))

\* ghost: what the family means, whatever the labels it minted
family(call, ctx, point) ==
  [name |-> call.name, at |-> point, over |-> call.over, shifts |-> ctx.shifts]

(* The operands are the composed weight and the new factor where the memo may
   be folded onto, the factors otherwise; the forms walk over them fills their
   pages and may refuse a clash. A call that returns leaves the folded memo.   *)
Weigh(t) ==
  /\ task[t].step = "derive" /\ task[t].call.form = "weight"
  /\ LET call     == task[t].call
         ctx      == contexts[task[t].ctx]
         new      == factor(call, ctx, task[t].joints)
         id       == Len(pool) + 1
         base     == task[t].base
         all      == Append(ctx.factors, id)
         folds    == task[t].foldable /\ resolvable(Members(base), DOMAIN new, registry)
         operands == IF folds THEN Append(base, id) ELSE all
         labels   == context_labels(ctx) \cup DOMAIN new
         withNew  == Append(pool, [members |-> new, family |-> 
                              family(call, ctx, task[t].default[DefaultLabel(call.name)])])
         walked   == [c \in 1 .. id |->
                        LET known == IF c = id THEN << >> ELSE pages[c]
                        IN  IF \E i \in DOMAIN operands : operands[i] = c
                            THEN kept(withNew[c].members, known, labels) ELSE known]
         path(c, l) == IF l \in DOMAIN walked[c] THEN walked[c][l]
                       ELSE two_level(withNew[c].members, l, registry)
         applied  == [l \in labels |-> [i \in DOMAIN operands |->
                        at_path(withNew[operands[i]].members, path(operands[i], l))]]
         composed == [l \in labels |-> Only(Nominal, product_over(applied, labels)[l])]
         child    == [ctx EXCEPT !.factors = all, !.recorded = labels, !.memo = NoMemo,
                                 !.families = @ \cup {call.name}]
         memo     == [epoch |-> registry.epoch, covers |-> Len(all), composed |-> id + 1,
                      settled |-> \A i \in DOMAIN operands : labels \subseteq DOMAIN walked[operands[i]]]
     IN  IF call.clash /\ ctx.factors # << >>
         THEN /\ pages' = SubSeq(walked, 1, id - 1)
              /\ task' = [task EXCEPT ![t].step = "undo"]
              /\ UNCHANGED <<program, registry, lock, contexts, pool, returned, varies, reads>>
         ELSE /\ Return(t)
              /\ IF folds
                 THEN /\ contexts' = Append(contexts, [child EXCEPT !.memo = memo])
                      /\ pool' = Append(withNew, [members |-> composed, family |-> NoFamily])
                      /\ pages' = Append(walked, << >>)
                 ELSE /\ contexts' = Append(contexts, child)
                      /\ pool' = withNew
                      /\ pages' = walked

\* a registration that raised leaves none of its bindings, and moves the epoch
undone(saved, r) == [saved EXCEPT !.epoch = r.epoch + 1]
forgotten(p) == [c \in DOMAIN p |-> << >>]

Undo(t) ==
  /\ task[t].step = "undo"
  /\ registry' = undone(task[t].saved, registry)
  /\ pages' = forgotten(pages)
  /\ lock' = NoLock
  /\ task' = [task EXCEPT ![t] = Idle]
  /\ UNCHANGED <<program, contexts, pool, returned, varies, reads>>

-----------------------------------------------------------------------------
(* A container built by hand puts a label on the collection that no call of
   vary has registered.                                                    *)
BuildByHand ==
  /\ program.hand /\ lock = NoLock
  /\ \E c \in DOMAIN contexts :
       LET ctx == contexts[c]
       IN  /\ ctx.shifts = {"jes"} /\ ~ctx.hand /\ HandLabel \notin DOMAIN ctx.pt
           /\ contexts' = Append(contexts,
                [ctx EXCEPT !.hand = TRUE,
                   !.pt = Updated(@, Only(HandLabel, Times(@[<<"jes">>], ShiftBy["b"])))])
  /\ \A c \in DOMAIN contexts : ~contexts[c].hand
  /\ UNCHANGED <<program, registry, lock, pool, pages, task, returned, varies, reads>>

-----------------------------------------------------------------------------
(* Reading a weight: a memo that stands answers at once and changes nothing;
   otherwise every factor is resolved at every label, one look at a time.   *)

BeginRead(t) ==
  /\ task[t] = Idle /\ Free(t) /\ reads < MaxReads
  /\ \E c \in DOMAIN contexts :
       LET ctx == contexts[c]
       IN  /\ ctx.factors # << >> /\ ~answered(ctx)
           /\ task' = [task EXCEPT ![t] =
                [step |-> "resolve", ctx |-> c, epoch |-> registry.epoch,
                 operands |-> ambient_operands(ctx),
                 todo |-> (DOMAIN ambient_operands(ctx)) \X ctx.recorded, got |-> << >>]]
  /\ reads' = reads + 1
  /\ UNCHANGED <<program, registry, lock, contexts, pool, pages, returned, varies>>

Next1(todo) == CHOOSE p \in todo : TRUE
\* the members carry the label outright: no look at the registry
carriedOutright(c, l) ==
  l \in DOMAIN Container(c) /\ (l \in DOMAIN Container(c)[l] \/ DOMAIN Container(c)[l] = {Nominal})

Resolve(t) ==
  /\ task[t].step = "resolve" /\ task[t].todo # {} /\ Free(t)
  /\ LET p == Next1(task[t].todo)
         c == task[t].operands[p[1]]
         l == p[2]
         path == path_of(c, l)
         got == Updated(task[t].got, Only(p, at_path(Container(c), path)))
     IN  IF l \in DOMAIN pages[c] \/ carriedOutright(c, l)
         THEN /\ pages' = [pages EXCEPT ![c] = Updated(@, Only(l, path))]
              /\ task' = [task EXCEPT ![t].todo = @ \ {p}, ![t].got = got]
         ELSE /\ task' = [task EXCEPT ![t] = [step |-> "keep", ctx |-> @.ctx, epoch |-> @.epoch,
                            operands |-> @.operands, todo |-> @.todo, got |-> got, path |-> path]]
              /\ UNCHANGED pages
  /\ UNCHANGED <<program, registry, lock, contexts, pool, returned, varies, reads>>

\* the path is kept where the registry, read again, says no later mint can move it
Keep(t) ==
  /\ task[t].step = "keep" /\ Free(t)
  /\ LET p == Next1(task[t].todo)
         c == task[t].operands[p[1]]
         l == p[2]
     IN  /\ pages' = IF settled(Container(c), l, registry)
                     THEN [pages EXCEPT ![c] = Updated(@, Only(l, task[t].path))] ELSE pages
         /\ task' = [task EXCEPT ![t] = [step |-> "resolve", ctx |-> @.ctx, epoch |-> @.epoch,
                       operands |-> @.operands, todo |-> @.todo \ {p}, got |-> @.got]]
  /\ UNCHANGED <<program, registry, lock, contexts, pool, returned, varies, reads>>

EndRead(t) ==
  /\ task[t].step = "resolve" /\ task[t].todo = {} /\ Free(t)
  /\ LET ctx == contexts[task[t].ctx]
         operands == task[t].operands
         applied == [l \in ctx.recorded |-> [i \in DOMAIN operands |-> task[t].got[<<i, l>>]]]
         composed == product_over(applied, ctx.recorded)
     IN  /\ pool' = Append(pool, [members |-> [l \in ctx.recorded |-> Only(Nominal, composed[l])],
                                  family |-> NoFamily])
         /\ contexts' = [contexts EXCEPT ![task[t].ctx].memo =
              [epoch |-> task[t].epoch, covers |-> Len(ctx.factors), composed |-> Len(pool) + 1,
               settled |-> all_settled(operands, ctx.recorded)]]
  /\ pages' = Append(pages, << >>)
  /\ task' = [task EXCEPT ![t] = Idle]
  /\ UNCHANGED <<program, registry, lock, returned, varies, reads>>

-----------------------------------------------------------------------------
Init ==
  /\ program \in Programs
  /\ registry = NewRegistry /\ lock = NoLock
  /\ contexts = <<[pt |-> Only(Nominal, 1), shifts |-> {}, hand |-> FALSE, factors |-> << >>,
                   recorded |-> {Nominal}, families |-> {}, memo |-> NoMemo]>>
  /\ pool = << >> /\ pages = << >>
  /\ task = [t \in program.threads |-> Idle]
  /\ returned = {} /\ varies = 0 /\ reads = 0

Next ==
  \/ BuildByHand
  \/ \E t \in program.threads :
       \/ Begin(t) \/ Gather(t) \/ Loose(t) \/ Shift(t) \/ Weigh(t) \/ Undo(t)
       \/ BeginRead(t) \/ Resolve(t) \/ Keep(t) \/ EndRead(t)

Spec == Init /\ [][Next]_vars

-----------------------------------------------------------------------------
Working(t) == task[t].step \in {"gather", "derive", "undo"}
Quiet == \A t \in program.threads : ~Working(t)
(* One label names one universe and one universe wears one label: the
   registry's two maps are each other's inverse, also while a call that will
   be undone is under way (`_check_unique`, `bind`).                       *)
OneUniverseOneLabel ==
  /\ \A l \in DOMAIN registry.points :
       /\ registry.points[l] \in DOMAIN registry.owners
       /\ registry.owners[registry.points[l]] = l
  /\ \A p \in DOMAIN registry.owners :
       /\ registry.owners[p] \in DOMAIN registry.points
       /\ registry.points[registry.owners[p]] = p

(* And between calls it is what the calls that returned have minted: a call
   that raised after it bound labels leaves none of them, and takes none of
   another thread's away (`transaction`).                                  *)
RegistryIsWhatReturned ==
  /\ OneUniverseOneLabel
  /\ Quiet => DOMAIN registry.points = returned

\* what the factors answer at a label, every resolution made afresh
Unmemoised(ctx, l) ==
  ProductOver([i \in DOMAIN ctx.factors |-> resolved(Container(ctx.factors[i]), l, registry)],
              DOMAIN ctx.factors)

(* A weight the memo answers with is the product of what every registered
   factor resolves to under the registry as it stands, whatever was folded,
   memoised, minted or undone before (`weight_of`, `fold`, `two_level`).   *)
WeightIsFresh ==
  \A c \in DOMAIN contexts :
    LET ctx == contexts[c]
    IN  Quiet /\ ctx.factors # << >> /\ answered(ctx) =>
          \A l \in ctx.recorded :
            Container(ctx.memo.composed)[l][Nominal] = Unmemoised(ctx, l)

\* what a family contributes at a point of nuisance space
Meaning(f, p) ==
  LET shifted == ProductOver(ShiftBy, f.shifts \cap p)
      base    == IF f.over = "w" THEN W ELSE shifted
      own     == IF f.at \subseteq p THEN WeightBy[f.name] ELSE 1
  IN  Times(Times(base, CentralBy[f.name]), own)

(* The weight in a registered universe is every family at the point the
   universe stands at: a joint reads both families, a placed universe the
   ones its point names, and a label a factor does not carry falls to the
   point's restriction and never to another universe (`_key_for`). A member
   put at a label by hand is what its author made it.                      *)
UniverseIsItsPoint ==
  Quiet =>
    \A c \in {k \in DOMAIN contexts : ~contexts[k].hand} :
    \A l \in contexts[c].recorded \cap DOMAIN registry.points :
      LET ctx == contexts[c]
          meanings == [i \in DOMAIN ctx.factors |->
                         Meaning(pool[ctx.factors[i]].family, registry.points[l])]
      IN  Unmemoised(ctx, l) = ProductOver(meanings, DOMAIN meanings)
=============================================================================
