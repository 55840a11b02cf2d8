------------------------ MODULE AmbientWeightProofs ------------------------
(***************************************************************************)
(* For any number of threads, whatever variations they ask for: a call of  *)
(* vary takes effect on the registry whole or not at all.                  *)
(***************************************************************************)
EXTENDS AmbientWeight, TLAPS

\* The registry's two maps are each other's inverse.
Inverse(r) ==
  /\ \A l \in DOMAIN r.points : r.points[l] \in DOMAIN r.owners /\ r.owners[r.points[l]] = l
  /\ \A p \in DOMAIN r.owners : r.owners[p] \in DOMAIN r.points /\ r.points[r.owners[p]] = p

Registry(r) == r = [points |-> r.points, owners |-> r.owners, epoch |-> r.epoch]

\* Labels that pass the check can be bound.
LEMMA BindKeepsInverse ==
  ASSUME NEW r, NEW minted, Inverse(r), check_unique(minted, r)
  PROVE  /\ Inverse(bind(r, minted)) /\ Registry(bind(r, minted))
         /\ DOMAIN bind(r, minted).points = DOMAIN r.points \cup DOMAIN minted
<1> DEFINE worn == Wearers(minted)
<1> DEFINE points == Updated(r.points, minted)
<1> DEFINE owners == Updated(r.owners, worn)
<1>1. /\ bind(r, minted).points = points /\ bind(r, minted).owners = owners
      /\ Registry(bind(r, minted))
  BY DEF bind, Registry
<1>2. /\ DOMAIN points = DOMAIN r.points \cup DOMAIN minted
      /\ \A l \in DOMAIN minted : points[l] = minted[l]
      /\ \A l \in DOMAIN r.points \ DOMAIN minted : points[l] = r.points[l]
  BY DEF Updated
<1>3. /\ DOMAIN worn = {minted[l] : l \in DOMAIN minted}
      /\ \A l \in DOMAIN minted : worn[minted[l]] = l
  <2>1. ASSUME NEW l \in DOMAIN minted PROVE worn[minted[l]] = l
    <3>1. worn[minted[l]] = CHOOSE k \in DOMAIN minted : minted[k] = minted[l]
      BY DEF Wearers
    <3>2. \A k \in DOMAIN minted : minted[k] = minted[l] => k = l
      BY DEF check_unique
    <3>3. QED
      BY <3>1, <3>2
  <2>2. QED
    BY <2>1 DEF Wearers
<1>4. /\ DOMAIN owners = DOMAIN r.owners \cup DOMAIN worn
      /\ \A p \in DOMAIN worn : owners[p] = worn[p]
      /\ \A p \in DOMAIN r.owners \ DOMAIN worn : owners[p] = r.owners[p]
  BY DEF Updated
<1>5. ASSUME NEW l \in DOMAIN points
      PROVE  points[l] \in DOMAIN owners /\ owners[points[l]] = l
  <2>1. CASE l \in DOMAIN minted
    BY <1>2, <1>3, <1>4, <2>1
  <2>2. CASE l \notin DOMAIN minted
    <3>1. /\ l \in DOMAIN r.points /\ points[l] = r.points[l]
          /\ r.points[l] \in DOMAIN r.owners /\ r.owners[r.points[l]] = l
      BY <1>2, <2>2 DEF Inverse
    <3>2. r.points[l] \notin DOMAIN worn
      <4>1. ASSUME NEW k \in DOMAIN minted, minted[k] = r.points[l] PROVE FALSE
        BY <2>2, <3>1, <4>1 DEF check_unique
      <4>2. QED
        BY <1>3, <4>1
    <3>3. QED
      BY <1>4, <3>1, <3>2
  <2>3. QED
    BY <2>1, <2>2
<1>6. ASSUME NEW p \in DOMAIN owners
      PROVE  owners[p] \in DOMAIN points /\ points[owners[p]] = p
  <2>1. CASE p \in DOMAIN worn
    BY <1>2, <1>3, <1>4, <2>1
  <2>2. CASE p \notin DOMAIN worn
    <3>1. /\ p \in DOMAIN r.owners /\ owners[p] = r.owners[p]
          /\ r.owners[p] \in DOMAIN r.points /\ r.points[r.owners[p]] = p
      BY <1>4, <2>2 DEF Inverse
    <3>2. r.owners[p] \notin DOMAIN minted
      <4>1. ASSUME r.owners[p] \in DOMAIN minted PROVE FALSE
        BY <1>3, <2>2, <3>1, <4>1 DEF check_unique
      <4>2. QED
        BY <4>1
    <3>3. QED
      BY <1>2, <3>1, <3>2
  <2>3. QED
    BY <2>1, <2>2
<1>7. QED
  BY <1>1, <1>2, <1>5, <1>6 DEF Inverse

\* What a call of family n that is let through binds: its default label and its joints.
Binds(n, joints) == {DefaultLabel(n)} \cup {JointLabel(n, l) : l \in joints}

LEMMA MintKeepsInverse ==
  ASSUME NEW r, NEW g, NEW n, Inverse(r), Registry(r), DOMAIN g.default = {DefaultLabel(n)}
  PROVE  LET m == mint(g, n, r)
         IN  /\ Inverse(m.registry) /\ Registry(m.registry)
             /\ m.ok => DOMAIN m.registry.points = DOMAIN r.points \cup Binds(n, g.joints)
<1> DEFINE first == bind(r, g.default)
<1> DEFINE more  == joint_points(n, g.joints, r)
<1>1. DOMAIN more = {JointLabel(n, l) : l \in g.joints}
  BY DEF joint_points
<1>2. CASE g.refused \/ ~check_unique(g.default, r)
  BY <1>2 DEF mint
<1>3. CASE ~(g.refused \/ ~check_unique(g.default, r))
  <2>1. /\ Inverse(first) /\ Registry(first)
        /\ DOMAIN first.points = DOMAIN r.points \cup {DefaultLabel(n)}
    BY <1>3, BindKeepsInverse
  <2>2. CASE g.joints = {}
    <3>1. Binds(n, g.joints) = {DefaultLabel(n)}
      BY <2>2 DEF Binds
    <3>2. mint(g, n, r) = [ok |-> TRUE, registry |-> first]
      BY <1>3, <2>2 DEF mint
    <3>3. QED
      BY <2>1, <3>1, <3>2
  <2>3. CASE g.joints # {} /\ ~check_unique(more, first)
    <3>1. mint(g, n, r) = [ok |-> FALSE, registry |-> first]
      BY <1>3, <2>3 DEF mint
    <3>2. QED
      BY <2>1, <3>1
  <2>4. CASE g.joints # {} /\ check_unique(more, first)
    <3>1. mint(g, n, r) = [ok |-> TRUE, registry |-> bind(first, more)]
      BY <1>3, <2>4 DEF mint
    <3>2. /\ Inverse(bind(first, more)) /\ Registry(bind(first, more))
          /\ DOMAIN bind(first, more).points = DOMAIN first.points \cup DOMAIN more
      BY <2>1, <2>4, BindKeepsInverse
    <3>3. QED
      BY <1>1, <2>1, <3>1, <3>2 DEF Binds
  <2>5. QED
    BY <2>2, <2>3, <2>4
<1>4. QED
  BY <1>2, <1>3

(***************************************************************************)
(* The lock is held for the whole of a call, and by nobody else.           *)
(***************************************************************************)

TasksOK ==
  /\ program \in Programs /\ NoLock \notin program.threads
  /\ DOMAIN task = program.threads
  /\ \A t \in program.threads : "step" \in DOMAIN task[t]

LockOK ==
  /\ lock \in program.threads \cup {NoLock}
  /\ \A t \in program.threads : Working(t) <=> lock = t

\* What a call under way can be undone to, and how far it has come from there.
Saves(t) ==
  LET saved == task[t].saved
  IN  /\ "saved" \in DOMAIN task[t]
      /\ Inverse(saved) /\ Registry(saved) /\ DOMAIN saved.points = returned
      /\ task[t].step = "gather" => registry = saved
      /\ task[t].step = "derive" => DOMAIN registry.points = returned \cup Minted(t)

IInv ==
  /\ TasksOK /\ LockOK
  /\ Inverse(registry) /\ Registry(registry)
  /\ \A t \in program.threads : Working(t) => Saves(t)
  /\ Quiet => DOMAIN registry.points = returned

LEMMA InitIInv == ThreadsAssumption /\ Init => IInv
<1> SUFFICES ASSUME ThreadsAssumption, Init PROVE IInv
  OBVIOUS
<1>1. \A t \in program.threads : task[t] = Idle /\ ~Working(t)
  BY DEF Init, Idle, Working
<1>2. TasksOK /\ LockOK
  BY <1>1 DEF Init, TasksOK, LockOK, Idle, ThreadsAssumption
<1>3. registry.points = << >> /\ registry.owners = << >> /\ Registry(registry)
  BY DEF Init, NewRegistry, Registry
<1>4. Inverse(registry) /\ DOMAIN registry.points = returned
  BY <1>3 DEF Init, Inverse
<1>5. QED
  BY <1>1, <1>2, <1>3, <1>4 DEF IInv

\* A step outside a call moves neither the registry nor the lock.
LEMMA Reads ==
  ASSUME IInv, UNCHANGED <<program, registry, lock, returned>>,
         NEW t \in program.threads, ~Working(t),
         NEW new, "step" \in DOMAIN new, new.step \notin {"gather", "derive", "undo"},
         task' = [task EXCEPT ![t] = new]
  PROVE  IInv'
<1>1. /\ DOMAIN task' = program.threads /\ task'[t] = new
      /\ \A q \in program.threads \ {t} : task'[q] = task[q]
  BY DEF IInv, TasksOK
<1>2. TasksOK'
  BY <1>1 DEF IInv, TasksOK
<1>3. \A q \in program.threads : Working(q)' <=> Working(q)
  BY <1>1 DEF Working
<1>4. LockOK'
  BY <1>3 DEF IInv, LockOK
<1>5. ASSUME NEW q \in program.threads, Working(q)' PROVE Saves(q)'
  BY <1>1, <1>3, <1>5 DEF IInv, Saves, Minted
<1>6. Quiet' => DOMAIN registry'.points = returned'
  BY <1>3 DEF IInv, Quiet
<1>7. QED
  BY <1>2, <1>4, <1>5, <1>6 DEF IInv, TasksOK, Inverse, Registry

Resolving(c, epoch, operands, todo, got) ==
  [step |-> "resolve", ctx |-> c, epoch |-> epoch, operands |-> operands, todo |-> todo, got |-> got]

LEMMA ResolvingStep ==
  ASSUME NEW c, NEW epoch, NEW operands, NEW todo, NEW got
  PROVE  LET new == Resolving(c, epoch, operands, todo, got)
         IN  "step" \in DOMAIN new /\ new.step = "resolve"
BY DEF Resolving

LEMMA NextReads ==
  ASSUME IInv, NEW t \in program.threads,
         BeginRead(t) \/ Resolve(t) \/ Keep(t) \/ EndRead(t)
  PROVE  IInv'
<1>1. "step" \in DOMAIN task[t]
  BY DEF IInv, TasksOK
<1>2. CASE BeginRead(t)
  <2>1. UNCHANGED <<program, registry, lock, returned>> /\ ~Working(t)
    BY <1>2 DEF BeginRead, Working, Idle
  <2> DEFINE read(c) == ambient_operands(contexts[c])
  <2>2. PICK c \in DOMAIN contexts :
          task' = [task EXCEPT ![t] = Resolving(c, registry.epoch, read(c),
                                        (DOMAIN read(c)) \X contexts[c].recorded, << >>)]
    BY <1>2 DEF BeginRead, Resolving
  <2>3. QED
    BY <2>1, <2>2, ResolvingStep, Reads
<1>3. CASE Resolve(t)
  <2>1. UNCHANGED <<program, registry, lock, returned>> /\ ~Working(t)
    BY <1>3 DEF Resolve, Working
  <2>2. PICK new : /\ task' = [task EXCEPT ![t] = new]
                   /\ "step" \in DOMAIN new /\ new.step \in {"keep", "resolve"}
    <3>1. task[t].step = "resolve"
      BY <1>3 DEF Resolve
    <3> DEFINE pair == Next1(task[t].todo)
               path == path_of(task[t].operands[pair[1]], pair[2])
               todo == task[t].todo \ {pair}
               got  == Updated(task[t].got,
                               Only(pair, at_path(Container(task[t].operands[pair[1]]), path)))
               on   == [task[t] EXCEPT !.todo = todo, !.got = got]
               held == [step |-> "keep", ctx |-> task[t].ctx, epoch |-> task[t].epoch,
                        operands |-> task[t].operands, todo |-> task[t].todo, got |-> got,
                        path |-> path]
    <3>2. task' = [task EXCEPT ![t] = on] \/ task' = [task EXCEPT ![t] = held]
      BY <1>3 DEF Resolve
    <3>3. "step" \in DOMAIN on /\ on.step = "resolve"
      BY ONLY <1>1, <3>1
    <3>4. "step" \in DOMAIN held /\ held.step = "keep"
      OBVIOUS
    <3> HIDE DEF on, held
    <3>5. QED
      BY ONLY <3>2, <3>3, <3>4
  <2>3. QED
    BY <2>1, <2>2, Reads
<1>4. CASE Keep(t)
  <2>1. UNCHANGED <<program, registry, lock, returned>> /\ ~Working(t)
    BY <1>4 DEF Keep, Working
  <2>2. PICK c, epoch, operands, todo, got :
          task' = [task EXCEPT ![t] = Resolving(c, epoch, operands, todo, got)]
    BY <1>4 DEF Keep, Resolving
  <2>3. QED
    BY <2>1, <2>2, ResolvingStep, Reads
<1>5. CASE EndRead(t)
  <2>1. UNCHANGED <<program, registry, lock, returned>> /\ ~Working(t)
    BY <1>5 DEF EndRead, Working
  <2>2. task' = [task EXCEPT ![t] = Idle]
    BY <1>5 DEF EndRead
  <2>3. "step" \in DOMAIN Idle /\ Idle.step = "idle"
    BY DEF Idle
  <2>4. QED
    BY <2>1, <2>2, <2>3, Reads
<1>6. QED
  BY <1>2, <1>3, <1>4, <1>5

(***************************************************************************)
(* The steps of a call.                                                    *)
(***************************************************************************)

\* What Working(t) says of the others: they are not.
LEMMA OneAtATime ==
  ASSUME IInv, NEW t \in program.threads, Working(t)
  PROVE  /\ lock = t
         /\ \A q \in program.threads \ {t} : ~Working(q)
BY DEF IInv, LockOK

\* A step of the call under way, which may change the registry.
LEMMA Works ==
  ASSUME IInv, UNCHANGED <<program, returned>>,
         NEW t \in program.threads, \A q \in program.threads \ {t} : ~Working(q),
         NEW new, "step" \in DOMAIN new, new.step \in {"gather", "derive", "undo"},
         task' = [task EXCEPT ![t] = new], lock' = t,
         Inverse(registry'), Registry(registry'), Saves(t)'
  PROVE  IInv'
<1>1. /\ DOMAIN task' = program.threads /\ task'[t] = new
      /\ \A q \in program.threads \ {t} : task'[q] = task[q]
  BY DEF IInv, TasksOK
<1>2. TasksOK'
  BY <1>1 DEF IInv, TasksOK
<1>3. Working(t)' /\ \A q \in program.threads \ {t} : ~Working(q)'
  BY <1>1 DEF Working
<1>4. LockOK' /\ ~Quiet'
  BY <1>3 DEF LockOK, Quiet
<1>5. (\A q \in program.threads : Working(q) => Saves(q))'
  BY <1>3
<1>6. (Inverse(registry) /\ Registry(registry))'
  BY DEF Inverse, Registry
<1>7. QED
  BY <1>2, <1>4, <1>5, <1>6 DEF IInv

LEMMA NextBegin == ASSUME IInv, NEW t \in program.threads, Begin(t) PROVE IInv'
<1>1. UNCHANGED <<program, registry, returned>> /\ lock = NoLock /\ lock' = t
  BY DEF Begin, Free
<1>2. \A q \in program.threads : ~Working(q)
  BY <1>1 DEF IInv, LockOK, TasksOK
<1>3. /\ DOMAIN registry.points = returned /\ Inverse(registry) /\ Registry(registry)
      /\ DOMAIN task = program.threads
  BY <1>2 DEF IInv, Quiet, TasksOK
<1>4. PICK call, c :
        task' = [task EXCEPT ![t] = [step |-> "gather", call |-> call, ctx |-> c, saved |-> registry]]
  BY DEF Begin
<1> DEFINE new == [step |-> "gather", call |-> call, ctx |-> c, saved |-> registry]
<1>5. /\ "step" \in DOMAIN new /\ new.step = "gather"
      /\ "saved" \in DOMAIN new /\ new.saved = registry
  OBVIOUS
<1>6. task'[t] = new
  BY <1>3, <1>4
<1>7. Saves(t)'
  BY <1>1, <1>3, <1>5, <1>6 DEF Saves, Inverse, Registry
<1>8. QED
  BY <1>1, <1>2, <1>3, <1>4, <1>5, <1>7, Works

LEMMA GatherDefault ==
  ASSUME NEW call, NEW member, NEW carried, NEW past, NEW r
  PROVE  DOMAIN gather(call, member, carried, past, r).default = {DefaultLabel(call.name)}
<1>1. PICK point :
        gather(call, member, carried, past, r).default = Only(DefaultLabel(call.name), point)
  BY DEF gather
<1>2. QED
  BY <1>1 DEF Only

LEMMA NextGather == ASSUME IInv, NEW t \in program.threads, Gather(t) PROVE IInv'
<1> DEFINE call == task[t].call
<1>1. UNCHANGED <<program, lock, returned>> /\ Working(t) /\ task[t].step = "gather"
  BY DEF Gather, Working
<1>2. lock = t /\ \A q \in program.threads \ {t} : ~Working(q)
  BY <1>1, OneAtATime
<1>3. /\ Saves(t) /\ registry = task[t].saved
      /\ Inverse(registry) /\ Registry(registry) /\ DOMAIN task = program.threads
  BY <1>1 DEF IInv, Saves, TasksOK
<1>4. PICK g, step, base, folds, ctx, m :
        /\ \E member, carried, past : g = gather(call, member, carried, past, registry)
        /\ m = mint(g, call.name, registry)
        /\ registry' = m.registry
        /\ step = IF m.ok THEN step ELSE "undo"
        /\ step \in {"derive", "undo"}
        /\ task' = [task EXCEPT ![t] =
             [step |-> step, call |-> call, ctx |-> ctx, saved |-> task[t].saved,
              joints |-> g.joints, default |-> g.default, base |-> base, foldable |-> folds]]
  BY DEF Gather
<1>5. DOMAIN g.default = {DefaultLabel(call.name)}
  BY <1>4, GatherDefault
<1>6. /\ Inverse(registry') /\ Registry(registry')
      /\ m.ok => DOMAIN registry'.points = DOMAIN registry.points \cup Binds(call.name, g.joints)
  BY <1>3, <1>4, <1>5, MintKeepsInverse
<1> DEFINE new == [step |-> step, call |-> call, ctx |-> ctx, saved |-> task[t].saved,
                   joints |-> g.joints, default |-> g.default, base |-> base, foldable |-> folds]
<1>7. /\ "step" \in DOMAIN new /\ new.step = step /\ "saved" \in DOMAIN new
      /\ new.saved = task[t].saved /\ new.call = call /\ new.joints = g.joints
  OBVIOUS
<1>8. task'[t] = new
  BY <1>3, <1>4
<1>9. Minted(t)' = Binds(call.name, g.joints)
  BY <1>7, <1>8 DEF Minted, Binds
<1>10. Saves(t)'
  <2>1. task'[t].saved = task[t].saved /\ task'[t].step = step /\ "saved" \in DOMAIN task'[t]
    BY <1>7, <1>8
  <2>2. returned' = returned /\ DOMAIN registry.points = returned /\ step # "gather"
    BY <1>1, <1>3, <1>4 DEF Saves
  <2>3. step = "derive" => DOMAIN registry'.points = returned' \cup Minted(t)'
    BY <1>4, <1>6, <1>9, <2>2
  <2>4. /\ Inverse(task[t].saved) /\ Registry(task[t].saved)
        /\ DOMAIN task[t].saved.points = returned
    BY <1>3 DEF Saves
  <2>5. QED
    BY <2>1, <2>2, <2>3, <2>4 DEF Saves, Inverse, Registry
<1>11. QED
  BY <1>1, <1>2, <1>4, <1>6, <1>7, <1>10, Works

\* A call that returns leaves what it minted, and the lock.
LEMMA NextReturn ==
  ASSUME IInv, NEW t \in program.threads, task[t].step = "derive", Return(t)
  PROVE  IInv'
<1>1. /\ UNCHANGED <<program, registry>> /\ lock' = NoLock
      /\ returned' = returned \cup Minted(t) /\ task' = [task EXCEPT ![t] = Idle]
  BY DEF Return
<1>2. Working(t) /\ \A q \in program.threads \ {t} : ~Working(q)
  BY OneAtATime DEF Working
<1>3. DOMAIN registry.points = returned'
  BY <1>1, <1>2 DEF IInv, Saves
<1>4. /\ DOMAIN task' = program.threads /\ task'[t] = Idle
      /\ \A q \in program.threads \ {t} : task'[q] = task[q]
  BY <1>1 DEF IInv, TasksOK
<1>5. TasksOK'
  BY <1>1, <1>4 DEF IInv, TasksOK, Idle
<1>6. \A q \in program.threads : ~Working(q)'
  BY <1>2, <1>4 DEF Working, Idle
<1>7. LockOK'
  BY <1>1, <1>5, <1>6 DEF LockOK, TasksOK
<1>8. QED
  BY <1>1, <1>3, <1>5, <1>6, <1>7 DEF IInv, Inverse, Registry

\* A weight refused after its labels were bound is about to be undone.
LEMMA NextRefused ==
  ASSUME IInv, NEW t \in program.threads, task[t].step = "derive",
         UNCHANGED <<program, registry, lock, returned>>,
         task' = [task EXCEPT ![t].step = "undo"]
  PROVE  IInv'
<1>1. Working(t) /\ lock = t /\ \A q \in program.threads \ {t} : ~Working(q)
  BY OneAtATime DEF Working
<1>2. Saves(t) /\ DOMAIN task = program.threads /\ "step" \in DOMAIN task[t]
  BY <1>1 DEF IInv, TasksOK
<1> DEFINE new == [task[t] EXCEPT !.step = "undo"]
<1>3. DOMAIN new = DOMAIN task[t] /\ new.step = "undo"
  BY <1>2
<1>4. "saved" \in DOMAIN task[t] => new.saved = task[t].saved
  OBVIOUS
<1>5. task' = [task EXCEPT ![t] = new] /\ task'[t] = new
  BY <1>2
<1>6. Saves(t)'
  BY <1>2, <1>3, <1>4, <1>5 DEF Saves, Inverse, Registry
<1>7. QED
  BY <1>1, <1>2, <1>3, <1>5, <1>6, Works DEF IInv, Inverse, Registry

LEMMA NextDerive ==
  ASSUME IInv, NEW t \in program.threads, Loose(t) \/ Shift(t) \/ Weigh(t)
  PROVE  IInv'
<1>1. CASE Loose(t)
  BY <1>1, NextReturn DEF Loose
<1>2. CASE Shift(t)
  <2>1. task[t].step = "derive" /\ Return(t)
    BY <1>2 DEF Shift
  <2>2. QED
    BY <2>1, NextReturn
<1>3. CASE Weigh(t)
  <2>1. task[t].step = "derive"
    BY <1>3 DEF Weigh
  <2>2. \/ Return(t)
        \/ /\ task' = [task EXCEPT ![t].step = "undo"]
           /\ UNCHANGED <<program, registry, lock, returned>>
    BY <1>3 DEF Weigh
  <2>3. QED
    BY <2>1, <2>2, NextReturn, NextRefused
<1>4. QED
  BY <1>1, <1>2, <1>3

\* A call that raised leaves the registry it found, its number apart.
LEMMA NextUndo == ASSUME IInv, NEW t \in program.threads, Undo(t) PROVE IInv'
<1>1. /\ task[t].step = "undo" /\ registry' = undone(task[t].saved, registry)
      /\ lock' = NoLock /\ task' = [task EXCEPT ![t] = Idle] /\ UNCHANGED <<program, returned>>
  BY DEF Undo
<1>2. Working(t) /\ \A q \in program.threads \ {t} : ~Working(q)
  BY <1>1, OneAtATime DEF Working
<1>3. Saves(t)
  BY <1>2 DEF IInv
<1>4. PICK points, owners, epoch :
        task[t].saved = [points |-> points, owners |-> owners, epoch |-> epoch]
  BY <1>3 DEF Saves, Registry
<1>5. registry' = [points |-> points, owners |-> owners, epoch |-> registry.epoch + 1]
  BY <1>1, <1>4 DEF undone
<1>6. (Inverse(registry) /\ Registry(registry) /\ DOMAIN registry.points = returned)'
  <2>1. Inverse(task[t].saved) /\ DOMAIN task[t].saved.points = returned
    BY <1>3 DEF Saves
  <2>2. task[t].saved.points = points /\ task[t].saved.owners = owners
    BY <1>4
  <2>3. registry'.points = points /\ registry'.owners = owners /\ Registry(registry')
    BY <1>5 DEF Registry
  <2>4. QED
    BY <1>1, <2>1, <2>2, <2>3 DEF Inverse, Registry
<1>7. /\ DOMAIN task' = program.threads /\ task'[t] = Idle
      /\ \A q \in program.threads \ {t} : task'[q] = task[q]
  BY <1>1 DEF IInv, TasksOK
<1>8. TasksOK'
  BY <1>1, <1>7 DEF IInv, TasksOK, Idle
<1>9. \A q \in program.threads : ~Working(q)'
  BY <1>2, <1>7 DEF Working, Idle
<1>10. LockOK'
  BY <1>1, <1>8, <1>9 DEF LockOK, TasksOK
<1>11. QED
  BY <1>1, <1>6, <1>8, <1>9, <1>10 DEF IInv

LEMMA NextIInv == ASSUME IInv, [Next]_vars PROVE IInv'
<1>1. CASE BuildByHand \/ UNCHANGED vars
  <2>1. UNCHANGED <<program, registry, lock, task, returned>>
    BY <1>1 DEF BuildByHand, vars
  <2>2. (\A t \in program.threads : Working(t) => Saves(t))'
    BY <2>1 DEF IInv, Working, Saves, Minted, Inverse, Registry
  <2>3. TasksOK' /\ LockOK' /\ (Inverse(registry) /\ Registry(registry))'
    BY <2>1 DEF IInv, TasksOK, LockOK, Working, Inverse, Registry
  <2>4. (Quiet => DOMAIN registry.points = returned)'
    BY <2>1 DEF IInv, Quiet, Working
  <2>5. QED
    BY <2>2, <2>3, <2>4 DEF IInv
<1>2. ASSUME NEW t \in program.threads, Begin(t) PROVE IInv'
  BY <1>2, NextBegin
<1>3. ASSUME NEW t \in program.threads, Gather(t) PROVE IInv'
  BY <1>3, NextGather
<1>4. ASSUME NEW t \in program.threads, Loose(t) \/ Shift(t) \/ Weigh(t) PROVE IInv'
  BY <1>4, NextDerive
<1>5. ASSUME NEW t \in program.threads, Undo(t) PROVE IInv'
  BY <1>5, NextUndo
<1>6. ASSUME NEW t \in program.threads, BeginRead(t) \/ Resolve(t) \/ Keep(t) \/ EndRead(t)
      PROVE  IInv'
  BY <1>6, NextReads
<1>7. QED
  BY <1>1, <1>2, <1>3, <1>4, <1>5, <1>6 DEF Next

\* One label names one universe and one universe wears one label at every moment, and
\* between calls the labels are those of the calls that returned (`transaction`: "Hold
\* the lock for the body, and undo the body's registrations if it raises"), whatever
\* the calls are, whichever of their checks refuses them, and however many threads
\* register and read.
THEOREM WholeOrNot == Spec => []RegistryIsWhatReturned
<1>1. Init => IInv
  BY InitIInv, ThreadsAssumption
<1>2. IInv /\ [Next]_vars => IInv'
  BY NextIInv
<1>3. IInv => RegistryIsWhatReturned
  BY DEF IInv, Inverse, RegistryIsWhatReturned, OneUniverseOneLabel
<1>4. QED
  BY <1>1, <1>2, <1>3, PTL DEF Spec
=============================================================================
