--------------------------- MODULE ShuffleResume ---------------------------
(***************************************************************************)
(* run_shuffle_resumable (python/graphed/checkpoint/runner.py): a driver   *)
(* runs a plan's map stage, then a gather stage each task of which reads   *)
(* every map block, against a store at a URL.  Other drivers may do the    *)
(* same at the same time, in processes forked from one another or not, for *)
(* the same plan or another of the same analysis over other partitions.    *)
(***************************************************************************)
EXTENDS DurablePlan

CONSTANTS
  Procs,
  Writers,         \* writer tokens there can be: 1..k, in the order they sort
  Nobody,          \* the pid of a process that is gone
  Written,         \* name -> a plan; a driver is shipped its bytes
  Endpoints,       \* what a run may have bound: sets of service -> endpoint
  Variants(_),     \* the payloads a map task may produce of a partition
  NoBlob, Garbled,
  MaxRuns, MaxCrashes, MaxDamage

Plans == [name \in DOMAIN Written |-> from_bytes(to_bytes(Written[name]))]

ASSUME ShuffleAssumption ==
  /\ MaxRuns \in Nat /\ MaxCrashes \in Nat /\ MaxDamage \in Nat
  /\ IsFiniteSet(Writers) /\ Writers = 1..Cardinality(Writers)
  /\ Nobody \notin Procs
  /\ \A name \in DOMAIN Written : \A si \in DOMAIN Written[name].stages :
       \A task \in Range(Written[name].stages[si].tasks) : Made(task.partition)
  /\ \A name \in DOMAIN Plans :
       /\ Plans[name].stages \in Seq(Range(Plans[name].stages)) \ {<< >>}
       /\ \A si \in DOMAIN Plans[name].stages :
            /\ Plans[name].stages[si].tasks \in Seq(Range(Plans[name].stages[si].tasks)) \ {<< >>}
            \* plan_services: the services of every node
            /\ Plans[name].services = {} => resolve(Plans[name].stages[si].process).calls = {}
            \* a map, and only a map, reads no stage before it
            /\ Plans[name].stages[si].inputs = << >> <=> Plans[name].stages[si].kind = "map_write"
            /\ \A dep \in Range(Plans[name].stages[si].inputs) : dep \in 1..(si - 1)

(***************************************************************************)
(* Content hashes, by what the content is: a block of a stage's task, made *)
(* of a partition or of a list of blocks, and such a list.                 *)
(***************************************************************************)

Block(plan, stage, task, x) == << stage.kind, plan.ir, task.partition, x >>
Listing(ups)                == << "list", ups >>

Joined(lists, stage) ==
  FlattenSeq([k \in DOMAIN stage.inputs |-> lists[stage.inputs[k]]])

\* What a task may be handed: a list of the blocks of each stage it reads.
\* (lists: per stage before it, the lists there may be.)
Handed(lists, stage) ==
  LET reads == Range(stage.inputs)
  IN  {Joined(ups, stage) : ups \in {f \in [reads -> UNION {lists[dep] : dep \in reads}] :
                                      \A dep \in reads : f[dep] \in lists[dep]}}

BlocksOf(plan, stage, task, lists) ==
  {Block(plan, stage, task, x) :
     x \in IF stage.inputs = << >> THEN Variants(task.partition) ELSE Handed(lists, stage)}

ListsOf(plan, stage, lists) ==
  LET blocks == UNION {BlocksOf(plan, stage, t, lists) : t \in Range(stage.tasks)}
  IN {l \in [DOMAIN stage.tasks -> blocks] :
        \A i \in DOMAIN l : l[i] \in BlocksOf(plan, stage, stage.tasks[i], lists)}

\* Per stage of a plan, the lists of blocks it may come to.
PlanLists(plan) ==
  LET lists[si \in DOMAIN plan.stages] == ListsOf(plan, plan.stages[si], lists) IN lists

OwnLists == [name \in DOMAIN Written |-> PlanLists(Written[name])]

TaskIds ==
  UNION {UNION {{task_id(plan, si, t) : t \in Range(plan.stages[si].tasks)} :
                  si \in DOMAIN plan.stages} : plan \in Range(Written)}

Store == INSTANCE FsspecStore

VARIABLES
  store,    \* the blobs and records at the URL
  inst,     \* process -> its FsspecStore instance
  run,      \* process -> what its driver is doing
  used,     \* writer tokens drawn
  runs, crashes, damage,   \* bounds
  committed \* history: the records whose record_done returned

vars == <<store, inst, run, used, runs, crashes, damage, committed>>

Idle       == [pc |-> "idle"]
NoInstance == [pid |-> Nobody, writer |-> 0, seq |-> 0, bad |-> {}]

Init ==
  /\ store = Store!EmptyStore
  /\ inst = [p \in Procs |-> NoInstance]
  /\ run = [p \in Procs |-> Idle]
  /\ used = {} /\ runs = 0 /\ crashes = 0 /\ damage = 0
  /\ committed = {}

(***************************************************************************)
(* A driver: of each stage it keeps the hash and the payload of every      *)
(* block so far.                                                           *)
(***************************************************************************)

Stage(p)  == run[p].plan.stages[run[p].stage]
At(p)     == run[p].blocks[run[p].stage]
Here(p)   == Stage(p).tasks[Len(At(p)) + 1]
IdHere(p) == task_id(run[p].plan, run[p].stage, Here(p))
HeldAs(p, id) == IF id \in DOMAIN run[p].held THEN run[p].held[id] ELSE NoBlob
Held(p)   == HeldAs(p, IdHere(p))

Hashes(blocks)   == [i \in DOMAIN blocks |-> blocks[i].hash]
Payloads(blocks) == [i \in DOMAIN blocks |-> blocks[i].payload]

\* With the block done, the task after it is next, or the stage after it.
Done(p, hash, payload) ==
  LET blocks == [run[p].blocks EXCEPT ![run[p].stage] =
                   Append(@, [hash |-> hash, payload |-> payload])]
      last   == Len(blocks[run[p].stage]) = Len(Stage(p).tasks)
      end    == last /\ run[p].stage = Len(run[p].plan.stages)
  IN  [run[p] EXCEPT
         !.blocks = blocks, !.value = NoBlob,
         !.pc     = IF end THEN "done" ELSE "visit",
         !.stage  = IF last /\ ~ end THEN @ + 1 ELSE @,
         !.deps   = IF last THEN NoBlob ELSE @]

\* A fork's copy, a later run of the process, or one that opens the URL: the
\* store is read once.  A plan with a service of no endpoint is refused first.
Start(p, name, endpoints, writer) ==
  LET plan == bind_services(Plans[name], endpoints)
  IN
  /\ run[p].pc \in {"idle", "done"} /\ runs < MaxRuns
  /\ bindable(Plans[name], endpoints) \/ endpoints = << >>
  /\ require_bound(plan)
  /\ runs' = runs + 1
  /\ IF inst[p] = NoInstance
     THEN /\ writer \notin used /\ used' = used \union {writer}
          /\ inst' = [inst EXCEPT ![p] = Store!Instance(p, writer)]
     ELSE UNCHANGED <<inst, used>>
  /\ run' = [run EXCEPT ![p] =
               [pc |-> "visit", name |-> name, plan |-> plan, stage |-> 1,
                blocks |-> [si \in DOMAIN plan.stages |-> << >>],
                held |-> Store!Completed(store), value |-> NoBlob, deps |-> NoBlob]]
  /\ UNCHANGED <<store, crashes, damage, committed>>

Servable(p) == Held(p) # NoBlob /\ Store!Get(store, Held(p)) # NoBlob

\* A reused block whose payload is not handed on.
Reuse_HashOnly(p) ==
  /\ run[p].pc = "visit" /\ Servable(p)
  /\ run' = [run EXCEPT ![p] = Done(p, Held(p), NoBlob)]
  /\ UNCHANGED <<store, inst, used, runs, crashes, damage, committed>>

Reuse(p) ==
  /\ run[p].pc = "visit" /\ Servable(p)
  /\ run' = [run EXCEPT ![p] = Done(p, Held(p), Store!Get(store, Held(p)))]
  /\ UNCHANGED <<store, inst, used, runs, crashes, damage, committed>>

\* What process may return, given the payloads of the stages it reads.
Results(p) ==
  {Block(run[p].plan, Stage(p), Here(p), x) :
     x \in IF Stage(p).inputs = << >> THEN Variants(Here(p).partition)
           ELSE {Joined([si \in DOMAIN run[p].blocks |-> Payloads(run[p].blocks[si])], Stage(p))}}

Process(p) ==
  /\ run[p].pc = "visit" /\ ~Servable(p)
  /\ inst' = [inst EXCEPT ![p] = IF Held(p) = NoBlob THEN @ ELSE Store!Refused(store, @, Held(p))]
  /\ \E d \in Results(p) : run' = [run EXCEPT ![p].pc = "put", ![p].value = d]
  /\ UNCHANGED <<store, used, runs, crashes, damage, committed>>

PutBlob(p, d) ==
  /\ store' = Store!Put(store, inst[p], d)
  /\ inst' = [inst EXCEPT ![p] = Store!Trusted(@, d)]

Put(p) ==
  /\ run[p].pc = "put"
  /\ PutBlob(p, run[p].value)
  /\ run' = [run EXCEPT ![p].pc = IF Stage(p).inputs # << >> /\ run[p].deps = NoBlob
                                  THEN "list" ELSE "record"]
  /\ UNCHANGED <<used, runs, crashes, damage, committed>>

\* The blocks this run read, or those of the store's last records.
Upstream_Held(p) ==
  LET last(si) == [i \in DOMAIN run[p].blocks[si] |->
                     LET held == HeldAs(p, task_id(run[p].plan, si, run[p].plan.stages[si].tasks[i]))
                     IN  IF held = NoBlob THEN run[p].blocks[si][i].hash ELSE held]
  IN  Joined([si \in DOMAIN run[p].blocks |-> last(si)], Stage(p))

Upstream(p) == Joined([si \in DOMAIN run[p].blocks |-> Hashes(run[p].blocks[si])], Stage(p))

\* The stage's deps: one blob that lists them, put with its first new block.
PutListing(p) ==
  /\ run[p].pc = "list"
  /\ PutBlob(p, Listing(Upstream(p)))
  /\ run' = [run EXCEPT ![p].pc = "record", ![p].deps = Listing(Upstream(p))]
  /\ UNCHANGED <<used, runs, crashes, damage, committed>>

Record(p) == [task |-> IdHere(p), blob |-> run[p].value, deps |-> run[p].deps]

RecordDone(p, writer) ==
  /\ run[p].pc = "record"
  /\ LET appender == Store!Appender(inst[p], p, writer)
     IN  /\ inst[p].pid # p => writer \notin used
         /\ used' = used \union {appender.writer}
         /\ inst' = [inst EXCEPT ![p] = Store!Counted(appender)]
         /\ store' = Store!Appended(store, appender, Record(p))
  /\ committed' = committed \union {Record(p)}
  /\ run' = [run EXCEPT ![p] = Done(p, run[p].value, run[p].value)]
  /\ UNCHANGED <<runs, crashes, damage>>

(***************************************************************************)
(* The environment.                                                        *)
(***************************************************************************)

\* A process forks another, which inherits its instance.
Fork(p, q) ==
  /\ inst[p] # NoInstance /\ inst[q] = NoInstance /\ runs < MaxRuns
  /\ inst' = [inst EXCEPT ![q] = inst[p]]
  /\ UNCHANGED <<store, run, used, runs, crashes, damage, committed>>

\* A process dies, in a run, after its last write or in the middle of one.  Part
\* of a record is none, part of a blob is one of the wrong size.
Crash(p) ==
  /\ run[p].pc \notin {"idle", "done"} /\ crashes < MaxCrashes
  /\ crashes' = crashes + 1
  /\ store' \in {store} \union
       (CASE run[p].pc = "put"  -> {Store!CutShort(store, inst[p], run[p].value)}
          [] run[p].pc = "list" -> {Store!CutShort(store, inst[p], Listing(Upstream(p)))}
          [] OTHER              -> {})
  /\ run' = [run EXCEPT ![p] = Idle]
  \* what runs as p later has a pid of its own
  /\ inst' = [q \in Procs |->
                IF q = p THEN NoInstance
                ELSE IF inst[q].pid = p THEN [inst[q] EXCEPT !.pid = Nobody] ELSE inst[q]]
  /\ UNCHANGED <<used, runs, damage, committed>>

Damage(d) ==
  /\ damage < MaxDamage /\ store.objects[d] = "good"
  /\ damage' = damage + 1
  /\ \E s \in {"corrupt", "truncated"} : store' = [store EXCEPT !.objects[d] = s]
  /\ UNCHANGED <<inst, run, used, runs, crashes, committed>>

Next ==
  \/ \E p \in Procs :
       \/ \E name \in DOMAIN Plans, endpoints \in Endpoints, writer \in Writers :
            Start(p, name, endpoints, writer)
       \/ Reuse(p) \/ Process(p) \/ Put(p) \/ PutListing(p)
       \/ \E writer \in Writers : RecordDone(p, writer)
       \/ \E q \in Procs : Fork(p, q)
       \/ Crash(p)
  \/ \E d \in DOMAIN store.objects : Damage(d)

Spec == Init /\ [][Next]_vars

(***************************************************************************)
(* Correctness.                                                            *)
(***************************************************************************)

\* "seq counts that writer's records" and a fork takes a writer of its own: no
\* record that was written is ever written over, whoever forked whom.
CommittedIsRecorded == committed \subseteq {r.record : r \in store.records}

\* "Journaled with its stage and the hashes of the blocks it consumed": a later
\* stage's record leads to the list of the very blocks its block was made of, though
\* some were reused, others run again, and the store's last ones are others.
RecordsNameTheirInputs ==
  \A r \in store.records :
    r.record.blob[1] # "map_write" =>
      /\ r.record.deps = Listing(r.record.blob[4])
      /\ Store!Present(store, r.record.deps)

\* The blocks run p returned are those of its plan as it was written: each
\* task's of its last stage, in order, made of blocks of its other stages'.
Answers(p) ==
  Hashes(run[p].blocks[Len(run[p].plan.stages)]) \in OwnLists[run[p].name][Len(run[p].plan.stages)]

\* The store held no block of another plan under an id of this one's later stages.
Apart(p) ==
  \A si \in DOMAIN run[p].plan.stages : \A i \in DOMAIN run[p].plan.stages[si].tasks :
    LET held == HeldAs(p, task_id(run[p].plan, si, run[p].plan.stages[si].tasks[i]))
    IN  run[p].plan.stages[si].inputs # << >> /\ held # NoBlob =>
          \E l \in OwnLists[run[p].name][si] : l[i] = held

\* A run's result is its own plan's wherever crashes, damage and other drivers
\* fell, if the store held no later block of another plan.
ResultIsOwn == \A p \in Procs : run[p].pc = "done" /\ Apart(p) => Answers(p)

\* A task that calls a service has been given an endpoint of it, and one that
\* differs from run to run is in no id: what a run left is found by the next.
EndpointsAreNotIdentity ==
  /\ \A p \in Procs : run[p].pc = "put" => Unbound(resolve(Stage(p).process)) = {}
  /\ \A r \in store.records : r.record.task \in TaskIds

\* docs/checkpoint/design.rst:25, "A stale result cannot poison a new run": ...
\* "change the partition, and the key changes with it", whatever the store holds.
NoStaleResult == \A p \in Procs : run[p].pc = "done" => Answers(p)
=============================================================================
