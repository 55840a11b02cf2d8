---------------------------- MODULE DurablePlan ----------------------------
(***************************************************************************)
(* DurablePlanV2 (python/graphed/core/plan.py): a plan of stages as data.  *)
(* It is written to bytes and read from them, its tasks have ids made of   *)
(* its content, and a service's endpoint is bound into it after that,      *)
(* outside both (python/graphed/services.py).  Constant level only.        *)
(***************************************************************************)
EXTENDS Integers, Sequences, SequencesExt, FiniteSets, TLC

CONSTANTS
  Installed,   \* what importing a ref gives: [names -> callables]
  Unset        \* Python's None

----------------------------------------------------------------------------
(* A callable: what it does, the services it calls, the endpoints bound    *)
(* into it, and the name it has in an installed module, or Unset.          *)

Callable(does, calls, name) == [does |-> does, calls |-> calls, name |-> name, bound |-> << >>]

from_ref(name) == [kind |-> "ref", ref |-> name, blob |-> Unset, live |-> Unset]
opaque(fn)     == [kind |-> "opaque", ref |-> "", blob |-> fn, live |-> Unset]

\* By name where the name imports that very callable, else by value.
from_callable(fn) ==
  IF fn.name \in DOMAIN Installed /\ Installed[fn.name] = fn THEN from_ref(fn.name)
  ELSE opaque(fn)

\* A bound copy first.
resolve(spec) ==
  IF spec.live # Unset THEN spec.live
  ELSE IF spec.kind = "ref" THEN Installed[spec.ref] ELSE spec.blob

identity(spec) == IF spec.kind = "ref" THEN << "ref", spec.ref >> ELSE << "opaque", spec.blob >>

----------------------------------------------------------------------------
(* Partitions, tasks and stages.                                           *)

Partition(uri, start, stop) ==
  [uri |-> uri, entry_start |-> start, entry_stop |-> stop,
   blind_step |-> Unset, blind_n_steps |-> Unset, blind_limit |-> Unset]

blind(uri, step, n) ==
  [Partition(uri, 0, 0) EXCEPT !.blind_step = step, !.blind_n_steps = n]

Task(key, partition) == [key |-> key, partition |-> partition]

StageSpec(name, inputs, fn, routing, partitions) ==
  [kind |-> name, inputs |-> inputs, process |-> from_callable(fn), routing |-> routing,
   tasks |-> [i \in DOMAIN partitions |-> Task(i, partitions[i])]]

\* A map with the entries of another put in.
Updated(f, g) == [x \in DOMAIN f \union DOMAIN g |-> IF x \in DOMAIN g THEN g[x] ELSE f[x]]

\* A JSON object has only the fields that are set.
Field(name, value) == IF value = Unset THEN << >> ELSE [k \in {name} |-> value]

\* How a partition of a file not opened yet names its range.
Step_json(p) ==
  IF p.blind_step = Unset \/ p.blind_n_steps = Unset THEN << >>
  ELSE [blind_step |-> p.blind_step, blind_n_steps |-> p.blind_n_steps]

\* Without a cap, which is not in a plan that has none.
partition_json_NoLimit(p) ==
  Updated([uri |-> p.uri, entry_start |-> p.entry_start, entry_stop |-> p.entry_stop], Step_json(p))

partition_json(p) ==
  Updated(Updated([uri |-> p.uri, entry_start |-> p.entry_start, entry_stop |-> p.entry_stop],
                  Step_json(p)),
          Field("blind_limit", p.blind_limit))

\* What the two constructors and `first` make: a range of a file, or a step of one
\* not opened yet, which alone may have a cap.
Made(p) ==
  \/ p = Partition(p.uri, p.entry_start, p.entry_stop)
  \/ /\ p = [blind(p.uri, p.blind_step, p.blind_n_steps) EXCEPT !.blind_limit = p.blind_limit]
     /\ p.blind_step # Unset /\ p.blind_n_steps # Unset

partition_from_json(d) ==
  IF "blind_step" \in DOMAIN d
  THEN [blind(d.uri, d["blind_step"], d["blind_n_steps"]) EXCEPT
          !.blind_limit = IF "blind_limit" \in DOMAIN d THEN d["blind_limit"] ELSE Unset]
  ELSE Partition(d.uri, d.entry_start, d.entry_stop)

----------------------------------------------------------------------------
(* The plan: its id per task, its bytes, its services.                     *)

Plan(ir, stages, services, finalize) ==
  [ir |-> ir, stages |-> stages, services |-> services, finalize |-> finalize]

\* Nothing of the stages it reads is in a task's id.
task_id(plan, si, task) ==
  LET stage == plan.stages[si]
  IN << plan.ir, si, stage.kind, identity(stage.process), stage.routing,
        partition_json(task.partition), task.key >>

spec_json(spec) == [kind |-> spec.kind, ref |-> spec.ref, blob |-> spec.blob]

spec_from_json(d) == [kind |-> d.kind, ref |-> d.ref, blob |-> d.blob, live |-> Unset]

stage_json(stage) ==
  [kind |-> stage.kind, inputs |-> stage.inputs, process |-> spec_json(stage.process),
   routing |-> stage.routing,
   tasks |-> [i \in DOMAIN stage.tasks |->
                [key |-> stage.tasks[i].key, partition |-> partition_json(stage.tasks[i].partition)]]]

stage_from_json(d) ==
  [kind |-> d.kind, inputs |-> d.inputs, process |-> spec_from_json(d.process),
   routing |-> d.routing,
   tasks |-> [i \in DOMAIN d.tasks |->
                Task(d.tasks[i].key, partition_from_json(d.tasks[i].partition))]]

\* services and finalize are left out when empty, so bytes of a plan without
\* them do not change.
to_bytes(plan) ==
  Updated(
    Updated([format_version |-> "graphed-plan/2", ir |-> plan.ir,
             stages |-> [si \in DOMAIN plan.stages |-> stage_json(plan.stages[si])]],
            Field("services", IF plan.services = {} THEN Unset ELSE plan.services)),
    Field("finalize", IF plan.finalize = Unset THEN Unset ELSE spec_json(plan.finalize)))

from_bytes(doc) ==
  Plan(doc.ir, [si \in DOMAIN doc.stages |-> stage_from_json(doc.stages[si])],
       IF "services" \in DOMAIN doc THEN doc["services"] ELSE {},
       IF "finalize" \in DOMAIN doc THEN spec_from_json(doc["finalize"]) ELSE Unset)

----------------------------------------------------------------------------
(* Services.                                                               *)

Unbound(fn) == fn.calls \ DOMAIN fn.bound

\* A part that is left with a service of no endpoint refuses to be bound.
bindable(plan, endpoints) ==
  \A si \in DOMAIN plan.stages :
    Unbound(resolve(plan.stages[si].process)) \subseteq DOMAIN endpoints

\* A bound copy; an endpoint it had stays where none is given.
BoundTo(fn, endpoints) ==
  [fn EXCEPT !.bound =
     Updated(@, [name \in fn.calls \intersect DOMAIN endpoints |-> endpoints[name]])]

\* Bound into the callables themselves.
bind_services_InPlace(plan, endpoints) ==
  [plan EXCEPT !.stages =
     [si \in DOMAIN plan.stages |->
        LET fn == resolve(plan.stages[si].process)
        IN  IF fn.calls = {} THEN plan.stages[si]
            ELSE [plan.stages[si] EXCEPT !.process = from_callable(BoundTo(fn, endpoints))]]]

\* Bound copies beside the specs, outside the plan's bytes and its tasks' ids.
bind_services(plan, endpoints) ==
  [plan EXCEPT !.stages =
     [si \in DOMAIN plan.stages |->
        LET fn == resolve(plan.stages[si].process)
        IN  IF fn.calls = {} THEN plan.stages[si]
            ELSE [plan.stages[si] EXCEPT !.process.live = BoundTo(fn, endpoints)]]]

\* Every service every stage calls has an endpoint; a plan that carries no
\* services is not asked.
require_bound(plan) ==
  plan.services = {} \/ \A si \in DOMAIN plan.stages : Unbound(resolve(plan.stages[si].process)) = {}
=============================================================================
