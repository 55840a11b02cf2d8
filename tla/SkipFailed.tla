---------------------------- MODULE SkipFailed ----------------------------
(***************************************************************************)
(* skip_failed on a pooled runner (python/graphed/core/execution.py:       *)
(* skipping, _SkipProcess, _SkipCombine, without_lost, finalize_result).   *)
(* The runner processes the tasks on its workers, several at a time in one *)
(* of them, and merges partials two at a time in a tree of its own shape;  *)
(* a failed chunk is an empty partial that carries its record, and the     *)
(* merge that holds too many raises.  A lost worker costs a rerun with the *)
(* chunk blamed for it left out; the runner may blame the wrong one.       *)
(* What a task warns of in a worker process travels in its partial, and    *)
(* finalize tells it on the driver (core/worker_warnings.py).  Processes   *)
(* outlive an attempt and a run, and each shows most warnings only once:   *)
(* what Python's registry suppresses never reaches the task's sink.        *)
(***************************************************************************)
EXTENDS Integers, FiniteSets

CONSTANTS
  Tasks,
  Labels, LabelOf,   \* chunk_label: the task's partition, as errors name it
  Flaky,             \* tasks whose process may raise
  Warnings,          \* what a task may warn of, each at one line of one module
  Always,            \* those that are RuntimeWarnings
  Warning,           \* tasks whose process may warn
  Processes,         \* the worker processes
  Other,             \* a task of another run, or of an attempt given up
  AtOnce,            \* bound: tasks under way at once
  Budget,            \* skip_failed
  MaxLosses          \* lost workers; bounds only a budget that does not

ASSUME SkipAssumption ==
  /\ IsFiniteSet(Tasks) /\ Tasks # {} /\ LabelOf \in [Tasks -> Labels]
  /\ Flaky \subseteq Tasks /\ Warning \subseteq Tasks /\ AtOnce \in Nat \ {0}
  /\ Always \subseteq Warnings /\ Other \notin Tasks
  /\ Budget \in Nat \ {0} /\ MaxLosses \in Nat

VARIABLES
  pc,        \* "running", "result", "raised" past the budget, or "error": any other
  pending,   \* tasks not yet handed out in this attempt
  sinks,     \* the tasks under way, each with its process and what keeping_warnings
             \* has caught for it
  shown,     \* process -> the warnings in its registries, each with who showed it
  partials,  \* the partials in flight: tasks folded into the value, tasks failed,
             \* warning -> the chunk that carries it
  told,      \* what WarnedFinalize issued on the driver
  lost,      \* _SkipProcess.lost
  budget,    \* _SkipCombine.budget
  warned,    \* history: what each task has issued in this attempt, each with who
             \* had shown it in that process: the task itself, if it was shown
  losses,    \* history: lost workers blamed
  repeats    \* history: blames of a chunk already left out

skipVars == <<pc, pending, sinks, shown, partials, told, lost, budget, warned, losses, repeats>>

Quiet == [t \in Tasks |-> << >>]

SkipInit ==
  /\ pc = "running" /\ pending = Tasks /\ sinks = << >> /\ partials = {}
  /\ told = << >> /\ warned = Quiet /\ shown = [p \in Processes |-> << >>]
  /\ lost = {} /\ budget = Budget /\ losses = 0 /\ repeats = 0

Partial(value, failed, caught) == [value |-> value, failed |-> failed, caught |-> caught]

Start(t) ==
  /\ pc = "running" /\ t \in pending /\ Cardinality(DOMAIN sinks) < AtOnce
  /\ pending' = pending \ {t}
  /\ IF LabelOf[t] \in lost
     THEN partials' = partials \union {Partial({}, {t}, << >>)} /\ UNCHANGED sinks
     ELSE /\ \E p \in Processes :
               sinks' = [u \in DOMAIN sinks \union {t} |->
                           IF u = t THEN [at |-> p, caught |-> {}] ELSE sinks[u]]
          /\ UNCHANGED partials
  /\ UNCHANGED <<pc, shown, told, lost, budget, warned, losses, repeats>>

\* One sink for the process, as catch_warnings would keep it.
sink_OfProcess(t) == CHOOSE u \in DOMAIN sinks : sinks[u].at = sinks[t].at

\* The sink a task's warnings go to: its own, by a context variable.
sink(t) == t

\* A warning is shown unless its process has shown it; simplefilter("always",
\* RuntimeWarning) takes RuntimeWarnings past the registry.
Shows(p, w) == w \in Always \/ w \notin DOMAIN shown[p]

Put(f, w, u) == [x \in DOMAIN f \union {w} |-> IF x \in DOMAIN f THEN f[x] ELSE u]

Registers(p, w, u) ==
  shown' = IF w \in Always THEN shown ELSE [shown EXCEPT ![p] = Put(@, w, u)]

\* A task issues a warning; _keep_or_show is called if Python shows it, and keeps
\* a message once.
Warn(t, w) ==
  /\ pc = "running" /\ t \in DOMAIN sinks \intersect Warning
  /\ LET p == sinks[t].at
     IN  /\ Registers(p, w, t)
         /\ IF Shows(p, w)
            THEN /\ sinks' = [sinks EXCEPT ![sink(t)].caught = @ \union {w}]
                 /\ warned' = [warned EXCEPT ![t] = Put(@, w, t)]
            ELSE /\ warned' = [warned EXCEPT ![t] = Put(@, w, shown[p][w])]
                 /\ UNCHANGED sinks
  /\ UNCHANGED <<pc, pending, partials, told, lost, budget, losses, repeats>>

\* What else runs, or ran, in a worker process shows a warning first.
WarnElsewhere(p, w) ==
  /\ pc = "running" /\ Shows(p, w)
  /\ Registers(p, w, Other)
  /\ UNCHANGED <<pc, pending, sinks, partials, told, lost, budget, warned, losses, repeats>>

carrying(t) == [w \in sinks[t].caught |-> t]

\* A failure that leaves an empty partial and no record.
SkipProcess_Silent(t) ==
  {Partial({t}, {}, carrying(t))} \union {Partial({}, {}, << >>) : u \in {t} \intersect Flaky}

\* What _SkipProcess may return for a task.
SkipProcess(t) ==
  {Partial({t}, {}, carrying(t))} \union {Partial({}, {u}, << >>) : u \in {t} \intersect Flaky}

\* A task that ends; the record of a failed chunk has no notes, so what the task
\* warned of before it failed goes no further.
Process(t) ==
  /\ pc = "running" /\ t \in DOMAIN sinks
  /\ \E p \in SkipProcess(t) : partials' = partials \union {p}
  /\ sinks' = [u \in DOMAIN sinks \ {t} |-> sinks[u]]
  /\ UNCHANGED <<pc, pending, shown, told, lost, budget, warned, losses, repeats>>

\* WarnedCombine inside _SkipCombine: of two chunks with one warning, the left one's.
Caught(left, right) ==
  [w \in DOMAIN left \union DOMAIN right |-> IF w \in DOMAIN left THEN left[w] ELSE right[w]]

Merged(a, b) ==
  Partial(a.value \union b.value, a.failed \union b.failed, Caught(a.caught, b.caught))

SkipCombine(a, b) ==
  /\ pc = "running"
  /\ LET merged == Merged(a, b)
     IN  IF Cardinality(merged.failed) > budget
         THEN pc' = "raised" /\ UNCHANGED partials
         ELSE partials' = (partials \ {a, b}) \union {merged} /\ UNCHANGED pc
  /\ UNCHANGED <<pending, sinks, shown, told, lost, budget, warned, losses, repeats>>

\* The plan's own combine raises: the run ends, whatever its budget.
CombineRaises(a, b) ==
  /\ pc = "running" /\ Cardinality(Merged(a, b).failed) <= budget
  /\ pc' = "error"
  /\ UNCHANGED <<pending, sinks, shown, partials, told, lost, budget, warned, losses, repeats>>

Charged_Always(l) == budget - 1

Charged(l) == IF l \in lost THEN budget - 1 ELSE budget

\* The registries of the processes that are gone are gone with them.
Outlived(gone) ==
  [p \in Processes |-> IF p \in gone THEN << >> ELSE [w \in DOMAIN shown[p] |-> Other]]

\* without_lost: rerun with the chunk labelled l failed, or raise.
LoseWorker(l, gone) ==
  /\ pc = "running" /\ losses < MaxLosses
  /\ losses' = losses + 1
  /\ repeats' = IF l \in lost THEN repeats + 1 ELSE repeats
  /\ budget' = Charged(l) /\ lost' = lost \union {l}
  /\ IF Cardinality(lost') > budget'
     THEN pc' = "raised" /\ UNCHANGED <<pending, sinks, shown, partials, warned>>
     ELSE /\ pending' = Tasks /\ sinks' = << >> /\ partials' = {}
          /\ shown' = Outlived(gone) /\ warned' = Quiet /\ UNCHANGED pc
  /\ UNCHANGED told

\* finalize_result: the head's failures move to ExecResult.failed, and
\* WarnedFinalize issues what the head carries.
Finalize ==
  /\ pc = "running" /\ pending = {} /\ sinks = << >> /\ Cardinality(partials) = 1
  /\ pc' = "result"
  /\ told' = (CHOOSE p \in partials : TRUE).caught
  /\ UNCHANGED <<pending, sinks, shown, partials, lost, budget, warned, losses, repeats>>

SkipNext ==
  \/ \E t \in Tasks : Start(t) \/ Process(t) \/ \E w \in Warnings : Warn(t, w)
  \/ \E p \in Processes, w \in Warnings \ Always : WarnElsewhere(p, w)
  \/ \E a, b \in partials : a # b /\ (SkipCombine(a, b) \/ CombineRaises(a, b))
  \/ \E t \in Tasks, gone \in SUBSET Processes \ {{}} : LoseWorker(LabelOf[t], gone)
  \/ Finalize

SkipSpec == SkipInit /\ [][SkipNext]_skipVars

(***************************************************************************)
(* Correctness.                                                            *)
(***************************************************************************)

Root == CHOOSE p \in partials : TRUE

Failures == UNION {p.failed : p \in partials}

\* However the tree is shaped, no chunk is in the value twice or silently out of
\* it: each task is pending, under way, folded in one partial, or failed in one.
EveryChunkAccounted ==
  pc # "raised" =>
    /\ pending \union DOMAIN sinks \union UNION {p.value \union p.failed : p \in partials} = Tasks
    /\ \A p, q \in partials :
         p # q => (p.value \union p.failed) \intersect (q.value \union q.failed) = {}
    /\ \A p \in partials : p.value \intersect p.failed = {}

\* "The run went past its failure budget, lost-worker reruns included": a
\* result misses at most the budget's chunks, each repeated blame taking one of
\* those away, and the run raises for no less: more chunks failed, were left
\* out, or were blamed again than the budget has.
BudgetIsMet ==
  /\ pc = "result" => Cardinality(Root.failed) + repeats <= Budget
  /\ pc = "raised" =>
       Cardinality(Failures \union {t \in Tasks : LabelOf[t] \in lost}) + repeats > Budget
\* What is told on the driver is told once, naming a chunk of the value that
\* warned of it.  What a chunk of the value warned of is told, unless its process
\* had shown it for a chunk that is not in the value, for an earlier attempt or
\* for another run; a RuntimeWarning is told all the same (`keeping_warnings`,
\* `WarnedCombine`, `WarnedFinalize`).
WarningsReachTheDriver ==
  pc = "result" =>
    /\ \A w \in DOMAIN told : told[w] \in Root.value /\ w \in DOMAIN warned[told[w]]
    /\ \A t \in Root.value : \A w \in DOMAIN warned[t] \ DOMAIN told :
         w \notin Always /\ warned[t][w] \notin Root.value
=============================================================================
