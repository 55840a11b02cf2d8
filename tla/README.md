# graphed: a TLA+ development

## 1. Inventory

graphed records an array analysis as a graph, reduces it, and runs the reduced
graph a chunk at a time. The recording side is one Python process talking to a
Rust extension; the running side is a driver and workers that share a task
plan, and optionally a store on disk and a debug server.

| Component (source) | State it keeps | Operations | Correct when |
|---|---|---|---|
| Directory store (`checkpoint/store.py`) | object files named by digest; one journal per writer; a dead-letter log; per-instance set of refused digests | `put`, `get`, `has_blob`, `record_done`, `completed`, `record_dead`, `dead_letters`, `record_environment` | bytes served are the bytes that were stored; a recorded task stays recorded; a crash inside a write costs at most what was being written |
| fsspec store (`checkpoint/fsspec_store.py`) | one file per record, objects by digest, a writer token and a counter per process | the same protocol over a remote filesystem | no record is overwritten by another writer's, forked or not |
| Resumable driver (`checkpoint/runner.py: run_resumable`, `checkpoint/retry.py`) | accumulator, counts, dead letters, attempt number | visit, reuse, process, retry, quarantine, put, journal, return | each partition counted once, across crashes, damage and restarts |
| Executor-level checkpointing (`checkpoint/resume.py`) | plan snapshot of completed tasks, per-worker store instances, environment records | `resumable`, `_served_or_run`, `check_environment`, `warn_unreused`, task keys | what a task is served is what it would have computed; a changed environment is never mixed in silently |
| Shuffle resume (`checkpoint/runner.py: run_shuffle_resumable`) | completed map blocks | serve or run map, gather | the reduce sees each map's block once |
| Task contract (`core/execution.py`) | partitions, stop conditions, per-task failure records, plan combinators `skipping`, `without_lost`, `finalize_result` | resolve, split, process, combine, finalize | a failed chunk is reported and never silently missing; the tolerated fraction is exact |
| Runner and its control (`core/execution.py: SequentialRunner, RunControl, LocalResources, AddressTable, NodeStore`) | run state, task queue, pending events, address book | submit, run, pause, resume, cancel, cancel a task, monitor | cancel wins over pause, a run ends, one run's cancel does not reach the next |
| Durable plans (`core/plan.py`) | serialised plan, task ids | build, encode, decode | task ids separate different work |
| Worker warnings (`core/worker_warnings.py`) | warnings captured per task | keep, carry, merge, emit | what a chunk of the result shows first in its process is told once on the driver |
| Recording arena (`src/store.rs`, `src/node.rs`) | interned nodes, outputs | add, mark_output, snapshot, reduce, cone | equal expressions are one node; ids grow from inputs to outputs |
| Optimizer (`src/optimizer/*`) | reduced graph, e-graph, union-find, incremental reducer | dead code, cse, symmetric orientation, stage fusion | the reduced graph computes the recorded one, once per stage |
| Graph bytes (`src/serialize.rs`, `src/param.rs`) | byte string | encode, decode | decode inverts encode |
| Session and arrays (`session.py`, `array.py`, `accessors.py`, `provenance.py`, `context.py`) | memo of proxies, held functions, provenance, contexts | record, walk, hold | a proxy names the node that computes it |
| Aggregation and execution (`aggregate.py`, `execute.py`, `write.py`) | folds, per-chunk values and their last uses | evaluate, combine, collate, write parts | values live exactly while needed; outputs combined in plan order |
| Materialisation (`materialization.py`) | cache of realised sources | materialize, share, read | a shared value is read once |
| Shuffles and joins (`shuffle.py`, `numpy/shuffle.py`, `awkward/shuffle.py`, `awkward/join.py`) | map blocks, gathered blocks | map write, gather, fold, broadcast choice | every row reaches exactly the reducer its key names |
| Systematics (`systematics/*`, `vary.py`, `varied.py`) | registered variations, lineage, ambient state, transactions | register, vary, join, compose, rollback | an aborted registration leaves no trace |
| Services (`services.py`, `core/services.py`) | declared specs, bound endpoints | declare, bind, check | an operation reaches the service it names |
| Debug dashboard (`debug/dashboard/*`, `debug/progress.py`) | client queue, server rows per key, progress counts | emit, connect, drain, ingest, control | rows converge to what the workers did whatever order events arrive |
| Debug runner, report, replay (`debug/*.py`) | collected events, stage frames | wrap, report, replay, sample | a failure names the operation it was in |
| Preservation (`preserve/*`) | a bundle directory, loaded external resources | build, reproduce, verify | a bundle reproduces the result it recorded |
| Array backends (`numpy/*`, `awkward/*`, `backend.py`, `parquet.py`, `projection.py`) | none between calls | forms, kernels, reads, writes, column projection | a form predicts its value |
| Rendering (`debug/viz.py`, `systematics/explain.py`) | none | draw, explain | - |

How they meet: recording calls the arena, which the optimizer reduces; a plan
builder (aggregate, write, shuffle) turns the reduced graph into partitions, a
`process` and a `combine`; a runner drives those, emitting task events to a
monitor (the dashboard client is one) and obeying a control (the dashboard
server drives one); `resumable` replaces a plan's `process` by one that serves
and stores results; `skipping` replaces it by one that turns a failed chunk into
a record the combine counts.

What is hard here: a process may die between (or inside) the writes of a store
that several workers share, and the store never locks; run control is called
from one thread while another runs tasks; dashboard events come from many
processes with no order between them; plans whose results are cached are keyed
by what the key builder sees, so anything it misses is served stale; the
combine tree is shaped by the runner, so the result must not depend on it.

## 2. Plan

Order: what decides whether a result is right comes first (stores, exactly-once,
failed chunks, then the graph and its plans, then systematics), then what decides
whether a run ends and is reported truly (runner, control, monitors).

| # | Module | Models | Composes | Status |
|---|---|---|---|---|
| 1 | `StoreFiles` | files of the directory store, appends and replay | - | done |
| 2 | `RunResumable` | resumable driver, retry and budget, crashes, damage | `StoreFiles` | done |
| 3 | `StoreFilesProofs`, `RunResumableProofs` | proofs of 1 and 2 | 1, 2 | done |
| 3a | `ResumableWorkersProofs`, `DriverProofs`, `RunnerProofs`, `DashboardProofs` | proofs of 5; of 6 and 7; of 8 and 9; of 10 | 5 to 10 | done |
| 3b | `ShuffleResumeProofs`, `AmbientWeightProofs` | proofs of 11 and of the registry of 17 | 11, 17 | done |
| 4 | `DurableResults` | what a store shared by plans promises | - | done |
| 5 | `ResumableWorkers` | drivers and workers over one store | `StoreFiles`, implements `DurableResults` | done |
| 6 | `EnvironmentRecord` | the environment record and its refusals | `StoreFiles` | done |
| 7 | `SkipFailed` | failed chunks, lost workers, the budget in a combine tree, the warnings a worker captures | - | done |
| 8 | `SequentialRun` | runner thread, control, monitor events | - | done |
| 9 | `LocalResources`, `Partitions`, `RetriedTask` | handle cache; ranges that tile; one worker's tasks under each retry policy | the first two in the third | done |
| 10 | `DashboardIngest`, `Dashboard` | event transport and the server's rows and counts | the first in the second | done |
| 11 | `FsspecStore`, `DurablePlan`, `ShuffleResume` | one object per record, writer tokens across a fork; plans as bytes, task ids, bound services; stages keyed by task ids | the third runs over the first two | done |
| 12 | `GraphArena`, `GraphOptimizer` | hash-consed nodes, reachability, canonical order, stage fusion, the incremental reducer | the second over the first | done |
| 13 | `ChunkEvaluation`, `GraphSession` | a graph evaluated over a chunk; threads recording and compiling | over 12 | done |
| 14 | `GraphBytes` | what a compiled graph travels as | over 12 | done |
| 15 | `JoinKernel`, `StagedPlan` | routing and matching of rows; map, gather and fold stages | over 13 | done |
| 16 | `GraphPipeline` | a recorded graph compiled, shipped, planned, materialised, peeked at | 12-15 | done |
| 17 | `VariationRegistry`, `AmbientComposition`, `AmbientWeight` | the registration transaction, the composition of weights, reads with memos | the first two in the third | done |

Abstract specifications stated: `DurableResults`, which 5 implements; in 16 the
recorded graph's own value over the whole dataset (`Whole`), which every plan,
stage, pass and prefix is compared with; in 15 a join as a set of pairs
(`Relational`); in 17 the product of every family at a universe's point
(`WeightIsFresh`). 8 returns a prefix of a fold over the tasks and 2 a
subsequence: one spec for both is left to state.

Theorems: the safety of 2, 5 to 9 and 11, the refinement of 5, the accounts of 10 and the
registry of 17 (done). Left: that interning keeps an arena an arena (12).

## 3. Modules

Every action's guard, updates and order come from the function "map" names in
`PROJECT.json`; what follows says how state corresponds, and what is abstracted.

### StoreFiles

Constant level. An object file is one of absent, good, corrupt (right size) and
truncated, because `put` looks only at the size and `get` at the digest. A log is
its lines and whether the last has its newline. `Appended` is `_append`: when a
crash cut the last line before its newline, the next record lands on it and both
are `Torn`. `CrashedAppends` is every log an interrupted append can leave: nothing, a part of
the record, all of it without the newline, or all of it. `Completed` is `_replay` over one
journal: the last readable record of each task whose object is present.
`NeedsWrite` and `RefusedBy` are the size check and the `_bad` set of `put` and
`get`; `Replaced` is the rename of `_atomic_write`, which replaces a name's file whole.

### RunResumable

| State | Code |
|---|---|
| `objects`, `journal`, `deadlog` | the directory |
| `volatile` | renames since the last directory sync; the code never syncs the directory |
| `held` | `completed` at the top of `run_resumable`, read once |
| `bad` | the store instance's `_bad` |
| `pc`, `part`, `value`, `attempts` | where the loop is; the value between `process` and `record_done` |
| `acc`, `report` | accumulator (as the sequence combined) and `ResumeReport` |
| `dead`, `hit`, `committed` | history variables of the properties only |

`Start` is a call; `Reuse`/`Miss` are `_stored_partial`; `Succeed`/`Fail` are the
attempts of `_run_one` and a `RetryN`/`RetryElsewhere` policy; `RecordDead` the
dead-letter branch with its budget; `Put` and `RecordDone` the two writes, with a
crash possible before, between and inside them. A task's bytes may differ from
run to run (`Outcomes` may have several), which the code's contract discourages
but does not detect. `Crash` may leave a part of an append and, with `Loses`,
undo renames that are not durable. `Damage` is a disk error on one object.
The accumulator is what was combined and in which order, so that a double count or a
swap shows whatever `combine` is.

### ResumableWorkers and DurableResults

`resumable` looks the tasks up once per plan (`Resumable`: `plan`, the blob each
task is tagged with); a runner hands tasks to workers, each a process with its
own journal (`Claim`, the token of `task_store`); a worker serves or runs
(`_served_or_run`: `Serve`, `Miss`, `Run`), looks at the object (`Stat`), renames
(`Replace`) and journals (`RecordDone`). `Raise` is a task or a store call that
raises, `Kill` a worker's death, `PowerFailure` everybody's. The runner is
external: it hands an unanswered task to an idle worker and never to two at once
for one driver, though two drivers may run the same task at the same time.

`DurableResults` has three variables: what is kept for each task, what has been
harmed by the disk, and the answers drivers got. It says that results are only
gained or harmed, never dropped by the program, and that an answer is one of the
task's own outcomes. The mapping takes for kept the digests a readable record
names and whose object is whole. An append cut by a power failure can turn out to be
recorded: `Harm` allows it. The refinement is checked by TLC and proved (section 5).

`ShortWrites` is FALSE in the run. A `write` that fails half way (a full disk)
and is survived by the process leaves a torn line on which the *same* worker's next
record lands; KeepsResults does not hold then, for the reason
`OneLossPerCrash` allows a loss. It is kept as a constant so that the
assumption is explicit: the proofs of `KeepsResults` and `RecordedIsNotRerun`
have it as a hypothesis, that of `AnswersAreAuthentic` does not need it.

### EnvironmentRecord

`check_environment` over the records of one salt: read the environment journal
(`ReadEnvironments`), then the workers' journals (`ReadResults`; `completed` goes through
files in name order), compare (`Pass`, `Refuse`, `PutEnvironment`), append
(`RecordEnvironment`). Records carry a number one above the record they were
compared with; those with the highest number are in force. A run's `alone` is a
history flag: no other run was under way with it. `StoreFiles` gives the log, environments
standing for tasks and blobs. `Tears` says whether a kill may cut an append short: it
is FALSE in the run and in the proofs, since both properties fail otherwise (section
4, the first known disagreement).

### SkipFailed

The runner merges partials two at a time in any order, so `partials` is a set of
what is folded and failed in each; `SkipProcess` and `SkipCombine` are the two
wrappers of `skipping`, `LoseWorker` one turn of the loop a pooled runner makes
around `without_lost`. The runner may blame any label, one already left out too.
The plan's own `combine` may raise (`CombineRaises`), which ends the run as an error
whatever the budget.

Warnings: up to `AtOnce` tasks are under way, each in one of the `Processes`, several in
one perhaps. `sinks` has, for each, its process and the dictionary that `keeping_warnings`
gave it (`sink` is the context variable). `shown` stands for the registries of a process, in
which Python notes what it has shown: a warning shown once at a line is not shown again there,
so it never comes to `_keep_or_show`, except RuntimeWarnings (`Always`), for which `_install`
sets "always". A process outlives a failed chunk, an attempt that a lost worker ended
(`Outlived`) and a run, and what else runs in it shows warnings too (`WarnElsewhere`). The
process that is lost has a new one in its place, with nothing shown. `warned` is history:
of each warning a task issued, who had shown it, the task itself if it did. `told` is what
comes home with the partials and is issued on the driver. `WarningsReachTheDriver` promises
what is left of that: what is told names a chunk of the value that warned of it, and what
is not told was shown first in that process by something that is not in the value.

### SequentialRun

One thread runs plans one after another (`Run`, `EnterCancelled`, `Submit`, the
loop's check of the control, `Start`, the ways a task ends, the loop's finally
clause, finalize), and other threads call `Pause`, `Resume` and `Cancel` at any
point between. `woken` is the condition variable: a notification wakes a sleeper
that is asleep, and is not remembered by one that is not. `kind` chooses among a
plan, a plan under `skip_failed` and a staged plan, whose stages do not emit
events and whose cancel drops the value. A run may raise from `plan.empty` (`EmptyRaises`),
a task's `process` (`Fail`, also when the empty partial of a skipped chunk raises), its
`combine` (`TooMany` past the budget, `CombineRaises` for the plan's own) or a staged plan's
value (`ValueRaises`). Only `Fail` is told: the call of `combine` is outside the `try`, so
`EventsAreTold` says what a monitor can rely on all the same, and `StartedTasksEnd` is the
documented contract, which does not hold. `standing` is history: a cancel was sent since the last
finally clause. Only such a cancel stops a run (`CancelEndsOneRun`), so none stops two; but one
sent to the run before while that finalized is such a cancel (`CancelReachesNoLaterRun` does not
hold). Lean events are left out here; the
dashboard has them. `ReturnsPrefixFold` gives the sequence that was folded by its
elements (the tasks before the one the run stopped at, less the failed ones) and their order
(increasing), which is that sequence and no other, and needs no recursive definition.

### Partitions, LocalResources and RetriedTask

`Partitions` is constant level: how a plan cuts files into partitions (known
sizes, `BlindStep` ranges resolved on the worker, row groups), how a range is
split, and the part of a write a range names. `LocalResources` is the bounded
cache of handles, least recently used first, and the set of files the current
task has opened. `RetriedTask` is a worker that runs a plan's tasks in order:
each read goes through the handles, and one that fails through the policy:
again, with fresh handles, quarantined, or in smaller pieces, `frames` being the
splits under way. A write has no policy and leaves one part per task. A fresh set of
handles is not closed by anyone (`retry.py`), which costs handles and no result.

### DashboardIngest and Dashboard

`DashboardIngest` is `_ingest_task`, `_update_row` and `_ingest_worker` as
functions of the server's state: per key the classes of phases of its current lifecycle
and its label, the row, the worker's cell, the counters, the open set and the
worker names seen. `Dashboard` has the monitors: a bounded buffer, a sender
thread (`Drain`, which decides whether to connect after it has drained; `Send`,
`ConnectFails`, `SendFails`), a connection that can die with what it carries, and
a server that takes each connection's frames in order and different connections'
in any order. The runs being watched are the pooled executors of another
repository; their events follow the `TaskEvent` contract of `core/execution.py`,
retries included. Each run has a label of its own, so a row under a stale label
shows.

Left out: the control relay, profile trees, times, per-worker counters, and the
half-second limit of a worker's exit flush, which loses what is still buffered as
a failed connection does.

### FsspecStore, DurablePlan and ShuffleResume

`FsspecStore` is the store at a URL as functions of its content: blobs decide as in
`StoreFiles`; a record is an object named by its writer and a number, `Appender` is
the check of the process id that gives a forked copy a writer of its own, and
`Completed` takes the last record by name. Nothing can be torn but what is being
written, and a record half written is none. A store's objects are a partial map, with
the names that were written for domain, so that a model need not say beforehand which
blobs there can be.

`DurablePlan` is `DurablePlanV2` as data: `to_bytes` and `from_bytes` with the fields
JSON leaves out when they are not set (so a partition's cap may be lost on the way),
`task_id` as the tuple of what it hashes, a callable by the name that imports it or
by value, and `bind_services`, which puts bound copies beside the specs. A hash is
injective by construction, so what is checked is which parts it is made of. The
format of the bytes, and what is imported on the other side, are the same as where
they were written.

`ShuffleResume` is `run_shuffle_resumable` over plans of any stages, each shipped as
bytes and bound to a run's endpoints (`Start`). `run[p]` is a driver's locals: the journal as read once at the start
(`held`), the stage, per stage the hashes and payloads so far, the payload being
stored (`value`) and the listing of the upstream blocks (`deps`), which is put with
the stage's first new block. Hashes are contents: a later block is the list of
blocks it was made of, so a wrong input shows. A process may run again, fork
(`Fork`), die (`Crash`), and a blob may be damaged. A process without a store instance
has `NoInstance`; when one dies, the copies forked from it are of `Nobody`.
`ShuffleAssumption` says of the plans what the planner makes: a stage has tasks, over
partitions that the constructors make, and reads stages before it; one that reads
none is a map; a plan's services are those its stages call. The environment check comes
before the first task and is `EnvironmentRecord`'s. Left out: the warnings of the call.

### GraphArena, GraphOptimizer

An arena is a sequence of nodes, an id its position; `intern`, `mark_outputs`,
`ir_cone` and `from_reduced` are the store's. A node's token stands for its
operator with its parameters; the operators are the least that tell the rewrites
apart: one pair that commutes and one that does not, an identity, a cut, two
reductions, one payload evaluated in two ways, and the boundaries.
`GraphOptimizer` is the three passes (dead code with operands in canonical order,
the e-graph's identity rule and common subexpressions, contraction of operators
into stages) in both modes, and the incremental reducer (`step`, `finalize`),
which keeps its canonical nodes between compiles. A content hash is a sum modulo
`Modulus` (30011): collisions are as unlikely as in the code.

### ChunkEvaluation and GraphSession

`evaluate_ir` walks a graph in order, releases a value after its last reader
(`released`) and lets a failed operand fail its reader. `refuse_chunk_partials` and
`Combine` are what may be evaluated a chunk at a time, and how chunks fold.
In `GraphSession` threads share a `Session`: `Record` is a `record_*` call, which
checks its inputs, then interns its node, steps the reducer and enters the tables
(`forms`, row sets, recording sites) under the lock; `compile_view` reads them
under it. `written` is a history variable. `graphed.join` is five recordings, taken
here in one step.

### GraphBytes

A graph's bytes are a sequence of fields (a tag, a count or a number, a whole
string), a string a sequence of pieces, so that a separator inside a name shows.
`Params` and `Descriptor` say what each token of `GraphOptimizer` was recorded with;
`serialize_with` is the writer, `deserialize` the reader, which stops at a tag it does not
know, at a reference to a node that is not before, or where the bytes end; `op_token` and
`parse_op_token` are how a fused member keeps its name and params in one string. Plans
evaluate what they read (`Shipped`), never the compiled graph itself.

### JoinKernel and StagedPlan

`JoinKernel` is the key of a row, its routing, and the two matchers, awkward's
`match_indices` (a dictionary of positions) and numpy's `match_sorted` (a stable
sort and binary searches). A row is a number; a joined row is encoded as
`30 * l + r`; a field is the row modulo 3, a packed key modulo 2, so that keys collide.
`StagedPlan` is a plan with a barrier: which graphs can be staged (`buildable`),
a map stage per source, a block per destination, a gather that evaluates what is
past the barrier, a fold of the destinations.

### GraphPipeline

| State | Code |
|---|---|
| `session`, `held`, `written`, `program`, `incremental` | `GraphSession`'s |
| `artifact` | a compiled graph with its frames, and the request it answers |
| `run` | what a plan, `materialize` or `head` came to |

`compile_ir`, `aggregate_plan` (over the chunks of a source, or over the stages of a
join), `shuffle_plan` and `join_plan` are the plans; `materialize` is the split of what it is asked for at
a frontier, one optimised pass per source and the rest over the whole; `head`
doubles the entries it reads until enough rows survive. A compile and its plan
are two actions, with recordings possible in between.

### VariationRegistry, AmbientComposition, AmbientWeight

`VariationRegistry` is a Session's registry: what a label means (its point: which
member of which family), which labels a family minted, and the transaction that a
registration that raises rolls back. `AmbientComposition` is how a weight's
families compose at a label: the path of a label to the registration that minted
it, restriction of a point, the product. `AmbientWeight` has threads with a
context each, that call `vary` in its forms (a shift of a collection, a flat,
dependent, placed or union weight, a loose container, a call that is refused) and
read weights; a read leaves a memo (`materialise.py`) that a later registration
folds onto. Values are numbers modulo a prime, so equal weights are equal
products. One tag per family; a label built by hand only with one thread. `task`
is what a thread is in the middle of, `lock` the registry's, held from `Begin` to
`Return`; a map is extended by `Only` and `Updated`, the later entry winning as in
`{**a, **b}`. `ThreadsAssumption` keeps the name of the free lock apart from the threads'.

## 4. Runs

Liveness is checked in `RunResumable` and `Runner`, which use no symmetry. `Drivers` has two
modules that share no state, and so does `Runner`, in one run each: `MCDrivers` and
`MCRunner` say how. A behaviour of `Drivers` is one of `EnvironmentRecord` or one of `SkipFailed`,
while the other stays where it begins; in `Runner`, `SequentialRun` runs where one of
`RetriedTask`'s jobs is over, and that the other jobs are over changes nothing for it.
`Drivers` takes tasks for interchangeable, and processes: each task may fail, warn and lose
its worker as the others may, and `LabelOf` maps each to itself. The type invariants that are kept in the modules are checked as a
property in `RunResumable`, where a theorem states it.

| Run | Bounds | Shows |
|---|---|---|
| `RunResumable` | 3 partitions: one that may fail, one with two outcomes, one poisoned; one retry, budget 1, 2 crashes, 1 damage, 3 calls | `NoDoubleCountNoLoss`: each partition is folded once, in order, or dead-lettered; `FoldedIsAuthentic`; `RefusedIsRewritten`: damage found by a read is repaired by the run that finds it; `OneLossPerCrash`: a crash costs at most one committed record (the docs say none, see below); `BudgetIsExact`; `Returns`: calls end |
| `ResumableWorkers` | 2 drivers, 2 workers, 2 tasks, 3 journals, 2 plans, 1 crash, 1 damage | `KeepsResults`: it implements `DurableResults`; `AnswersAreAuthentic`; `RecordedIsNotRerun`: a task is run only if no result recorded when the driver planned is whole |
| `Drivers`, of `EnvironmentRecord` | 3 runs, 2 environments, whole appends | `ToldOfOtherEnvironments`, `RecordedIsNotRefused` |
| `Drivers`, of `SkipFailed` | 4 chunks, 2 at once in 2 processes, budget 2, up to 4 lost workers, a RuntimeWarning and another | `EveryChunkAccounted`, `BudgetIsMet`: the budget ends the run exactly when it is passed, whatever the shape of the tree; `WarningsReachTheDriver` |
| `Runner`, of `SequentialRun` | 4 tasks or stages, 2 runs, budget 2, 4 pauses and cancels | `AtMostOneMoreStarts` after a pause or cancel; `ReturnsPrefixFold`: the result is the fold of exactly the tasks that finished; `EventsAreTold`: what is told is true, and all there is unless a combine raised; `CancelEndsOneRun`; `RunsEnd`: no wake-up is lost |
| `Runner`, of `RetriedTask` | files of up to 6 entries, up to 3 steps, splits in up to 4 and down to 2, 4 policies, 2 handles | `EveryEntryOnce`: a finished run folds every entry once but for its dead letters; `PartsAreTheInput`; `HandlesInUseStayOpen`; `TasksEnd`: no policy splits or retries for ever |
| `SequentialRun_untold` | as `SequentialRun` | **violation** of `StartedTasksEnd` |
| `SequentialRun_late` | as `SequentialRun` | **violation** of `CancelReachesNoLaterRun` |
| `Dashboard` | 2 keys, 2 workers and a driver, buffers of 2, 2 attempts in all (two tasks, or one task and a retry or a rerun of it), 1 failed connection; full and lean events | `EventsAccounted`: events are lost only to a full buffer or a failed connection and never counted twice; `PageConverges`: once all were heard, counters and rows show what happened whatever order connections delivered in |
| `ShuffleResume` | 2 runs in 2 processes, a fork; two shuffles of one graph over partitions of the same files and a join with a fold, bound or not; 1 crash, 1 damage | `CommittedIsRecorded`: no record is ever written over; `RecordsNameTheirInputs`: a later stage's record leads to the very blocks it was made of; `ResultIsOwn`: a run returns the blocks of its plan as it was written, unless the store held a later block of another plan; `EndpointsAreNotIdentity` |
| `ShuffleResume_stale` | the same, no crash or damage | **violation** of `NoStaleResult` |
| `GraphPipeline` | 16 vocabularies of 2 to 3 operators, 4 calls by 2 threads, up to 3 chunks a source, all modes | `BytesAreTheGraph`: the bytes a worker gets are read as the compiled graph, whose stages are in order; `LandingsKeepTheirValues`: which is the recorded one; `CompileIsStable`: and depends on its outputs alone; `PlanFoldsToTheWhole`, `StagedIsTheWhole`, `MaterializedIsTheWhole`: chunked, routed, passed or cut evaluation is the whole's; `JoinsAreRelational` |
| `AmbientWeight` | 4 registrations by 1 or 2 threads, reads between | `RegistryIsWhatReturned`: a refused registration leaves no trace and labels are never shared; `WeightIsFresh`: a weight is the product of every family at its universe's point, memoised or not; `UniverseIsItsPoint` |
| `AmbientWeight_fold` | the same, with a fold onto a memo | **violation** of `WeightIsFresh` |

What the violations show:

- `SequentialRun_untold`: a task is told started, its `process` returns, and the `combine`
  that takes its partial raises (`execution.py:1198`, outside the `try` of 1189). The run is left
  with no FINISHED or ERRORED for it, against the contract at `execution.py:784` and
  `docs/core/design.rst:577`. Under `skip_failed` the chunk that passes the budget goes the
  same way: its failure is what raises, and it is not told errored.
- `SequentialRun_late`: a cancel sent after the finally clause, while the run is told ended
  and finalized, stops the next run (`execution.py:1209`, against the comment at 1210 and
  `docs/core/design.rst:642`). It stops that one only (`CancelEndsOneRun`).
- `ShuffleResume_stale`: a gather task's id has its destination but nothing of the
  stage it reads, so a second plan of the same analysis over other partitions
  runs its map stage and is then given the first plan's gather blocks
  (`core/plan.py:351` and `runner.py:257`, against `docs/checkpoint/design.rst:25`).
  `resumable` does not have this: its ids fold in those of the upstream tasks.
- `AmbientWeight_fold`: a read of a weight leaves a memo; a later weight folds onto
  it when it can answer the labels that registration mints, though the union it
  records has others, which the memo then answers with their central value
  (`forms.py:70`, against `materialise.py:70`). The passing run leaves such
  folds out by name.

Known disagreements that no run shows (each has been seen in a model, or by
reading, and is excluded by name where a property would meet it):

- A run killed inside its append leaves a torn line in the environment journal.
  The next run finds no record, goes on, and its own record lands on that line,
  which then reads as nothing: a third run in another environment is not told
  (`store.py:296`, against `docs/checkpoint/design.rst:631`). `EnvironmentRecord` appends
  whole. The same glue costs `run_resumable` one committed record
  per crash (`OneLossPerCrash`, against `design.rst:134`).
- When a lean dashboard hears two terminal events of a retried task, the rerun's
  `SUBMITTED` is taken for a late event, and the task is not in flight
  (`_server.py:304`, against `docs/debug/design.rst:464` and 473). `PageConverges`
  leaves that case out by name (`AfterRetry`).
- A joint of a shift and a weight of the same tag, with the weight computed from
  the shifted collection, binds the weight's member at the shift's label only
  (`registration.py:345`, against `tests/frozen/awkward/m56/test_joint_oracle.py:3`).
  `AmbientWeight`'s programs have one kind per family.
- Under `skip_failed` the warnings of a chunk that failed are dropped with its
  record (`execution.py:299`, against `worker_warnings.py:100`);
  `WarningsReachTheDriver` is about the chunks in the value. And a chunk in the value whose process
  has shown a warning for such a chunk, or in an attempt before, is not heard of that warning at
  all, unless it is a RuntimeWarning (`worker_warnings.py:81`): the property says so.
- `read_varied` takes a column's label for the text before the first `__`
  (`awkward/_varied_read.py:31`), but a joint's label has one of its own
  (`registration.py:343`), so a skim's joint universes are not found again,
  against the docstring of `read_varied`. Not modelled.
- A positional join after a repartition of two differently cut arrays pairs rows
  destination by destination, not in the dataset's order. The vocabularies of
  `GraphPipeline` have no such program.

### Why the bounds are enough

A torn append needs two crashes to hit twice, a reused blob a run before, and a
repaired one a run after: three calls and two crashes reach each combination.
In the shared store, two drivers and two workers on two tasks give two writers
of one object, one reader of an object another is replacing, and a plan that
reads while another records. In `EnvironmentRecord`, two runs race and the third
sees what they left. A tree over four chunks is the smallest with two inner
merges that are themselves merged. Two processes with two tasks at once are two sinks in one process
and a warning shown in one and not in the other. Four commands reach pause, cancel, a pause
after a cancel and a cancel of the second run. Two shuffles are a run and what
it left, or two at once, one forked from the other; two payloads of one map task
make what is held and what was read differ. In the dashboard two attempts are
the least that order a repeated phase against both connections; one
task with three attempts and failed connections in all (seven million states) was
checked once for the same properties and is too long to keep.

In `GraphPipeline` a run keeps to one small vocabulary (`Programs`), for four
calls: a source, two nodes over it and one that reads both is the least graph
with a shared operand, a stage of two members and a boundary between them. Two threads
make three and two of the calls, or one makes four. A thread
reads a source once, requests are about the newest array it holds (alone, or after another), one call may come between
a compile and its plan. One join a program (one program has two), since rows
multiply. The chunks of `x` have one that the cut empties and one it leaves a row
of; `z` shares some keys with it, once and more than once. Three steps and a
spread of two give more destinations than keys and fewer. In `AmbientWeight`, four registrations are a shift, a weight computed
from it, and two more that reach a label through either.

Constants that only bound a run: `MaxRuns`, `MaxCrashes`, `MaxDamage`, `MaxPlans`,
`MaxCommands`, `MaxLosses`, `MaxAttempts`, `MaxBreaks`, `MaxCalls`, `MaxReads`, and the sizes of the sets.
`CHECK_DEADLOCK FALSE` is set where the bounds, or a run that returned, leave
nothing to do.

### Fairness

`RunResumable`: weak fairness of the driver's steps (a process that is alive is
scheduled; each of its steps is enabled until taken), and of `Start` from "down",
which is the user running the script again after a crash; `Returns` promises nothing to one
who does not. `SequentialRun`, in `Runner`: weak fairness of the runner's thread, and of
`Resume` while paused, since a paused run whose user never resumes or cancels it
rightly does not end. `RetriedTask`, in `Runner`: weak fairness of starting a task, of a read ending one way or the other,
of settling what it came to and of finishing; which files a read opens, and whether
it fails, is not promised. No fairness is put on crashes, damage, commands or failing
tasks. The other runs check safety only.

## 5. Proofs

Each theorem is about every instance of its module: any number of tasks, runs, processes,
records and commands, any bounds. The constants' assumptions (`FilesAssumption`,
`RunAssumption`, `WorkersAssumption`, `SkipAssumption`, `SequentialAssumption`,
`EnvironmentAssumption`, `ShuffleAssumption`, `ThreadsAssumption`, `JobsAssumption`,
`ResourcesAssumption`, `DashboardAssumption`) are types, values that are no data (`NoBlob`,
`Torn`, `Nobody`, `NoLock`), finitely many workers and, in `ShuffleAssumption` and
`JobsAssumption`, what a planner makes of stages and what a write may ask for; TLC evaluates
all of them. `RunnerProofs` EXTENDS the two modules of one worker, and `DashboardProofs` for the lemmas
about folds and sequences; `DriverProofs` EXTENDS the two modules of a driver's accounts. Their
names are distinct. Where a theorem has a hypothesis of its own the table says so, and why it
is needed.

| Theorem | Property | Hypothesis |
|---|---|---|
| `RunResumableProofs!Typing` | `TypeOK` | |
| `RunResumableProofs!ExactlyOnce` | `NoDoubleCountNoLoss` | |
| `RunResumableProofs!Authentic` | `FoldedIsAuthentic` | |
| `RunResumableProofs!Budget` | `BudgetIsExact` | |
| `RunResumableProofs!Repair` | `RefusedIsRewritten` | |
| `RunResumableProofs!Losses` | `OneLossPerCrash` | |
| `ResumableWorkersProofs!AnswersAuthentic` | `AnswersAreAuthentic` | |
| `ResumableWorkersProofs!Keeps` | `KeepsResults`, the refinement of `DurableResults` | `~ShortWrites` |
| `ResumableWorkersProofs!NotRerun` | `RecordedIsNotRerun` | `~ShortWrites`; one outcome a task |
| `DriverProofs!Told` | `ToldOfOtherEnvironments` | `~Tears` |
| `DriverProofs!NotRefused` | `RecordedIsNotRefused` | `~Tears` |
| `DriverProofs!EveryChunk` | `EveryChunkAccounted` | |
| `DriverProofs!Budgeted` | `BudgetIsMet` | |
| `DriverProofs!Warned` | `WarningsReachTheDriver` | |
| `RunnerProofs!OneMore` | `AtMostOneMoreStarts` | |
| `RunnerProofs!OneRunOnly` | `CancelEndsOneRun` | |
| `RunnerProofs!Prefix` | `ReturnsPrefixFold` | |
| `RunnerProofs!ToldTrue` | `EventsAreTold` | |
| `RunnerProofs!OpenWhileUsed` | `HandlesInUseStayOpen` | |
| `RunnerProofs!EntriesOnce` | `EveryEntryOnce` | |
| `RunnerProofs!PartsHoldInput` | `PartsAreTheInput` | |
| `DashboardProofs!Accounted` | `EventsAccounted` | |
| `DashboardProofs!Converges` | `PageConverges` | |
| `ShuffleResumeProofs!NeverOver` | `CommittedIsRecorded` | |
| `ShuffleResumeProofs!NamesInputs` | `RecordsNameTheirInputs` | |
| `ShuffleResumeProofs!NoEndpoints` | `EndpointsAreNotIdentity` | |
| `ShuffleResumeProofs!OwnResult` | `ResultIsOwn` | |
| `AmbientWeightProofs!WholeOrNot` | `RegistryIsWhatReturned` | |

`StoreFilesProofs` has the lemmas about files: what a replay reads is recorded
(`CompletedIsRecorded`, which needs that a non-empty finite set of positions has a last
one), what is recorded and whole is read (`RecordedIsCompleted`), what lines an interrupted
append leaves (`CrashedAppendLines`), and which lines no append can take away (`Solid`,
`SolidStays`).

**RunResumable.** `IInv` adds where each value came from and where the loop
is: every readable line of the journal names an outcome of its task
(`JournalAuthentic`), so does what the run holds (`HeldAuthentic`), and the value
between `process` and `record_done` (`ValueAuthentic`); `Position` ties `part`,
`pc` and the dead letters; `FoldInOrder` says the fold is exactly the partitions
passed and not dead-lettered. `Budget` adds that the count of the report is that of the dead
letters, at every point of the loop. `Repair` adds that a blob held
for the partition at hand is refused or absent whenever the run computes it again, so that
the put writes. `Losses` counts the records at risk, those no *solid* line says: the last line of
an unended journal is at risk before it is lost, and the crash that left it
so is the one that pays, which is why the bound has `Unpaid`.

**ResumableWorkers.** Authenticity is as above, over many journals and workers. The
refinement maps kept results to the digests that a readable line names and whose object is
whole; its invariant adds that no two processes share a journal and that the
journals of live ones are ended (`Processes`, where `~ShortWrites` is
needed), that a task is with one worker of a driver and unanswered (`Assignments`), and
that only harm makes a blob not whole (`Wholeness`). Then no step takes a readable line away
(`LinesStay`), and each step is a step of `DurableResults` or a stutter. `NotRerun` adds
that a plan was tagged with something for each task whose record it could find
(`Remembered`); if a task could return two different results, the one it was tagged with need not be the whole one.

**EnvironmentRecord.** What a run that is alone has read is what there is (`Snapshots`);
while no accept raced another run, a run under way knows every record but first ones, and
whatever results there are belong to an environment in force or accepted (`Unraced`);
what was recorded last is alone in force (`Current`).

**SkipFailed.** Every chunk is in one place: pending, under way or on one side of
one partial (`Apart`, `Complete`). A partial never has more failures than the budget that is
left, and a raise had more (`Solvent`, from the cardinality of disjoint unions). For
`WarningsReachTheDriver` (`Carrying`): what a task showed itself is in its sink and then in the
partial it is folded in; what a task of this attempt is said to have shown, in a registry
(`Registry`) or before another's warning (`Attributed`), it did show. So if that task is in the
value, the warning is told.

**SequentialRun.** `Obeyed`: no task has started since a word that stops it, unless the run is past
its look at the control. `Meant`: a control that is cancelled, or a run stopped and not yet at
its finally clause, has had a cancel since the last one. `Fold` and `Chronicle` tie what is folded and
each task's events to where the loop is.

**RetriedTask.** The cache never holds a file twice nor more than may be open (`Bounded`, also of
the handles put aside for a fresh set), and what the read has used comes after everything else
(`Recent`). So if the handle closed to make room were in use, all the others would be, which are
more than a read opens (`NoLonger`, by the pigeonhole).
For `EveryEntryOnce`: a plan's partitions, read one after the other, are the input without an
overlap (`Divided`, since those of each file are end to end and cover it, `Covers`, for ranges
known, blind or of row groups). The splits under way are nested (`Nested`): each has values that
are the entries up to `got`, pieces to read that cut `left` to its end, and the split within it is of
what is between. A read under way is of just that range of the innermost (`Awaited`), and a split
whose piece has answered has no gap (`Resting`), so what it gives when it ends is the entries of what
was split, in order. The fold is then exactly the entries of the tasks that are over and not dead
(`Folded`). For `PartsAreTheInput`: each part that is written holds what its task read
(`Writing`), and no two tasks of a write have one part (`PartsDiffer`), because a blind range
carries its step, and of known ranges the empty ones are dropped and the others lie in different
steps. What a fold over ranges, entries or files computes, such as `filled`, is what each of its
beginnings does, by least counterexample (`FilledFold`, `StepByStep`).

**Dashboard.** What is told, counted, dropped and under way balances (`Balance`): what a step
of one monitor's adds to one side it adds to the other (`Balanced`, from what one changed number does
to a sum, `SumChanges`). That takes what the folds of the model compute: a sum over a finite
set, in whatever order (`NumbersFold`), a frame taken in event by event (`FrameFold`), of which each
is counted once, a lean worker's unsent start aside (`IngestCounts`, `FrameCounts`), and the
events of the frames on a wire (`LoadMore`, `LoadLess`). Each is a least counterexample. A sender has a
batch, and then a connection that is open or found dead, only while it sends (`Sending`), so
nothing is dropped for the want of one, and once it has seen the end nothing more is told (`Over`),
so the buffer it leaves is empty. The senders are finitely many (`DashboardAssumption`).
For `PageConverges` nothing has been lost (`Lossless`), so what a monitor was told and the server has
not taken in is *due*: the monitor's wire, batch and buffer, in that order (`Due`). Only three steps
change it: an event is told and is due last (`Adds`), a frame is taken in and was due first
(`FrameShown`, event by event `TakenShown`), or a run begins. The invariant `Shown` is about any
beginnings of the monitors' queues and does not say how they interleave, so it covers every order
of arrival. Each event told is counted or due (`Tallies`). A worker's events alternate between start
and end, up to what it is at (`Turns`); so the workers whose next due event is an end are those in
flight (`Flights`), each started task being with one worker (`AtWorkCount`, a bijection). Of
each task, what was heard last from its worker (`h`) and whether its submission is
still due (`SubDue`) decide its lifecycle set, row, cell and membership in `open` (`Page`). `Page` and that
what is due is of the run under way (`OfRun`) are kept only while no run began before the last was
heard out or after a retry (`Clear`), as `PageConverges` says. The sets of a finished run (`Full`)
are told from those of the next one by the first event that repeats a class.

**ShuffleResume.** For `CommittedIsRecorded`: no two processes own a writer (a forked copy
owns none until it takes one), a copy is of a process that is there, and an owner's
count is past every record of its writer, so a new record's name is new. For
`RecordsNameTheirInputs`: in every run hashes and payloads are one and the same
(`Faithful`, since `get` serves only bytes that hash to their name), the block in hand is made of the
blocks its stage reads (`Makes`), and the list a run goes by is the list of those
and is in the store (`Named`); it stays so because no stage reads its own blocks
(`DoneSound`), and because a name once written is never without an object, whole or
not (`StoredStays`). Objects are never removed in this code. For
`EndpointsAreNotIdentity`: a partition that a constructor made reads back as it was
from the fields that are set (`PartitionKept`), so a plan read from its bytes has the
tasks that were written (`BytesKeepIds`), and binding leaves what ids are made of
alone (`BoundKeepsIds`); a plan that carries no services calls none, so the check
that lets it through unasked does no harm (`BoundReady`); and a run that is not done is at
a task of its stage (`Placed`), so that what it records has the id of one.
For `ResultIsOwn`: under the id of a map task there is only ever a block of the partition that
the id names, since a partition is what its JSON says (`Genuine`, `PartitionKept`); while no block
of another plan stands under an id of a later stage, what a run wrote or found for a stage is a
block its plan may come to there (`Own`), one for each task of the stages it has passed, since of
the finitely many records of a task there is a last (`LastExists`). What a plan may
come to is defined stage after stage. That there is such a list of lists follows from
stages reading only earlier ones (`OnlyReads`), by a least stage for which there is none
(`ListsExist`); it makes the result the one of the stages before it, whichever block of each task
was reused.

**AmbientWeight.** The registry's two maps are each other's inverse, which binding labels
that pass the check preserves (`BindKeepsInverse`, `MintKeepsInverse`); the lock is held by the one
thread that works, whose `saved` is what the calls that returned made (`Saves`), so undoing
goes back to it and only a return moves it.

Model-checked only:

- Liveness (`Returns`, `RunsEnd`, `TasksEnd`): fairness and ENABLED are out of the prover's reach.
- What is computed by recursion or by folds over data: `GraphPipeline` whole (graphs,
  bytes, joins), `UniverseIsItsPoint` (products over families, which commute
  by induction over them).
- `WeightIsFresh`, which is not true of every program (`AmbientWeight_fold`), so that a theorem
  would be about the programs it is true of.

## 6. Not modelled

- The Windows path of `_atomic_write` (a rename that fails because a reader has
  the file open) and temp files a crash leaves, which nothing reads.
- Task keys (`_KeyPickler`, `_key_digest`): that different work has different
  keys is a property of pickling, assumed by giving each task an id of its own.
  Two keys that collide would be served from each other.
- `completed()` is one step in `ResumableWorkers`; in `EnvironmentRecord`, where the order of its
  reads matters, it is two.
- An interrupt that falls elsewhere than in a task's `process` or `combine`, a `finalize` that
  raises (the control is reset by then, so the run only ends), and filters that code in a worker
  changes, which empties the registries of its process.
- Adaptive task sources of pooled runners, and the runners themselves: the
  package `graphed_executors` is not in this repository.
- Of the graph: materialising one partition or a range of entries, the grouped join of the
  awkward functions, `run_repartition_by_size`, the bytes of a block,
  placeholders of columns that are not read, a Session's scopes, names and services.
- Of systematics: what a mask or a projection adopts (`extension.py`), a join of
  contexts (`join.py`), overlays (`entries.py`), how tags are spelled, members
  computed from weights, two collections shifted in lockstep, reports and accessors.
- Bundles, the debug report and replay, the sampler, rendering: sequential file
  output and presentation.
- Array kernels, readers and forms: functions of array data, of which the
  evaluator's model has the least that tells plans apart.
