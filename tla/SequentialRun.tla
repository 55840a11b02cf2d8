--------------------------- MODULE SequentialRun ---------------------------
(***************************************************************************)
(* SequentialRunner and RunControl (python/graphed/core/execution.py): one *)
(* thread runs plans one after another, task by task, while other threads  *)
(* pause, resume and cancel through the control they share with it, and a  *)
(* monitor is told what became of each task.                               *)
(*                                                                         *)
(* A Plan's tasks are 1..N in key order; a staged plan (DurablePlanV2) has *)
(* N stages, each run without a look at the control.                       *)
(***************************************************************************)
EXTENDS Integers, Sequences, FiniteSets

CONSTANTS
  N,
  Budget,       \* skip_failed, in the runs that have it: failed chunks tolerated
  MaxRuns, MaxCommands

ASSUME SequentialAssumption ==
  /\ N \in Nat /\ Budget \in Nat /\ MaxRuns \in Nat /\ MaxCommands \in Nat

VARIABLES
  control,   \* the RunControl's state
  woken,     \* its condition variable notified the runner since it went to sleep
  pc,        \* where the runner's thread is
  kind,      \* "plan", "skipping" (a plan run with skip_failed) or "staged"
  next,      \* the task, or stage, it is at
  value,     \* the tasks folded so far, in order
  failed,    \* the tasks whose process raised so far
  outcome,   \* how this run ends: "none", "result", "stopped" or "raised"
  events,    \* what the monitor was told of each task
  runs, commands,   \* bounds
  starts,    \* history: tasks started since the control last left "running"
  targets,   \* history: runs a cancel was sent to: the one under way, else the next
  standing   \* history: a cancel was sent since the last finally clause

runner  == <<pc, kind, next, value, failed, outcome, events>>
vars    == <<control, woken, runner, runs, commands, starts, targets, standing>>

Tasks == 1..N

Init ==
  /\ control = "running" /\ woken = FALSE
  /\ pc = "idle" /\ kind = "plan" /\ next = 1
  /\ value = << >> /\ failed = {} /\ outcome = "none"
  /\ events = [t \in Tasks |-> << >>]
  /\ runs = 0 /\ commands = 0 /\ starts = 0
  /\ targets = {} /\ standing = FALSE

(***************************************************************************)
(* RunControl.                                                             *)
(***************************************************************************)

\* A state change that leaves a sleeping runner asleep.
Move_Silent(to) ==
  /\ control' = to
  /\ UNCHANGED woken
  /\ starts' = IF to = "running" THEN 0 ELSE starts

\* _move: every one notifies, whether it changes the state or not.
Move(to) ==
  /\ control' = to
  /\ woken' = TRUE
  /\ starts' = IF to = "running" THEN 0 ELSE starts

Commanded == commands < MaxCommands /\ commands' = commands + 1

Pause ==
  /\ Commanded
  /\ Move(IF control = "running" THEN "paused" ELSE control)
  /\ UNCHANGED <<runner, runs, targets, standing>>

Resume ==
  /\ control = "paused"
  /\ Move("running")
  /\ UNCHANGED <<runner, runs, commands, targets, standing>>

Sent ==
  /\ targets' = targets \union {IF pc = "idle" THEN runs + 1 ELSE runs}
  /\ standing' = TRUE

Cancel ==
  /\ Commanded
  /\ Move("cancelled")
  /\ Sent
  /\ UNCHANGED <<runner, runs>>

(***************************************************************************)
(* SequentialRunner.                                                       *)
(***************************************************************************)

world == <<control, runs, commands, targets, standing>>

Goes(to) == pc' = to /\ woken' = FALSE

\* run() is called, or submit(): skipping wraps the plan, on_run_start is told.
Run(k) ==
  /\ pc = "idle" /\ runs < MaxRuns
  /\ runs' = runs + 1 /\ kind' = k
  /\ Goes(IF k = "staged" THEN "check" ELSE "enter")
  /\ next' = 1 /\ value' = << >> /\ failed' = {} /\ outcome' = "none"
  /\ events' = [t \in Tasks |-> << >>]
  /\ UNCHANGED <<control, commands, starts, targets, standing>>

EnterCancelled ==
  /\ pc = "enter" /\ control = "cancelled"
  /\ Goes("closing") /\ outcome' = "stopped"
  /\ UNCHANGED <<world, kind, next, value, failed, events, starts>>

Submit ==
  /\ pc = "enter" /\ control # "cancelled"
  /\ Goes("check")
  /\ events' = [t \in Tasks |-> <<"submitted">>]
  /\ UNCHANGED <<world, kind, next, value, failed, outcome, starts>>

\* control.wait(): a paused runner sleeps, and looks again when notified.
Sleep ==
  /\ pc = "check" /\ next <= N /\ control = "paused"
  /\ Goes("asleep")
  /\ UNCHANGED <<world, kind, next, value, failed, outcome, events, starts>>

Wake ==
  /\ pc = "asleep" /\ woken
  /\ Goes("check")
  /\ UNCHANGED <<world, kind, next, value, failed, outcome, events, starts>>

\* A look at the control that takes anything but running for a cancel's absence.
Go_IgnoresCancel ==
  /\ pc = "check" /\ next <= N /\ control # "paused"
  /\ Goes("start")
  /\ UNCHANGED <<world, kind, next, value, failed, outcome, events, starts>>
Go ==
  /\ pc = "check" /\ next <= N /\ control = "running"
  /\ Goes("start")
  /\ UNCHANGED <<world, kind, next, value, failed, outcome, events, starts>>

\* A cancel that ends the loop and is not reported.
SeeCancel_AsDone ==
  /\ pc = "check" /\ next <= N /\ control = "cancelled"
  /\ Goes("closing") /\ outcome' = "result"
  /\ UNCHANGED <<world, kind, next, value, failed, events, starts>>

SeeCancel ==
  /\ pc = "check" /\ next <= N /\ control = "cancelled"
  /\ Goes("closing") /\ outcome' = "stopped"
  /\ value' = IF kind = "staged" THEN << >> ELSE value
  /\ UNCHANGED <<world, kind, next, failed, events, starts>>

Told(phase) == events' = [events EXCEPT ![next] = Append(@, phase)]

Start ==
  /\ pc = "start"
  /\ Goes("process")
  /\ starts' = IF control = "running" THEN 0 ELSE starts + 1
  /\ IF kind = "staged" THEN UNCHANGED events ELSE Told("started")
  /\ UNCHANGED <<world, kind, next, value, failed, outcome>>

\* plan.empty() raises before any task is announced.
EmptyRaises ==
  /\ pc = "enter"
  /\ Goes("closing") /\ outcome' = "raised"
  /\ UNCHANGED <<world, kind, next, value, failed, events, starts>>

\* process returns and its partial is combined.
Process ==
  /\ pc = "process"
  /\ Goes("check") /\ next' = next + 1
  /\ value' = Append(value, next)
  /\ IF kind = "staged" THEN UNCHANGED events ELSE Told("finished")
  /\ UNCHANGED <<world, kind, failed, outcome, starts>>

Skips == kind = "skipping"

\* A failure the monitor is not told of.
Fail_Untold ==
  /\ pc = "process"
  /\ Goes("closing") /\ outcome' = "raised"
  /\ failed' = failed \union {next}
  /\ UNCHANGED <<world, kind, next, value, events, starts>>

\* process raises and nothing skips it, or the empty partial that would stand for
\* the chunk raises in its turn: the exception leaves the run.
Fail ==
  /\ pc = "process"
  /\ Goes("closing") /\ outcome' = "raised"
  /\ failed' = failed \union {next}
  /\ IF kind = "staged" THEN UNCHANGED events ELSE Told("errored")
  /\ UNCHANGED <<world, kind, next, value, starts>>

OverBudget(skipped) == Cardinality(skipped) > Budget

\* process raises inside _SkipProcess: an empty partial that names the failure.
Skip ==
  /\ pc = "process" /\ Skips /\ ~OverBudget(failed \union {next})
  /\ Goes("check") /\ next' = next + 1
  /\ failed' = failed \union {next}
  /\ Told("errored")
  /\ UNCHANGED <<world, kind, value, outcome, starts>>

\* The combine of that partial raises TooManyFailedChunksError, which passes
\* by the monitor.
TooMany ==
  /\ pc = "process" /\ Skips /\ OverBudget(failed \union {next})
  /\ Goes("closing") /\ outcome' = "raised"
  /\ failed' = failed \union {next}
  /\ UNCHANGED <<world, kind, next, value, events, starts>>

\* The plan's own combine raises, on a task's partial or on the empty one of a
\* failed chunk within the budget; or process, or combine, is interrupted, which
\* `except Exception` lets by.  No event tells how the task ended.
CombineRaises ==
  /\ pc = "process" /\ kind # "staged"
  /\ Goes("closing") /\ outcome' = "raised"
  /\ \/ UNCHANGED failed
     \/ Skips /\ ~OverBudget(failed \union {next}) /\ failed' = failed \union {next}
  /\ UNCHANGED <<world, kind, next, value, events, starts>>

\* A staged plan's value() raises on the payloads of its last stage.
ValueRaises ==
  /\ pc = "check" /\ next > N /\ kind = "staged"
  /\ Goes("closing") /\ outcome' = "raised"
  /\ UNCHANGED <<world, kind, next, value, failed, events, starts>>

Done ==
  /\ pc = "check" /\ next > N
  /\ Goes("closing") /\ outcome' = "result"
  /\ UNCHANGED <<world, kind, next, value, failed, events, starts>>

\* A run that leaves a cancel it did not see for the next.
Close_Unreset ==
  /\ pc = "closing"
  /\ Goes("finalize") /\ standing' = FALSE
  /\ IF control = "cancelled" /\ outcome = "stopped"
     THEN control' = "running" /\ starts' = 0 ELSE UNCHANGED <<control, starts>>
  /\ UNCHANGED <<runs, commands, targets, kind, next, value, failed, outcome, events>>

\* The finally clause: handles are closed, a cancel is taken back.
Close ==
  /\ pc = "closing"
  /\ Goes("finalize") /\ standing' = FALSE
  /\ IF control = "cancelled"
     THEN control' = "running" /\ starts' = 0 ELSE UNCHANGED <<control, starts>>
  /\ UNCHANGED <<runs, commands, targets, kind, next, value, failed, outcome, events>>

\* on_run_end, then finalize_result unless the run raised; run() is left.
Return ==
  /\ pc = "finalize"
  /\ Goes("idle")
  /\ UNCHANGED <<world, kind, next, value, failed, outcome, events, starts>>

RunnerStep ==
  \/ EmptyRaises \/ EnterCancelled \/ Submit \/ Sleep \/ Wake \/ Go \/ SeeCancel
  \/ Start \/ Process \/ Fail \/ Skip \/ TooMany \/ CombineRaises \/ ValueRaises
  \/ Done \/ Close \/ Return

Next ==
  \/ Pause \/ Resume \/ Cancel
  \/ \E k \in {"plan", "skipping", "staged"} : Run(k)
  \/ RunnerStep

Spec == Init /\ [][Next]_vars

\* The runner's thread is scheduled, and whoever paused a run resumes it or
\* cancels it at last.
FairSpec == Spec /\ WF_vars(RunnerStep) /\ WF_vars(Resume)

(***************************************************************************)
(* Correctness.                                                            *)
(***************************************************************************)
\* The runner checks the control before each task: once it is told to pause or
\* cancel, at most the task it had already let through starts.
AtMostOneMoreStarts == starts <= 1

InValue == {value[k] : k \in DOMAIN value}

\* "A cancel returns the fold of the tasks that completed": whatever a run
\* returns is the fold, in key order, of a prefix of its tasks less the failed
\* ones, all of them if it was not stopped, and the failed ones are within the
\* budget; the first past it makes a run that skips raise.
ReturnsPrefixFold ==
  pc = "idle" /\ kind # "staged" /\ outcome # "none" =>
    /\ InValue = (1..(next - 1)) \ failed
    /\ \A j, k \in DOMAIN value : j < k => value[j] < value[k]
    /\ outcome = "result" => next = N + 1
    /\ Skips => Cardinality(failed) <= Budget + (IF outcome = "raised" THEN 1 ELSE 0)

\* What a monitor can rely on.  A task's events come in order.  One told finished
\* is in the value and one told errored raised.  A run that returns has told of
\* every task it started how it ended; one that raises has told it of all but
\* the last it started, and of that one too if its process raised and no skipping
\* took the exception.
EventsAreTold ==
  \A t \in Tasks :
    /\ events[t] \in {<< >>, <<"submitted">>, <<"submitted", "started">>,
                      <<"submitted", "started", "finished">>,
                      <<"submitted", "started", "errored">>}
    /\ pc = "idle" /\ Len(events[t]) = 2 =>
         outcome = "raised" /\ t = next /\ (Skips \/ t \notin failed)
    /\ pc = "idle" /\ Len(events[t]) = 3 =>
         t \in (IF events[t][3] = "finished" THEN InValue ELSE failed)

\* "Per task the contract is exactly one SUBMITTED, then one STARTED, then exactly
\* one of FINISHED | ERRORED - except that a task a RunControl cancel kept from
\* starting ends at its SUBMITTED": the contract of TaskEvent, of the tasks a run
\* started.
StartedTasksEnd ==
  pc = "idle" => \A t \in Tasks : "started" \in {events[t][k] : k \in DOMAIN events[t]} =>
    events[t][Len(events[t])] \in {"finished", "errored"}

\* "So a cancel ends one run only": a run is stopped only by a cancel sent since
\* the finally clause of the run before it, so that none stops two.
CancelEndsOneRun ==
  pc = "closing" /\ outcome = "stopped" => standing

\* "A cancel ends this run only, whether or not a check saw it": a run is stopped
\* only by a cancel sent while it was under way, or while none was.
CancelReachesNoLaterRun ==
  outcome = "stopped" => runs \in targets

\* A run ends, paused and cancelled in any order: no wake-up is lost.
RunsEnd == (pc # "idle") ~> (pc = "idle")
=============================================================================
