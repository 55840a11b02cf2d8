---------------------------- MODULE RunnerProofs ----------------------------
(***************************************************************************)
(* One worker that runs tasks in order.  Under a control (SequentialRun),  *)
(* for any number of tasks, runs, pauses, resumes and cancels and any      *)
(* budget of failures: a control's word is heard within one task, a cancel *)
(* ends one run at most, what is returned is the fold of a prefix less the *)
(* failures, and what the monitor is told of it is true.  Under a          *)
(* retry policy (RetriedTask), for any files, policy and bound on open     *)
(* handles: no handle is closed under the read that uses it, a fold has    *)
(* every entry once, in order, less the dead-letter set, and the parts     *)
(* that were written hold the input.  What folds compute and sequences     *)
(* flatten to is in DashboardProofs.                                       *)
(***************************************************************************)
EXTENDS SequentialRun, RetriedTask, DashboardProofs

Looping == {"check", "asleep", "start", "process"}
Leaving == {"closing", "finalize"}

ControlOK ==
  /\ control \in {"running", "paused", "cancelled"}
  /\ runs \in Nat /\ commands \in Nat /\ starts \in Nat

PlaceOK ==
  /\ pc \in {"idle", "enter"} \union Looping \union Leaving
  /\ kind \in {"plan", "skipping", "staged"}
  /\ outcome \in {"none", "result", "stopped", "raised"}
  /\ next \in 1..(N + 1)

HistoryOK ==
  /\ value \in Seq(Tasks)
  /\ failed \subseteq Tasks /\ IsFiniteSet(failed)
  /\ DOMAIN events = Tasks

TypeOK == woken \in BOOLEAN /\ ControlOK /\ PlaceOK /\ HistoryOK

(***************************************************************************)
(* The control.  A task is let through only while the control is running,  *)
(* so no other has started since the word that stops it.                   *)
(***************************************************************************)

Obeyed ==
  /\ starts <= 1
  /\ control = "running" \/ pc = "start" => starts = 0

\* A cancel that is still to be seen was sent since the last finally clause.
Meant ==
  /\ control = "cancelled" => standing
  /\ pc = "closing" /\ outcome = "stopped" => standing

(***************************************************************************)
(* The fold.  What is folded, what failed and where the run is.            *)
(***************************************************************************)

Fold ==
  /\ pc = "process" \/ pc = "start" \/ pc = "asleep" => next <= N
  /\ pc = "enter" => kind # "staged" /\ next = 1 /\ value = << >>
  /\ pc \in {"enter"} \union Looping => outcome = "none"
  /\ outcome = "result" => next = N + 1
  /\ pc \in Leaving => outcome # "none"
  /\ kind # "skipping" /\ outcome # "raised" => failed = {}
  /\ outcome # "raised" =>
       Cardinality(failed) <= Budget /\ failed \subseteq 1..(next - 1)
  /\ outcome = "raised" /\ Skips => Cardinality(failed) <= Budget + 1
  /\ kind # "staged" =>
       /\ {value[k] : k \in DOMAIN value} = (1..(next - 1)) \ failed
       /\ \A j, k \in DOMAIN value : j < k => value[j] < value[k]

(***************************************************************************)
(* The events.  Those of a task passed tell what became of it, and those   *)
(* of the task at hand how far it came.                                    *)
(***************************************************************************)

Unsubmitted == \A t \in Tasks : events[t] = << >>

Queued     == <<"submitted">>
Begun      == <<"submitted", "started">>
EndedAs(how) == <<"submitted", "started", how>>

AtHand ==
  CASE pc \in {"check", "asleep", "start"} -> {Queued}
    [] pc = "process"                      -> {Begun}
    [] OTHER -> IF outcome # "raised" THEN {Queued}
                ELSE IF next \notin failed THEN {Begun}
                ELSE IF Skips THEN {Begun, EndedAs("errored")} ELSE {EndedAs("errored")}

Submitted ==
  /\ \A t \in Tasks : t > next => events[t] = Queued
  /\ \A t \in Tasks : t < next =>
       events[t] = EndedAs(IF t \in failed THEN "errored" ELSE "finished")
  /\ next \in Tasks => events[next] \in AtHand

Chronicle ==
  /\ kind = "staged" \/ pc = "enter" => Unsubmitted
  /\ kind # "staged" /\ pc \in Looping => Submitted
  /\ kind # "staged" /\ pc \in Leaving \union {"idle"} =>
       Submitted \/ (Unsubmitted /\ next = 1 /\ value = << >>)

IInv == TypeOK /\ Obeyed /\ Meant /\ Fold /\ Chronicle

LEMMA InitIInv == SequentialAssumption /\ Init => IInv
<1> SUFFICES ASSUME SequentialAssumption, Init PROVE IInv
  OBVIOUS
<1>1. TypeOK
  <2>1. IsFiniteSet({})
    BY FS_EmptySet
  <2>2. ControlOK /\ PlaceOK
    BY DEF Init, ControlOK, PlaceOK, SequentialAssumption
  <2>3. value \in Seq(Tasks)
    BY DEF Init
  <2>4. failed \subseteq Tasks /\ IsFiniteSet(failed) /\ DOMAIN events = Tasks
    BY <2>1 DEF Init
  <2>5. woken \in BOOLEAN
    BY DEF Init
  <2>6. QED
    BY <2>2, <2>3, <2>4, <2>5 DEF TypeOK, HistoryOK
<1>2. Obeyed /\ Meant
  BY DEF Init, Obeyed, Meant
<1>3. Fold
  <2>1. IsFiniteSet({}) /\ Cardinality({}) = 0
    BY FS_EmptySet
  <2>2. QED
    BY <2>1 DEF Init, Fold, Looping, Leaving, Skips, SequentialAssumption
<1>4. Chronicle
  BY DEF Init, Chronicle, Unsubmitted, Looping, Leaving
<1>5. QED
  BY <1>1, <1>2, <1>3, <1>4 DEF IInv

(***************************************************************************)
(* Each part of the invariant, preserved by each action.                   *)
(***************************************************************************)

LEMMA NextType == SequentialAssumption /\ IInv /\ [Next]_vars => TypeOK'
<1> SUFFICES ASSUME SequentialAssumption, IInv, [Next]_vars PROVE TypeOK'
  OBVIOUS
<1> USE DEF IInv, TypeOK
<1>0. N \in Nat
  BY DEF SequentialAssumption
<1>1. ControlOK'
  <2> USE DEF ControlOK
  <2>1. CASE Pause \/ Resume \/ Cancel
    BY <2>1 DEF Pause, Resume, Cancel, Commanded, Move
  <2>2. ASSUME NEW k \in {"plan", "skipping", "staged"}, Run(k) PROVE ControlOK'
    BY <2>2 DEF Run, Goes
  <2>3. CASE RunnerStep
    BY <2>3
       DEF RunnerStep, EmptyRaises, EnterCancelled, Submit, Sleep, Wake, Go, SeeCancel, Start,
           Process, Fail, Skip, TooMany, CombineRaises, ValueRaises, Done, Close, Return, Goes, world
  <2>4. CASE UNCHANGED vars
    BY <2>4 DEF vars
  <2>5. QED
    BY <2>1, <2>2, <2>3, <2>4 DEF Next
<1>2. PlaceOK'
  <2> USE DEF PlaceOK, Looping, Leaving
  <2>1. CASE Pause \/ Resume \/ Cancel \/ UNCHANGED vars
    BY <2>1 DEF Pause, Resume, Cancel, runner, vars
  <2>2. ASSUME NEW k \in {"plan", "skipping", "staged"}, Run(k) PROVE PlaceOK'
    BY <1>0, <2>2 DEF Run, Goes
  <2>3. CASE EmptyRaises \/ EnterCancelled \/ Submit \/ Sleep \/ Wake \/ Go \/ SeeCancel
             \/ Start \/ ValueRaises \/ Done \/ Close \/ Return
    BY <2>3
       DEF EmptyRaises, EnterCancelled, Submit, Sleep, Wake, Go, SeeCancel, Start, ValueRaises, Done,
           Close, Return, Goes, world
  <2>4. CASE Process \/ Fail \/ Skip \/ TooMany \/ CombineRaises
    BY <1>0, <2>4 DEF Process, Fail, Skip, TooMany, CombineRaises, Goes, world, Fold
  <2>5. QED
    BY <2>1, <2>2, <2>3, <2>4 DEF Next, RunnerStep
<1>3. HistoryOK'
  <2> USE DEF HistoryOK
  <2>1. pc = "process" => next \in Tasks
    BY <1>0 DEF PlaceOK, Fold, Tasks
  <2>2. ASSUME NEW word, Told(word) PROVE DOMAIN events' = Tasks
    BY <2>2 DEF Told
  <2>3. IsFiniteSet({}) /\ \A t : IsFiniteSet(failed \union {t})
    BY FS_EmptySet, FS_AddElement
  <2>4. CASE Pause \/ Resume \/ Cancel \/ UNCHANGED vars
    BY <2>4 DEF Pause, Resume, Cancel, runner, vars
  <2>5. ASSUME NEW k \in {"plan", "skipping", "staged"}, Run(k) PROVE HistoryOK'
    BY <2>3, <2>5 DEF Run
  <2>6. CASE EmptyRaises \/ EnterCancelled \/ Submit \/ Sleep \/ Wake \/ Go \/ SeeCancel \/ Start
             \/ ValueRaises \/ Done \/ Close \/ Return
    <3>1. value' \in {value, << >>} /\ failed' = failed
      BY <2>6
         DEF EmptyRaises, EnterCancelled, Submit, Sleep, Wake, Go, SeeCancel, Start, ValueRaises,
             Done, Close, Return, world
    <3>2. DOMAIN events' = Tasks
      BY <2>2, <2>6
         DEF EmptyRaises, EnterCancelled, Submit, Sleep, Wake, Go, SeeCancel, Start, ValueRaises,
             Done, Close, Return, world
    <3>3. value' \in Seq(Tasks)
      <4>1. << >> \in Seq(Tasks)
        OBVIOUS
      <4>2. QED
        BY <3>1, <4>1
    <3>4. QED
      BY <3>1, <3>2, <3>3
  <2>7. CASE Process
    BY <2>1, <2>2, <2>7 DEF Process, world
  <2>8. CASE Fail \/ Skip \/ TooMany \/ CombineRaises
    BY <2>1, <2>2, <2>3, <2>8 DEF Fail, Skip, TooMany, CombineRaises, world
  <2>9. QED
    BY <2>4, <2>5, <2>6, <2>7, <2>8 DEF Next, RunnerStep
<1>4. (woken \in BOOLEAN)'
  BY DEF Next, Pause, Resume, Cancel, Move, Run, RunnerStep, EmptyRaises, EnterCancelled, Submit,
         Sleep, Wake, Go, SeeCancel, Start, Process, Fail, Skip, TooMany, CombineRaises, ValueRaises,
         Done, Close, Return, Goes, vars
<1>5. QED
  BY <1>1, <1>2, <1>3, <1>4

LEMMA NextObeyed == SequentialAssumption /\ IInv /\ [Next]_vars => Obeyed'
<1> SUFFICES ASSUME SequentialAssumption, IInv, [Next]_vars PROVE Obeyed'
  OBVIOUS
<1> USE DEF IInv, Obeyed
<1>0. starts \in Nat
  BY DEF TypeOK, ControlOK
<1>1. CASE Pause \/ Resume \/ Cancel
  BY <1>0, <1>1 DEF Pause, Resume, Cancel, Move, runner
<1>2. ASSUME NEW k \in {"plan", "skipping", "staged"}, Run(k) PROVE Obeyed'
  BY <1>2 DEF Run, Goes
<1>3. CASE Go
  BY <1>3 DEF Go, Goes, world
<1>4. CASE Start
  BY <1>0, <1>4 DEF Start, Goes, world
<1>5. CASE Close
  BY <1>5 DEF Close, Goes
<1>6. CASE EmptyRaises \/ EnterCancelled \/ Submit \/ Sleep \/ Wake \/ SeeCancel \/ Process
           \/ Fail \/ Skip \/ TooMany \/ CombineRaises \/ ValueRaises \/ Done \/ Return
  BY <1>6
     DEF EmptyRaises, EnterCancelled, Submit, Sleep, Wake, SeeCancel, Process, Fail, Skip, TooMany,
         CombineRaises, ValueRaises, Done, Return, Goes, world
<1>7. CASE UNCHANGED vars
  BY <1>7 DEF vars, runner
<1>8. QED
  BY <1>1, <1>2, <1>3, <1>4, <1>5, <1>6, <1>7 DEF Next, RunnerStep

LEMMA NextMeant == IInv /\ [Next]_vars => Meant'
<1> SUFFICES ASSUME IInv, [Next]_vars PROVE Meant'
  OBVIOUS
<1> USE DEF IInv, Meant
<1>1. CASE Pause \/ Resume \/ Cancel
  BY <1>1 DEF Pause, Resume, Cancel, Move, Sent, runner
<1>2. ASSUME NEW k \in {"plan", "skipping", "staged"}, Run(k) PROVE Meant'
  BY <1>2 DEF Run, Goes
<1>3. CASE EnterCancelled \/ SeeCancel
  BY <1>3 DEF EnterCancelled, SeeCancel, Goes, world
<1>4. CASE EmptyRaises \/ Submit \/ Sleep \/ Wake \/ Go \/ Start \/ Process \/ Fail \/ Skip
           \/ TooMany \/ CombineRaises \/ ValueRaises \/ Done \/ Return
  BY <1>4
     DEF EmptyRaises, Submit, Sleep, Wake, Go, Start, Process, Fail, Skip, TooMany, CombineRaises,
         ValueRaises, Done, Return, Goes, world
<1>5. CASE Close
  BY <1>5 DEF Close, Goes
<1>6. CASE UNCHANGED vars
  BY <1>6 DEF vars, runner
<1>7. QED
  BY <1>1, <1>2, <1>3, <1>4, <1>5, <1>6 DEF Next, RunnerStep

\* What an append adds to what is folded, in order.
LEMMA Folds ==
  ASSUME NEW S, NEW s \in Seq(S), NEW x \in S
  PROVE  /\ {Append(s, x)[k] : k \in DOMAIN Append(s, x)} = {s[k] : k \in DOMAIN s} \union {x}
         /\ \A j, k \in DOMAIN Append(s, x) :
              j < k => /\ j \in DOMAIN s /\ Append(s, x)[j] = s[j]
                       /\ k \in DOMAIN s => Append(s, x)[k] = s[k]
                       /\ k \notin DOMAIN s => Append(s, x)[k] = x
<1> DEFINE t == Append(s, x)
<1>1. /\ DOMAIN s = 1..Len(s) /\ DOMAIN t = 1..(Len(s) + 1) /\ Len(s) \in Nat
      /\ t[Len(s) + 1] = x /\ \A k \in 1..Len(s) : t[k] = s[k]
  OBVIOUS
<1> HIDE DEF t
<1>2. {t[k] : k \in DOMAIN t} = {s[k] : k \in DOMAIN s} \union {x}
  <2>1. ASSUME NEW k \in DOMAIN t PROVE t[k] \in {s[i] : i \in DOMAIN s} \union {x}
    BY <1>1, k \in DOMAIN s \/ k = Len(s) + 1
  <2>2. ASSUME NEW k \in DOMAIN s PROVE s[k] \in {t[i] : i \in DOMAIN t}
    BY <1>1
  <2>3. x \in {t[i] : i \in DOMAIN t}
    BY <1>1
  <2>4. QED
    BY <2>1, <2>2, <2>3
<1>3. ASSUME NEW j \in DOMAIN t, NEW k \in DOMAIN t, j < k
      PROVE  /\ j \in DOMAIN s /\ t[j] = s[j]
             /\ k \in DOMAIN s => t[k] = s[k]
             /\ k \notin DOMAIN s => t[k] = x
  BY <1>1, <1>3
<1>4. QED
  BY <1>2, <1>3 DEF t

LEMMA NextFold == SequentialAssumption /\ IInv /\ [Next]_vars => Fold'
<1> SUFFICES ASSUME SequentialAssumption, IInv, [Next]_vars PROVE Fold'
  OBVIOUS
<1> USE DEF IInv, Skips
<1>0. /\ N \in Nat /\ Budget \in Nat /\ next \in 1..(N + 1)
      /\ pc \in {"idle", "enter", "check", "asleep", "start", "process", "closing", "finalize"}
      /\ outcome \in {"none", "result", "stopped", "raised"}
      /\ kind \in {"plan", "skipping", "staged"}
  BY DEF SequentialAssumption, TypeOK, PlaceOK, Looping, Leaving
<1>1. IsFiniteSet({}) /\ Cardinality({}) = 0 /\ Cardinality(failed) \in Nat
  BY FS_EmptySet, FS_CardinalityType DEF TypeOK, HistoryOK
<1>2. CASE Pause \/ Resume \/ Cancel \/ UNCHANGED vars
  BY <1>2 DEF Fold, Pause, Resume, Cancel, runner, vars
<1>3. ASSUME NEW k \in {"plan", "skipping", "staged"}, Run(k) PROVE Fold'
  BY <1>0, <1>1, <1>3 DEF Fold, Run, Goes, Looping, Leaving
<1>4. CASE EnterCancelled \/ Submit \/ Sleep \/ Wake \/ Go \/ Start \/ Done \/ Close \/ Return
  BY <1>0, <1>4
     DEF Fold, Looping, Leaving, EnterCancelled, Submit, Sleep, Wake, Go, Start, Done, Close,
         Return, Goes, world
<1>e. CASE EmptyRaises \/ ValueRaises
  BY <1>0, <1>1, <1>e DEF Fold, Looping, Leaving, EmptyRaises, ValueRaises, Goes, world
<1>5. CASE SeeCancel
  BY <1>0, <1>5 DEF Fold, Looping, Leaving, SeeCancel, Goes, world
<1>a. ASSUME pc = "process"
      PROVE  /\ next <= N /\ outcome = "none"
             /\ Cardinality(failed) <= Budget /\ failed \subseteq 1..(next - 1)
             /\ kind # "skipping" => failed = {}
             /\ Cardinality(failed \union {next}) = Cardinality(failed) + 1
             /\ kind # "staged" =>
                  /\ {value[k] : k \in DOMAIN value} = (1..(next - 1)) \ failed
                  /\ \A j, k \in DOMAIN value : j < k => value[j] < value[k]
  <2>1. /\ next <= N /\ outcome = "none"
        /\ Cardinality(failed) <= Budget /\ failed \subseteq 1..(next - 1)
        /\ kind # "skipping" => failed = {}
    BY <1>0, <1>a DEF Fold, Looping
  <2>2. Cardinality(failed \union {next}) = Cardinality(failed) + 1
    <3>1. next \notin failed /\ IsFiniteSet(failed)
      BY <1>0, <2>1 DEF TypeOK, HistoryOK
    <3>2. QED
      BY <3>1, FS_AddElement
  <2>3. kind # "staged" =>
          /\ {value[k] : k \in DOMAIN value} = (1..(next - 1)) \ failed
          /\ \A j, k \in DOMAIN value : j < k => value[j] < value[k]
    BY DEF Fold
  <2>4. QED
    BY <2>1, <2>2, <2>3
<1>6. CASE Process
  <2>1. pc = "process" /\ pc' = "check" /\ next' = next + 1 /\ value' = Append(value, next)
        /\ UNCHANGED <<kind, failed, outcome>>
    BY <1>6 DEF Process, Goes, world
  <2>2. value \in Seq(Tasks) /\ next \in Tasks
    BY <1>0, <1>a, <2>1 DEF TypeOK, HistoryOK, Tasks
  <2>3. ASSUME kind # "staged"
        PROVE  {value'[k] : k \in DOMAIN value'} = (1..(next' - 1)) \ failed'
    <3>1. {value'[k] : k \in DOMAIN value'} = {value[k] : k \in DOMAIN value} \union {next}
      BY <2>1, <2>2, Folds
    <3>2. ((1..(next - 1)) \ failed) \union {next} = (1..next) \ failed
      BY <1>0, <1>a, <2>1
    <3>3. QED
      BY <1>0, <1>a, <2>1, <2>3, <3>1, <3>2
  <2>4. ASSUME kind # "staged", NEW j \in DOMAIN value', NEW k \in DOMAIN value', j < k
        PROVE  value'[j] < value'[k]
    <3>1. /\ j \in DOMAIN value /\ value'[j] = value[j]
          /\ k \in DOMAIN value => value'[k] = value[k]
          /\ k \notin DOMAIN value => value'[k] = next
      BY <2>1, <2>2, <2>4, Folds
    <3>2. value[j] \in 1..(next - 1)
      BY <1>a, <2>1, <2>4, <3>1
    <3>3. QED
      BY <1>0, <1>a, <2>1, <2>4, <3>1, <3>2
  <2>5. QED
    BY <1>0, <1>a, <2>1, <2>3, <2>4 DEF Fold, Looping, Leaving
<1>b. (1..(next - 1)) \ (failed \union {next}) = (1..(next - 1)) \ failed
  BY <1>0
<1>7. CASE Fail
  <2>1. /\ pc = "process" /\ pc' = "closing" /\ outcome' = "raised"
        /\ failed' = failed \union {next} /\ UNCHANGED <<kind, value, next>>
    BY <1>7 DEF Fail, Goes, world
  <2>2. Cardinality(failed') <= Budget + 1
    BY <1>0, <1>1, <1>a, <2>1
  <2>3. QED
    BY <1>0, <1>a, <1>b, <2>1, <2>2 DEF Fold, Looping, Leaving
<1>8. CASE Skip
  <2>1. /\ pc = "process" /\ pc' = "check" /\ next' = next + 1 /\ kind = "skipping"
        /\ failed' = failed \union {next} /\ UNCHANGED <<kind, value, outcome>>
        /\ ~OverBudget(failed \union {next})
    BY <1>8 DEF Skip, Goes, world
  <2>2. /\ Cardinality(failed') <= Budget /\ failed' \subseteq 1..(next' - 1)
        /\ (1..(next' - 1)) \ failed' = (1..(next - 1)) \ failed
    BY <1>0, <1>1, <1>a, <2>1 DEF OverBudget
  <2>3. QED
    BY <1>0, <1>a, <2>1, <2>2 DEF Fold, Looping, Leaving
<1>9. CASE TooMany
  <2>1. /\ pc = "process" /\ pc' = "closing" /\ outcome' = "raised" /\ kind = "skipping"
        /\ failed' = failed \union {next} /\ UNCHANGED <<kind, value, next>>
        /\ OverBudget(failed \union {next})
    BY <1>9 DEF TooMany, Goes, world
  <2>2. Cardinality(failed') <= Budget + 1
    BY <1>0, <1>1, <1>a, <2>1 DEF OverBudget
  <2>3. QED
    BY <1>0, <1>a, <1>b, <2>1, <2>2 DEF Fold, Looping, Leaving
<1>10. CASE CombineRaises
  <2>1. /\ pc = "process" /\ pc' = "closing" /\ outcome' = "raised"
        /\ failed' \in {failed, failed \union {next}} /\ UNCHANGED <<kind, value, next>>
    BY <1>10 DEF CombineRaises, Goes, world
  <2>2. Cardinality(failed') <= Budget + 1
    BY <1>0, <1>1, <1>a, <2>1
  <2>3. (1..(next' - 1)) \ failed' = (1..(next - 1)) \ failed
    BY <1>b, <2>1
  <2>4. QED
    BY <1>0, <1>a, <2>1, <2>2, <2>3 DEF Fold, Looping, Leaving
<1>11. QED
  BY <1>2, <1>3, <1>4, <1>5, <1>6, <1>7, <1>8, <1>9, <1>10, <1>e DEF Next, RunnerStep

LEMMA Grown ==
  ASSUME NEW x, NEW y, NEW z
  PROVE  Append(<<x>>, y) = <<x, y>> /\ Append(<<x, y>>, z) = <<x, y, z>>
<1> DEFINE S == {x, y, z}
           one == <<x>>  two == <<x, y>>  three == <<x, y, z>>
<1>1. /\ one \in Seq(S) /\ Len(one) = 1 /\ one[1] = x
      /\ two \in Seq(S) /\ Len(two) = 2 /\ two[1] = x /\ two[2] = y
      /\ three \in Seq(S) /\ Len(three) = 3 /\ three[1] = x /\ three[2] = y /\ three[3] = z
      /\ y \in S /\ z \in S
  OBVIOUS
<1> HIDE DEF S, one, two, three
<1>2. Append(one, y) = two
  <2>1. /\ Append(one, y) \in Seq(S) /\ Len(Append(one, y)) = 2
        /\ Append(one, y)[1] = x /\ Append(one, y)[2] = y
    <3>1. Len(one) + 1 = 2 /\ 1 \in 1..Len(one)
      BY <1>1
    <3>2. /\ Append(one, y) \in Seq(S) /\ Len(Append(one, y)) = Len(one) + 1
          /\ \A i \in 1..Len(one) : Append(one, y)[i] = one[i]
          /\ Append(one, y)[Len(one) + 1] = y
      <4>1. one \in Seq(S) /\ y \in S
        BY <1>1
      <4>2. QED
        BY ONLY <4>1, AppendProperties
    <3>3. QED
      BY ONLY <1>1, <3>1, <3>2
  <2>2. \A i \in 1..2 : Append(one, y)[i] = two[i]
    BY <1>1, <2>1
  <2>3. QED
    BY ONLY <1>1, <2>1, <2>2, SeqEqual
<1>3. Append(two, z) = three
  <2>1. /\ Append(two, z) \in Seq(S) /\ Len(Append(two, z)) = 3
        /\ Append(two, z)[1] = x /\ Append(two, z)[2] = y /\ Append(two, z)[3] = z
    <3>1. Len(two) + 1 = 3 /\ 1 \in 1..Len(two) /\ 2 \in 1..Len(two)
      BY <1>1
    <3>2. /\ Append(two, z) \in Seq(S) /\ Len(Append(two, z)) = Len(two) + 1
          /\ \A i \in 1..Len(two) : Append(two, z)[i] = two[i]
          /\ Append(two, z)[Len(two) + 1] = z
      <4>1. two \in Seq(S) /\ z \in S
        BY <1>1
      <4>2. QED
        BY ONLY <4>1, AppendProperties
    <3>3. QED
      BY <1>1, <3>1, <3>2
  <2>2. QED
    BY <1>1, <2>1, SeqEqual
<1>4. QED
  BY <1>2, <1>3 DEF one, two, three

LEMMA NextChronicle == SequentialAssumption /\ IInv /\ [Next]_vars => Chronicle'
<1> SUFFICES ASSUME SequentialAssumption, IInv, [Next]_vars PROVE Chronicle'
  OBVIOUS
<1> USE DEF IInv, Skips, Looping, Leaving
<1>0. /\ N \in Nat /\ next \in 1..(N + 1) /\ Tasks = 1..N
      /\ pc \in {"idle", "enter", "check", "asleep", "start", "process", "closing", "finalize"}
      /\ outcome \in {"none", "result", "stopped", "raised"}
      /\ kind \in {"plan", "skipping", "staged"} /\ DOMAIN events = Tasks
  BY DEF SequentialAssumption, TypeOK, PlaceOK, HistoryOK, Tasks
<1>1. CASE Pause \/ Resume \/ Cancel \/ UNCHANGED vars
  BY <1>1
     DEF Chronicle, Unsubmitted, Submitted, AtHand, Pause, Resume, Cancel, runner, vars
<1>2. ASSUME NEW k \in {"plan", "skipping", "staged"}, Run(k) PROVE Chronicle'
  BY <1>2 DEF Chronicle, Unsubmitted, Run, Goes
<1>3. CASE EmptyRaises \/ EnterCancelled
  BY <1>0, <1>3 DEF Chronicle, Fold, Unsubmitted, EmptyRaises, EnterCancelled, Goes, world
<1>4. CASE Submit
  <2>1. /\ next' = 1 /\ pc' = "check" /\ kind' # "staged"
        /\ \A t \in Tasks : events'[t] = Queued
    BY <1>4 DEF Fold, Submit, Goes, world, Queued
  <2>2. QED
    BY <1>0, <2>1 DEF Chronicle, Submitted, AtHand
<1>5. CASE Sleep \/ Wake \/ Go
  BY <1>0, <1>5 DEF Chronicle, Unsubmitted, Submitted, AtHand, Sleep, Wake, Go, Goes, world
<1>6. CASE SeeCancel
  <2> USE <1>0, <1>6 DEF SeeCancel, Goes, world
  <2>1. CASE kind = "staged"
    BY <2>1 DEF Chronicle, Unsubmitted
  <2>2. CASE kind # "staged"
    BY <2>2 DEF Chronicle, Submitted, AtHand
  <2>3. QED
    BY <2>1, <2>2
<1>7. CASE ValueRaises \/ Done
  BY <1>0, <1>7 DEF Chronicle, Unsubmitted, Submitted, AtHand, ValueRaises, Done, Goes, world
<1>8. CASE Close \/ Return
  BY <1>0, <1>8 DEF Chronicle, Unsubmitted, Submitted, AtHand, Close, Return, Goes, world
<1>a. ASSUME NEW word, next \in Tasks, Told(word)
      PROVE  /\ events'[next] = Append(events[next], word)
             /\ \A t \in Tasks : t # next => events'[t] = events[t]
  BY <1>0, <1>a DEF Told
<1>b. Append(Queued, "started") = Begun /\ \A how : Append(Begun, how) = EndedAs(how)
  BY Grown DEF Queued, Begun, EndedAs
<1>c. pc \in {"start", "process"} => next \in Tasks /\ next \notin failed /\ outcome = "none"
  BY <1>0 DEF Fold
<1>9. CASE Start
  <2> USE <1>0, <1>9, <1>c DEF Start, Goes, world
  <2>1. CASE kind = "staged"
    BY <2>1 DEF Chronicle, Unsubmitted
  <2>2. CASE kind # "staged"
    <3>1. Told("started") /\ Submitted
      BY <2>2 DEF Chronicle
    <3>2. /\ events'[next] = Begun /\ \A t \in Tasks : t # next => events'[t] = events[t]
          /\ AtHand' = {Begun}
      BY <1>a, <1>b, <3>1 DEF Submitted, AtHand
    <3>3. QED
      BY <2>2, <3>1, <3>2 DEF Chronicle, Submitted
  <2>3. QED
    BY <2>1, <2>2
<1>10. CASE Process
  <2> USE <1>0, <1>10, <1>c DEF Process, Goes, world
  <2>1. CASE kind = "staged"
    BY <2>1 DEF Chronicle, Unsubmitted
  <2>2. CASE kind # "staged"
    <3>1. Told("finished") /\ Submitted
      BY <2>2 DEF Chronicle
    <3>2. /\ events'[next] = EndedAs("finished")
          /\ \A t \in Tasks : t # next => events'[t] = events[t]
          /\ AtHand' = {Queued}
      BY <1>a, <1>b, <3>1 DEF Submitted, AtHand
    <3>3. QED
      BY <2>2, <3>1, <3>2 DEF Chronicle, Submitted
  <2>3. QED
    BY <2>1, <2>2
<1>11. CASE Fail
  <2> USE <1>0, <1>11, <1>c DEF Fail, Goes, world
  <2>1. CASE kind = "staged"
    BY <2>1 DEF Chronicle, Unsubmitted
  <2>2. CASE kind # "staged"
    <3>1. Told("errored") /\ Submitted
      BY <2>2 DEF Chronicle
    <3>2. /\ events'[next] = EndedAs("errored")
          /\ \A t \in Tasks : t # next => events'[t] = events[t]
          /\ EndedAs("errored") \in AtHand'
      BY <1>a, <1>b, <3>1 DEF Submitted, AtHand
    <3>3. QED
      BY <2>2, <3>1, <3>2 DEF Chronicle, Submitted
  <2>3. QED
    BY <2>1, <2>2
<1>12. CASE Skip
  <2> USE <1>0, <1>12, <1>c DEF Skip, Goes, world
  <2>1. kind = "skipping" /\ Told("errored") /\ Submitted
    BY DEF Chronicle
  <2>2. /\ events'[next] = EndedAs("errored")
        /\ \A t \in Tasks : t # next => events'[t] = events[t]
        /\ AtHand' = {Queued}
    BY <1>a, <1>b, <2>1 DEF Submitted, AtHand
  <2>3. QED
    BY <2>1, <2>2 DEF Chronicle, Submitted
<1>13. CASE TooMany
  <2> USE <1>0, <1>13, <1>c DEF TooMany, Goes, world
  <2>1. kind = "skipping" /\ Submitted
    BY DEF Chronicle
  <2>2. Submitted'
    BY <2>1 DEF Submitted, AtHand
  <2>3. QED
    BY <2>1, <2>2 DEF Chronicle
<1>14. CASE CombineRaises
  <2> USE <1>0, <1>14, <1>c DEF CombineRaises, Goes, world
  <2>1. kind # "staged" /\ Submitted /\ events' = events /\ next' = next
    BY DEF Chronicle
  <2>2. \A t \in Tasks : t < next => (t \in failed' <=> t \in failed)
    OBVIOUS
  <2>3. events[next] = Begun /\ Begun \in AtHand'
    BY <2>1 DEF Submitted, AtHand
  <2>4. Submitted'
    BY <2>1, <2>2, <2>3 DEF Submitted, AtHand
  <2>5. QED
    BY <2>1, <2>4 DEF Chronicle
<1>15. QED
  BY <1>1, <1>2, <1>3, <1>4, <1>5, <1>6, <1>7, <1>8, <1>9, <1>10, <1>11, <1>12, <1>13, <1>14
     DEF Next, RunnerStep

LEMMA Invariance == Spec => []IInv
<1>1. Init => IInv
  BY SequentialAssumption, InitIInv
<1>2. IInv /\ [Next]_vars => IInv'
  BY SequentialAssumption, NextType, NextObeyed, NextMeant, NextFold, NextChronicle DEF IInv
<1>3. QED
  BY <1>1, <1>2, PTL DEF Spec

(***************************************************************************)
(* The properties.                                                         *)
(***************************************************************************)

\* RunControl.wait is called before each task, never between the look and the
\* start: a runner told to pause or cancel starts one task more at the most.
THEOREM OneMore == Spec => []AtMostOneMoreStarts
<1>1. IInv => AtMostOneMoreStarts
  BY DEF IInv, Obeyed, AtMostOneMoreStarts
<1>2. QED
  BY <1>1, Invariance, PTL

\* control.reset() in the finally clause: a run is stopped only by a cancel sent
\* since the finally clause of the run before, so no cancel stops two.
THEOREM OneRunOnly == Spec => []CancelEndsOneRun
<1>1. IInv => CancelEndsOneRun
  BY DEF IInv, Meant, CancelEndsOneRun
<1>2. QED
  BY <1>1, Invariance, PTL

\* What a run returns, however it ended, is the fold in key order of the tasks
\* before the one it stopped at, less those that failed within the budget.
THEOREM Prefix == Spec => []ReturnsPrefixFold
<1>1. IInv => ReturnsPrefixFold
  <2> SUFFICES ASSUME IInv PROVE ReturnsPrefixFold
    OBVIOUS
  <2>1. Budget \in Nat /\ Cardinality(failed) \in Nat
    BY SequentialAssumption, FS_CardinalityType
       DEF SequentialAssumption, IInv, TypeOK, HistoryOK
  <2>2. QED
    BY <2>1 DEF IInv, Fold, Skips, ReturnsPrefixFold, InValue
<1>2. QED
  BY <1>1, Invariance, PTL

\* What the monitor is told is true, in order, and complete for a run that returns:
\* a task told finished is in the value, one told errored raised, and only a run
\* that raised out of a combine leaves a task it started without an end.
THEOREM ToldTrue == Spec => []EventsAreTold
<1>1. IInv => EventsAreTold
  <2> SUFFICES ASSUME IInv, NEW t \in Tasks
               PROVE  /\ events[t] \in {<< >>, <<"submitted">>, <<"submitted", "started">>,
                                        <<"submitted", "started", "finished">>,
                                        <<"submitted", "started", "errored">>}
                      /\ pc = "idle" /\ Len(events[t]) = 2 =>
                           outcome = "raised" /\ t = next /\ (Skips \/ t \notin failed)
                      /\ pc = "idle" /\ Len(events[t]) = 3 =>
                           t \in (IF events[t][3] = "finished" THEN InValue ELSE failed)
    BY DEF EventsAreTold
  <2>0. /\ N \in Nat /\ next \in 1..(N + 1) /\ t \in 1..N
        /\ outcome \in {"none", "result", "stopped", "raised"}
    BY SequentialAssumption DEF SequentialAssumption, IInv, TypeOK, PlaceOK, Tasks
  <2>1. Len(<< >>) = 0 /\ Len(Queued) = 1 /\ Len(Begun) = 2
        /\ \A how : Len(EndedAs(how)) = 3 /\ EndedAs(how)[3] = how
    BY DEF Queued, Begun, EndedAs
  <2>2. Unsubmitted \/ (Submitted /\ kind # "staged")
    BY DEF IInv, TypeOK, PlaceOK, Chronicle
  <2>3. CASE Unsubmitted
    BY <2>1, <2>3 DEF Unsubmitted
  <2>4. CASE Submitted /\ kind # "staged"
    <3>0. t \in InValue <=> t < next /\ t \notin failed
      BY <2>0, <2>4 DEF IInv, Fold, InValue
    <3>1. CASE t < next
      <4>1. events[t] = EndedAs(IF t \in failed THEN "errored" ELSE "finished")
        BY <2>4, <3>1 DEF Submitted
      <4>2. CASE t \in failed
        BY <2>0, <2>1, <3>0, <3>1, <4>1, <4>2 DEF EndedAs
      <4>3. CASE t \notin failed
        BY <2>0, <2>1, <3>0, <3>1, <4>1, <4>3 DEF EndedAs
      <4>4. QED
        BY <4>2, <4>3
    <3>2. CASE t = next
      <4>1. events[t] \in AtHand /\ ~(t < next)
        BY <2>0, <2>4, <3>2 DEF Submitted
      <4>2. CASE events[t] = Queued
        BY <2>1, <4>2 DEF Queued
      <4>3. CASE /\ events[t] = Begun
                 /\ pc = "idle" => outcome = "raised" /\ (Skips \/ next \notin failed)
        BY <2>1, <3>2, <4>3 DEF Begun
      <4>4. CASE events[t] = EndedAs("errored") /\ next \in failed
        BY <2>1, <3>2, <4>1, <4>4 DEF EndedAs
      <4>5. QED
        BY <4>1, <4>2, <4>3, <4>4 DEF AtHand
    <3>3. CASE t > next
      <4>1. events[t] = Queued
        BY <2>4, <3>3 DEF Submitted
      <4>2. QED
        BY <2>1, <4>1 DEF Queued
    <3>4. QED
      BY <2>0, <3>1, <3>2, <3>3
  <2>5. QED
    BY <2>2, <2>3, <2>4
<1>2. QED
  BY <1>1, Invariance, PTL

(***************************************************************************)
(* The worker under a retry policy: the handles it keeps.                  *)
(***************************************************************************)
\* Handles as open_once leaves them: one for each file, and no more than may be open.
Bounded(hs) ==
  /\ hs \in Seq(Uris) /\ Len(hs) <= MaxOpen
  /\ \A i, j \in DOMAIN hs : hs[i] = hs[j] => i = j

\* What a task has used was used after everything else.
Recent(hs, used) == \A i, j \in DOMAIN hs : i < j /\ hs[i] \in used => hs[j] \in used

Opening ==
  /\ using \subseteq Uris /\ IsFiniteSet(using)
  /\ Recent(handles, using)
  /\ PerTask <= MaxOpen => stale = {}

HInv == Bounded(handles) /\ Bounded(own) /\ Opening

\* Two sequences, one behind the other.
LEMMA JoinedIs ==
  ASSUME NEW S, NEW a \in Seq(S), NEW b \in Seq(S)
  PROVE  /\ a \o b \in Seq(S) /\ Len(a \o b) = Len(a) + Len(b)
         /\ \A i \in 1 .. Len(a) + Len(b) :
              (a \o b)[i] = IF i <= Len(a) THEN a[i] ELSE b[i - Len(a)]
OBVIOUS

\* A file used again has its handle moved behind those of the others, whose order stays.
LEMMA TouchedIs ==
  ASSUME Bounded(handles), MaxOpen \in Nat, NEW k \in DOMAIN handles
  PROVE  /\ Worker!Touched(handles[k]) \in Seq(Uris)
         /\ Len(Worker!Touched(handles[k])) = Len(handles)
         /\ \A i \in 1 .. Len(handles) :
              Worker!Touched(handles[k])[i] =
                IF i = Len(handles) THEN handles[k] ELSE handles[IF i < k THEN i ELSE i + 1]
<1>1. handles \in Seq(Uris) /\ k \in 1 .. Len(handles) /\ Len(handles) \in Nat /\ handles[k] \in Uris
  BY DEF Bounded
<1>2. (CHOOSE i \in DOMAIN handles : handles[i] = handles[k]) = k
  BY DEF Bounded
<1> DEFINE left == SubSeq(handles, 1, k - 1)
           right == SubSeq(handles, k + 1, Len(handles))
<1>3. Worker!Touched(handles[k]) = Append(left \o right, handles[k])
  BY <1>2 DEF Worker!Touched, Worker!RemoveAt
<1>4. left \in Seq(Uris) /\ Len(left) = k - 1 /\ \A i \in 1 .. k - 1 : left[i] = handles[i]
  BY <1>1
<1>5. /\ right \in Seq(Uris) /\ Len(right) = Len(handles) - k
      /\ \A i \in 1 .. Len(handles) - k : right[i] = handles[k + i]
  BY <1>1
<1> HIDE DEF left, right
<1>6. /\ left \o right \in Seq(Uris) /\ Len(left \o right) = Len(handles) - 1
      /\ \A i \in 1 .. Len(handles) - 1 :
           (left \o right)[i] = IF i < k THEN left[i] ELSE right[i - (k - 1)]
  <2>1. /\ left \o right \in Seq(Uris) /\ Len(left \o right) = Len(left) + Len(right)
        /\ \A i \in 1 .. Len(left) + Len(right) :
             (left \o right)[i] = IF i <= Len(left) THEN left[i] ELSE right[i - Len(left)]
    BY <1>4, <1>5, JoinedIs
  <2>2. Len(left) + Len(right) = Len(handles) - 1
    BY <1>1, <1>4, <1>5
  <2>3. \A i \in 1 .. Len(handles) - 1 : i <= Len(left) <=> i < k
    BY <1>1, <1>4
  <2>4. QED
    BY <1>4, <2>1, <2>2, <2>3
<1> DEFINE both == left \o right
<1>7. \A i \in 1 .. Len(handles) - 1 : both[i] = handles[IF i < k THEN i ELSE i + 1]
  <2> TAKE i \in 1 .. Len(handles) - 1
  <2>1. CASE i < k
    BY <1>1, <1>4, <1>6, <2>1
  <2>2. CASE ~(i < k)
    <3>1. i - (k - 1) \in 1 .. Len(handles) - k /\ k + (i - (k - 1)) = i + 1
      BY <1>1, <2>2
    <3>2. QED
      BY <1>5, <1>6, <2>2, <3>1
  <2>3. QED
    BY <2>1, <2>2
<1>8. both \in Seq(Uris) /\ Len(both) = Len(handles) - 1
  BY <1>6
<1> HIDE DEF both
<1>9. /\ Append(both, handles[k]) \in Seq(Uris) /\ Len(Append(both, handles[k])) = Len(handles)
      /\ \A i \in 1 .. Len(handles) :
           Append(both, handles[k])[i] = IF i = Len(handles) THEN handles[k] ELSE both[i]
  BY <1>1, <1>8
<1>10. \A i \in 1 .. Len(handles) : i # Len(handles) => i \in 1 .. Len(handles) - 1
  BY <1>1
<1>11. Worker!Touched(handles[k]) = Append(both, handles[k])
  BY <1>3 DEF both
<1>12. QED
  BY <1>7, <1>9, <1>10, <1>11

\* A sequence of different things that are all in a set is no longer than the set is large.
LEMMA NoLonger ==
  ASSUME NEW S, IsFiniteSet(S), NEW hs, NEW n \in Nat,
         \A i \in 1 .. n : hs[i] \in S, \A i, j \in 1 .. n : hs[i] = hs[j] => i = j
  PROVE  n <= Cardinality(S)
<1> SUFFICES ASSUME Cardinality(S) < n PROVE FALSE
  BY FS_CardinalityType
<1> DEFINE f == [i \in 1 .. n |-> hs[i]]
<1>1. IsFiniteSet(1 .. n) /\ Cardinality(1 .. n) = n
  BY FS_Interval
<1>2. f \in [1 .. n -> S] /\ \A i \in 1 .. n : f[i] = hs[i]
  OBVIOUS
<1> HIDE DEF f
<1>3. \E i, j \in 1 .. n : i # j /\ f[i] = f[j]
  BY <1>1, <1>2, FS_PigeonHole
<1>4. QED
  BY <1>2, <1>3

\* The file a read opens is the one used last, whether its handle was there or not.
LEMMA AfterOpening ==
  ASSUME Bounded(handles), MaxOpen \in Nat, Recent(handles, using), NEW uri \in Uris,
         NEW after, after = IF Worker!Contains(handles, uri)
                            THEN Worker!Touched(uri) ELSE Append(handles, uri)
  PROVE  /\ after \in Seq(Uris) /\ after # << >> /\ Len(after) <= MaxOpen + 1
         /\ \A i, j \in DOMAIN after : after[i] = after[j] => i = j
         /\ Recent(after, using \union {uri})
<1>1. handles \in Seq(Uris) /\ Len(handles) \in Nat /\ Len(handles) <= MaxOpen
  BY DEF Bounded
<1>2. \A i, j \in 1 .. Len(handles) : handles[i] = handles[j] => i = j
  BY <1>1 DEF Bounded
<1>3. \A i, j \in 1 .. Len(handles) : i < j /\ handles[i] \in using => handles[j] \in using
  BY <1>1 DEF Recent
<1>4. CASE \E k \in 1 .. Len(handles) : handles[k] = uri
  <2>1. PICK k \in 1 .. Len(handles) : handles[k] = uri
    BY <1>4
  <2>2. after = Worker!Touched(uri)
    BY <1>1, <2>1 DEF Worker!Contains
  <2>3. /\ after \in Seq(Uris) /\ Len(after) = Len(handles)
        /\ \A i \in 1 .. Len(handles) :
             after[i] = IF i = Len(handles) THEN uri ELSE handles[IF i < k THEN i ELSE i + 1]
    BY <1>1, <2>1, <2>2, TouchedIs
  <2>4. DOMAIN after = 1 .. Len(handles) /\ k \in Nat
    BY <2>3
  <2>5. \A i, j \in 1 .. Len(handles) : after[i] = after[j] => i = j
    <3> DEFINE from(i) == IF i = Len(handles) THEN k ELSE IF i < k THEN i ELSE i + 1
    <3>1. \A i \in 1 .. Len(handles) : from(i) \in 1 .. Len(handles)
      BY <1>1, <2>4
    <3>2. \A i \in 1 .. Len(handles) : after[i] = handles[from(i)]
      BY <2>1, <2>3
    <3>3. \A i, j \in 1 .. Len(handles) : from(i) = from(j) => i = j
      BY <1>1, <2>4
    <3> HIDE DEF from
    <3>4. SUFFICES ASSUME NEW i \in 1 .. Len(handles), NEW j \in 1 .. Len(handles), after[i] = after[j]
                   PROVE  i = j
      OBVIOUS
    <3>5. handles[from(i)] = handles[from(j)]
      BY <3>2, <3>4, Zenon
    <3>6. from(i) = from(j)
      BY <1>2, <3>1, <3>5, Zenon
    <3>7. QED
      BY <3>3, <3>6, Zenon
  <2>6. \A i, j \in 1 .. Len(handles) :
          i < j /\ after[i] \in using \union {uri} => after[j] \in using \union {uri}
    <3> SUFFICES ASSUME NEW i \in 1 .. Len(handles), NEW j \in 1 .. Len(handles), i < j,
                        after[i] \in using \union {uri}, j # Len(handles)
                 PROVE  after[j] \in using
      BY <2>3
    <3>1. /\ after[i] = handles[IF i < k THEN i ELSE i + 1]
          /\ after[j] = handles[IF j < k THEN j ELSE j + 1]
      BY <2>3
    <3>2. after[i] # uri
      BY <1>1, <1>2, <2>1, <3>1
    <3>3. QED
      BY <1>1, <1>3, <3>1, <3>2
  <2>7. QED
    BY <1>1, <2>1, <2>3, <2>4, <2>5, <2>6 DEF Recent
<1>5. CASE ~\E k \in 1 .. Len(handles) : handles[k] = uri
  <2>1. after = Append(handles, uri)
    BY <1>1, <1>5 DEF Worker!Contains
  <2>2. /\ after \in Seq(Uris) /\ Len(after) = Len(handles) + 1
        /\ DOMAIN after = 1 .. Len(handles) + 1
        /\ \A i \in 1 .. Len(handles) + 1 :
             after[i] = IF i = Len(handles) + 1 THEN uri ELSE handles[i]
    BY <1>1, <2>1
  <2>3. \A i, j \in 1 .. Len(handles) + 1 : after[i] = after[j] => i = j
    BY <1>1, <1>2, <1>5, <2>2
  <2>4. \A i, j \in 1 .. Len(handles) + 1 :
          i < j /\ after[i] \in using \union {uri} => after[j] \in using \union {uri}
    <3> SUFFICES ASSUME NEW i \in 1 .. Len(handles) + 1, NEW j \in 1 .. Len(handles), i < j,
                        after[i] \in using \union {uri}
                 PROVE  after[j] \in using
      BY <1>1, <2>2
    <3>1. i \in 1 .. Len(handles) /\ after[i] = handles[i] /\ after[j] = handles[j]
      BY <1>1, <2>2
    <3>2. QED
      BY <1>3, <1>5, <3>1
  <2>5. after # << >> /\ Len(after) <= MaxOpen + 1
    BY <1>1, <2>2
  <2>6. \A i, j \in DOMAIN after : after[i] = after[j] => i = j
    BY <2>2, <2>3
  <2>7. Recent(after, using \union {uri})
    BY <2>2, <2>4 DEF Recent
  <2>8. QED
    BY <2>2, <2>5, <2>6, <2>7
<1>6. QED
  BY <1>4, <1>5

\* A handle that is closed to make room is not of a file in use: those are behind it,
\* and no more than may be open.
LEMMA NextOpen ==
  ASSUME MaxOpen \in Nat, PerTask \in Nat, HInv, NEW uri \in Uris,
         Worker!open_once(uri), own' = own
  PROVE  HInv'
<1> DEFINE after == IF Worker!Contains(handles, uri)
                    THEN Worker!Touched(uri) ELSE Append(handles, uri)
           used == using \union {uri}
<1>1. /\ handles' = Worker!Kept(after)
      /\ stale' = (stale \ {uri}) \union (Worker!Evicted(after) \intersect used)
      /\ using' = used /\ Cardinality(used) <= PerTask
  <2>1. using' = used /\ Cardinality(used) <= PerTask
    <3>1. Worker!Cardinality(used) = Cardinality(used)
      BY ONLY TRUE DEF Worker!Cardinality, Cardinality
    <3>2. QED
      BY <3>1 DEF Worker!open_once
  <2>2. handles' = Worker!Kept(after)
    BY DEF Worker!open_once
  <2>3. stale' = (stale \ {uri}) \union (Worker!Evicted(after) \intersect used)
    BY DEF Worker!open_once
  <2>4. QED
    BY <2>1, <2>2, <2>3
<1>2. Bounded(handles) /\ Bounded(own) /\ Opening
  BY DEF HInv
<1>3. IsFiniteSet(used) /\ used \subseteq Uris
  BY <1>2, FS_AddElement DEF Opening
<1>4. /\ after \in Seq(Uris) /\ after # << >> /\ Len(after) <= MaxOpen + 1
      /\ \A i, j \in DOMAIN after : after[i] = after[j] => i = j
      /\ Recent(after, used)
  BY <1>2, AfterOpening DEF Opening
<1> HIDE DEF after, used
<1>5. Len(after) \in Nat /\ DOMAIN after = 1 .. Len(after) /\ Len(after) # 0
  BY <1>4
<1>6. CASE Len(after) <= MaxOpen
  <2>1. Worker!Kept(after) = after /\ Worker!Evicted(after) = {}
    <3>1. ~(Len(after) > MaxOpen)
      BY <1>5, <1>6
    <3>2. QED
      BY ONLY <3>1 DEF Worker!Kept, Worker!Evicted
  <2>2. handles' = after /\ stale' = stale \ {uri}
    BY <1>1, <2>1
  <2>3. Bounded(handles)'
    BY <1>4, <1>6, <2>2 DEF Bounded
  <2>4. Opening'
    BY <1>1, <1>2, <1>3, <1>4, <2>2 DEF Opening, Recent
  <2>5. QED
    BY <1>2, <2>3, <2>4 DEF HInv, Bounded
<1>7. CASE Len(after) > MaxOpen
  <2>1. handles' = Tail(after) /\ stale' = (stale \ {uri}) \union ({Head(after)} \intersect used)
    BY <1>1, <1>7 DEF Worker!Kept, Worker!Evicted
  <2>2. /\ Tail(after) \in Seq(Uris) /\ Len(Tail(after)) = Len(after) - 1
        /\ DOMAIN Tail(after) = 1 .. Len(after) - 1
        /\ \A i \in 1 .. Len(after) - 1 : Tail(after)[i] = after[i + 1]
    BY <1>4, <1>5
  <2>3. Head(after) = after[1]
    BY <1>4, <1>5
  <2>4. Bounded(handles)'
    <3>1. \A i, j \in DOMAIN Tail(after) : Tail(after)[i] = Tail(after)[j] => i = j
      BY <1>4, <1>5, <2>2
    <3>2. Len(Tail(after)) <= MaxOpen
      BY <1>4, <1>5, <2>2
    <3>3. QED
      BY <2>1, <2>2, <3>1, <3>2 DEF Bounded
  <2>5. Recent(Tail(after), used)
    BY <1>4, <1>5, <2>2 DEF Recent
  <2>6. ASSUME PerTask <= MaxOpen PROVE Head(after) \notin used
    <3> SUFFICES ASSUME after[1] \in used PROVE FALSE
      BY <2>3
    <3>1. \A i \in 1 .. Len(after) : after[i] \in used
      BY <1>4, <1>5 DEF Recent
    <3>2. Len(after) <= Cardinality(used)
      BY <1>3, <1>4, <1>5, <3>1, NoLonger
    <3>3. QED
      BY <1>1, <1>3, <1>5, <1>7, <2>6, <3>2, FS_CardinalityType
  <2>7. Opening'
    BY <1>1, <1>2, <1>3, <2>1, <2>5, <2>6 DEF Opening
  <2>8. QED
    BY <1>2, <2>4, <2>7 DEF HInv, Bounded
<1>8. QED
  BY <1>4, <1>6, <1>7, <1>5

\* Between reads nothing is in use, so nothing of what was is of account.
LEMMA NextBetween ==
  ASSUME HInv, Bounded(handles)', Bounded(own)', using' = {}, stale' = {}
  PROVE  HInv'
BY FS_EmptySet DEF HInv, Opening, Recent

LEMMA Unopened == MaxOpen \in Nat => Bounded(<< >>)
BY DEF Bounded

\* Every other step of the worker leaves the handles, ends a read, or goes from its own
\* handles to fresh ones and back.
LEMMA NextHInv ==
  ASSUME MaxOpen \in Nat, PerTask \in Nat, HInv, [RetriedNext]_(retriedVars)
  PROVE  HInv'
<1>1. ASSUME NEW uri \in Uris, Open(uri) PROVE HInv'
  <2>1. Worker!open_once(uri) /\ own' = own
    BY <1>1 DEF Open
  <2>2. QED
    BY <2>1, NextOpen
<1>2. ASSUME UNCHANGED <<handles, own, using, stale>> PROVE HInv'
  BY <1>2 DEF HInv, Bounded, Opening, Recent
<1>3. ASSUME EndTask PROVE HInv'
  <2>1. handles' \in {own, handles} /\ own' = own /\ using' = {} /\ stale' = {}
    BY <1>3 DEF EndTask, Returned
  <2>2. QED
    BY <2>1, NextBetween DEF HInv, Bounded
<1>4. ASSUME Worker!EndTask, own' = own PROVE HInv'
  <2>1. handles' = handles /\ using' = {} /\ stale' = {}
    BY <1>4 DEF Worker!EndTask
  <2>2. QED
    BY <1>4, <2>1, NextBetween DEF HInv, Bounded
<1>5. ASSUME NEW v, NEW s, Give(v, s) PROVE HInv'
  BY <1>3, <1>4, <1>5 DEF Give
<1>6. CASE StartTask
  BY <1>2, <1>6 DEF StartTask
<1>7. CASE Succeed
  BY <1>5, <1>7 DEF Succeed
<1>8. CASE Settle
  BY <1>2, <1>5, <1>8 DEF Settle
<1>9. CASE Again
  <2>1. handles' \in {<< >>, handles} /\ own' \in {own, handles} /\ using' = {} /\ stale' = {}
    BY <1>9 DEF Again, Returned
  <2>2. Bounded(handles)' /\ Bounded(own)'
    BY <2>1, Unopened DEF HInv, Bounded
  <2>3. QED
    BY <2>1, <2>2, NextBetween
<1>10. CASE Smaller
  BY <1>4, <1>10 DEF Smaller
<1>11. CASE GiveUp
  BY <1>3, <1>4, <1>11 DEF GiveUp
<1>12. CASE Finish
  <2>1. handles' = << >> /\ own' = own /\ UNCHANGED <<using, stale>> /\ using = {}
    BY <1>12 DEF Finish, Worker!close
  <2>2. QED
    BY <2>1, Unopened DEF HInv, Bounded, Opening, Recent
<1>13. CASE UNCHANGED retriedVars
  BY <1>2, <1>13 DEF retriedVars
<1>14. QED
  BY <1>1, <1>6, <1>7, <1>8, <1>9, <1>10, <1>11, <1>12, <1>13 DEF RetriedNext, ReadFails

\* A read that opens no more files than may be open finds each of its handles open
\* until it ends, whatever reads, retries, splits and fresh sets of handles there were
\* before (`LocalResources.open_once`, `RetryElsewhere`).
THEOREM OpenWhileUsed ==
  RetriedSpec => []HandlesInUseStayOpen
<1>1. RetriedInit => HInv
  BY ResourcesAssumption, Unopened, FS_EmptySet
  DEF RetriedInit, Worker!Init, HInv, Opening, Recent
<1>2. HInv /\ [RetriedNext]_(retriedVars) => HInv'
  BY ResourcesAssumption, NextHInv
<1>3. HInv => HandlesInUseStayOpen
  BY DEF HInv, Opening, HandlesInUseStayOpen, Worker!HandlesInUseStayOpen
<1>4. QED
  BY <1>1, <1>2, <1>3, PTL DEF RetriedSpec

(***************************************************************************)
(* Where the elements of sequences are when they are flattened.            *)
(***************************************************************************)

\* v has the elements of each sequence of w, from o[k] on for the k-th.
Laid(w, v, o) ==
  /\ \A k \in 1 .. Len(w) : o[k] \in Nat
  /\ \A k, l \in 1 .. Len(w) : k < l => o[k] + Len(w[k]) <= o[l]
  /\ \A k \in 1 .. Len(w) : \A j \in 1 .. Len(w[k]) :
       o[k] + j \in 1 .. Len(v) /\ v[o[k] + j] = w[k][j]
  /\ \A i \in 1 .. Len(v) : \E k \in 1 .. Len(w) : \E j \in 1 .. Len(w[k]) : i = o[k] + j

\* What is flattened has each sequence whole, one behind the other.
LEMMA FlatPlaces ==
  ASSUME NEW S, NEW w \in Seq(Seq(S))
  PROVE  \E o : Laid(w, Flat(w), o)
<1> DEFINE n == Len(w)
<1>1. n \in Nat /\ \A k \in 1 .. n : w[k] \in Seq(S) /\ Len(w[k]) \in Nat
  OBVIOUS
<1>2. PICK h : Flat(w) = h[n] /\ Joins(w, h) /\ \A k \in 0 .. n : h[k] \in Seq(S)
  BY FlatJoins
<1> DEFINE o == [k \in 1 .. n |-> Len(h[k - 1])]
           Ordered(m) == \A k \in 1 .. n : k <= m => o[k] + Len(w[k]) <= Len(h[m])
           Placed(m)  == \A k \in 1 .. n : k <= m => \A j \in 1 .. Len(w[k]) :
                           o[k] + j \in 1 .. Len(h[m]) /\ h[m][o[k] + j] = w[k][j]
           Found(m)   == \A i \in 1 .. Len(h[m]) :
                           \E k \in 1 .. n : k <= m /\ \E j \in 1 .. Len(w[k]) : i = o[k] + j
           B == {m \in 0 .. n : ~(Ordered(m) /\ Placed(m) /\ Found(m))}
<1>3. \A k \in 1 .. n : k - 1 \in 0 .. n /\ o[k] = Len(h[k - 1]) /\ o[k] \in Nat
  BY <1>1, <1>2
<1>4. h[0] = << >>
  BY <1>2 DEF Joins
<1> HIDE DEF n, o
<1>5. 0 \notin B
  BY <1>1, <1>4
<1>6. ASSUME NEW m \in 1 .. n, m - 1 \notin B PROVE m \notin B
  <2> DEFINE a == h[m - 1]
             b == w[m]
  <2>1. m - 1 \in 0 .. n /\ m \in 0 .. n /\ m \in Nat
    BY <1>1
  <2>2. Ordered(m - 1) /\ Placed(m - 1) /\ Found(m - 1)
    BY <1>6, <2>1
  <2>3. h[m] = a \o b
    BY <1>2 DEF Joins, n
  <2>4. a \in Seq(S) /\ b \in Seq(S) /\ o[m] = Len(a)
    BY <1>1, <1>2, <1>3, <2>1
  <2>5. \A k \in 1 .. n : k <= m => k <= m - 1 \/ k = m
    BY <1>1, <2>1
  <2> HIDE DEF a, b
  <2>6. /\ Len(h[m]) = Len(a) + Len(b) /\ Len(a) \in Nat /\ Len(b) \in Nat
        /\ \A i \in 1 .. Len(h[m]) : h[m][i] = IF i <= Len(a) THEN a[i] ELSE b[i - Len(a)]
    BY <2>3, <2>4, JoinedIs
  <2>7. Ordered(m)
    <3> SUFFICES ASSUME NEW k \in 1 .. n, k <= m PROVE o[k] + Len(w[k]) <= Len(h[m])
      OBVIOUS
    <3>1. CASE k <= m - 1
      <4>1. o[k] + Len(w[k]) <= Len(a)
        BY <2>2, <3>1 DEF a
      <4>2. o[k] + Len(w[k]) \in Int
        BY <1>1, <1>3
      <4>3. PICK p \in Int : p = o[k] + Len(w[k])
        BY <4>2
      <4>4. PICK y \in Nat, z \in Nat : y = Len(a) /\ z = Len(b)
        BY <2>6
      <4>5. p <= y + z
        BY ONLY <4>1, <4>3, <4>4
      <4>6. QED
        BY ONLY <2>6, <4>3, <4>4, <4>5
    <3>2. CASE k = m
      BY <1>1, <2>4, <2>6, <3>2 DEF b
    <3>3. QED
      BY <2>5, <3>1, <3>2
  <2>8. Placed(m)
    <3> SUFFICES ASSUME NEW k \in 1 .. n, k <= m, NEW j \in 1 .. Len(w[k])
                 PROVE  o[k] + j \in 1 .. Len(h[m]) /\ h[m][o[k] + j] = w[k][j]
      OBVIOUS
    <3>1. CASE k <= m - 1
      <4>1. o[k] + j \in 1 .. Len(a) /\ a[o[k] + j] = w[k][j]
        BY <2>2, <3>1 DEF a
      <4>2. PICK i \in 1 .. Len(a) : i = o[k] + j
        BY <4>1
      <4>3. i \in 1 .. Len(h[m]) /\ i <= Len(a)
        BY <2>6
      <4>4. QED
        BY <2>6, <4>1, <4>2, <4>3
    <3>2. CASE k = m
      <4>1. w[k] = b /\ o[k] = Len(a)
        BY <2>4, <3>2 DEF b
      <4>2. PICK i : i = Len(a) + j
        OBVIOUS
      <4>3. i \in 1 .. Len(h[m]) /\ ~(i <= Len(a)) /\ i - Len(a) = j
        BY <2>6, <4>1, <4>2
      <4>4. h[m][i] = b[j]
        BY <2>6, <4>3
      <4>5. QED
        BY <4>1, <4>2, <4>3, <4>4, Zenon
    <3>3. QED
      BY <2>5, <3>1, <3>2
  <2>9. Found(m)
    <3> SUFFICES ASSUME NEW i \in 1 .. Len(h[m])
                 PROVE  \E k \in 1 .. n : k <= m /\ \E j \in 1 .. Len(w[k]) : i = o[k] + j
      OBVIOUS
    <3>1. CASE i <= Len(a)
      <4>1. i \in 1 .. Len(h[m - 1])
        BY <2>6, <3>1 DEF a
      <4>2. PICK k \in 1 .. n : k <= m - 1 /\ \E j \in 1 .. Len(w[k]) : i = o[k] + j
        BY <2>2, <4>1
      <4>3. k <= m
        BY <1>1, <4>2
      <4>4. QED
        BY <4>2, <4>3
    <3>2. CASE ~(i <= Len(a))
      <4>1. PICK j \in 1 .. Len(b) : i = Len(a) + j
        BY <2>6, <3>2
      <4>2. w[m] = b /\ o[m] = Len(a) /\ m <= m
        BY <2>1, <2>4 DEF b
      <4>3. QED
        BY <4>1, <4>2, Zenon
    <3>3. QED
      BY <3>1, <3>2
  <2>10. QED
    BY <2>7, <2>8, <2>9
<1>7. B \in SUBSET (0 .. n)
  OBVIOUS
<1>8. B = {}
  <2> HIDE DEF B
  <2>1. QED
    BY <1>1, <1>5, <1>6, <1>7, StepByStep
<1>9. \A m \in 0 .. n : Ordered(m) /\ Placed(m) /\ Found(m)
  BY <1>8
<1> HIDE DEF B
<1>10. ASSUME NEW k \in 1 .. n, NEW l \in 1 .. n, k < l PROVE o[k] + Len(w[k]) <= o[l]
  <2>1. l - 1 \in 0 .. n /\ k <= l - 1
    BY <1>1, <1>10
  <2>2. Ordered(l - 1)
    BY <1>9, <2>1
  <2>3. QED
    BY <1>3, <2>1, <2>2
<1>11. n \in 0 .. n /\ \A k \in 1 .. n : k <= n
  BY <1>1
<1>12. Placed(n) /\ Found(n)
  BY <1>9, <1>11
<1>13. /\ \A k \in 1 .. n : \A j \in 1 .. Len(w[k]) : o[k] + j \in 1 .. Len(h[n]) /\ h[n][o[k] + j] = w[k][j]
       /\ \A i \in 1 .. Len(h[n]) : \E k \in 1 .. n : \E j \in 1 .. Len(w[k]) : i = o[k] + j
  BY <1>11, <1>12, Zenon
<1>14. Laid(w, h[n], o)
  BY <1>3, <1>10, <1>13 DEF Laid, n
<1>15. QED
  BY <1>2, <1>14

\* What filled computes: what it keeps of each beginning.
LEMMA FilledFold ==
  ASSUME NEW S, NEW rs \in Seq(S)
  PROVE  \E h : /\ filled(rs) = h[Len(rs)]
                /\ h[0] = << >>
                /\ \A k \in 1 .. Len(rs) :
                     h[k] = IF rs[k][2] > rs[k][1] THEN Append(h[k - 1], rs[k]) ELSE h[k - 1]
<1> DEFINE c == Ranges(rs)
           D == 1 .. Len(rs)
           last(s) == Max(s)
           More(r, v) == IF r[2] > r[1] THEN Append(v, r) ELSE v
           Taking(h) == h = [s \in SUBSET D |-> IF s = {} THEN << >>
                               ELSE More(rs[last(s)], h[s \ {last(s)}])]
           g == CHOOSE h : Taking(h)
<1>1. D = DOMAIN rs /\ Len(rs) \in Nat
  OBVIOUS
<1>2. filled(rs) = g[D]
  BY <1>1 DEF filled, FoldLeft, MapThenFoldSet
<1>3. \A s, h : After1(c, s, h) = IF s = {} THEN << >>
                  ELSE More(rs[last(s)], h[s \ {last(s)}])
  BY DEF After1, Taken, Ranges, Combined
<1>4. \A h : IsFold(c, D, h) <=> Taking(h)
  <2> TAKE h
  <2>1. [s \in SUBSET D |-> After1(c, s, h)] = [s \in SUBSET D |-> IF s = {} THEN << >>
          ELSE More(rs[last(s)], h[s \ {last(s)}])]
    BY <1>3
  <2>2. QED
    BY ONLY <2>1 DEF IsFold
<1>5. c.kind # "numbers" /\ c.base = << >>
  BY DEF Ranges
<1>6. \A x, v : Combined(c, x, v) = More(rs[x], v)
  BY DEF Combined, Ranges
<1> HIDE DEF c, Taking
<1>7. \E h : Taking(h)
  BY <1>1, <1>4, <1>5, InOrderFold
<1>8. IsFold(c, D, g)
  BY <1>4, <1>7
<1> HIDE DEF g
<1>9. /\ g[{}] = << >>
      /\ \A k \in D : g[1 .. k] = Combined(c, k, g[1 .. k - 1])
  BY <1>1, <1>5, <1>8, Beginnings
<1> DEFINE h == [k \in 0 .. Len(rs) |-> g[1 .. k]]
<1>10. h[Len(rs)] = g[D] /\ h[0] = g[{}]
  BY <1>1
<1>11. \A k \in D : h[k] = g[1 .. k] /\ h[k - 1] = g[1 .. k - 1]
  BY <1>1
<1> HIDE DEF h
<1>12. \A k \in D : h[k] = More(rs[k], h[k - 1])
  <2> HIDE DEF More, D
  <2>1. QED
    BY <1>6, <1>9, <1>11
<1>13. QED
  BY <1>2, <1>9, <1>10, <1>12

\* Bounds, one behind the other, from a to b, and the ranges between them.
Bounds(c, n, a, b) ==
  /\ c[0] = a /\ c[n] = b
  /\ \A k \in 0 .. n : c[k] \in Int
  /\ \A k \in 1 .. n : c[k - 1] <= c[k]

\* The ranges of rs, end to end from a to b, are cut at c.
Cut(rs, c, a, b) ==
  /\ rs \in Seq(Int \X Int)
  /\ Bounds(c, Len(rs), a, b)
  /\ \A k \in 1 .. Len(rs) : rs[k] = <<c[k - 1], c[k]>>

\* A range that begins where the last ends goes on the cut.
LEMMA CutMore ==
  ASSUME NEW rs, NEW c, NEW a, NEW b, NEW e, Cut(rs, c, a, b), e \in Int, b <= e
  PROVE  \E d : Cut(Append(rs, <<b, e>>), d, a, e)
<1> DEFINE n == Len(rs)
           v == Append(rs, <<b, e>>)
           d == [k \in 0 .. n + 1 |-> IF k = n + 1 THEN e ELSE c[k]]
<1>1. rs \in Seq(Int \X Int) /\ n \in Nat
  BY DEF Cut
<1>2. c[0] = a /\ c[n] = b /\ \A k \in 0 .. n : c[k] \in Int
  BY DEF Cut, Bounds
<1>3. \A k \in 1 .. n : c[k - 1] <= c[k] /\ rs[k] = <<c[k - 1], c[k]>>
  BY DEF Cut, Bounds
<1>4. b \in Int
  BY <1>1, <1>2
<1>5. v \in Seq(Int \X Int) /\ Len(v) = n + 1 /\ v[n + 1] = <<b, e>> /\ \A k \in 1 .. n : v[k] = rs[k]
  BY <1>1, <1>4
<1>6. d[n + 1] = e /\ \A k \in 0 .. n : d[k] = c[k]
  BY <1>1
<1> HIDE DEF v, d, n
<1>7. n \in 0 .. n /\ 0 \in 0 .. n
  BY <1>1
<1>8. d[0] = a /\ d[n] = b /\ d[n + 1] = e
  BY <1>2, <1>6, <1>7
<1>9. ASSUME NEW k \in 0 .. n + 1 PROVE d[k] \in Int
  <2>1. k \in 0 .. n \/ k = n + 1
    BY <1>1
  <2>2. QED
    BY <1>2, <1>6, <2>1
<1>10. ASSUME NEW k \in 1 .. n + 1 PROVE d[k - 1] <= d[k] /\ v[k] = <<d[k - 1], d[k]>>
  <2>1. CASE k \in 1 .. n
    <3>1. k \in 0 .. n /\ k - 1 \in 0 .. n
      BY <1>1, <2>1
    <3>2. QED
      BY <1>3, <1>5, <1>6, <2>1, <3>1
  <2>2. CASE k = n + 1
    <3>1. k - 1 = n
      BY <1>1, <2>2
    <3>2. QED
      BY <1>5, <1>8, <2>2, <3>1
  <2>3. QED
    BY <1>1, <2>1, <2>2
<1>11. Cut(v, d, a, e)
  BY <1>5, <1>8, <1>9, <1>10 DEF Cut, Bounds
<1>12. QED
  BY <1>11 DEF v

\* The ranges that have entries cut what all of them do.
LEMMA FilledCut ==
  ASSUME NEW rs, NEW c, NEW a, NEW b, Cut(rs, c, a, b)
  PROVE  \E d : Cut(filled(rs), d, a, b)
<1> DEFINE n == Len(rs)
<1>1. rs \in Seq(Int \X Int) /\ n \in Nat
  BY DEF Cut
<1>2. /\ c[0] = a /\ c[n] = b /\ \A k \in 0 .. n : c[k] \in Int
      /\ \A k \in 1 .. n : c[k - 1] <= c[k] /\ rs[k] = <<c[k - 1], c[k]>>
  BY DEF Cut, Bounds
<1>3. PICK h : /\ filled(rs) = h[n]
               /\ h[0] = << >>
               /\ \A k \in 1 .. n :
                    h[k] = IF rs[k][2] > rs[k][1] THEN Append(h[k - 1], rs[k]) ELSE h[k - 1]
  BY <1>1, FilledFold
<1> DEFINE B == {k \in 0 .. n : ~\E d : Cut(h[k], d, a, c[k])}
<1> HIDE DEF n
<1>4. 0 \notin B
  <2>1. a \in Int
    BY <1>1, <1>2
  <2> DEFINE d == [k \in 0 .. 0 |-> a]
  <2>2. Cut(<< >>, d, a, a)
    BY <2>1 DEF Cut, Bounds
  <2>3. QED
    BY <1>2, <1>3, <2>2
<1>5. ASSUME NEW k \in 1 .. n, k - 1 \notin B PROVE k \notin B
  <2>1. k - 1 \in 0 .. n /\ k \in 0 .. n
    BY <1>1
  <2>2. PICK d : Cut(h[k - 1], d, a, c[k - 1])
    BY <1>5, <2>1
  <2>3. c[k - 1] \in Int /\ c[k] \in Int /\ c[k - 1] <= c[k] /\ rs[k] = <<c[k - 1], c[k]>>
    BY <1>2, <2>1
  <2>4. CASE c[k] > c[k - 1]
    <3>1. h[k] = Append(h[k - 1], <<c[k - 1], c[k]>>)
      <4>1. rs[k][2] = c[k] /\ rs[k][1] = c[k - 1]
        BY <2>3
      <4>2. h[k] = Append(h[k - 1], rs[k])
        BY <1>3, <2>4, <4>1
      <4>3. QED
        BY <2>3, <4>2
    <3>2. \E x : Cut(h[k], x, a, c[k])
      BY <2>2, <2>3, <3>1, CutMore
    <3>3. QED
      BY <3>2
  <2>5. CASE ~(c[k] > c[k - 1])
    <3>1. h[k] = h[k - 1]
      BY <1>3, <2>3, <2>5
    <3>2. c[k] = c[k - 1]
      BY <2>3, <2>5
    <3>3. QED
      BY <2>2, <3>1, <3>2
  <2>6. QED
    BY <2>4, <2>5
<1>6. B \in SUBSET (0 .. n)
  OBVIOUS
<1>7. B = {}
  <2> HIDE DEF B
  <2>1. QED
    BY <1>1, <1>4, <1>5, <1>6, StepByStep
<1>8. n \in 0 .. n
  BY <1>1
<1>9. \E d : Cut(h[n], d, a, c[n])
  BY <1>7, <1>8
<1>10. QED
  BY <1>2, <1>3, <1>9

(***************************************************************************)
(* The partitions a plan makes of its files.  Each file's are end to end.  *)
(***************************************************************************)

\* The entries of a file from a up to b.
Span(f, a, b) == [i \in 1 .. (IF b > a THEN b - a ELSE 0) |-> <<f, a + i - 1>>]

\* The entries a partition of some files stands for.
Reads(p, files) ==
  LET q == resolve(p, files)
  IN  [i \in 1 .. n_entries(q) |-> <<q.file, q.start + i - 1>>]

\* A partition: of a range, or blind, with no range of its own.
Pieces ==
  {p \in [file : Nat, start : Int, stop : Int, blind : [step : Int, of : Int]] :
     p.blind = NotBlind \/ p.stop <= p.start}

\* What a span has, and where.
LEMMA SpanIs ==
  ASSUME NEW f, NEW a \in Int, NEW b \in Int
  PROVE  /\ DOMAIN Span(f, a, b) = 1 .. (IF b > a THEN b - a ELSE 0)
         /\ \A i \in DOMAIN Span(f, a, b) : Span(f, a, b)[i] = <<f, a + i - 1>>
         /\ ToSet(Span(f, a, b)) = {<<f, x>> : x \in a .. b - 1}
         /\ f \in Nat => Span(f, a, b) \in Seq(Int \X Int)
<1> DEFINE n == IF b > a THEN b - a ELSE 0
<1>1. n \in Nat
  OBVIOUS
<1>2. DOMAIN Span(f, a, b) = 1 .. n /\ \A i \in 1 .. n : Span(f, a, b)[i] = <<f, a + i - 1>>
  BY DEF Span
<1>3. ASSUME NEW x \in a .. b - 1 PROVE \E i \in 1 .. n : a + i - 1 = x
  <2>1. PICK i : i = x - a + 1
    OBVIOUS
  <2>2. i \in 1 .. n /\ a + i - 1 = x
    BY <2>1
  <2>3. QED
    BY <2>2
<1>4. \A i \in 1 .. n : a + i - 1 \in a .. b - 1
  OBVIOUS
<1>5. ToSet(Span(f, a, b)) = {<<f, x>> : x \in a .. b - 1}
  <2> DEFINE s == Span(f, a, b)
  <2> HIDE DEF n
  <2>1. ASSUME NEW x \in a .. b - 1 PROVE \E i \in DOMAIN s : s[i] = <<f, x>>
    BY <1>2, <1>3
  <2>2. ASSUME NEW i \in DOMAIN s PROVE s[i] \in {<<f, x>> : x \in a .. b - 1}
    BY <1>2, <1>4
  <2> HIDE DEF s
  <2>3. {s[i] : i \in DOMAIN s} = {<<f, x>> : x \in a .. b - 1}
    BY <2>1, <2>2
  <2>4. QED
    BY <2>3 DEF ToSet, s
<1>6. ASSUME f \in Nat PROVE Span(f, a, b) \in Seq(Int \X Int)
  BY <1>1, <1>6 DEF Span
<1>7. QED
  BY <1>2, <1>5, <1>6

LEMMA ReadsRange ==
  ASSUME NEW p \in Pieces, p.blind = NotBlind, NEW files
  PROVE  Reads(p, files) = Span(p.file, p.start, p.stop)
BY DEF Reads, Span, Pieces, resolve, n_entries

LEMMA ReadsRanged ==
  ASSUME NEW f \in Nat, NEW a \in Int, NEW b \in Int, NEW files
  PROVE  /\ Ranged(f, a, b) \in Pieces
         /\ Reads(Ranged(f, a, b), files) = Span(f, a, b)
<1>1. Ranged(f, a, b) \in Pieces
  <2>1. -1 \in Int
    OBVIOUS
  <2>2. QED
    BY <2>1 DEF Ranged, NotBlind, Pieces
<1>2. Ranged(f, a, b).blind = NotBlind
  BY DEF Ranged
<1>3. QED
  BY <1>1, <1>2, ReadsRange DEF Ranged

\* The facts about floor division that the cuts of a file need.
LEMMA Division ==
  ASSUME NEW n \in Nat \ {0}
  PROVE  /\ \A x \in Int : x \div n \in Int
         /\ \A x, y \in Int : x <= y => x \div n <= y \div n
         /\ \A x \in Int : (n * x) \div n = x
         /\ \A x, y, z \in Int : x <= y /\ z >= 0 => x * z <= y * z
         /\ \A x \in Int : (x \div n) * n <= x /\ x < (x \div n) * n + n
<1>1. \A x \in Int : x \div n \in Int
  OBVIOUS
<1>2. \A x, y \in Int : x <= y => x \div n <= y \div n
  OBVIOUS
<1>3. \A x \in Int : (n * x) \div n = x
  OBVIOUS
<1>4. \A x, y, z \in Int : x <= y /\ z >= 0 => x * z <= y * z
  OBVIOUS
<1>5. \A x \in Int : (x \div n) * n <= x /\ x < (x \div n) * n + n
  OBVIOUS
<1>6. QED
  BY <1>1, <1>2, <1>3, <1>4, <1>5

\* Cuts rise, and no number between the first and the last falls between none.
LEMMA BoundsRise ==
  ASSUME NEW n \in Nat, NEW c, NEW a, NEW b, Bounds(c, n, a, b)
  PROVE  \A i, j \in 0 .. n : i <= j => c[i] <= c[j]
<1> SUFFICES ASSUME NEW i \in 0 .. n PROVE \A j \in 0 .. n : i <= j => c[i] <= c[j]
  OBVIOUS
<1> DEFINE B == {j \in 0 .. n : i <= j /\ ~(c[i] <= c[j])}
<1>1. /\ \A k \in 0 .. n : c[k] \in Int
      /\ \A k \in 1 .. n : c[k - 1] <= c[k]
  BY DEF Bounds
<1>2. 0 \notin B
  BY <1>1
<1>3. ASSUME NEW k \in 1 .. n, k - 1 \notin B PROVE k \notin B
  <2>1. k - 1 \in 0 .. n /\ k \in 0 .. n /\ (i <= k => i <= k - 1 \/ i = k)
    OBVIOUS
  <2>2. c[k - 1] <= c[k] /\ c[k - 1] \in Int /\ c[k] \in Int /\ c[i] \in Int
    BY <1>1, <2>1
  <2>3. CASE i <= k - 1
    BY <1>3, <2>1, <2>2, <2>3
  <2>4. CASE i = k
    BY <2>2, <2>4
  <2>5. QED
    BY <2>1, <2>3, <2>4
<1>4. B \in SUBSET (0 .. n)
  OBVIOUS
<1>5. B = {}
  <2> HIDE DEF B
  <2>1. QED
    BY <1>2, <1>3, <1>4, StepByStep
<1>6. QED
  BY <1>5

LEMMA BoundsReach ==
  ASSUME NEW n \in Nat, NEW c, NEW a, NEW b, Bounds(c, n, a, b), NEW x \in Int, a <= x, x < b
  PROVE  \E k \in 1 .. n : c[k - 1] <= x /\ x < c[k]
<1>1. c[0] = a /\ c[n] = b /\ \A k \in 0 .. n : c[k] \in Int
  BY DEF Bounds
<1> DEFINE B == {k \in 0 .. n : x < c[k]}
<1>2. B \subseteq Nat /\ n \in B
  BY <1>1
<1> HIDE DEF B
<1>3. PICK k \in B : \A j \in B : ~(j < k)
  BY <1>2, LeastNumber
<1>4. k \in 0 .. n /\ x < c[k]
  BY <1>3 DEF B
<1>5. c[0] \in Int /\ c[k] \in Int
  BY <1>1, <1>4
<1>6. k # 0
  BY <1>1, <1>4, <1>5
<1>7. k \in 1 .. n /\ k - 1 \in 0 .. n /\ k - 1 < k
  BY <1>4, <1>6
<1>8. k - 1 \notin B
  BY <1>3, <1>7
<1>9. ~(x < c[k - 1]) /\ c[k - 1] \in Int
  BY <1>1, <1>7, <1>8 DEF B
<1>10. QED
  BY <1>4, <1>7, <1>9

\* The even shares of a file are end to end, from its first entry to its last.
LEMMA EvenCut ==
  ASSUME NEW n \in Nat \ {0}, NEW e \in Nat
  PROVE  \E c : Cut([i \in 1 .. n |-> even(i - 1, n, e)], c, 0, e)
<1> DEFINE c == [k \in 0 .. n |-> (k * e) \div n]
           rs == [i \in 1 .. n |-> even(i - 1, n, e)]
<1>1. \A k \in 0 .. n : c[k] = (k * e) \div n
  OBVIOUS
<1>2. \A i \in 1 .. n : rs[i] = <<((i - 1) * e) \div n, (i * e) \div n>>
  BY DEF even
<1>3. \A k \in 0 .. n : k \in Int /\ k * e \in Int /\ (k * e) \div n \in Int
  BY Division
<1>4. \A i \in 1 .. n : i - 1 \in 0 .. n /\ i \in 0 .. n /\ i - 1 <= i
  OBVIOUS
<1>5. DOMAIN rs = 1 .. n
  OBVIOUS
<1> HIDE DEF c
<1>6. \A i \in 1 .. n : rs[i] = <<c[i - 1], c[i]>>
  BY <1>1, <1>2, <1>4
<1>7. ASSUME NEW i \in 1 .. n PROVE c[i - 1] <= c[i]
  <2>1. (i - 1) * e <= i * e
    BY Division
  <2>2. ((i - 1) * e) \div n <= (i * e) \div n
    BY <1>3, <1>4, <2>1, Division
  <2>3. QED
    BY <1>1, <1>4, <2>2
<1>8. \A k \in 0 .. n : c[k] \in Int
  BY <1>1, <1>3
<1>9. c[0] = 0 /\ c[n] = e
  <2>1. 0 * e = n * 0 /\ 0 \in 0 .. n /\ n \in 0 .. n
    OBVIOUS
  <2>2. (n * 0) \div n = 0 /\ (n * e) \div n = e
    BY Division
  <2>3. QED
    BY <1>1, <2>1, <2>2
<1> HIDE DEF rs
<1>10. rs \in Seq(Int \X Int) /\ Len(rs) = n
  <2>1. ASSUME NEW i \in 1 .. n PROVE rs[i] \in Int \X Int
    <3>1. c[i - 1] \in Int /\ c[i] \in Int
      BY <1>4, <1>8
    <3>2. QED
      BY <1>6, <3>1
  <2>2. rs = [i \in 1 .. n |-> rs[i]]
    BY DEF rs
  <2>3. QED
    BY <2>1, <2>2
<1>11. Cut(rs, c, 0, e)
  BY <1>6, <1>7, <1>8, <1>9, <1>10 DEF Cut, Bounds
<1>12. QED
  BY <1>11 DEF rs

\* Partitions that stand for the e entries of file f, one behind the other.
Covers(ps, c, f, e, files) ==
  /\ ps \in Seq(Pieces)
  /\ Bounds(c, Len(ps), 0, e)
  /\ \A k \in 1 .. Len(ps) : Reads(ps[k], files) = Span(f, c[k - 1], c[k])

\* Partitions of the ranges rs of file f.
Named(f, rs) == [i \in DOMAIN rs |-> Ranged(f, rs[i][1], rs[i][2])]

\* Cut ranges of a file are partitions of it, and cover it.
LEMMA NamedIs ==
  ASSUME NEW f \in Nat, NEW rs, NEW c, NEW a, NEW b, Cut(rs, c, a, b)
  PROVE  /\ Named(f, rs) \in Seq(Pieces) /\ Len(Named(f, rs)) = Len(rs)
         /\ \A k \in 1 .. Len(rs) : /\ Named(f, rs)[k] = Ranged(f, c[k - 1], c[k])
                                    /\ c[k - 1] \in Int /\ c[k] \in Int
<1> DEFINE n == Len(rs)
<1>1. n \in Nat /\ DOMAIN rs = 1 .. n
  BY DEF Cut
<1>2. ASSUME NEW k \in 1 .. n
      PROVE  /\ Named(f, rs)[k] = Ranged(f, c[k - 1], c[k])
             /\ c[k - 1] \in Int /\ c[k] \in Int
  <2>1. k - 1 \in 0 .. n /\ k \in 0 .. n
    BY <1>1
  <2>2. c[k - 1] \in Int /\ c[k] \in Int /\ rs[k] = <<c[k - 1], c[k]>>
    BY <2>1 DEF Cut, Bounds
  <2>3. rs[k][1] = c[k - 1] /\ rs[k][2] = c[k]
    BY <2>2
  <2>4. Named(f, rs)[k] = Ranged(f, rs[k][1], rs[k][2])
    BY <1>1 DEF Named
  <2>5. QED
    BY <2>2, <2>3, <2>4
<1>3. \A k \in 1 .. n : Named(f, rs)[k] \in Pieces
  BY <1>2, ReadsRanged
<1>4. Named(f, rs) = [k \in 1 .. n |-> Named(f, rs)[k]]
  BY <1>1 DEF Named
<1>5. Named(f, rs) \in Seq(Pieces) /\ Len(Named(f, rs)) = n
  BY <1>1, <1>3, <1>4
<1>6. QED
  BY <1>2, <1>5

LEMMA NamedCovers ==
  ASSUME NEW f \in Nat, NEW rs, NEW c, NEW e, Cut(rs, c, 0, e), NEW files
  PROVE  Covers(Named(f, rs), c, f, e, files)
<1>1. ASSUME NEW k \in 1 .. Len(rs)
      PROVE  Reads(Named(f, rs)[k], files) = Span(f, c[k - 1], c[k])
  BY NamedIs, ReadsRanged
<1>2. Named(f, rs) \in Seq(Pieces) /\ Len(Named(f, rs)) = Len(rs)
  BY NamedIs
<1>3. Bounds(c, Len(rs), 0, e)
  BY DEF Cut
<1>4. QED
  BY <1>1, <1>2, <1>3 DEF Covers

\* The partitions of one file, by how they are made.
OfFile(how, n, files, f) ==
  CASE how = "blind"  -> [i \in 1 .. n |-> BlindStep(f, i - 1, n)]
    [] how = "eager"  -> Named(f, eager_ranges(files[f], n))
    [] how = "chunks" -> partition_dataset(f, files[f], n)

\* Each way of planning covers each file: blind, eager, and chunk by chunk.
LEMMA PlanIs ==
  ASSUME NEW how, NEW n, NEW files
  PROVE  make_partitions(how, n, files)
           = Flat([f \in DOMAIN files |-> OfFile(how, n, files, f)])
BY DEF make_partitions, Flat, OfFile, Named

LEMMA BlindCovers ==
  ASSUME NEW n \in Nat \ {0}, NEW files \in Seq(Nat), NEW f \in DOMAIN files
  PROVE  \E c : Covers(OfFile("blind", n, files, f), c, f, files[f], files)
<1> DEFINE e == files[f]
           ps == OfFile("blind", n, files, f)
           rs == [i \in 1 .. n |-> even(i - 1, n, e)]
<1>1. e \in Nat /\ f \in Nat
  OBVIOUS
<1>2. PICK c : Cut(rs, c, 0, e)
  BY <1>1, EvenCut
<1>3. \A k \in 1 .. n : ps[k] = BlindStep(f, k - 1, n)
  BY DEF OfFile
<1>4. ps \in Seq(Pieces) /\ Len(ps) = n
  <2>1. \A k \in 1 .. n : BlindStep(f, k - 1, n) \in Pieces
    BY <1>1 DEF BlindStep, Pieces
  <2>2. ps = [k \in 1 .. n |-> BlindStep(f, k - 1, n)]
    BY DEF OfFile
  <2>3. QED
    BY <2>1, <2>2
<1>5. Len(rs) = n
  OBVIOUS
<1>6. ASSUME NEW k \in 1 .. n PROVE Reads(ps[k], files) = Span(f, c[k - 1], c[k])
  <2> DEFINE p == BlindStep(f, k - 1, n)
  <2>1. p.blind # NotBlind
    <3>1. p.blind.step = k - 1 /\ NotBlind.step = -1
      BY DEF BlindStep, NotBlind
    <3>2. k - 1 # -1
      OBVIOUS
    <3>3. QED
      BY <3>1, <3>2
  <2>2. p.blind.step = k - 1 /\ p.blind.of = n /\ p.file = f
    BY DEF BlindStep
  <2>3. even(k - 1, n, e) = <<c[k - 1], c[k]>>
    <3>1. rs[k] = <<c[k - 1], c[k]>>
      BY <1>2, <1>5 DEF Cut
    <3>2. rs[k] = even(k - 1, n, e)
      OBVIOUS
    <3>3. QED
      BY <3>1, <3>2
  <2> HIDE DEF p
  <2>4. resolve(p, files) = Ranged(f, c[k - 1], c[k])
    BY <2>1, <2>2, <2>3 DEF resolve
  <2>5. Reads(p, files) = Span(f, c[k - 1], c[k])
    BY <2>4 DEF Reads, Span, Ranged, n_entries
  <2>6. QED
    BY <1>3, <2>5 DEF p
<1>7. Covers(ps, c, f, e, files)
  <2>1. Bounds(c, n, 0, e)
    BY <1>2, <1>5 DEF Cut
  <2>2. QED
    BY <1>4, <1>6, <2>1 DEF Covers
<1>8. QED
  BY <1>7

LEMMA EagerCovers ==
  ASSUME NEW n \in Nat \ {0}, NEW files \in Seq(Nat), NEW f \in DOMAIN files
  PROVE  \E c : Covers(OfFile("eager", n, files, f), c, f, files[f], files)
<1> DEFINE e == files[f]
           rs == [i \in 1 .. n |-> even(i - 1, n, e)]
<1>1. e \in Nat /\ f \in Nat
  OBVIOUS
<1>2. PICK c : Cut(rs, c, 0, e)
  BY <1>1, EvenCut
<1>3. PICK d : Cut(filled(rs), d, 0, e)
  BY <1>2, FilledCut
<1>4. OfFile("eager", n, files, f) = Named(f, eager_ranges(e, n))
  BY DEF OfFile
<1>5. CASE filled(rs) # << >>
  <2>1. eager_ranges(e, n) = filled(rs)
    BY <1>5 DEF eager_ranges
  <2>2. QED
    BY <1>1, <1>3, <1>4, <2>1, NamedCovers
<1>6. CASE filled(rs) = << >>
  <2>1. eager_ranges(e, n) = <<rs[1]>>
    BY <1>6 DEF eager_ranges
  <2>2. e = 0
    BY <1>3, <1>6 DEF Cut, Bounds
  <2>3. Len(rs) = n /\ 0 \in 0 .. n /\ 1 \in 0 .. n /\ n \in 0 .. n /\ 1 \in 1 .. n
    OBVIOUS
  <2>4. rs[1] = <<c[1 - 1], c[1]>> /\ Bounds(c, n, 0, e)
    BY <1>2, <2>3 DEF Cut
  <2>5. c[0] = 0 /\ c[n] = 0 /\ c[1] \in Int
    BY <2>2, <2>3, <2>4 DEF Bounds
  <2>6. \A i, j \in 0 .. n : i <= j => c[i] <= c[j]
    BY <2>4, BoundsRise
  <2>7. c[0] <= c[1] /\ c[1] <= c[n]
    BY <2>3, <2>6
  <2>8. rs[1] = <<0, 0>>
    <3>1. c[1] = 0 /\ 1 - 1 = 0
      BY <2>5, <2>7
    <3> HIDE DEF rs
    <3>2. QED
      BY <2>4, <2>5, <3>1
  <2> DEFINE x == [k \in 0 .. 1 |-> 0]
  <2>9. Cut(<< <<0, 0>> >>, x, 0, 0)
    BY DEF Cut, Bounds
  <2>10. QED
    BY <1>1, <1>4, <2>1, <2>2, <2>8, <2>9, NamedCovers
<1>7. QED
  BY <1>5, <1>6

LEMMA ChunksCover ==
  ASSUME NEW n \in Nat \ {0}, NEW files \in Seq(Nat), NEW f \in DOMAIN files
  PROVE  \E c : Covers(OfFile("chunks", n, files, f), c, f, files[f], files)
<1> DEFINE e == files[f]
           m == (e + n - 1) \div n
           c == [k \in 0 .. m |-> IF k * n < e THEN k * n ELSE e]
           ps == OfFile("chunks", n, files, f)
<1>1. e \in Nat /\ f \in Nat
  OBVIOUS
<1>2. m \in Nat /\ m * n <= e + n - 1 /\ e <= m * n
  <2>1. e + n - 1 \in Int /\ 0 <= e + n - 1
    BY <1>1
  <2>2. m \in Int /\ m * n <= e + n - 1 /\ e + n - 1 < m * n + n
    BY <2>1, Division
  <2>3. 0 \div n <= m /\ 0 \div n = 0
    <3>1. 0 \div n <= m
      <4>1. \A x, y \in Int : x <= y => x \div n <= y \div n
        BY Division
      <4>2. QED
        BY <2>1, <4>1
    <3>2. (n * 0) \div n = 0 /\ n * 0 = 0
      BY Division
    <3>3. QED
      BY <3>1, <3>2
  <2>4. PICK q \in Int : q = m * n
    BY <2>2
  <2>5. QED
    BY <1>1, <2>2, <2>3, <2>4
<1>3. ps = [k \in 1 .. m |-> Ranged(f, (k - 1) * n, IF k * n < e THEN k * n ELSE e)]
  BY DEF OfFile, partition_dataset
<1> HIDE DEF m, ps
<1>4. \A k \in 0 .. m : c[k] = IF k * n < e THEN k * n ELSE e
  OBVIOUS
<1> HIDE DEF c
<1>5. ASSUME NEW k \in 0 .. m PROVE k \in Int /\ k * n \in Int /\ c[k] \in Int /\ c[k] <= e
  BY <1>1, <1>2, <1>4
<1>6. ASSUME NEW k \in 1 .. m
      PROVE  /\ k - 1 \in 0 .. m /\ k \in 0 .. m
             /\ c[k - 1] = (k - 1) * n /\ c[k - 1] <= c[k]
  <2>1. k - 1 \in 0 .. m /\ k \in 0 .. m /\ k <= m /\ k - 1 <= k
    BY <1>2
  <2>2. (k - 1) * n = k * n - n
    OBVIOUS
  <2>3. k * n <= m * n /\ (k - 1) * n <= k * n
    BY <1>2, <2>1, Division
  <2>4. PICK q \in Int, r \in Int, s \in Int : q = k * n /\ r = m * n /\ s = (k - 1) * n
    BY <1>2
  <2>5. s <= e /\ s <= q
    <3>1. s = q - n /\ q <= r /\ s <= q /\ r <= e + n - 1
      BY <1>2, <2>2, <2>3, <2>4
    <3>2. QED
      BY ONLY <1>1, <3>1, n \in Nat \ {0}, q \in Int, r \in Int, s \in Int
  <2>6. c[k - 1] = (IF s < e THEN s ELSE e) /\ c[k] = (IF q < e THEN q ELSE e)
    BY <1>4, <2>1, <2>4
  <2>7. c[k - 1] = s /\ c[k - 1] <= c[k]
    BY <1>1, <2>5, <2>6
  <2>8. QED
    BY <2>1, <2>4, <2>7
<1>7. c[0] = 0 /\ c[m] = e
  <2>1. 0 \in 0 .. m /\ m \in 0 .. m /\ 0 * n = 0
    BY <1>2
  <2>2. QED
    BY <1>1, <1>2, <1>4, <2>1
<1>8. \A k \in 1 .. m : ps[k] = Ranged(f, c[k - 1], c[k])
  BY <1>3, <1>4, <1>6
<1>9. ASSUME NEW k \in 1 .. m
      PROVE  ps[k] \in Pieces /\ Reads(ps[k], files) = Span(f, c[k - 1], c[k])
  <2>1. c[k - 1] \in Int /\ c[k] \in Int
    BY <1>5, <1>6
  <2>2. QED
    BY <1>1, <1>8, <2>1, ReadsRanged
<1>10. ps \in Seq(Pieces) /\ Len(ps) = m
  <2>1. ps = [k \in 1 .. m |-> ps[k]]
    BY <1>3
  <2>2. QED
    BY <1>2, <1>9, <2>1
<1>11. Covers(ps, c, f, e, files)
  BY <1>5, <1>6, <1>7, <1>9, <1>10 DEF Covers, Bounds
<1>12. QED
  BY <1>11 DEF ps

\* What is flattened has what the sequences have.
LEMMA FlatSet ==
  ASSUME NEW S, NEW w \in Seq(Seq(S))
  PROVE  ToSet(Flat(w)) = UNION {ToSet(w[k]) : k \in 1 .. Len(w)}
<1> DEFINE v == Flat(w)
<1>1. PICK o : Laid(w, v, o)
  BY FlatPlaces
<1>2. v \in Seq(S) /\ \A k \in 1 .. Len(w) : w[k] \in Seq(S)
  BY FlatTyping
<1>3. DOMAIN v = 1 .. Len(v) /\ \A k \in 1 .. Len(w) : DOMAIN w[k] = 1 .. Len(w[k])
  BY <1>2
<1> HIDE DEF v
<1>4. ASSUME NEW i \in 1 .. Len(v)
      PROVE  \E k \in 1 .. Len(w) : \E j \in 1 .. Len(w[k]) : v[i] = w[k][j]
  <2>1. PICK k \in 1 .. Len(w) : \E j \in 1 .. Len(w[k]) : i = o[k] + j
    BY <1>1 DEF Laid
  <2>2. PICK j \in 1 .. Len(w[k]) : i = o[k] + j
    BY <2>1
  <2>3. v[o[k] + j] = w[k][j]
    BY <1>1 DEF Laid
  <2>4. QED
    BY <2>2, <2>3
<1>5. ASSUME NEW k \in 1 .. Len(w), NEW j \in 1 .. Len(w[k])
      PROVE  \E i \in 1 .. Len(v) : v[i] = w[k][j]
  <2>1. o[k] + j \in 1 .. Len(v) /\ v[o[k] + j] = w[k][j]
    BY <1>1 DEF Laid
  <2>2. QED
    BY <2>1
<1>6. ToSet(v) = {v[i] : i \in 1 .. Len(v)}
  BY <1>3 DEF ToSet
<1>7. \A k \in 1 .. Len(w) : ToSet(w[k]) = {w[k][j] : j \in 1 .. Len(w[k])}
  BY <1>3 DEF ToSet
<1>8. ASSUME NEW x \in ToSet(v)
      PROVE  x \in UNION {ToSet(w[k]) : k \in 1 .. Len(w)}
  <2>1. PICK i \in 1 .. Len(v) : x = v[i]
    BY <1>6
  <2>2. PICK k \in 1 .. Len(w) : \E j \in 1 .. Len(w[k]) : x = w[k][j]
    BY <1>4, <2>1
  <2>3. x \in ToSet(w[k])
    BY <1>7, <2>2
  <2>4. QED
    BY <2>3
<1>9. ASSUME NEW k \in 1 .. Len(w), NEW x \in ToSet(w[k])
      PROVE  x \in ToSet(v)
  <2>1. PICK j \in 1 .. Len(w[k]) : x = w[k][j]
    BY <1>7
  <2>2. PICK i \in 1 .. Len(v) : x = v[i]
    BY <1>5, <2>1
  <2>3. QED
    BY <1>6, <2>2
<1>10. QED
  BY <1>8, <1>9 DEF v

LEMMA Behind ==
  ASSUME NEW p \in Nat, NEW q \in Nat, NEW r \in Nat, NEW i \in 1 .. r, NEW j \in Nat, j >= 1,
         p + r <= q
  PROVE  p + i < q + j
OBVIOUS

\* Sequences in order, each behind the one before, are in order when joined.
LEMMA FlatInOrder ==
  ASSUME NEW S, NEW w \in Seq(Seq(S)),
         \A k \in 1 .. Len(w) : InOrder(w[k]),
         \A k, l \in 1 .. Len(w) : k < l =>
           \A x \in ToSet(w[k]), y \in ToSet(w[l]) : Before(x, y)
  PROVE  InOrder(Flat(w))
<1> DEFINE v == Flat(w)
           N0 == Len(w)
<1>1. PICK o : Laid(w, v, o)
  BY FlatPlaces
<1>2. v \in Seq(S) /\ \A k \in 1 .. N0 : w[k] \in Seq(S)
  BY FlatTyping
<1>3. N0 \in Nat /\ DOMAIN v = 1 .. Len(v)
      /\ \A k \in 1 .. N0 : DOMAIN w[k] = 1 .. Len(w[k]) /\ Len(w[k]) \in Nat
  BY <1>2
<1> HIDE DEF v
<1> SUFFICES ASSUME NEW a \in 1 .. Len(v), NEW b \in 1 .. Len(v), a < b
             PROVE  Before(v[a], v[b])
  BY <1>3 DEF InOrder, v
<1>4. PICK k \in 1 .. N0 : \E i \in 1 .. Len(w[k]) : a = o[k] + i
  BY <1>1 DEF Laid
<1>5. PICK i \in 1 .. Len(w[k]) : a = o[k] + i
  BY <1>4
<1>6. PICK l \in 1 .. N0 : \E j \in 1 .. Len(w[l]) : b = o[l] + j
  BY <1>1 DEF Laid
<1>7. PICK j \in 1 .. Len(w[l]) : b = o[l] + j
  BY <1>6
<1>8. o[k] \in Nat /\ o[l] \in Nat /\ (l < k => o[l] + Len(w[l]) <= o[k])
  BY <1>1 DEF Laid
<1>9. v[a] = w[k][i] /\ v[b] = w[l][j]
  BY <1>1, <1>5, <1>7 DEF Laid
<1>10. ~(l < k)
  <2> SUFFICES ASSUME l < k PROVE FALSE
    OBVIOUS
  <2>1. Len(w[l]) \in Nat /\ i \in Nat /\ i >= 1
    BY <1>3
  <2>2. o[l] + j < o[k] + i
    BY <1>8, <2>1, Behind
  <2>3. a \in Nat /\ b \in Nat
    OBVIOUS
  <2>4. QED
    BY ONLY <1>5, <1>7, <2>2, <2>3, a < b
<1>11. CASE k < l
  <2>1. w[k][i] \in ToSet(w[k]) /\ w[l][j] \in ToSet(w[l])
    BY <1>3 DEF ToSet
  <2>2. QED
    BY <1>9, <1>11, <2>1
<1>12. CASE k = l
  <2>1. i < j
    <3>1. PICK q \in Nat : q = o[k]
      BY <1>8
    <3>2. q + i < q + j
      BY <1>5, <1>7, <1>12, <3>1
    <3>3. i \in Nat /\ j \in Nat
      OBVIOUS
    <3>4. QED
      BY ONLY <3>2, <3>3, q \in Nat
  <2>2. Before(w[k][i], w[k][j])
    <3>1. i \in DOMAIN w[k] /\ j \in DOMAIN w[k]
      BY <1>3, <1>12
    <3>2. QED
      BY <2>1, <3>1 DEF InOrder
  <2>3. QED
    BY <1>9, <1>12, <2>2
<1>13. k < l \/ k = l
  BY <1>3, <1>10
<1>14. QED
  BY <1>11, <1>12, <1>13

\* Arithmetic that the cuts of a file need.
LEMMA InRange ==
  \A p, q \in Int : \A x \in p .. q - 1 : x \in Int /\ p <= x /\ x < q
OBVIOUS

LEMMA Through == \A a, b, p, q \in Int : a < p /\ p <= q /\ q <= b => a < b
OBVIOUS

LEMMA Within ==
  \A a, p, q, e \in Int : 0 <= p /\ p <= a /\ a < q /\ q <= e => a \in Nat /\ a < e
OBVIOUS

\* A span is in order.
LEMMA SpanInOrder ==
  ASSUME NEW f, NEW a \in Int, NEW b \in Int
  PROVE  InOrder(Span(f, a, b))
<1> SUFFICES ASSUME NEW i \in DOMAIN Span(f, a, b), NEW j \in DOMAIN Span(f, a, b), i < j
             PROVE  Before(Span(f, a, b)[i], Span(f, a, b)[j])
  BY DEF InOrder
<1>1. /\ Span(f, a, b)[i] = <<f, a + i - 1>> /\ Span(f, a, b)[j] = <<f, a + j - 1>>
      /\ i \in Nat /\ j \in Nat
  BY SpanIs
<1>2. a + i - 1 < a + j - 1
  BY <1>1
<1>3. Before(<<f, a + i - 1>>, <<f, a + j - 1>>)
  BY <1>2 DEF Before
<1>4. QED
  BY <1>1, <1>3

\* Entries that the files have.
Input(files) == {e \in Nat \X Nat : e[1] \in DOMAIN files /\ e[2] < files[e[1]]}

\* Tasks that read the files' entries, each once and in order.
Divided(T, files) ==
  /\ T \in Seq(Pieces)
  /\ \A k \in 1 .. Len(T) : \E f \in Nat, a, b \in Int :
       a <= b /\ Reads(T[k], files) = Span(f, a, b)
  /\ \A k, l \in 1 .. Len(T) : k < l =>
       \A x \in ToSet(Reads(T[k], files)), y \in ToSet(Reads(T[l], files)) :
         Before(x, y)
  /\ UNION {ToSet(Reads(T[k], files)) : k \in 1 .. Len(T)} = Input(files)

\* A plan whose partitions cover each file divides the files.
LEMMA CoveredDivided ==
  ASSUME NEW files \in Seq(Nat), NEW w, DOMAIN w = DOMAIN files, NEW c,
         \A f \in DOMAIN files : Covers(w[f], c[f], f, files[f], files)
  PROVE  Divided(Flat([f \in DOMAIN files |-> w[f]]), files)
<1> DEFINE n == Len(files)
           u == [f \in DOMAIN files |-> w[f]]
           T == Flat(u)
           got(p) == ToSet(Reads(p, files))
<1>1. n \in Nat /\ DOMAIN files = 1 .. n /\ \A f \in 1 .. n : files[f] \in Nat /\ f \in Nat
  OBVIOUS
<1>2. \A f \in 1 .. n : w[f] \in Seq(Pieces) /\ Len(w[f]) \in Nat
  BY <1>1 DEF Covers
<1>3. u \in Seq(Seq(Pieces)) /\ Len(u) = n /\ \A f \in 1 .. n : u[f] = w[f]
  BY <1>1, <1>2
<1> HIDE DEF u
<1>4. PICK o : Laid(u, T, o)
  BY <1>3, FlatPlaces
<1>5. T \in Seq(Pieces)
  BY <1>3, FlatTyping
<1> HIDE DEF T
<1>6. ASSUME NEW k \in 1 .. Len(T)
      PROVE  \E f \in 1 .. n, i \in Nat : i \in 1 .. Len(w[f]) /\ k = o[f] + i /\ T[k] = w[f][i]
  <2>1. PICK f \in 1 .. n : \E i \in 1 .. Len(u[f]) : k = o[f] + i
    BY <1>3, <1>4 DEF Laid
  <2>2. PICK i \in 1 .. Len(u[f]) : k = o[f] + i
    BY <2>1
  <2>3. T[k] = u[f][i]
    BY <1>3, <1>4, <2>2 DEF Laid
  <2>4. u[f] = w[f]
    BY <1>3
  <2>5. QED
    BY <2>2, <2>3, <2>4
<1>7. ASSUME NEW f \in 1 .. n, NEW i \in 1 .. Len(w[f])
      PROVE  /\ Reads(w[f][i], files) = Span(f, c[f][i - 1], c[f][i])
             /\ i - 1 \in 0 .. Len(w[f]) /\ i \in 0 .. Len(w[f])
             /\ c[f][i - 1] \in Int /\ c[f][i] \in Int
             /\ got(w[f][i]) = {<<f, x>> : x \in c[f][i - 1] .. c[f][i] - 1}
  <2>1. i - 1 \in 0 .. Len(w[f]) /\ i \in 0 .. Len(w[f])
    BY <1>2
  <2>2. Covers(w[f], c[f], f, files[f], files)
    BY <1>1
  <2>3. c[f][i - 1] \in Int /\ c[f][i] \in Int
    BY <2>1, <2>2 DEF Covers, Bounds
  <2>4. Reads(w[f][i], files) = Span(f, c[f][i - 1], c[f][i])
    BY <2>2 DEF Covers
  <2>5. got(w[f][i]) = {<<f, x>> : x \in c[f][i - 1] .. c[f][i] - 1}
    <3>1. ToSet(Span(f, c[f][i - 1], c[f][i])) = {<<f, x>> : x \in c[f][i - 1] .. c[f][i] - 1}
      <4>1. PICK a \in Int, b \in Int : a = c[f][i - 1] /\ b = c[f][i]
        BY <2>3
      <4>2. ToSet(Span(f, a, b)) = {<<f, x>> : x \in a .. b - 1}
        BY SpanIs
      <4>3. QED
        BY <4>1, <4>2
    <3>2. QED
      BY <2>4, <3>1
  <2>6. QED
    BY <2>1, <2>3, <2>4, <2>5
<1>8. \A f \in 1 .. n : /\ Bounds(c[f], Len(w[f]), 0, files[f])
                        /\ \A i, j \in 0 .. Len(w[f]) : i <= j => c[f][i] <= c[f][j]
  <2> TAKE f \in 1 .. n
  <2>1. Bounds(c[f], Len(w[f]), 0, files[f]) /\ Len(w[f]) \in Nat
    BY <1>1, <1>2 DEF Covers
  <2>2. QED
    BY <2>1, BoundsRise
<1>9. ASSUME NEW k \in 1 .. Len(T)
      PROVE  \E f \in Nat, a, b \in Int : a <= b /\ Reads(T[k], files) = Span(f, a, b)
  <2>1. PICK f \in 1 .. n, i \in Nat : i \in 1 .. Len(w[f]) /\ T[k] = w[f][i]
    BY <1>6
  <2>2. Reads(T[k], files) = Span(f, c[f][i - 1], c[f][i]) /\ c[f][i - 1] \in Int /\ c[f][i] \in Int
    BY <1>7, <2>1
  <2>3. f \in Nat
    BY <1>1
  <2>4. c[f][i - 1] <= c[f][i]
    BY <1>8, <2>1 DEF Bounds
  <2>5. QED
    BY <2>2, <2>3, <2>4
<1>10. ASSUME NEW k \in 1 .. Len(T), NEW l \in 1 .. Len(T), k < l,
              NEW x \in got(T[k]), NEW y \in got(T[l])
       PROVE  Before(x, y)
  <2>1. PICK f \in 1 .. n, i \in Nat : i \in 1 .. Len(w[f]) /\ k = o[f] + i /\ T[k] = w[f][i]
    BY <1>6
  <2>2. PICK g \in 1 .. n, j \in Nat : j \in 1 .. Len(w[g]) /\ l = o[g] + j /\ T[l] = w[g][j]
    BY <1>6
  <2>3. PICK a \in c[f][i - 1] .. c[f][i] - 1 : x = <<f, a>>
    BY <1>7, <2>1
  <2>4. PICK b \in c[g][j - 1] .. c[g][j] - 1 : y = <<g, b>>
    BY <1>7, <2>2
  <2>5. /\ o[f] \in Nat /\ o[g] \in Nat /\ Len(w[g]) \in Nat /\ f \in Nat /\ g \in Nat
        /\ g < f => o[g] + Len(w[g]) <= o[f]
    BY <1>1, <1>2, <1>3, <1>4 DEF Laid
  <2>6. ~(g < f)
    <3> SUFFICES ASSUME g < f PROVE FALSE
      OBVIOUS
    <3>1. i \in Nat /\ i >= 1 /\ j \in 1 .. Len(w[g])
      BY <2>1, <2>2
    <3>2. o[g] + j < o[f] + i
      BY <2>5, <3>1, Behind
    <3>3. k \in Nat /\ l \in Nat
      OBVIOUS
    <3>4. l < k
      BY ONLY <2>1, <2>2, <3>2
    <3>5. QED
      BY ONLY <1>10, <3>3, <3>4
  <2>7. CASE f < g
    BY <2>3, <2>4, <2>7 DEF Before
  <2>8. CASE f = g
    <3>1. i < j
      <4>1. PICK q \in Nat : q = o[f]
        BY <2>5
      <4>2. q + i < q + j
        BY <1>10, <2>1, <2>2, <2>8, <4>1
      <4>3. QED
        BY ONLY <4>2, q \in Nat, i \in Nat, j \in Nat
    <3>2. i \in 1 .. Len(w[f]) /\ j \in 1 .. Len(w[f]) /\ i <= j - 1
      <4>1. i \in 1 .. Len(w[f]) /\ j \in 1 .. Len(w[f])
        BY <2>1, <2>2, <2>8
      <4>2. i <= j - 1
        BY ONLY <3>1, i \in Nat, j \in Nat
      <4>3. QED
        BY <4>1, <4>2
    <3>3. i \in 0 .. Len(w[f]) /\ j - 1 \in 0 .. Len(w[f])
      BY <1>7, <3>2
    <3>4. c[f][i] <= c[f][j - 1]
      BY <1>8, <3>2, <3>3
    <3>5. c[f][i] \in Int /\ c[f][j - 1] \in Int /\ c[f][i - 1] \in Int /\ c[f][j] \in Int
      BY <1>7, <3>2
    <3>6. a \in c[f][i - 1] .. c[f][i] - 1 /\ b \in c[f][j - 1] .. c[f][j] - 1
      BY <2>3, <2>4, <2>8
    <3>7. a < b
      <4>1. a \in Int /\ a < c[f][i]
        BY ONLY <3>5, <3>6, InRange
      <4>2. b \in Int /\ c[f][j - 1] <= b
        BY ONLY <3>5, <3>6, InRange
      <4>3. QED
        BY ONLY <3>4, <3>5, <4>1, <4>2, Through
    <3>8. QED
      BY <2>3, <2>4, <2>8, <3>7 DEF Before
  <2>9. f < g \/ f = g
    BY <2>5, <2>6
  <2>10. QED
    BY <2>7, <2>8, <2>9
<1>11. ASSUME NEW k \in 1 .. Len(T), NEW x \in got(T[k]) PROVE x \in Input(files)
  <2>1. PICK f \in 1 .. n, i \in Nat : i \in 1 .. Len(w[f]) /\ T[k] = w[f][i]
    BY <1>6
  <2>2. PICK a \in c[f][i - 1] .. c[f][i] - 1 : x = <<f, a>>
    BY <1>7, <2>1
  <2>3. 0 \in 0 .. Len(w[f]) /\ Len(w[f]) \in 0 .. Len(w[f]) /\ Len(w[f]) \in Nat
    BY <1>2
  <2>4. c[f][0] = 0 /\ c[f][Len(w[f])] = files[f]
    BY <1>8 DEF Bounds
  <2>5. c[f][0] <= c[f][i - 1] /\ c[f][i] <= c[f][Len(w[f])]
    <3>1. i - 1 \in 0 .. Len(w[f]) /\ i \in 0 .. Len(w[f])
      BY <1>7, <2>1
    <3>2. 0 <= i - 1 /\ i <= Len(w[f])
      BY <2>1
    <3>3. QED
      BY <1>8, <2>3, <3>1, <3>2
  <2>6. a \in Nat /\ a < files[f]
    <3>1. c[f][i - 1] \in Int /\ c[f][i] \in Int /\ files[f] \in Nat
      BY <1>1, <1>7, <2>1
    <3>2. a \in Int /\ c[f][i - 1] <= a /\ a < c[f][i]
      BY ONLY <3>1, a \in c[f][i - 1] .. c[f][i] - 1, InRange
    <3>3. 0 <= c[f][i - 1] /\ c[f][i] <= files[f] /\ files[f] \in Int
      BY <2>4, <2>5, <3>1
    <3>4. QED
      BY ONLY <3>1, <3>2, <3>3, Within
  <2>7. QED
    BY <1>1, <2>2, <2>6 DEF Input
<1>12. ASSUME NEW x \in Input(files) PROVE \E k \in 1 .. Len(T) : x \in got(T[k])
  <2>1. PICK f \in 1 .. n, a \in Nat : x = <<f, a>> /\ a < files[f]
    BY <1>1 DEF Input
  <2>2. PICK i \in 1 .. Len(w[f]) : c[f][i - 1] <= a /\ a < c[f][i]
    <3>1. Bounds(c[f], Len(w[f]), 0, files[f]) /\ Len(w[f]) \in Nat /\ a \in Int /\ 0 <= a
      BY <1>2, <1>8
    <3>2. QED
      BY <2>1, <3>1, BoundsReach
  <2>3. x \in got(w[f][i])
    BY <1>7, <2>1, <2>2
  <2>4. PICK k : k = o[f] + i
    OBVIOUS
  <2>5. k \in 1 .. Len(T) /\ T[k] = w[f][i]
    BY <1>3, <1>4, <2>4 DEF Laid
  <2>6. QED
    BY <2>3, <2>5
<1>13. UNION {got(T[k]) : k \in 1 .. Len(T)} = Input(files)
  BY <1>11, <1>12
<1>14. Divided(T, files)
  BY <1>5, <1>9, <1>10, <1>13 DEF Divided
<1>15. QED
  BY <1>14 DEF T, u

\* However a plan's partitions are made.
LEMMA PlansDivide ==
  ASSUME NEW how \in {"blind", "eager", "chunks"}, NEW n \in Nat \ {0}, NEW files \in Seq(Nat)
  PROVE  Divided(make_partitions(how, n, files), files)
<1> DEFINE w == [f \in DOMAIN files |-> OfFile(how, n, files, f)]
           c == [f \in DOMAIN files |-> CHOOSE d : Covers(w[f], d, f, files[f], files)]
<1>1. ASSUME NEW f \in DOMAIN files PROVE \E d : Covers(w[f], d, f, files[f], files)
  BY BlindCovers, EagerCovers, ChunksCover
<1>2. \A f \in DOMAIN files : Covers(w[f], c[f], f, files[f], files)
  BY <1>1
<1>3. DOMAIN w = DOMAIN files /\ [f \in DOMAIN files |-> w[f]] = w
  OBVIOUS
<1> HIDE DEF w, c
<1>4. Divided(Flat(w), files)
  BY <1>2, <1>3, CoveredDivided
<1>5. QED
  BY <1>4, PlanIs DEF w

\* Two sequences in order that have the same elements are the same.
LEMMA SameInOrder ==
  ASSUME NEW s \in Seq(Int \X Int), NEW t \in Seq(Int \X Int),
         InOrder(s), InOrder(t), ToSet(s) = ToSet(t)
  PROVE  s = t
<1>1. ASSUME NEW d \in Int \X Int, NEW e \in Int \X Int, Before(d, e)
      PROVE  ~Before(e, d) /\ d # e
  BY <1>1 DEF Before
<1>2. /\ Len(s) \in Nat /\ Len(t) \in Nat /\ DOMAIN s = 1 .. Len(s) /\ DOMAIN t = 1 .. Len(t)
      /\ \A i \in 1 .. Len(s) : s[i] \in Int \X Int
      /\ \A i \in 1 .. Len(t) : t[i] \in Int \X Int
  OBVIOUS
<1>3. /\ \A i \in 1 .. Len(s) : \E j \in 1 .. Len(t) : s[i] = t[j]
      /\ \A i \in 1 .. Len(t) : \E j \in 1 .. Len(s) : t[i] = s[j]
  BY <1>2 DEF ToSet
<1>4. /\ \A i, j \in 1 .. Len(s) : i < j => Before(s[i], s[j])
      /\ \A i, j \in 1 .. Len(t) : i < j => Before(t[i], t[j])
  BY <1>2 DEF InOrder
<1> DEFINE B == {k \in 1 .. Len(s) : k \notin 1 .. Len(t) \/ s[k] # t[k]}
<1>5. B = {}
  <2> SUFFICES ASSUME B # {} PROVE FALSE
    OBVIOUS
  <2>1. B \subseteq Nat
    BY <1>2
  <2> HIDE DEF B
  <2>2. PICK k \in B : \A j \in B : ~(j < k)
    BY <2>1, LeastNumber
  <2>3. k \in 1 .. Len(s) /\ k \in Nat /\ (k \notin 1 .. Len(t) \/ s[k] # t[k])
    BY <1>2, <2>2 DEF B
  <2>4. ASSUME NEW j \in Nat, 1 <= j, j < k PROVE j \in 1 .. Len(s) /\ j \in 1 .. Len(t) /\ s[j] = t[j]
    <3>1. j \in 1 .. Len(s) /\ j \notin B
      BY <1>2, <2>2, <2>3, <2>4
    <3>2. QED
      BY <3>1 DEF B
  <2>5. PICK a \in 1 .. Len(t) : s[k] = t[a]
    BY <1>3, <2>3
  <2>6. ~(a < k)
    <3> SUFFICES ASSUME a < k PROVE FALSE
      OBVIOUS
    <3>1. a \in Nat /\ 1 <= a
      BY <1>2
    <3>2. a \in 1 .. Len(s) /\ s[a] = t[a]
      BY <2>4, <3>1
    <3>3. Before(s[a], s[k])
      BY <1>4, <2>3, <3>2
    <3>4. QED
      BY <1>1, <1>2, <2>3, <2>5, <3>2, <3>3
  <2>7. k < a
    BY <1>2, <2>3, <2>5, <2>6
  <2>8. k \in 1 .. Len(t)
    BY <1>2, <2>3, <2>7
  <2>9. Before(t[k], s[k])
    BY <1>4, <2>5, <2>7, <2>8
  <2>10. PICK b \in 1 .. Len(s) : t[k] = s[b]
    BY <1>3, <2>8
  <2>11. ~(b < k)
    <3> SUFFICES ASSUME b < k PROVE FALSE
      OBVIOUS
    <3>1. b \in Nat /\ 1 <= b
      BY <1>2
    <3>2. b \in 1 .. Len(t) /\ s[b] = t[b]
      BY <2>4, <3>1
    <3>3. Before(t[b], t[k])
      BY <1>4, <2>8, <3>2
    <3>4. QED
      BY <1>1, <1>2, <2>8, <2>10, <3>2, <3>3
  <2>12. b # k
    BY <2>3, <2>8, <2>10
  <2>13. k < b
    BY <1>2, <2>3, <2>10, <2>11, <2>12
  <2>14. Before(s[k], t[k])
    BY <1>4, <2>3, <2>10, <2>13
  <2>15. QED
    BY <1>1, <1>2, <2>3, <2>8, <2>9, <2>14
<1>6. \A k \in 1 .. Len(s) : k \in 1 .. Len(t) /\ s[k] = t[k]
  BY <1>5
<1> HIDE DEF B
<1>7. Len(t) <= Len(s)
  <2> SUFFICES ASSUME Len(s) < Len(t) PROVE FALSE
    BY <1>2
  <2>1. PICK k \in 1 .. Len(t) : Len(s) < k
    BY <1>2
  <2>2. PICK j \in 1 .. Len(s) : t[k] = s[j]
    BY <1>3
  <2>3. t[j] = t[k] /\ j < k /\ j \in 1 .. Len(t)
    BY <1>2, <1>6, <2>1, <2>2
  <2>4. Before(t[j], t[k])
    BY <1>4, <2>3
  <2>5. QED
    BY <1>1, <1>2, <2>3, <2>4
<1>8. Len(s) <= Len(t)
  BY <1>2, <1>6
<1>9. Len(s) = Len(t)
  <2>1. PICK a \in Nat, b \in Nat : a = Len(s) /\ b = Len(t)
    BY <1>2
  <2>2. QED
    BY ONLY <1>7, <1>8, <2>1
<1>10. DOMAIN s = DOMAIN t /\ \A k \in DOMAIN s : s[k] = t[k]
  BY <1>2, <1>6, <1>9
<1>11. s = [k \in DOMAIN s |-> s[k]] /\ t = [k \in DOMAIN t |-> t[k]]
  OBVIOUS
<1>12. QED
  BY ONLY <1>10, <1>11

\* The files' entries one behind the other.
Whole(files) == Flat([f \in DOMAIN files |-> Span(f, 0, files[f])])

\* The whole of the files is in order and has every entry.
LEMMA WholeIs ==
  ASSUME NEW files \in Seq(Nat)
  PROVE  /\ Whole(files) \in Seq(Int \X Int)
         /\ InOrder(Whole(files))
         /\ ToSet(Whole(files)) = Input(files)
<1> DEFINE n == Len(files)
           w == [f \in DOMAIN files |-> Span(f, 0, files[f])]
<1>1. n \in Nat /\ DOMAIN files = 1 .. n /\ \A f \in 1 .. n : files[f] \in Nat /\ files[f] \in Int /\ f \in Nat /\ 0 \in Int
  OBVIOUS
<1>2. \A f \in 1 .. n : w[f] = Span(f, 0, files[f])
  BY <1>1
<1>3. \A f \in 1 .. n : w[f] \in Seq(Int \X Int) /\ InOrder(w[f])
  <2> TAKE f \in 1 .. n
  <2>1. PICK e \in Int : e = files[f]
    BY <1>1
  <2>2. Span(f, 0, e) \in Seq(Int \X Int) /\ InOrder(Span(f, 0, e))
    BY <1>1, SpanIs, SpanInOrder
  <2>3. QED
    BY <1>2, <2>1, <2>2
<1>4. ASSUME NEW f \in 1 .. n PROVE ToSet(w[f]) = {<<f, x>> : x \in 0 .. files[f] - 1}
  <2>1. PICK e \in Int : e = files[f]
    BY <1>1
  <2>2. ToSet(Span(f, 0, e)) = {<<f, x>> : x \in 0 .. e - 1}
    BY SpanIs
  <2>3. QED
    BY <1>2, <2>1, <2>2
<1>5. w \in Seq(Seq(Int \X Int)) /\ Len(w) = n
  BY <1>1, <1>3
<1> HIDE DEF w
<1>6. ASSUME NEW f \in 1 .. n, NEW g \in 1 .. n, f < g,
             NEW x \in ToSet(w[f]), NEW y \in ToSet(w[g])
      PROVE  Before(x, y)
  <2>1. x[1] = f /\ y[1] = g
    BY <1>4
  <2>2. QED
    BY <1>6, <2>1 DEF Before
<1>7. InOrder(Flat(w))
  BY <1>3, <1>5, <1>6, FlatInOrder
<1>8. Flat(w) \in Seq(Int \X Int)
  BY <1>5, FlatTyping
<1>9. ToSet(Flat(w)) = UNION {ToSet(w[f]) : f \in 1 .. n}
  BY <1>5, FlatSet
<1>10. UNION {ToSet(w[f]) : f \in 1 .. n} = Input(files)
  <2>1. ASSUME NEW f \in 1 .. n, NEW x \in ToSet(w[f]) PROVE x \in Input(files)
    <3>1. PICK a \in 0 .. files[f] - 1 : x = <<f, a>>
      BY <1>4
    <3>2. a \in Nat /\ a < files[f]
      BY <1>1
    <3>3. QED
      BY <1>1, <3>1, <3>2 DEF Input
  <2>2. ASSUME NEW x \in Input(files) PROVE \E f \in 1 .. n : x \in ToSet(w[f])
    <3>1. PICK f \in 1 .. n, a \in Nat : x = <<f, a>> /\ a < files[f]
      BY <1>1 DEF Input
    <3>2. a \in 0 .. files[f] - 1
      BY <1>1, <3>1
    <3>3. QED
      BY <1>4, <3>1, <3>2
  <2>3. QED
    BY <2>1, <2>2
<1>11. QED
  BY <1>7, <1>8, <1>9, <1>10 DEF Whole, w

\* What a split cuts a partition in.
LEMMA SplitCuts ==
  ASSUME NEW p \in Pieces, NEW n \in Nat, Len(split(p, n)) > 1
  PROVE  /\ p.start < p.stop /\ p.blind = NotBlind
         /\ \E rs, c : split(p, n) = Named(p.file, rs) /\ Cut(rs, c, p.start, p.stop)
<1> DEFINE ne == n_entries(p)
           least == IF n < ne THEN n ELSE ne
           m == IF least < 2 THEN 2 ELSE least
           size == ne \div m
           bound(i) == IF i = m THEN p.stop ELSE p.start + i * size
           rs == [i \in 1 .. m |-> <<bound(i - 1), bound(i)>>]
           c == [i \in 0 .. m |-> bound(i)]
<1>1. p.start \in Int /\ p.stop \in Int
  BY DEF Pieces
<1>2. ~(ne <= 1)
  BY DEF split
<1>3. split(p, n) = Named(p.file, filled(rs))
  BY <1>2 DEF split, Named
<1>4. ne = p.stop - p.start /\ ne \in Nat /\ ne >= 2
  BY <1>1, <1>2 DEF n_entries
<1>5. m \in Nat \ {0} /\ m >= 2
  BY <1>4
<1> HIDE DEF ne, least, m
<1>6. size \in Int /\ size * m <= ne /\ size >= 0
  <2>1. size \in Int /\ size * m <= ne /\ ne < size * m + m
    <3>1. \A x \in Int : x \div m \in Int /\ (x \div m) * m <= x /\ x < (x \div m) * m + m
      BY <1>5, Division
    <3>2. ne \in Int
      BY <1>4
    <3>3. QED
      BY <3>1, <3>2
  <2>2. \A x, y \in Int : x <= y => x \div m <= y \div m
    BY <1>5, Division
  <2>3. (m * 0) \div m = 0 /\ m * 0 = 0
    BY <1>5, Division
  <2>4. 0 \div m <= ne \div m
    BY <1>4, <2>2
  <2>5. QED
    BY <2>1, <2>3, <2>4
<1> HIDE DEF size
<1>7. \A i \in 0 .. m : c[i] = bound(i) /\ bound(i) \in Int
  BY <1>1, <1>5, <1>6
<1>8. \A i \in 1 .. m : i - 1 \in 0 .. m /\ i \in 0 .. m /\ i - 1 # m
  BY <1>5
<1>9. ASSUME NEW i \in 1 .. m PROVE bound(i - 1) <= bound(i)
  <2>1. bound(i - 1) = p.start + (i - 1) * size /\ i \in Int
    BY <1>5, <1>8
  <2>2. PICK a \in Int, b \in Int, s \in Int : a = i * size /\ b = (i - 1) * size /\ s = size
    BY <1>6, <2>1
  <2>3. b = a - s /\ s >= 0
    BY <1>6, <2>1, <2>2
  <2>4. CASE i = m
    <3>1. a = size * m
      BY <1>5, <1>6, <2>2, <2>4
    <3>2. a <= ne
      BY <1>6, <3>1
    <3>3. bound(i) = p.stop
      BY <2>4
    <3>4. QED
      BY <1>1, <1>4, <2>1, <2>2, <2>3, <3>2, <3>3
  <2>5. CASE i # m
    <3>1. bound(i) = p.start + a
      BY <2>2, <2>5
    <3>2. QED
      BY <1>1, <2>1, <2>2, <2>3, <3>1
  <2>6. QED
    BY <2>4, <2>5
<1>10. bound(0) = p.start /\ bound(m) = p.stop
  BY <1>1, <1>5, <1>6
<1>11. \A i \in 1 .. m : rs[i] = <<bound(i - 1), bound(i)>> /\ rs[i] \in Int \X Int
  BY <1>7, <1>8
<1>12. rs \in Seq(Int \X Int) /\ Len(rs) = m
  <2>1. m \in Nat /\ rs = [i \in 1 .. m |-> rs[i]]
    BY <1>5
  <2>2. rs \in [1 .. m -> Int \X Int]
    BY <1>11, <2>1
  <2>3. QED
    BY <2>1, <2>2
<1> HIDE DEF rs, c, bound
<1>13. 0 \in 0 .. m /\ m \in 0 .. m
  BY <1>5
<1>14. Cut(rs, c, p.start, p.stop)
  BY <1>7, <1>8, <1>9, <1>10, <1>11, <1>12, <1>13 DEF Cut, Bounds
<1>15. \E d : Cut(filled(rs), d, p.start, p.stop)
  BY <1>14, FilledCut
<1>16. p.start < p.stop /\ p.blind = NotBlind
  BY <1>1, <1>4 DEF Pieces
<1>17. QED
  BY <1>3, <1>15, <1>16

(***************************************************************************)
(* A partition that is split.  The splits under way are nested: the values *)
(* that one has are those up to `got', its pieces to read are from `left'  *)
(* on, and the one within it is of what is between.                        *)
(***************************************************************************)

\* Two spans end to end are one; and two that are the same, and not empty, have the same ends.
LEMMA SpanJoin ==
  ASSUME NEW f \in Nat, NEW a \in Int, NEW b \in Int, NEW e \in Int, a <= b, b <= e
  PROVE  Span(f, a, b) \o Span(f, b, e) = Span(f, a, e)
<1>1. Span(f, a, b) = [i \in 1 .. b - a |-> <<f, a + i - 1>>]
  BY DEF Span
<1>2. Span(f, b, e) = [i \in 1 .. e - b |-> <<f, b + i - 1>>]
  BY DEF Span
<1>3. Span(f, a, e) = [i \in 1 .. e - a |-> <<f, a + i - 1>>]
  BY DEF Span
<1> DEFINE s == Span(f, a, b)
           t == Span(f, b, e)
           u == Span(f, a, e)
<1>4. s \in Seq(Int \X Int) /\ t \in Seq(Int \X Int) /\ u \in Seq(Int \X Int)
  BY SpanIs
<1>5. Len(s) = b - a /\ Len(t) = e - b /\ Len(u) = e - a
  BY <1>1, <1>2, <1>3
<1>6. \A i \in 1 .. e - a : u[i] = IF i <= b - a THEN s[i] ELSE t[i - (b - a)]
  <2> TAKE i \in 1 .. e - a
  <2>1. CASE i <= b - a
    <3>1. i \in 1 .. b - a
      BY <2>1
    <3>2. QED
      BY <1>1, <1>3, <2>1, <3>1
  <2>2. CASE ~(i <= b - a)
    <3>1. PICK j : j = i - (b - a)
      OBVIOUS
    <3>2. j \in 1 .. e - b /\ b + j - 1 = a + i - 1
      BY <2>2, <3>1
    <3>3. t[j] = <<f, b + j - 1>>
      BY <1>2, <3>2
    <3>4. QED
      BY <1>3, <2>2, <3>1, <3>2, <3>3
  <2>3. QED
    BY <2>1, <2>2
<1> HIDE DEF s, t, u
<1>7. /\ Len(s \o t) = Len(s) + Len(t) /\ s \o t \in Seq(Int \X Int)
      /\ \A i \in 1 .. Len(s) + Len(t) : (s \o t)[i] = IF i <= Len(s) THEN s[i] ELSE t[i - Len(s)]
  BY <1>4, JoinedIs
<1>8. Len(s) + Len(t) = e - a
  BY <1>5
<1>9. \A i \in 1 .. e - a : (s \o t)[i] = u[i]
  BY <1>5, <1>6, <1>7, <1>8
<1>10. s \o t = u
  <2>1. Len(s \o t) = Len(u) /\ \A i \in 1 .. Len(s \o t) : (s \o t)[i] = u[i]
    BY <1>5, <1>7, <1>8, <1>9
  <2>2. QED
    BY <1>4, <1>7, <2>1, SeqEqual
<1>11. QED
  BY <1>10 DEF s, t, u

LEMMA SpanSame ==
  \A f, g \in Nat, a, b, c, d \in Int :
    Span(f, a, b) = Span(g, c, d) /\ c < d => f = g /\ a = c /\ b = d
<1> SUFFICES ASSUME NEW f \in Nat, NEW g \in Nat, NEW a \in Int, NEW b \in Int,
                    NEW c \in Int, NEW d \in Int, Span(f, a, b) = Span(g, c, d), c < d
             PROVE  f = g /\ a = c /\ b = d
  OBVIOUS
<1> DEFINE m == IF b > a THEN b - a ELSE 0
           n == IF d > c THEN d - c ELSE 0
<1>1. /\ DOMAIN Span(f, a, b) = 1 .. m /\ DOMAIN Span(g, c, d) = 1 .. n
      /\ \A i \in 1 .. m : Span(f, a, b)[i] = <<f, a + i - 1>>
      /\ \A i \in 1 .. n : Span(g, c, d)[i] = <<g, c + i - 1>>
  BY DEF Span
<1>2. m \in Nat /\ n \in Nat /\ n >= 1 /\ 1 .. m = 1 .. n
  BY <1>1
<1>3. 1 \in 1 .. n /\ n \in 1 .. n
  BY <1>2
<1>4. 1 \in 1 .. m /\ n \in 1 .. m
  BY <1>2, <1>3
<1>5. n <= m
  BY <1>2, <1>4
<1>6. m \in 1 .. m
  BY <1>2, <1>4
<1>7. m \in 1 .. n
  BY <1>2, <1>6
<1>8. m = n
  BY <1>2, <1>5, <1>7
<1>9. <<f, a + 1 - 1>> = <<g, c + 1 - 1>>
  BY <1>1, <1>3, <1>4
<1>10. f = g /\ a = c
  BY <1>9
<1>11. QED
  BY <1>8, <1>10

(* The splits under way.                                                   *)

\* The splits under way: pieces to read, and the values of those read.
Splits == [rest : Seq(Pieces), values : Seq(Seq(Int \X Int))]

\* Of the entries from x.from to x.to, a split has those before x.got, and has yet to read
\* those from x.left on.
Splitting(fr, x, f) ==
  /\ fr \in Splits
  /\ x \in [from : Int, got : Int, left : Int, to : Int]
  /\ x.from <= x.got /\ x.got <= x.left /\ x.left <= x.to
  /\ Flat(fr.values) = Span(f, x.from, x.got)
  /\ \E rs, c : fr.rest = Named(f, rs) /\ Cut(rs, c, x.left, x.to)

Here(fs, m, a)  == IF fs = << >> THEN a ELSE m[Len(fs)].got
There(fs, m, b) == IF fs = << >> THEN b ELSE m[Len(fs)].left

\* Each split is of what the one around it has between got and left.
Nested(fs, m, f, a, b) ==
  /\ fs \in Seq(Splits)
  /\ \A i \in 1 .. Len(fs) :
       /\ Splitting(fs[i], m[i], f)
       /\ m[i].from = IF i = 1 THEN a ELSE m[i - 1].got
       /\ m[i].to   = IF i = 1 THEN b ELSE m[i - 1].left

\* The innermost split may be replaced by another of the same range, have one more within it, or end.
LEMMA NestedLast ==
  ASSUME NEW fs, NEW m, NEW f, NEW a, NEW b, Nested(fs, m, f, a, b), fs # << >>,
         NEW gs, gs \in Seq(Splits), Len(gs) = Len(fs), \A i \in 1 .. Len(fs) - 1 : gs[i] = fs[i],
         NEW x, Splitting(gs[Len(fs)], x, f), x.from = m[Len(fs)].from, x.to = m[Len(fs)].to
  PROVE  \E y : Nested(gs, y, f, a, b) /\ y[Len(fs)] = x
<1> DEFINE n == Len(fs)
           y == [i \in 1 .. n |-> IF i = n THEN x ELSE m[i]]
<1>1. n \in Nat /\ n >= 1
  BY DEF Nested
<1>2. y[n] = x /\ \A i \in 1 .. n : i # n => y[i] = m[i]
  BY <1>1
<1> HIDE DEF y, n
<1>3. \A i \in 1 .. n : i # n => i \in 1 .. n - 1
  BY <1>1
<1>4. ASSUME NEW i \in 1 .. n
      PROVE  /\ Splitting(gs[i], y[i], f)
             /\ y[i].from = IF i = 1 THEN a ELSE y[i - 1].got
             /\ y[i].to   = IF i = 1 THEN b ELSE y[i - 1].left
  <2>1. /\ Splitting(fs[i], m[i], f)
        /\ m[i].from = IF i = 1 THEN a ELSE m[i - 1].got
        /\ m[i].to   = IF i = 1 THEN b ELSE m[i - 1].left
    BY DEF Nested, n
  <2>2. i # 1 => i - 1 \in 1 .. n /\ i - 1 # n
    BY <1>1
  <2>3. i # 1 => y[i - 1] = m[i - 1]
    BY <1>2, <2>2
  <2>4. CASE i = n
    <3>1. y[i].from = m[i].from /\ y[i].to = m[i].to /\ Splitting(gs[i], y[i], f)
      BY <1>2, <2>4 DEF n
    <3>2. QED
      BY <2>1, <2>3, <3>1
  <2>5. CASE i # n
    <3>1. y[i] = m[i] /\ gs[i] = fs[i]
      BY <1>2, <1>3, <2>5 DEF n
    <3>2. QED
      BY <2>1, <2>3, <3>1
  <2>6. QED
    BY <2>4, <2>5
<1>5. Nested(gs, y, f, a, b)
  BY <1>4 DEF Nested, n
<1>6. QED
  BY <1>2, <1>5 DEF n

LEMMA NestedMore ==
  ASSUME NEW fs, NEW m, NEW f, NEW a, NEW b, Nested(fs, m, f, a, b),
         NEW fr, NEW x, Splitting(fr, x, f), x.from = Here(fs, m, a), x.to = There(fs, m, b)
  PROVE  \E y : Nested(Append(fs, fr), y, f, a, b) /\ y[Len(fs) + 1] = x
<1> DEFINE n == Len(fs)
           gs == Append(fs, fr)
           y == [i \in 1 .. n + 1 |-> IF i = n + 1 THEN x ELSE m[i]]
<1>1. fs \in Seq(Splits) /\ n \in Nat
  BY DEF Nested
<1>2. y[n + 1] = x /\ \A i \in 1 .. n : y[i] = m[i]
  BY <1>1
<1>3. fr \in Splits
  BY DEF Splitting
<1>4. gs \in Seq(Splits) /\ Len(gs) = n + 1 /\ gs[n + 1] = fr /\ \A i \in 1 .. n : gs[i] = fs[i]
  BY <1>1, <1>3
<1>5. fs = << >> <=> n = 0
  BY <1>1
<1> HIDE DEF y, n, gs
<1>6. ASSUME NEW i \in 1 .. n + 1
      PROVE  /\ Splitting(gs[i], y[i], f)
             /\ y[i].from = IF i = 1 THEN a ELSE y[i - 1].got
             /\ y[i].to   = IF i = 1 THEN b ELSE y[i - 1].left
  <2>1. CASE i = n + 1
    <3>1. y[i] = x /\ gs[i] = fr
      BY <1>2, <1>4, <2>1
    <3>2. i = 1 <=> fs = << >>
      BY <1>1, <1>5, <2>1
    <3>3. i # 1 => i - 1 = Len(fs) /\ i - 1 \in 1 .. n
      BY <1>1, <2>1 DEF n
    <3>4. i # 1 => y[i - 1] = m[Len(fs)]
      BY <1>2, <3>3
    <3>5. QED
      BY <3>1, <3>2, <3>4 DEF Here, There
  <2>2. CASE i # n + 1
    <3>1. i \in 1 .. n /\ (i # 1 => i - 1 \in 1 .. n)
      BY <1>1, <2>2
    <3>2. y[i] = m[i] /\ gs[i] = fs[i] /\ (i # 1 => y[i - 1] = m[i - 1])
      BY <1>2, <1>4, <3>1
    <3>3. /\ Splitting(fs[i], m[i], f)
          /\ m[i].from = IF i = 1 THEN a ELSE m[i - 1].got
          /\ m[i].to   = IF i = 1 THEN b ELSE m[i - 1].left
      BY <3>1 DEF Nested, n
    <3>4. QED
      BY <3>2, <3>3
  <2>3. QED
    BY <2>1, <2>2
<1>7. Nested(gs, y, f, a, b)
  BY <1>4, <1>6 DEF Nested
<1>8. QED
  BY <1>2, <1>7 DEF gs, n

LEMMA NestedLess ==
  ASSUME NEW fs, NEW m, NEW f, NEW a, NEW b, Nested(fs, m, f, a, b), fs # << >>
  PROVE  /\ Nested(Front(fs), m, f, a, b)
         /\ Splitting(fs[Len(fs)], m[Len(fs)], f)
         /\ m[Len(fs)].from = Here(Front(fs), m, a)
         /\ m[Len(fs)].to = There(Front(fs), m, b)
<1> DEFINE n == Len(fs)
           gs == Front(fs)
<1>1. fs \in Seq(Splits) /\ n \in Nat /\ n >= 1
  BY DEF Nested
<1>2. gs \in Seq(Splits) /\ Len(gs) = n - 1 /\ \A i \in 1 .. n - 1 : gs[i] = fs[i]
  <2>1. PICK k \in Int : k = n - 1
    BY <1>1
  <2>2. 1 \in Int /\ \A i \in 1 .. k : fs[i] \in Splits
    BY <1>1, <2>1
  <2>3. /\ SubSeq(fs, 1, k) \in Seq(Splits) /\ Len(SubSeq(fs, 1, k)) = IF 1 <= k THEN k - 1 + 1 ELSE 0
        /\ \A i \in 1 .. k - 1 + 1 : SubSeq(fs, 1, k)[i] = fs[1 + i - 1]
    BY <2>2, SubSeqProperties
  <2>4. Len(SubSeq(fs, 1, k)) = k /\ \A i \in 1 .. k : SubSeq(fs, 1, k)[i] = fs[i]
    BY <1>1, <2>1, <2>3
  <2>5. gs = SubSeq(fs, 1, k)
    BY <2>1 DEF Front
  <2>6. QED
    BY <2>1, <2>3, <2>4, <2>5
<1> HIDE DEF gs
<1>3. gs = << >> <=> n = 1
  BY <1>1, <1>2
<1>4. \A i \in 1 .. n - 1 : i \in 1 .. n
  BY <1>1
<1>5. n \in 1 .. n
  BY <1>1
<1>6. Nested(gs, m, f, a, b)
  BY <1>2, <1>4 DEF Nested
<1>7. /\ Splitting(fs[n], m[n], f)
      /\ m[n].from = IF n = 1 THEN a ELSE m[n - 1].got
      /\ m[n].to   = IF n = 1 THEN b ELSE m[n - 1].left
  BY <1>5 DEF Nested
<1>8. m[n].from = Here(gs, m, a) /\ m[n].to = There(gs, m, b)
  BY <1>2, <1>3, <1>7 DEF Here, There
<1>9. QED
  BY <1>6, <1>7, <1>8 DEF gs

LEMMA HereThere ==
  ASSUME NEW fs, NEW m, NEW f, NEW a \in Int, NEW b \in Int, Nested(fs, m, f, a, b)
  PROVE  Here(fs, m, a) \in Int /\ There(fs, m, b) \in Int
<1>1. CASE fs = << >>
  BY <1>1 DEF Here, There
<1>2. CASE fs # << >>
  <2>1. Len(fs) \in 1 .. Len(fs)
    BY <1>2 DEF Nested
  <2>2. Splitting(fs[Len(fs)], m[Len(fs)], f)
    BY <2>1 DEF Nested
  <2>3. QED
    BY <1>2, <2>2 DEF Splitting, Here, There
<1>3. QED
  BY <1>1, <1>2

\* A partition that is read has what the splits around it wait for.
Awaited(fs, m, f, a, b, p, files) ==
  /\ Nested(fs, m, f, a, b)
  /\ p \in Pieces
  /\ Here(fs, m, a) <= There(fs, m, b)
  /\ Reads(p, files) = Span(f, Here(fs, m, a), There(fs, m, b))

\* Nothing is being read: the innermost split has all that comes before its rest.
Resting(fs, m, f, a, b) ==
  /\ Nested(fs, m, f, a, b)
  /\ fs # << >>
  /\ m[Len(fs)].got = m[Len(fs)].left

\* A partition that is split is awaited by the new split's pieces together.
LEMMA SplitRests ==
  ASSUME NEW fs, NEW m, NEW f \in Nat, NEW a \in Int, NEW b \in Int, NEW p, NEW files,
         Awaited(fs, m, f, a, b, p, files), NEW n \in Nat, Len(split(p, n)) > 1
  PROVE  \E y : Resting(Append(fs, [rest |-> split(p, n), values |-> << >>]), y, f, a, b)
<1> DEFINE fr == [rest |-> split(p, n), values |-> << >>]
           x == [from |-> p.start, got |-> p.start, left |-> p.start, to |-> p.stop]
<1>1. /\ p \in Pieces /\ Nested(fs, m, f, a, b)
      /\ Reads(p, files) = Span(f, Here(fs, m, a), There(fs, m, b))
  BY DEF Awaited
<1>2. p.file \in Nat /\ p.start \in Int /\ p.stop \in Int
  BY <1>1 DEF Pieces
<1>3. p.start < p.stop /\ p.blind = NotBlind
  BY <1>1, SplitCuts
<1>4. PICK rs, c : split(p, n) = Named(p.file, rs) /\ Cut(rs, c, p.start, p.stop)
  BY <1>1, SplitCuts
<1>5. Span(f, Here(fs, m, a), There(fs, m, b)) = Span(p.file, p.start, p.stop)
  BY <1>1, <1>3, ReadsRange
<1>6. Here(fs, m, a) \in Int /\ There(fs, m, b) \in Int
  BY <1>1, HereThere
<1>7. f = p.file /\ Here(fs, m, a) = p.start /\ There(fs, m, b) = p.stop
  <2>1. PICK h \in Int, t \in Int : h = Here(fs, m, a) /\ t = There(fs, m, b)
    BY <1>6
  <2>2. PICK g \in Nat, i \in Int, j \in Int : g = p.file /\ i = p.start /\ j = p.stop
    BY <1>2
  <2>3. Span(f, h, t) = Span(g, i, j)
    BY <1>5, <2>1, <2>2
  <2>4. i < j
    BY <1>3, <2>2
  <2>5. f = g /\ h = i /\ t = j
    BY <2>3, <2>4, SpanSame
  <2>6. QED
    BY <2>1, <2>2, <2>5
<1>8. fr \in Splits
  <2>1. Named(p.file, rs) \in Seq(Pieces)
    BY <1>2, <1>4, NamedIs
  <2>2. QED
    BY <1>4, <2>1 DEF Splits
<1>9. Flat(fr.values) = Span(f, p.start, p.start)
  <2>1. Span(f, p.start, p.start) = << >>
    BY <1>2 DEF Span
  <2>2. QED
    BY <2>1, FlatNone
<1>10. x \in [from : Int, got : Int, left : Int, to : Int]
  BY <1>2
<1>11. x.from = p.start /\ x.got = p.start /\ x.left = p.start /\ x.to = p.stop /\ fr.rest = Named(f, rs)
  BY <1>4, <1>7
<1> HIDE DEF fr, x
<1>12. Splitting(fr, x, f)
  BY <1>2, <1>3, <1>4, <1>8, <1>9, <1>10, <1>11 DEF Splitting
<1>13. PICK y : Nested(Append(fs, fr), y, f, a, b) /\ y[Len(fs) + 1] = x
  BY <1>1, <1>7, <1>11, <1>12, NestedMore
<1>14. Len(Append(fs, fr)) = Len(fs) + 1 /\ Append(fs, fr) # << >>
  BY <1>1, <1>8 DEF Nested
<1>15. Resting(Append(fs, fr), y, f, a, b)
  BY <1>11, <1>13, <1>14 DEF Resting
<1>16. QED
  BY <1>15 DEF fr

\* Less its first range, a cut goes on from where that ends.
LEMMA CutTail ==
  ASSUME NEW rs, NEW c, NEW a, NEW b, Cut(rs, c, a, b), rs # << >>
  PROVE  /\ c[0] = a /\ c[1] \in Int /\ a <= c[1] /\ c[1] <= b
         /\ \E d : Cut(Tail(rs), d, c[1], b)
<1> DEFINE n == Len(rs)
           v == Tail(rs)
           d == [k \in 0 .. n - 1 |-> c[k + 1]]
<1>1. rs \in Seq(Int \X Int) /\ n \in Nat /\ n >= 1 /\ Bounds(c, n, a, b)
  BY DEF Cut
<1>2. \A k \in 1 .. n : rs[k] = <<c[k - 1], c[k]>>
  BY DEF Cut
<1>3. 0 \in 0 .. n /\ 1 \in 0 .. n /\ n \in 0 .. n
  BY <1>1
<1>4. c[0] = a /\ c[n] = b /\ c[1] \in Int
  BY <1>1, <1>3 DEF Bounds
<1>5. a <= c[1] /\ c[1] <= b
  BY <1>1, <1>3, <1>4, BoundsRise
<1>6. v \in Seq(Int \X Int) /\ Len(v) = n - 1 /\ \A k \in 1 .. n - 1 : v[k] = rs[k + 1]
  BY <1>1
<1>7. \A k \in 0 .. n - 1 : d[k] = c[k + 1] /\ k + 1 \in 0 .. n
  BY <1>1
<1> HIDE DEF v, d, n
<1>8. \A k \in 0 .. n - 1 : d[k] \in Int
  BY <1>1, <1>7 DEF Bounds
<1>9. d[0] = c[1] /\ d[n - 1] = b
  <2>1. 0 \in 0 .. n - 1 /\ n - 1 \in 0 .. n - 1 /\ (n - 1) + 1 = n /\ 0 + 1 = 1
    BY <1>1
  <2>2. d[0] = c[0 + 1] /\ d[n - 1] = c[(n - 1) + 1]
    BY <1>7, <2>1
  <2>3. QED
    BY <1>4, <2>1, <2>2
<1>10. ASSUME NEW k \in 1 .. n - 1 PROVE d[k - 1] <= d[k] /\ v[k] = <<d[k - 1], d[k]>>
  <2>1. PICK j : j = k + 1
    OBVIOUS
  <2>2. j \in 1 .. n /\ j - 1 = k /\ k - 1 \in 0 .. n - 1 /\ k \in 0 .. n - 1 /\ (k - 1) + 1 = k
    BY <1>1, <2>1
  <2>3. d[k - 1] = c[k] /\ d[k] = c[j] /\ v[k] = rs[j]
    BY <1>6, <1>7, <2>1, <2>2
  <2>4. c[j - 1] <= c[j] /\ rs[j] = <<c[j - 1], c[j]>>
    BY <1>1, <1>2, <2>2 DEF Bounds
  <2>5. QED
    BY <2>2, <2>3, <2>4
<1>11. Cut(v, d, c[1], b)
  BY <1>6, <1>8, <1>9, <1>10 DEF Cut, Bounds
<1>12. QED
  BY <1>4, <1>5, <1>11 DEF v

LEMMA NamedTail ==
  ASSUME NEW f \in Nat, NEW rs, NEW c, NEW a, NEW b, Cut(rs, c, a, b), Named(f, rs) # << >>
  PROVE  /\ rs # << >>
         /\ Head(Named(f, rs)) = Ranged(f, c[0], c[1])
         /\ Tail(Named(f, rs)) = Named(f, Tail(rs))
<1> DEFINE n == Len(rs)
           v == Named(f, rs)
           u == Named(f, Tail(rs))
<1>1. /\ v \in Seq(Pieces) /\ Len(v) = n
      /\ \A k \in 1 .. n : v[k] = Ranged(f, c[k - 1], c[k])
  BY NamedIs
<1>2. n \in Nat /\ rs \in Seq(Int \X Int)
  BY DEF Cut
<1>3. n >= 1 /\ rs # << >>
  BY <1>1, <1>2
<1>4. Head(v) = Ranged(f, c[0], c[1])
  <2>1. 1 \in 1 .. n /\ 1 - 1 = 0 /\ Head(v) = v[1]
    BY <1>1, <1>3
  <2>2. v[1] = Ranged(f, c[1 - 1], c[1])
    BY <1>1, <2>1
  <2>3. QED
    BY <2>1, <2>2
<1>5. PICK d : Cut(Tail(rs), d, c[1], b)
  BY <1>3, CutTail
<1>6. u \in Seq(Pieces) /\ Len(u) = Len(Tail(rs))
  BY <1>5, NamedIs
<1>7. Tail(rs) \in Seq(Int \X Int) /\ Len(Tail(rs)) = n - 1 /\ \A k \in 1 .. n - 1 : Tail(rs)[k] = rs[k + 1]
  BY <1>2, <1>3
<1>8. Tail(v) \in Seq(Pieces) /\ Len(Tail(v)) = n - 1 /\ \A k \in 1 .. n - 1 : Tail(v)[k] = v[k + 1]
  BY <1>1, <1>3
<1>9. ASSUME NEW k \in 1 .. n - 1 PROVE Tail(v)[k] = u[k]
  <2>1. k \in DOMAIN Tail(rs) /\ k + 1 \in DOMAIN rs
    BY <1>2, <1>7
  <2>2. u[k] = Ranged(f, Tail(rs)[k][1], Tail(rs)[k][2])
    BY <2>1 DEF Named
  <2>3. v[k + 1] = Ranged(f, rs[k + 1][1], rs[k + 1][2])
    BY <2>1 DEF Named
  <2>4. QED
    BY <1>7, <1>8, <2>2, <2>3
<1> HIDE DEF u, v
<1>10. Tail(v) = u
  BY <1>6, <1>7, <1>8, <1>9, SeqEqual
<1>11. QED
  BY <1>3, <1>4, <1>10 DEF u, v

\* The next piece of the innermost split is what that split has to read next.
LEMMA NextAwaited ==
  ASSUME NEW fs, NEW m, NEW f \in Nat, NEW a \in Int, NEW b \in Int, NEW files,
         Resting(fs, m, f, a, b), fs[Len(fs)].rest # << >>
  PROVE  \E y : Awaited([fs EXCEPT ![Len(fs)].rest = Tail(@)], y, f, a, b,
                        Head(fs[Len(fs)].rest), files)
<1> DEFINE n == Len(fs)
           fr == fs[n]
           gr == [fr EXCEPT !.rest = Tail(@)]
           gs == [fs EXCEPT ![n].rest = Tail(@)]
           p == Head(fr.rest)
<1>1. fs \in Seq(Splits) /\ n \in Nat /\ n >= 1 /\ Nested(fs, m, f, a, b) /\ m[n].got = m[n].left
  BY DEF Resting, Nested
<1>2. n \in 1 .. n /\ DOMAIN fs = 1 .. n
  BY <1>1
<1>3. Splitting(fr, m[n], f)
  BY <1>1, <1>2 DEF Nested
<1>4. PICK rs, c : fr.rest = Named(f, rs) /\ Cut(rs, c, m[n].left, m[n].to)
  BY <1>3 DEF Splitting
<1>5. rs # << >> /\ p = Ranged(f, c[0], c[1]) /\ Tail(fr.rest) = Named(f, Tail(rs))
  BY <1>4, NamedTail
<1>6. c[0] = m[n].left /\ c[1] \in Int /\ m[n].left <= c[1] /\ c[1] <= m[n].to
  BY <1>4, <1>5, CutTail
<1>7. PICK d : Cut(Tail(rs), d, c[1], m[n].to)
  BY <1>4, <1>5, CutTail
<1>8. fr \in Splits /\ m[n] \in [from : Int, got : Int, left : Int, to : Int]
  BY <1>3 DEF Splitting
<1> DEFINE x == [from |-> m[n].from, got |-> m[n].got, left |-> c[1], to |-> m[n].to]
<1>9. gr \in Splits /\ gr.rest = Named(f, Tail(rs)) /\ gr.values = fr.values
  <2>1. Named(f, Tail(rs)) \in Seq(Pieces)
    BY <1>7, NamedIs
  <2>2. QED
    BY <1>5, <1>8, <2>1 DEF Splits
<1>10. gs = [fs EXCEPT ![n] = gr]
  BY <1>1, <1>2
<1> HIDE DEF gr, gs, fr, p
<1>11. gs \in Seq(Splits) /\ Len(gs) = n /\ gs[n] = gr /\ \A i \in 1 .. n - 1 : gs[i] = fs[i]
  BY <1>1, <1>2, <1>9, <1>10
<1>12. /\ x \in [from : Int, got : Int, left : Int, to : Int]
       /\ x.from = m[n].from /\ x.got = m[n].got /\ x.left = c[1] /\ x.to = m[n].to
  BY <1>6, <1>8
<1> HIDE DEF x
<1>13. Splitting(gr, x, f)
  <2>1. x.from <= x.got /\ x.got <= x.left /\ x.left <= x.to
    BY <1>1, <1>3, <1>6, <1>12 DEF Splitting
  <2>2. Flat(gr.values) = Span(f, x.from, x.got)
    BY <1>3, <1>9, <1>12 DEF Splitting
  <2>3. QED
    BY <1>7, <1>9, <1>12, <2>1, <2>2 DEF Splitting
<1> HIDE DEF n
<1>14. PICK y : Nested(gs, y, f, a, b) /\ y[n] = x
  <2>1. fs # << >>
    BY DEF Resting
  <2>2. QED
    <3>1. Splitting(gs[Len(fs)], x, f) /\ x.from = m[Len(fs)].from /\ x.to = m[Len(fs)].to
      BY <1>11, <1>12, <1>13 DEF n
    <3>2. gs \in Seq(Splits) /\ Len(gs) = Len(fs) /\ \A i \in 1 .. Len(fs) - 1 : gs[i] = fs[i]
      BY <1>11 DEF n
    <3>3. \E y : Nested(gs, y, f, a, b) /\ y[Len(fs)] = x
      BY <1>1, <2>1, <3>1, <3>2, NestedLast
    <3>4. QED
      BY <3>3 DEF n
<1>15. Here(gs, y, a) = c[0] /\ There(gs, y, b) = c[1]
  <2>1. gs # << >>
    BY <1>1, <1>11
  <2>2. QED
    BY <1>1, <1>6, <1>11, <1>12, <1>14, <2>1 DEF Here, There
<1>16. c[0] \in Int /\ c[0] <= c[1]
  BY <1>6, <1>8
<1>17. p \in Pieces /\ Reads(p, files) = Span(f, c[0], c[1])
  BY <1>5, <1>6, <1>16, ReadsRanged
<1>18. Awaited(gs, y, f, a, b, p, files)
  BY <1>14, <1>15, <1>16, <1>17 DEF Awaited
<1>19. QED
  BY <1>18 DEF gs, p, fr, n

\* The value of a piece goes behind those of the pieces before it.
LEMMA TakenRests ==
  ASSUME NEW fs, NEW m, NEW f \in Nat, NEW a \in Int, NEW b \in Int, Nested(fs, m, f, a, b), fs # << >>,
         NEW v, v = Span(f, m[Len(fs)].got, m[Len(fs)].left)
  PROVE  \E y : Resting([fs EXCEPT ![Len(fs)].values = Append(@, v)], y, f, a, b)
<1> DEFINE n == Len(fs)
           fr == fs[n]
           gr == [fr EXCEPT !.values = Append(@, v)]
           gs == [fs EXCEPT ![n].values = Append(@, v)]
           x == [from |-> m[n].from, got |-> m[n].left, left |-> m[n].left, to |-> m[n].to]
<1>1. fs \in Seq(Splits) /\ n \in Nat /\ n >= 1
  BY DEF Nested
<1>2. n \in 1 .. n /\ DOMAIN fs = 1 .. n
  BY <1>1
<1>3. Splitting(fr, m[n], f)
  BY <1>2 DEF Nested
<1>4. fr \in Splits /\ m[n] \in [from : Int, got : Int, left : Int, to : Int]
  BY <1>3 DEF Splitting
<1>5. m[n].from \in Int /\ m[n].got \in Int /\ m[n].left \in Int /\ m[n].from <= m[n].got /\ m[n].got <= m[n].left
  BY <1>3, <1>4 DEF Splitting
<1>6. v \in Seq(Int \X Int)
  BY <1>5, SpanIs
<1>7. gr \in Splits /\ gr.rest = fr.rest /\ gr.values = Append(fr.values, v)
  <2>1. fr.rest \in Seq(Pieces) /\ fr.values \in Seq(Seq(Int \X Int))
    BY <1>4 DEF Splits
  <2>2. Append(fr.values, v) \in Seq(Seq(Int \X Int))
    BY <1>6, <2>1
  <2>3. gr.rest = fr.rest /\ gr.values = Append(fr.values, v)
    BY <1>4 DEF Splits
  <2>4. gr \in Splits
    <3> HIDE DEF fr
    <3>1. QED
      BY <1>4, <2>2 DEF Splits
  <2>5. QED
    BY <2>3, <2>4
<1>8. gs = [fs EXCEPT ![n] = gr]
  BY <1>1, <1>2
<1>9. Flat(gr.values) = Span(f, m[n].from, m[n].left)
  <2>1. fr.values \in Seq(Seq(Int \X Int))
    BY <1>4 DEF Splits
  <2>2. Flat(gr.values) = Flat(fr.values) \o v
    BY <1>6, <1>7, <2>1, FlatMore
  <2>3. Flat(fr.values) = Span(f, m[n].from, m[n].got)
    BY <1>3 DEF Splitting
  <2>4. QED
    <3>1. PICK i \in Int, j \in Int, k \in Int : i = m[n].from /\ j = m[n].got /\ k = m[n].left
      BY <1>5
    <3>2. Span(f, i, j) \o Span(f, j, k) = Span(f, i, k)
      <4>1. i <= j /\ j <= k
        BY <1>5, <3>1
      <4>2. QED
        BY <4>1, SpanJoin
    <3>3. QED
      BY <2>2, <2>3, <3>1, <3>2
<1> HIDE DEF gr, gs, fr
<1>10. gs \in Seq(Splits) /\ Len(gs) = n /\ gs[n] = gr /\ \A i \in 1 .. n - 1 : gs[i] = fs[i]
  BY <1>1, <1>2, <1>7, <1>8
<1>11. /\ x \in [from : Int, got : Int, left : Int, to : Int]
       /\ x.from = m[n].from /\ x.got = m[n].left /\ x.left = m[n].left /\ x.to = m[n].to
  BY <1>4
<1> HIDE DEF x
<1>12. Splitting(gr, x, f)
  <2>1. x.from <= x.got /\ x.got <= x.left /\ x.left <= x.to
    BY <1>3, <1>5, <1>11 DEF Splitting
  <2>2. PICK rs, c : fr.rest = Named(f, rs) /\ Cut(rs, c, m[n].left, m[n].to)
    BY <1>3 DEF Splitting
  <2>3. QED
    BY <1>7, <1>9, <1>11, <2>1, <2>2 DEF Splitting
<1> HIDE DEF n
<1>13. PICK y : Nested(gs, y, f, a, b) /\ y[n] = x
  <2>1. Splitting(gs[Len(fs)], x, f) /\ x.from = m[Len(fs)].from /\ x.to = m[Len(fs)].to
    BY <1>10, <1>11, <1>12 DEF n
  <2>2. gs \in Seq(Splits) /\ Len(gs) = Len(fs) /\ \A i \in 1 .. Len(fs) - 1 : gs[i] = fs[i]
    BY <1>10 DEF n
  <2>3. \E y : Nested(gs, y, f, a, b) /\ y[Len(fs)] = x
    BY <2>1, <2>2, NestedLast
  <2>4. QED
    BY <2>3 DEF n
<1>14. Resting(gs, y, f, a, b)
  BY <1>1, <1>10, <1>11, <1>13 DEF Resting
<1>15. QED
  BY <1>14 DEF gs, n

\* The values of a split that has no piece left make the value of what was split.
LEMMA CombinedIs ==
  ASSUME NEW fs, NEW m, NEW f \in Nat, NEW a \in Int, NEW b \in Int, Resting(fs, m, f, a, b),
         fs[Len(fs)].rest = << >>
  PROVE  LET gs == Front(fs)
         IN  /\ Nested(gs, m, f, a, b)
             /\ Flat(fs[Len(fs)].values) = Span(f, Here(gs, m, a), There(gs, m, b))
<1> DEFINE n == Len(fs)
           gs == Front(fs)
<1>1. Nested(fs, m, f, a, b) /\ fs # << >> /\ m[n].got = m[n].left
  BY DEF Resting
<1>2. /\ Nested(gs, m, f, a, b) /\ Splitting(fs[n], m[n], f)
      /\ m[n].from = Here(gs, m, a) /\ m[n].to = There(gs, m, b)
  BY <1>1, NestedLess
<1>3. PICK rs, c : fs[n].rest = Named(f, rs) /\ Cut(rs, c, m[n].left, m[n].to)
  BY <1>2 DEF Splitting
<1>4. Len(rs) = 0
  BY <1>3, NamedIs
<1>5. m[n].left = m[n].to
  BY <1>3, <1>4 DEF Cut, Bounds
<1>6. Flat(fs[n].values) = Span(f, m[n].from, m[n].to)
  BY <1>1, <1>2, <1>5 DEF Splitting
<1>7. QED
  BY <1>2, <1>6

(***************************************************************************)
(* The fold: the entries of the tasks that ended, in their order.          *)
(***************************************************************************)

\* Two sequences in order, one wholly before the other, are in order when joined.
LEMMA JoinedInOrder ==
  ASSUME NEW s \in Seq(Int \X Int), NEW t \in Seq(Int \X Int),
         InOrder(s), InOrder(t),
         \A x \in ToSet(s), y \in ToSet(t) : Before(x, y)
  PROVE  /\ s \o t \in Seq(Int \X Int) /\ InOrder(s \o t)
         /\ ToSet(s \o t) = ToSet(s) \union ToSet(t)
<1> DEFINE n == Len(s)
           u == s \o t
<1>1. /\ n \in Nat /\ Len(t) \in Nat /\ DOMAIN s = 1 .. n /\ DOMAIN t = 1 .. Len(t)
      /\ u \in Seq(Int \X Int) /\ DOMAIN u = 1 .. n + Len(t)
  OBVIOUS
<1>2. \A i \in 1 .. n + Len(t) : u[i] = IF i <= n THEN s[i] ELSE t[i - n]
  BY JoinedIs
<1>3. \A i \in 1 .. n + Len(t) : i <= n => i \in DOMAIN s /\ u[i] = s[i]
  BY <1>1, <1>2
<1>4. \A i \in 1 .. n + Len(t) : ~(i <= n) => i - n \in DOMAIN t /\ u[i] = t[i - n]
  BY <1>1, <1>2
<1> HIDE DEF u, n
<1>5. ASSUME NEW i \in DOMAIN u, NEW j \in DOMAIN u, i < j PROVE Before(u[i], u[j])
  <2>1. i \in 1 .. n + Len(t) /\ j \in 1 .. n + Len(t)
    BY <1>1
  <2>2. CASE j <= n
    <3>1. i <= n
      BY <1>1, <1>5, <2>1, <2>2
    <3>2. QED
      BY <1>3, <1>5, <2>1, <2>2, <3>1 DEF InOrder
  <2>3. CASE i <= n /\ ~(j <= n)
    <3>1. u[i] \in ToSet(s) /\ u[j] \in ToSet(t)
      BY <1>3, <1>4, <2>1, <2>3 DEF ToSet
    <3>2. QED
      BY <3>1
  <2>4. CASE ~(i <= n)
    <3>1. i \in Nat /\ j \in Nat /\ n \in Nat
      BY <1>1, <2>1
    <3>2. ~(j <= n) /\ i - n < j - n
      BY ONLY <1>5, <2>4, <3>1
    <3>3. QED
      BY <1>4, <2>1, <2>4, <3>2 DEF InOrder
  <2>5. QED
    BY <2>2, <2>3, <2>4
<1>6. ASSUME NEW x \in ToSet(u) PROVE x \in ToSet(s) \union ToSet(t)
  <2>1. PICK i \in 1 .. n + Len(t) : x = u[i]
    BY <1>1 DEF ToSet
  <2>2. QED
    BY <1>3, <1>4, <2>1 DEF ToSet
<1>7. ASSUME NEW x \in ToSet(s) PROVE x \in ToSet(u)
  <2>1. PICK i \in 1 .. n : x = s[i]
    BY <1>1 DEF ToSet
  <2>2. i \in 1 .. n + Len(t) /\ i <= n
    BY <1>1
  <2>3. QED
    BY <1>1, <1>3, <2>1, <2>2 DEF ToSet
<1>8. ASSUME NEW x \in ToSet(t) PROVE x \in ToSet(u)
  <2>1. PICK i \in 1 .. Len(t) : x = t[i]
    BY <1>1 DEF ToSet
  <2>2. PICK j : j = n + i
    OBVIOUS
  <2>3. j \in 1 .. n + Len(t) /\ ~(j <= n) /\ j - n = i
    BY <1>1, <2>2
  <2>4. u[j] = t[i]
    BY <1>4, <2>3
  <2>5. QED
    BY <1>1, <2>1, <2>3, <2>4 DEF ToSet
<1>9. ToSet(u) = ToSet(s) \union ToSet(t)
  BY <1>6, <1>7, <1>8
<1>10. InOrder(u)
  BY <1>5 DEF InOrder
<1>11. QED
  BY <1>1, <1>9, <1>10 DEF u

\* What the tasks ks of T read.
Covered(T, files, ks) == UNION {ToSet(Reads(T[k], files)) : k \in ks}

\* A folded value that is what the tasks ks read.
Folded(s, T, files, ks) ==
  s \in Seq(Int \X Int) /\ InOrder(s) /\ ToSet(s) = Covered(T, files, ks)

\* A task's entries go behind those of the tasks before it.
LEMMA FoldedMore ==
  ASSUME NEW T, NEW files, Divided(T, files), NEW n \in 1 .. Len(T), NEW ks \in SUBSET (1 .. n - 1),
         NEW s, Folded(s, T, files, ks)
  PROVE  Folded(s \o Reads(T[n], files), T, files, ks \union {n})
<1> DEFINE v == Reads(T[n], files)
<1>1. PICK f \in Nat, a \in Int, b \in Int : v = Span(f, a, b)
  BY DEF Divided
<1>2. v \in Seq(Int \X Int) /\ InOrder(v)
  BY <1>1, SpanIs, SpanInOrder
<1>3. ASSUME NEW x \in ToSet(s), NEW y \in ToSet(v) PROVE Before(x, y)
  <2>1. PICK k \in ks : x \in ToSet(Reads(T[k], files))
    BY DEF Folded, Covered
  <2>2. Len(T) \in Nat
    BY DEF Divided
  <2>3. k \in 1 .. Len(T) /\ k < n
    BY <2>2
  <2>4. QED
    BY <2>1, <2>3 DEF Divided
<1> HIDE DEF v
<1>4. /\ s \o v \in Seq(Int \X Int) /\ InOrder(s \o v)
      /\ ToSet(s \o v) = ToSet(s) \union ToSet(v)
  BY <1>2, <1>3, JoinedInOrder DEF Folded
<1>5. Covered(T, files, ks \union {n}) = Covered(T, files, ks) \union ToSet(v)
  BY DEF Covered, v
<1>6. QED
  BY <1>4, <1>5 DEF Folded, v

\* What was folded is the input, but for what other tasks read.
LEMMA FoldedWhole ==
  ASSUME NEW T, NEW files, Divided(T, files), NEW without \in SUBSET (1 .. Len(T)),
         NEW s, Folded(s, T, files, (1 .. Len(T)) \ without)
  PROVE  ToSet(s) = Input(files) \ Covered(T, files, without)
<1>1. ToSet(s) = Covered(T, files, (1 .. Len(T)) \ without)
  BY DEF Folded
<1>2. Input(files) = Covered(T, files, 1 .. Len(T))
  BY DEF Divided, Covered
<1>3. ASSUME NEW k \in (1 .. Len(T)) \ without, NEW l \in without,
             NEW x \in ToSet(Reads(T[k], files)), x \in ToSet(Reads(T[l], files))
      PROVE  FALSE
  <2>1. Before(x, x)
    <3>1. k \in 1 .. Len(T) /\ l \in 1 .. Len(T) /\ k # l /\ Len(T) \in Nat
      BY DEF Divided
    <3>2. k < l \/ l < k
      BY <3>1
    <3>3. QED
      BY <1>3, <3>1, <3>2 DEF Divided
  <2>2. x[1] \in Int /\ x[2] \in Int
    <3>1. PICK f \in Nat, a \in Int, b \in Int : Reads(T[k], files) = Span(f, a, b)
      BY DEF Divided
    <3>2. x \in {<<f, e>> : e \in a .. b - 1}
      BY <3>1, SpanIs
    <3>3. QED
      BY <3>2
  <2>3. QED
    BY <2>1, <2>2 DEF Before
<1>4. Covered(T, files, (1 .. Len(T)) \ without)
        = Covered(T, files, 1 .. Len(T)) \ Covered(T, files, without)
  BY <1>3 DEF Covered
<1>5. QED
  BY <1>1, <1>2, <1>4

(***************************************************************************)
(* The invariant of a worker under a retry policy.  What is folded is of   *)
(* the tasks before this one that did not end in the dead letters; and     *)
(* under a split, what is being read is what the innermost split awaits.   *)
(***************************************************************************)

Held == (1 .. index - 1) \ dead

Placing ==
  /\ job \in Jobs
  /\ phase \in {"idle", "process", "settle", "done", "raised"}
  /\ index \in 1 .. Len(partitions) + 1
  /\ phase \in {"idle", "done"} => frames = << >>
  /\ phase \in {"process", "settle", "raised"} => index \in 1 .. Len(partitions)
  /\ phase = "done" => index = Len(partitions) + 1

Folding ==
  ~job.write => /\ dead \subseteq 1 .. index - 1
                /\ Folded(acc, partitions, job.files, Held)

Working ==
  ~job.write /\ phase \in {"process", "settle"} =>
    \E f \in Nat, a, b \in Int : \E m :
      /\ Reads(partitions[index], job.files) = Span(f, a, b)
      /\ phase = "process" => Awaited(frames, m, f, a, b, piece, job.files)
      /\ phase = "settle"  => Resting(frames, m, f, a, b)

RInv == Placing /\ Folding /\ Working

\* The part a task of this job writes.
PartOf(p) == derive_part_index(p, job.n, job.files)

Writing ==
  job.write =>
    /\ frames = << >> /\ phase # "settle"
    /\ phase = "process" => piece = partitions[index]
    /\ acc = [k \in 1 .. index - 1 |-> PartOf(partitions[k])]
    /\ \A k \in 1 .. index - 1 :
         /\ PartOf(partitions[k]) \in DOMAIN parts
         /\ parts[PartOf(partitions[k])] = Reads(partitions[k], job.files)

\* The plan's tasks divide the input.
LEMMA TasksDivide ==
  ASSUME JobsAssumption, job \in Jobs
  PROVE  /\ Divided(partitions, job.files) /\ Len(partitions) \in Nat
         /\ job.files \in Seq(Nat) /\ job.write \in BOOLEAN /\ job.policy.n \in Nat
<1>1. /\ job.files \in Seq(Nat) /\ job.how \in {"blind", "eager", "chunks"}
      /\ job.n \in Nat \ {0} /\ job.write \in BOOLEAN /\ job.policy.n \in Nat
  BY DEF JobsAssumption
<1>2. Divided(partitions, job.files)
  BY <1>1, PlansDivide DEF partitions
<1>3. Len(partitions) \in Nat
  BY <1>2 DEF Divided
<1>4. QED
  BY <1>1, <1>2, <1>3

LEMMA EntriesRead == \A p : entries(p) = Reads(p, job.files)
BY DEF entries, Reads

\* A job's tasks do not change.
LEMMA SameTasks == job' = job => partitions' = partitions
BY DEF partitions

\* Each action keeps the invariant: a task starts,
LEMMA StartStep ==
  ASSUME JobsAssumption, RInv, StartTask
  PROVE  RInv'
<1>1. /\ phase = "idle" /\ index <= Len(partitions) /\ phase' = "process"
      /\ piece' = partitions[index]
      /\ job' = job /\ index' = index /\ frames' = frames /\ acc' = acc /\ dead' = dead
  BY DEF StartTask
<1>2. partitions' = partitions
  BY <1>1, SameTasks
<1>3. Divided(partitions, job.files) /\ Len(partitions) \in Nat
  BY TasksDivide DEF RInv, Placing
<1>4. index \in 1 .. Len(partitions)
  BY <1>1, <1>3 DEF RInv, Placing
<1>5. Placing'
  BY <1>1, <1>2, <1>4 DEF RInv, Placing
<1>6. Folding'
  BY <1>1, <1>2 DEF RInv, Folding, Held
<1>7. Working'
  <2>1. PICK f \in Nat, a \in Int, b \in Int :
          a <= b /\ Reads(partitions[index], job.files) = Span(f, a, b)
    BY <1>3, <1>4 DEF Divided
  <2>2. frames = << >>
    BY <1>1 DEF RInv, Placing
  <2>3. partitions[index] \in Pieces
    BY <1>3, <1>4 DEF Divided
  <2> DEFINE m == << >>
  <2>4. Awaited(frames, m, f, a, b, partitions[index], job.files)
    BY <2>1, <2>2, <2>3 DEF Awaited, Nested, Here, There
  <2>5. QED
    BY <1>1, <1>2, <2>1, <2>4 DEF Working
<1>8. QED
  BY <1>5, <1>6, <1>7 DEF RInv

\* A task ends, with its value or without.
LEMMA EndStep ==
  ASSUME JobsAssumption, RInv, index \in 1 .. Len(partitions), EndTask,
         ~job.write =>
           \/ dead' = dead /\ acc' = acc \o Reads(partitions[index], job.files)
           \/ dead' = dead \union {index} /\ acc' = acc
  PROVE  RInv'
<1>1. index' = index + 1 /\ phase' = "idle" /\ frames' = << >> /\ job' = job
  BY DEF EndTask
<1>2. partitions' = partitions
  BY <1>1, SameTasks
<1>3. Divided(partitions, job.files) /\ Len(partitions) \in Nat
  BY TasksDivide DEF RInv, Placing
<1>4. Placing'
  BY <1>1, <1>2, <1>3 DEF RInv, Placing
<1>5. Folding'
  <2> SUFFICES ASSUME ~job.write
               PROVE  dead' \subseteq 1 .. index /\ Folded(acc', partitions, job.files, (1 .. index) \ dead')
    <3>1. index' - 1 = index
      BY <1>1
    <3>2. QED
      BY <1>1, <1>2, <3>1 DEF Folding, Held
  <2>1. dead \subseteq 1 .. index - 1 /\ Folded(acc, partitions, job.files, Held)
    BY DEF RInv, Folding
  <2>2. Held \in SUBSET (1 .. index - 1) /\ index \in Nat /\ index \notin dead
    BY <2>1 DEF Held
  <2>3. CASE dead' = dead /\ acc' = acc \o Reads(partitions[index], job.files)
    <3>1. Folded(acc', partitions, job.files, Held \union {index})
      BY <1>3, <2>1, <2>2, <2>3, FoldedMore
    <3>2. Held \union {index} = (1 .. index) \ dead
      BY <2>1, <2>2 DEF Held
    <3>3. dead' \subseteq 1 .. index
      BY <2>1, <2>2, <2>3
    <3>4. (1 .. index) \ dead' = Held \union {index}
      BY <2>3, <3>2
    <3>5. QED
      BY <3>1, <3>3, <3>4
  <2>4. CASE dead' = dead \union {index} /\ acc' = acc
    <3>1. (1 .. index) \ dead' = Held
      BY <2>1, <2>2, <2>4 DEF Held
    <3>2. dead' \subseteq 1 .. index
      BY <2>1, <2>2, <2>4
    <3>3. Folded(acc', partitions, job.files, Held)
      BY <2>1, <2>4
    <3>4. QED
      BY <3>1, <3>2, <3>3
  <2>5. QED
    BY <2>3, <2>4
<1>6. Working'
  BY <1>1 DEF Working
<1>7. QED
  BY <1>4, <1>5, <1>6 DEF RInv

\* A value given to the fold, or to the split that waits for it.
LEMMA GiveStep ==
  ASSUME JobsAssumption, RInv, index \in 1 .. Len(partitions), ~job.write,
         NEW f \in Nat, NEW a \in Int, NEW b \in Int, NEW m, NEW fs,
         Reads(partitions[index], job.files) = Span(f, a, b),
         Nested(fs, m, f, a, b), NEW v, v = Span(f, Here(fs, m, a), There(fs, m, b)),
         Give(v, fs)
  PROVE  RInv'
<1>1. CASE fs = << >>
  <2>1. acc' = acc \o v /\ EndTask /\ dead' = dead
    BY <1>1 DEF Give
  <2>2. v = Reads(partitions[index], job.files)
    BY <1>1 DEF Here, There
  <2>3. QED
    BY <2>1, <2>2, EndStep
<1>2. CASE fs # << >>
  <2>1. /\ frames' = [fs EXCEPT ![Len(fs)].values = Append(@, v)] /\ phase' = "settle"
        /\ job' = job /\ index' = index /\ acc' = acc /\ dead' = dead
    BY <1>2 DEF Give
  <2>2. partitions' = partitions
    BY <2>1, SameTasks
  <2>3. v = Span(f, m[Len(fs)].got, m[Len(fs)].left)
    BY <1>2 DEF Here, There
  <2>4. PICK y : Resting(frames', y, f, a, b)
    BY <1>2, <2>1, <2>3, TakenRests
  <2>5. Placing'
    BY <2>1, <2>2 DEF RInv, Placing
  <2>6. Folding'
    BY <2>1, <2>2 DEF RInv, Folding, Held
  <2>7. Working'
    BY <2>1, <2>2, <2>4 DEF Working
  <2>8. QED
    BY <2>5, <2>6, <2>7 DEF RInv
<1>3. QED
  BY <1>1, <1>2

\* a read succeeds, and its value is folded, or taken by the split that awaits it,
LEMMA SucceedStep ==
  ASSUME JobsAssumption, RInv, Writing, Succeed
  PROVE  RInv'
<1>1. phase = "process" /\ job \in Jobs /\ index \in 1 .. Len(partitions)
  BY DEF Succeed, RInv, Placing
<1>2. CASE ~job.write
  <2>1. Give(Reads(piece, job.files), frames)
    BY <1>2, EntriesRead DEF Succeed
  <2>2. PICK f \in Nat, a \in Int, b \in Int : \E m :
          /\ Reads(partitions[index], job.files) = Span(f, a, b)
          /\ Awaited(frames, m, f, a, b, piece, job.files)
    BY <1>1, <1>2 DEF RInv, Working
  <2>3. PICK m : /\ Reads(partitions[index], job.files) = Span(f, a, b)
                 /\ Awaited(frames, m, f, a, b, piece, job.files)
    BY <2>2
  <2>4. /\ Nested(frames, m, f, a, b)
        /\ Reads(piece, job.files) = Span(f, Here(frames, m, a), There(frames, m, b))
    BY <2>2, <2>3 DEF Awaited
  <2>5. QED
    BY <1>1, <1>2, <2>1, <2>2, <2>3, <2>4, GiveStep
<1>3. CASE job.write
  <2>1. frames = << >>
    BY <1>3 DEF Writing
  <2>2. EndTask
    BY <1>3, <2>1 DEF Succeed, Give
  <2>3. QED
    BY <1>1, <1>3, <2>2, EndStep
<1>4. QED
  BY <1>2, <1>3

\* a split has its next piece read, or its values combined,
LEMMA SettleStep ==
  ASSUME JobsAssumption, RInv, Writing, Settle
  PROVE  RInv'
<1> DEFINE n == Len(frames)
<1>1. phase = "settle" /\ job \in Jobs /\ index \in 1 .. Len(partitions)
  BY DEF Settle, RInv, Placing
<1>2. ~job.write
  BY <1>1, TasksDivide DEF Writing
<1>3. PICK f \in Nat, a \in Int, b \in Int : \E m :
        /\ Reads(partitions[index], job.files) = Span(f, a, b)
        /\ Resting(frames, m, f, a, b)
  BY <1>1, <1>2 DEF RInv, Working
<1>4. PICK m : /\ Reads(partitions[index], job.files) = Span(f, a, b)
               /\ Resting(frames, m, f, a, b)
  BY <1>3
<1>5. CASE frames[n].rest # << >>
  <2>1. /\ frames' = [frames EXCEPT ![n].rest = Tail(@)]
        /\ piece' = Head(frames[n].rest) /\ phase' = "process"
        /\ job' = job /\ index' = index /\ acc' = acc /\ dead' = dead
    BY <1>5 DEF Settle
  <2>2. partitions' = partitions
    BY <2>1, SameTasks
  <2>3. PICK y : Awaited(frames', y, f, a, b, piece', job.files)
    BY <1>3, <1>4, <1>5, <2>1, NextAwaited
  <2>4. Placing'
    BY <1>1, <2>1, <2>2 DEF RInv, Placing
  <2>5. Folding'
    BY <2>1, <2>2 DEF RInv, Folding, Held
  <2>6. Working'
    BY <1>3, <1>4, <2>1, <2>2, <2>3 DEF Working
  <2>7. QED
    BY <2>4, <2>5, <2>6 DEF RInv
<1>6. CASE frames[n].rest = << >>
  <2>1. Give(Flat(frames[n].values), Front(frames))
    BY <1>6 DEF Settle, Flat
  <2> DEFINE gs == Front(frames)
  <2>2. /\ Nested(gs, m, f, a, b)
        /\ Flat(frames[n].values) = Span(f, Here(gs, m, a), There(gs, m, b))
    BY <1>3, <1>4, <1>6, CombinedIs
  <2> HIDE DEF gs, n
  <2>3. Give(Flat(frames[n].values), gs)
    BY <2>1 DEF gs
  <2>4. QED
    BY <1>1, <1>2, <1>3, <1>4, <2>2, <2>3, GiveStep
<1>7. QED
  BY <1>5, <1>6

\* the policy asks for the same piece again,
LEMMA AgainStep ==
  ASSUME RInv, \/ Again
               \/ UNCHANGED <<job, index, phase, piece, frames, acc, dead>>
  PROVE  RInv'
<1>1. /\ job' = job /\ index' = index /\ phase' = phase /\ piece' = piece /\ frames' = frames
      /\ acc' = acc /\ dead' = dead
  BY DEF Again
<1>2. partitions' = partitions
  BY <1>1, SameTasks
<1>3. QED
  BY <1>1, <1>2 DEF RInv, Placing, Folding, Held, Working

\* or for it in smaller pieces,
LEMMA SmallerStep ==
  ASSUME JobsAssumption, RInv, Writing, phase = "process", Smaller
  PROVE  RInv'
<1>1. job \in Jobs /\ index \in 1 .. Len(partitions)
  BY DEF RInv, Placing
<1>2. ~job.write
  BY <1>1 DEF Smaller, JobsAssumption
<1>3. job.policy.n \in Nat
  BY <1>1, TasksDivide
<1>4. PICK f \in Nat, a \in Int, b \in Int : \E m :
        /\ Reads(partitions[index], job.files) = Span(f, a, b)
        /\ Awaited(frames, m, f, a, b, piece, job.files)
  BY <1>2 DEF RInv, Working
<1>5. PICK m : /\ Reads(partitions[index], job.files) = Span(f, a, b)
               /\ Awaited(frames, m, f, a, b, piece, job.files)
  BY <1>4
<1>6. /\ Len(split(piece, job.policy.n)) > 1
      /\ frames' = Append(frames, [rest |-> split(piece, job.policy.n), values |-> << >>])
      /\ phase' = "settle"
      /\ job' = job /\ index' = index /\ acc' = acc /\ dead' = dead
  BY DEF Smaller, divides
<1>7. partitions' = partitions
  BY <1>6, SameTasks
<1>8. PICK y : Resting(frames', y, f, a, b)
  BY <1>3, <1>4, <1>5, <1>6, SplitRests
<1>9. Placing'
  BY <1>1, <1>6, <1>7 DEF RInv, Placing
<1>10. Folding'
  BY <1>6, <1>7 DEF RInv, Folding, Held
<1>11. Working'
  BY <1>4, <1>5, <1>6, <1>7, <1>8 DEF Working
<1>12. QED
  BY <1>9, <1>10, <1>11 DEF RInv

\* or gives the task up to the dead letters,
LEMMA GiveUpStep ==
  ASSUME JobsAssumption, RInv, phase = "process", GiveUp
  PROVE  RInv'
<1>1. job \in Jobs /\ index \in 1 .. Len(partitions)
  BY DEF RInv, Placing
<1>2. CASE ~job.write
  <2>1. dead' = dead \union {index} /\ acc' = acc /\ EndTask
    BY <1>2 DEF GiveUp
  <2>2. QED
    BY <1>1, <2>1, EndStep
<1>3. CASE job.write
  <2>1. /\ phase' = "raised"
        /\ job' = job /\ index' = index /\ frames' = frames /\ acc' = acc /\ dead' = dead
    BY <1>3 DEF GiveUp
  <2>2. partitions' = partitions
    BY <2>1, SameTasks
  <2>3. QED
    BY <1>1, <1>3, <2>1, <2>2 DEF RInv, Placing, Folding, Held, Working
<1>4. QED
  BY <1>2, <1>3

\* and the plan is done.
LEMMA FinishStep ==
  ASSUME JobsAssumption, RInv, Finish
  PROVE  RInv'
<1>1. /\ phase = "idle" /\ index > Len(partitions) /\ phase' = "done"
      /\ job' = job /\ index' = index /\ frames' = frames /\ acc' = acc /\ dead' = dead
  BY DEF Finish
<1>2. partitions' = partitions
  BY <1>1, SameTasks
<1>3. Len(partitions) \in Nat
  BY TasksDivide DEF RInv, Placing
<1>4. index = Len(partitions) + 1
  BY <1>1, <1>3 DEF RInv, Placing
<1>5. QED
  BY <1>1, <1>2, <1>4 DEF RInv, Placing, Folding, Held, Working

LEMMA NextRInv ==
  ASSUME JobsAssumption, RInv, Writing, [RetriedNext]_(retriedVars)
  PROVE  RInv'
<1>1. CASE StartTask
  BY <1>1, StartStep
<1>2. CASE Succeed
  BY <1>2, SucceedStep
<1>3. CASE Settle
  BY <1>3, SettleStep
<1>4. CASE ReadFails
  <2>1. CASE Again
    BY <2>1, AgainStep
  <2>2. CASE Smaller
    BY <1>4, <2>2, SmallerStep DEF ReadFails
  <2>3. CASE GiveUp
    BY <1>4, <2>3, GiveUpStep DEF ReadFails
  <2>4. QED
    BY <1>4, <2>1, <2>2, <2>3 DEF ReadFails
<1>5. CASE Finish
  BY <1>5, FinishStep
<1>6. CASE \E uri \in Uris : Open(uri)
  <2>1. UNCHANGED <<job, index, phase, piece, frames, acc, dead>>
    BY <1>6 DEF Open
  <2>2. QED
    BY <2>1, AgainStep
<1>7. CASE UNCHANGED retriedVars
  <2>1. UNCHANGED <<job, index, phase, piece, frames, acc, dead>>
    BY <1>7 DEF retriedVars
  <2>2. QED
    BY <2>1, AgainStep
<1>8. QED
  BY <1>1, <1>2, <1>3, <1>4, <1>5, <1>6, <1>7 DEF RetriedNext

(***************************************************************************)
(* The parts that tasks write.                                             *)
(***************************************************************************)

\* Those of some ranges that have entries are among them, and each has some.
LEMMA FilledKeeps ==
  ASSUME NEW rs \in Seq(Int \X Int)
  PROVE  /\ filled(rs) \in Seq(Int \X Int)
         /\ \A i \in 1 .. Len(filled(rs)) :
              /\ filled(rs)[i][1] < filled(rs)[i][2]
              /\ \E k \in 1 .. Len(rs) : filled(rs)[i] = rs[k]
<1> DEFINE n == Len(rs)
           Kept(v) == /\ v \in Seq(Int \X Int)
                      /\ \A i \in 1 .. Len(v) : v[i][1] < v[i][2] /\ \E k \in 1 .. n : v[i] = rs[k]
<1>1. n \in Nat /\ \A k \in 1 .. n : rs[k] \in Int \X Int
  OBVIOUS
<1>2. PICK h : /\ filled(rs) = h[n]
               /\ h[0] = << >>
               /\ \A k \in 1 .. n :
                    h[k] = IF rs[k][2] > rs[k][1] THEN Append(h[k - 1], rs[k]) ELSE h[k - 1]
  BY FilledFold
<1> DEFINE B == {k \in 0 .. n : ~Kept(h[k])}
<1> HIDE DEF n
<1>3. 0 \notin B
  <2>1. Kept(<< >>)
    OBVIOUS
  <2> HIDE DEF Kept
  <2>2. Kept(h[0])
    BY <1>2, <2>1
  <2>3. QED
    BY <2>2
<1>4. ASSUME NEW k \in 1 .. n, k - 1 \notin B PROVE k \notin B
  <2>1. k - 1 \in 0 .. n /\ k \in 0 .. n
    BY <1>1
  <2>2. Kept(h[k - 1])
    BY <1>4, <2>1
  <2>3. CASE rs[k][2] > rs[k][1]
    <3> DEFINE v == h[k - 1]
               u == h[k]
    <3>1. u = Append(v, rs[k]) /\ rs[k] \in Int \X Int /\ v \in Seq(Int \X Int)
      BY <1>1, <1>2, <2>2, <2>3
    <3> HIDE DEF u
    <3>2. /\ u \in Seq(Int \X Int) /\ Len(u) = Len(v) + 1 /\ Len(v) \in Nat
          /\ u[Len(v) + 1] = rs[k] /\ \A i \in 1 .. Len(v) : u[i] = v[i]
      BY <3>1
    <3>3. ASSUME NEW i \in 1 .. Len(u) PROVE u[i][1] < u[i][2] /\ \E x \in 1 .. n : u[i] = rs[x]
      <4>1. CASE i \in 1 .. Len(v)
        BY <2>2, <3>2, <4>1
      <4>2. CASE i = Len(v) + 1
        <5>1. u[i] = rs[k] /\ rs[k][1] < rs[k][2]
          BY <1>1, <2>3, <3>2, <4>2
        <5>2. QED
          BY <5>1
      <4>3. i \in 1 .. Len(v) \/ i = Len(v) + 1
        <5>1. PICK x \in Nat : x = Len(v)
          BY <3>2
        <5>2. i \in 1 .. x + 1
          BY <3>2, <5>1
        <5>3. i \in 1 .. x \/ i = x + 1
          BY <5>2
        <5>4. QED
          BY <5>1, <5>3
      <4>4. QED
        BY <4>1, <4>2, <4>3
    <3>4. Kept(u)
      BY <3>2, <3>3
    <3>5. QED
      BY <3>4 DEF u
  <2>4. CASE ~(rs[k][2] > rs[k][1])
    <3>1. h[k] = h[k - 1]
      BY <1>2, <2>4
    <3> HIDE DEF Kept
    <3>2. QED
      BY <2>2, <3>1
  <2>5. QED
    BY <2>3, <2>4
<1>5. B \in SUBSET (0 .. n)
  OBVIOUS
<1>6. B = {}
  <2> HIDE DEF B
  <2>1. QED
    BY <1>1, <1>3, <1>4, <1>5, StepByStep
<1>7. n \in 0 .. n
  BY <1>1
<1>8. Kept(h[n])
  BY <1>6, <1>7
<1>9. Kept(filled(rs))
  <2> HIDE DEF Kept
  <2>1. QED
    BY <1>2, <1>8
<1>10. QED
  BY <1>9 DEF n

\* No range is one of two partitions'.
LEMMA EagerRanges ==
  ASSUME NEW n \in Nat \ {0}, NEW e \in Nat
  PROVE  LET v == eager_ranges(e, n)
         IN  /\ v \in Seq(Int \X Int)
             /\ \A i \in 1 .. Len(v) : \E s \in 0 .. n - 1 : v[i] = even(s, n, e)
             /\ \A i, j \in 1 .. Len(v) : i # j => v[i] # v[j]
<1> DEFINE v == eager_ranges(e, n)
           rs == [i \in 1 .. n |-> even(i - 1, n, e)]
           u == filled(rs)
<1>1. PICK c : Cut(rs, c, 0, e)
  BY EvenCut
<1>2. rs \in Seq(Int \X Int) /\ Len(rs) = n
  BY <1>1 DEF Cut
<1>3. ASSUME NEW k \in 1 .. n PROVE k - 1 \in 0 .. n - 1 /\ rs[k] = even(k - 1, n, e)
  OBVIOUS
<1>4. PICK d : Cut(u, d, 0, e)
  BY <1>1, FilledCut
<1>5. v = IF u = << >> THEN <<rs[1]>> ELSE u
  BY DEF eager_ranges
<1> HIDE DEF v, rs
<1>6. CASE u = << >>
  <2>1. 1 \in 1 .. n /\ rs[1] \in Int \X Int /\ v = <<rs[1]>>
    BY <1>2, <1>5, <1>6
  <2>2. PICK r : r = rs[1]
    OBVIOUS
  <2>3. \E s \in 0 .. n - 1 : r = even(s, n, e)
    BY <1>3, <2>1, <2>2
  <2>4. v = <<r>> /\ r \in Int \X Int
    BY <2>1, <2>2
  <2>5. v \in Seq(Int \X Int) /\ Len(v) = 1 /\ v[1] = r
    BY <2>4
  <2>6. \A i \in 1 .. Len(v) : i = 1
    BY <2>5
  <2>7. QED
    BY <2>3, <2>5, <2>6 DEF v
<1>7. CASE u # << >>
  <2>1. v = u
    BY <1>5, <1>7
  <2>2. /\ u \in Seq(Int \X Int)
        /\ \A i \in 1 .. Len(u) : u[i][1] < u[i][2] /\ \E k \in 1 .. Len(rs) : u[i] = rs[k]
    BY <1>2, FilledKeeps
  <2> HIDE DEF u
  <2>3. ASSUME NEW i \in 1 .. Len(u) PROVE \E s \in 0 .. n - 1 : u[i] = even(s, n, e)
    <3>1. PICK k \in 1 .. n : u[i] = rs[k]
      BY <1>2, <2>2
    <3>2. QED
      BY <1>3, <3>1
  <2>4. ASSUME NEW i \in 1 .. Len(u), NEW j \in 1 .. Len(u), i < j PROVE u[i] # u[j]
    <3>1. u[i] = <<d[i - 1], d[i]>> /\ u[j] = <<d[j - 1], d[j]>> /\ Bounds(d, Len(u), 0, e)
      BY <1>4 DEF Cut
    <3>2. Len(u) \in Nat
      BY <2>2
    <3>3. i - 1 \in 0 .. Len(u) /\ i \in 0 .. Len(u) /\ j - 1 \in 0 .. Len(u) /\ i <= j - 1
      BY <2>4, <3>2
    <3>4. d[i - 1] \in Int /\ d[i] \in Int /\ d[j - 1] \in Int
      BY <3>1, <3>3 DEF Bounds
    <3>5. d[i] <= d[j - 1]
      BY <3>1, <3>2, <3>3, BoundsRise
    <3>6. d[i - 1] < d[i]
      <4>1. u[i][1] = d[i - 1] /\ u[i][2] = d[i]
        BY <3>1
      <4>2. u[i][1] < u[i][2]
        BY <2>2
      <4>3. QED
        BY <4>1, <4>2
    <3>7. d[i - 1] # d[j - 1]
      BY <3>4, <3>5, <3>6
    <3>8. QED
      BY <3>1, <3>7
  <2>5. \A i, j \in 1 .. Len(u) : i # j => i < j \/ j < i
    BY <2>2
  <2>6. QED
    BY <2>1, <2>2, <2>3, <2>4, <2>5 DEF v
<1>8. QED
  BY <1>6, <1>7 DEF v

\* The steps of a file that its partitions are.
Stepped(ps, f, n, files, st) ==
  /\ \A i \in 1 .. Len(ps) :
       /\ st[i] \in 0 .. n - 1
       /\ derive_part_index(ps[i], n, files) = (f - 1) * n + st[i]
  /\ \A i, j \in 1 .. Len(ps) : i # j => st[i] # st[j]

\* Blind steps differ in their numbers, and eager ones in the numbers of their ranges.
LEMMA BlindSteps ==
  ASSUME NEW n \in Nat \ {0}, NEW files \in Seq(Nat), NEW f \in DOMAIN files
  PROVE  \E st : Stepped(OfFile("blind", n, files, f), f, n, files, st)
<1> DEFINE ps == OfFile("blind", n, files, f)
           st == [i \in 1 .. n |-> i - 1]
<1>1. Len(ps) = n /\ \A i \in 1 .. n : ps[i] = BlindStep(f, i - 1, n)
  BY DEF OfFile
<1>2. ASSUME NEW i \in 1 .. n
      PROVE  st[i] \in 0 .. n - 1 /\ derive_part_index(ps[i], n, files) = (f - 1) * n + st[i]
  <2> DEFINE p == BlindStep(f, i - 1, n)
  <2>1. p.blind # NotBlind
    <3>1. p.blind.step = i - 1 /\ NotBlind.step = -1
      BY DEF BlindStep, NotBlind
    <3>2. i - 1 # -1
      OBVIOUS
    <3>3. QED
      BY <3>1, <3>2
  <2>2. p.blind.step = i - 1 /\ p.file = f
    BY DEF BlindStep
  <2> HIDE DEF p
  <2>3. derive_part_index(p, n, files) = (f - 1) * n + (i - 1)
    BY <2>1, <2>2 DEF derive_part_index, file_base
  <2>4. QED
    BY <1>1, <2>3 DEF p
<1>3. \A i, j \in 1 .. n : i # j => st[i] # st[j]
  OBVIOUS
<1> HIDE DEF st, ps
<1>4. Stepped(ps, f, n, files, st)
  BY <1>1, <1>2, <1>3 DEF Stepped
<1>5. QED
  BY <1>4 DEF ps

LEMMA EagerSteps ==
  ASSUME NEW n \in Nat \ {0}, NEW files \in Seq(Nat), NEW f \in DOMAIN files
  PROVE  \E st : Stepped(OfFile("eager", n, files, f), f, n, files, st)
<1> DEFINE e == files[f]
           v == eager_ranges(e, n)
           ps == OfFile("eager", n, files, f)
           st == [i \in 1 .. Len(v) |-> step_of(ps[i], n, e)]
<1>1. e \in Nat
  OBVIOUS
<1>2. /\ v \in Seq(Int \X Int)
      /\ \A i \in 1 .. Len(v) : \E s \in 0 .. n - 1 : v[i] = even(s, n, e)
      /\ \A i, j \in 1 .. Len(v) : i # j => v[i] # v[j]
  BY <1>1, EagerRanges
<1>3. ps = [i \in DOMAIN v |-> Ranged(f, v[i][1], v[i][2])]
  BY DEF OfFile, Named
<1> HIDE DEF v, e
<1>4. DOMAIN v = 1 .. Len(v) /\ Len(v) \in Nat /\ \A i \in 1 .. Len(v) : v[i] = <<v[i][1], v[i][2]>>
  <2>1. DOMAIN v = 1 .. Len(v) /\ Len(v) \in Nat
    BY <1>2
  <2>2. \A i \in 1 .. Len(v) : v[i] \in Int \X Int
    BY <1>2
  <2>3. \A r \in Int \X Int : r = <<r[1], r[2]>>
    OBVIOUS
  <2>4. QED
    BY ONLY <2>1, <2>2, <2>3
<1>5. Len(ps) = Len(v) /\ \A i \in 1 .. Len(v) : ps[i] = Ranged(f, v[i][1], v[i][2])
  BY <1>3, <1>4
<1> HIDE DEF ps
<1>6. ASSUME NEW i \in 1 .. Len(v)
      PROVE  /\ st[i] \in 0 .. n - 1 /\ even(st[i], n, e) = v[i]
             /\ derive_part_index(ps[i], n, files) = (f - 1) * n + st[i]
  <2> DEFINE M == steps_matching(ps[i], n, e)
  <2>1. ps[i].start = v[i][1] /\ ps[i].stop = v[i][2] /\ ps[i].file = f /\ ps[i].blind = NotBlind
    <3>1. ps[i] = Ranged(f, v[i][1], v[i][2])
      BY <1>5
    <3>2. QED
      BY <3>1 DEF Ranged
  <2>2. M = {s \in 0 .. n - 1 : even(s, n, e) = v[i]}
    BY <1>4, <2>1 DEF steps_matching
  <2>3. M \subseteq Nat /\ M # {}
    <3>1. PICK s \in 0 .. n - 1 : v[i] = even(s, n, e)
      BY <1>2
    <3>2. s \in M
      BY <2>2, <3>1
    <3>3. \A x \in 0 .. n - 1 : x \in Nat
      OBVIOUS
    <3>4. M \subseteq 0 .. n - 1
      BY <2>2
    <3> HIDE DEF M
    <3>5. QED
      BY <3>2, <3>3, <3>4
  <2> DEFINE s == step_of(ps[i], n, e)
  <2>4. s = CHOOSE x \in M : \A o \in M : x <= o
    BY DEF step_of
  <2> HIDE DEF M
  <2>5. \E x \in M : \A o \in M : x <= o
    <3>1. PICK x \in M : \A o \in M : ~(o < x)
      BY <2>3, LeastNumber
    <3>2. \A o \in M : x <= o
      BY <2>3, <3>1
    <3>3. QED
      BY <3>2
  <2>6. s \in M
    BY <2>4, <2>5
  <2>7. st[i] = s
    OBVIOUS
  <2>8. derive_part_index(ps[i], n, files) = (f - 1) * n + s
    BY <2>1 DEF derive_part_index, file_base, e
  <2> HIDE DEF s, st
  <2>9. QED
    BY <2>2, <2>6, <2>7, <2>8
<1>7. \A i, j \in 1 .. Len(v) : i # j => st[i] # st[j]
  <2> HIDE DEF st
  <2>1. QED
    BY <1>2, <1>6
<1> HIDE DEF st
<1>8. Stepped(ps, f, n, files, st)
  BY <1>5, <1>6, <1>7 DEF Stepped
<1>9. QED
  BY <1>8 DEF ps

\* No part is one of two tasks'.
LEMMA PartsDiffer ==
  ASSUME NEW how \in {"blind", "eager"}, NEW n \in Nat \ {0}, NEW files \in Seq(Nat),
         NEW T, T = make_partitions(how, n, files),
         NEW k \in 1 .. Len(T), NEW l \in 1 .. Len(T), k # l
  PROVE  derive_part_index(T[k], n, files) # derive_part_index(T[l], n, files)
<1> DEFINE w == [f \in DOMAIN files |-> OfFile(how, n, files, f)]
           N0 == Len(files)
<1>1. N0 \in Nat /\ DOMAIN files = 1 .. N0
  OBVIOUS
<1>2. ASSUME NEW f \in 1 .. N0 PROVE w[f] = OfFile(how, n, files, f) /\ w[f] \in Seq(Pieces)
  <2>1. \E c : Covers(OfFile(how, n, files, f), c, f, files[f], files)
    BY <1>1, BlindCovers, EagerCovers
  <2>2. QED
    BY <1>1, <2>1 DEF Covers
<1>3. ASSUME NEW f \in 1 .. N0 PROVE \E st : Stepped(w[f], f, n, files, st)
  BY <1>1, <1>2, BlindSteps, EagerSteps
<1>4. w \in Seq(Seq(Pieces)) /\ Len(w) = N0
  BY <1>1, <1>2
<1>5. T = Flat(w)
  BY PlanIs
<1> HIDE DEF w, N0
<1>6. PICK o : Laid(w, T, o)
  BY <1>4, <1>5, FlatPlaces
<1>7. ASSUME NEW x \in 1 .. Len(T)
      PROVE  \E f \in 1 .. N0, i \in Nat : i \in 1 .. Len(w[f]) /\ x = o[f] + i /\ T[x] = w[f][i]
  <2>1. PICK f \in 1 .. N0 : \E i \in 1 .. Len(w[f]) : x = o[f] + i
    BY <1>4, <1>6 DEF Laid
  <2>2. PICK i \in 1 .. Len(w[f]) : x = o[f] + i
    BY <2>1
  <2>3. T[x] = w[f][i]
    BY <1>4, <1>6, <2>2 DEF Laid
  <2>4. i \in Nat
    OBVIOUS
  <2>5. QED
    BY <2>2, <2>3, <2>4
<1>8. PICK f \in 1 .. N0, i \in Nat : i \in 1 .. Len(w[f]) /\ k = o[f] + i /\ T[k] = w[f][i]
  BY <1>7
<1>9. PICK g \in 1 .. N0, j \in Nat : j \in 1 .. Len(w[g]) /\ l = o[g] + j /\ T[l] = w[g][j]
  BY <1>7
<1>10. PICK s : Stepped(w[f], f, n, files, s)
  BY <1>3
<1>11. PICK t : Stepped(w[g], g, n, files, t)
  BY <1>3
<1>12. /\ s[i] \in 0 .. n - 1 /\ t[j] \in 0 .. n - 1
       /\ derive_part_index(T[k], n, files) = (f - 1) * n + s[i]
       /\ derive_part_index(T[l], n, files) = (g - 1) * n + t[j]
  BY <1>8, <1>9, <1>10, <1>11 DEF Stepped
<1>13. CASE f = g
  <2>1. i # j
    BY <1>8, <1>9, <1>13
  <2>2. derive_part_index(T[l], n, files) = (f - 1) * n + s[j] /\ s[j] \in 0 .. n - 1 /\ s[i] # s[j]
    BY <1>8, <1>9, <1>10, <1>13, <2>1 DEF Stepped
  <2>3. PICK a \in Int, b \in Int, c \in Int : a = (f - 1) * n /\ b = s[i] /\ c = s[j]
    <3>1. (f - 1) * n \in Int
      BY <1>1
    <3>2. \A x \in 0 .. n - 1 : x \in Int
      OBVIOUS
    <3>3. s[i] \in Int /\ s[j] \in Int
      BY ONLY <1>12, <2>2, <3>2
    <3>4. QED
      BY ONLY <3>1, <3>3
  <2>4. a + b # a + c
    <3>1. b # c
      BY <2>2, <2>3
    <3>2. QED
      BY ONLY <3>1, a \in Int, b \in Int, c \in Int
  <2>5. QED
    BY <1>12, <2>2, <2>3, <2>4
<1>14. ASSUME NEW x \in Int, NEW y \in Int, x < y, NEW p \in 0 .. n - 1, NEW q \in 0 .. n - 1
       PROVE  (x - 1) * n + p # (y - 1) * n + q
  <2>1. x <= y - 1 /\ x * n = (x - 1) * n + n
    BY <1>14
  <2>2. x * n <= (y - 1) * n
    BY <2>1, Division
  <2>3. PICK a \in Int, b \in Int, c \in Int : a = (x - 1) * n /\ b = x * n /\ c = (y - 1) * n
    OBVIOUS
  <2>4. b = a + n /\ b <= c
    BY <2>1, <2>2, <2>3
  <2>5. a + p # c + q
    BY <2>3, <2>4
  <2>6. QED
    BY <2>3, <2>5
<1>15. CASE f < g
  <2>1. (f - 1) * n + s[i] # (g - 1) * n + t[j]
    <3>1. f \in Int /\ g \in Int /\ s[i] \in 0 .. n - 1 /\ t[j] \in 0 .. n - 1
      BY <1>1, <1>12
    <3>2. PICK p \in 0 .. n - 1, q \in 0 .. n - 1 : p = s[i] /\ q = t[j]
      BY <3>1
    <3>3. (f - 1) * n + p # (g - 1) * n + q
      BY <1>14, <1>15, <3>1
    <3>4. QED
      BY <3>2, <3>3
  <2>2. QED
    BY <1>12, <2>1
<1>16. CASE g < f
  <2>1. (g - 1) * n + t[j] # (f - 1) * n + s[i]
    <3>1. f \in Int /\ g \in Int /\ s[i] \in 0 .. n - 1 /\ t[j] \in 0 .. n - 1
      BY <1>1, <1>12
    <3>2. PICK p \in 0 .. n - 1, q \in 0 .. n - 1 : p = s[i] /\ q = t[j]
      BY <3>1
    <3>3. (g - 1) * n + q # (f - 1) * n + p
      BY <1>14, <1>16, <3>1
    <3>4. QED
      BY <3>2, <3>3
  <2>2. QED
    BY <1>12, <2>1
<1>17. f = g \/ f < g \/ g < f
  BY <1>1
<1>18. QED
  BY <1>13, <1>15, <1>16, <1>17

\* A task that writes adds one part, which no task before it wrote, with its entries.
LEMMA WriteSteps ==
  ASSUME JobsAssumption, RInv, Writing, job.write, Succeed
  PROVE  Writing'
<1> DEFINE T == partitions
           part(k) == PartOf(T[k])
           n == index
<1>1. phase = "process" /\ job \in Jobs /\ n \in 1 .. Len(T) /\ Len(T) \in Nat
  BY TasksDivide DEF Succeed, RInv, Placing
<1>2. n \in Nat /\ n >= 1
  BY <1>1
<1>3. frames = << >> /\ piece = T[n]
  BY <1>1 DEF Writing
<1>4. /\ parts' = [i \in DOMAIN parts \union {part(n)} |->
                    IF i = part(n) THEN Reads(T[n], job.files) ELSE parts[i]]
      /\ Give(<<part(n)>>, << >>)
  BY <1>3, EntriesRead DEF Succeed, PartOf
<1>5. acc' = acc \o <<part(n)>> /\ EndTask
  BY <1>4 DEF Give
<1>6. job' = job /\ index' = n + 1 /\ phase' = "idle" /\ frames' = << >>
  BY <1>5 DEF EndTask
<1>7. T' = T
  BY <1>6, SameTasks
<1>8. /\ acc = [k \in 1 .. n - 1 |-> part(k)]
      /\ \A k \in 1 .. n - 1 : part(k) \in DOMAIN parts /\ parts[part(k)] = Reads(T[k], job.files)
  BY DEF Writing
<1>9. \A k \in 1 .. n - 1 : part(k) # part(n)
  <2>1. job.how \in {"blind", "eager", "chunks"} /\ job.how # "chunks" /\ job.n \in Nat \ {0} /\ job.files \in Seq(Nat)
    BY <1>1 DEF JobsAssumption
  <2>2. T = make_partitions(job.how, job.n, job.files)
    BY DEF partitions
  <2> HIDE DEF T
  <2>3. ASSUME NEW k \in 1 .. n - 1 PROVE part(k) # part(n)
    <3>1. k \in 1 .. Len(T) /\ k # n
      BY <1>1
    <3>2. job.how \in {"blind", "eager"}
      BY <2>1
    <3>3. derive_part_index(T[k], job.n, job.files) # derive_part_index(T[n], job.n, job.files)
      BY <1>1, <2>1, <2>2, <3>1, <3>2, PartsDiffer
    <3>4. QED
      BY <3>3 DEF PartOf
  <2>4. QED
    BY <2>3
<1>10. \A k : PartOf(T[k])' = part(k)
  BY <1>6, <1>7 DEF PartOf
<1> HIDE DEF T, n
<1>11. \A k \in 1 .. n : k \in 1 .. n - 1 \/ k = n
  BY <1>2
<1> HIDE DEF part
<1>12. acc' = [k \in 1 .. n |-> part(k)]
  <2> DEFINE U == {part(k) : k \in 1 .. n}
  <2>1. \A k \in 1 .. n : part(k) \in U
    OBVIOUS
  <2>2. acc = [k \in 1 .. n - 1 |-> part(k)] /\ \A k \in 1 .. n - 1 : k \in 1 .. n
    BY <1>2, <1>8
  <2>3. n \in 1 .. n /\ n - 1 \in Nat
    BY <1>2
  <2> HIDE DEF U
  <2>4. acc \in Seq(U) /\ Len(acc) = n - 1 /\ \A k \in 1 .. n - 1 : acc[k] = part(k)
    BY <2>1, <2>2, <2>3
  <2>5. <<part(n)>> \in Seq(U) /\ Len(<<part(n)>>) = 1 /\ <<part(n)>>[1] = part(n)
    BY <2>1, <2>3
  <2> DEFINE v == acc \o <<part(n)>>
             u == [k \in 1 .. n |-> part(k)]
  <2>6. /\ v \in Seq(U) /\ Len(v) = (n - 1) + 1
        /\ \A i \in 1 .. (n - 1) + 1 : v[i] = IF i <= n - 1 THEN acc[i] ELSE <<part(n)>>[i - (n - 1)]
    BY <2>4, <2>5, JoinedIs
  <2>7. u \in Seq(U) /\ Len(u) = n /\ \A k \in 1 .. n : u[k] = part(k)
    BY <1>2, <2>1
  <2>8. (n - 1) + 1 = n
    BY <1>2
  <2> HIDE DEF v, u
  <2>9. ASSUME NEW i \in 1 .. n PROVE v[i] = u[i]
    <3>1. CASE i \in 1 .. n - 1
      <4>1. i <= n - 1
        BY <1>2, <3>1
      <4>2. QED
        BY <2>4, <2>6, <2>7, <2>8, <3>1, <4>1
    <3>2. CASE i = n
      <4>1. ~(i <= n - 1) /\ i - (n - 1) = 1
        BY <1>2, <3>2
      <4>2. QED
        BY <2>5, <2>6, <2>7, <2>8, <3>2, <4>1
    <3>3. QED
      BY <1>11, <3>1, <3>2
  <2>10. v = u
    BY <2>6, <2>7, <2>8, <2>9, SeqEqual
  <2>11. QED
    BY <1>5, <2>10 DEF v, u
<1>13. ASSUME NEW k \in 1 .. n
       PROVE  part(k) \in DOMAIN parts' /\ parts'[part(k)] = Reads(T[k], job.files)
  <2>1. CASE k = n
    BY <1>4, <2>1
  <2>2. CASE k \in 1 .. n - 1
    <3>1. part(k) \in DOMAIN parts /\ parts[part(k)] = Reads(T[k], job.files) /\ part(k) # part(n)
      BY <1>8, <1>9, <2>2
    <3>2. QED
      BY <1>4, <3>1
  <2>3. QED
    BY <1>11, <2>1, <2>2
<1>14. (index - 1)' = n
  BY <1>2, <1>6
<1>15. \A k : PartOf(partitions[k])' = part(k)
  BY <1>10 DEF T
<1>16. Writing'
  <2>1. (acc = [k \in 1 .. index - 1 |-> PartOf(partitions[k])])'
    BY <1>12, <1>14, <1>15
  <2>2. (\A k \in 1 .. index - 1 :
           /\ PartOf(partitions[k]) \in DOMAIN parts
           /\ parts[PartOf(partitions[k])] = Reads(partitions[k], job.files))'
    BY <1>6, <1>7, <1>13, <1>14, <1>15 DEF T
  <2>3. QED
    BY <1>6, <2>1, <2>2 DEF Writing
<1>17. QED
  BY <1>16

LEMMA NextWriting ==
  ASSUME JobsAssumption, RInv, Writing, [RetriedNext]_(retriedVars)
  PROVE  Writing'
<1> SUFFICES ASSUME job'.write PROVE Writing'
  BY DEF Writing
<1>1. job' = job /\ job.write /\ job \in Jobs
  BY DEF RInv, Placing, RetriedNext, retriedVars, StartTask, Succeed, Settle,
         ReadFails, Again, Smaller, GiveUp, Finish,
         Open, Give, EndTask
<1>2. job.policy.kind = "quarantine"
  BY <1>1 DEF JobsAssumption
<1>3. partitions' = partitions
  BY <1>1, SameTasks
<1>4. ASSUME index' = index, frames' = frames, acc' = acc, parts' = parts, phase' # "settle",
             phase' = "process" => piece' = partitions[index]
      PROVE  Writing'
  BY <1>1, <1>3, <1>4 DEF Writing, PartOf
<1>5. ~(phase = "settle")
  BY <1>1 DEF Writing
<1>6. CASE StartTask
  BY <1>4, <1>6 DEF StartTask
<1>7. CASE Succeed
  BY <1>1, <1>7, WriteSteps
<1>8. CASE Settle
  BY <1>5, <1>8 DEF Settle
<1>9. CASE ReadFails
  <2>1. GiveUp
    BY <1>2, <1>9 DEF ReadFails, Again, Smaller
  <2>2. QED
    BY <1>1, <1>4, <2>1 DEF GiveUp
<1>10. CASE Finish
  BY <1>4, <1>10 DEF Finish
<1>11. CASE \E uri \in Uris : Open(uri)
  BY <1>1, <1>4, <1>5, <1>11 DEF Open, Writing
<1>12. CASE UNCHANGED retriedVars
  BY <1>1, <1>4, <1>5, <1>12 DEF retriedVars, Writing
<1>13. QED
  BY <1>6, <1>7, <1>8, <1>9, <1>10, <1>11, <1>12 DEF RetriedNext

\* No task has run when the plan starts.
LEMMA RetryingStarts ==
  ASSUME JobsAssumption, RetriedInit
  PROVE  RInv /\ Writing
<1>1. /\ job \in Jobs /\ index = 1 /\ phase = "idle" /\ frames = << >> /\ acc = << >> /\ dead = {}
  BY DEF RetriedInit
<1>2. Len(partitions) \in Nat
  BY <1>1, TasksDivide
<1>3. Placing
  BY <1>1, <1>2 DEF Placing
<1>4. 1 .. 1 - 1 = {}
  OBVIOUS
<1>5. Folding
  <2>1. Held = {}
    BY <1>1, <1>4 DEF Held
  <2>2. Folded(<< >>, partitions, job.files, {})
    BY DEF Folded, Covered, InOrder, ToSet
  <2>3. QED
    BY <1>1, <2>1, <2>2 DEF Folding
<1>6. Working
  BY <1>1 DEF Working
<1>7. Writing
  <2>1. [k \in 1 .. 1 - 1 |-> PartOf(partitions[k])] = << >>
    BY <1>4
  <2>2. QED
    BY <1>1, <1>4, <2>1 DEF Writing
<1>8. QED
  BY <1>3, <1>5, <1>6, <1>7 DEF RInv

LEMMA Invariant ==
  RetriedSpec => [](RInv /\ Writing)
<1> USE JobsAssumption
<1>1. RetriedInit => RInv /\ Writing
  BY RetryingStarts
<1>2. RInv /\ Writing /\ [RetriedNext]_(retriedVars) => (RInv /\ Writing)'
  BY NextRInv, NextWriting
<1>3. QED
  BY <1>1, <1>2, PTL DEF RetriedSpec

\* All the entries are the whole of the job's files.
LEMMA AllIsWhole ==
  ASSUME JobsAssumption, job \in Jobs
  PROVE  /\ AllEntries = Whole(job.files)
         /\ AllEntries \in Seq(Int \X Int)
         /\ InOrder(AllEntries)
         /\ ToSet(AllEntries) = Input(job.files)
<1> DEFINE fs == job.files
<1>1. fs \in Seq(Nat)
  BY TasksDivide
<1>2. ASSUME NEW f \in DOMAIN fs PROVE [i \in 1 .. fs[f] |-> <<f, i - 1>>] = Span(f, 0, fs[f])
  <2>1. PICK e \in Nat : e = fs[f]
    BY <1>1
  <2>2. (IF e > 0 THEN e - 0 ELSE 0) = e /\ \A i \in 1 .. e : 0 + i - 1 = i - 1
    BY <2>1
  <2>3. [i \in 1 .. e |-> <<f, i - 1>>] = Span(f, 0, e)
    BY <2>2 DEF Span
  <2>4. QED
    BY <2>1, <2>3
<1>3. AllEntries = Whole(fs)
  BY <1>2 DEF AllEntries, Whole, Flat
<1> HIDE DEF fs
<1>4. QED
  BY <1>1, <1>3, WholeIs DEF fs

\* A plan that folds returns, in the order of the input, every entry of every file
\* once, less those of the tasks in the dead-letter set, however its reads fail and
\* however deep the policy has its partitions split (core/execution.py's resolve,
\* checkpoint/retry.py's _split and _process_split).
THEOREM EntriesOnce ==
  RetriedSpec => []EveryEntryOnce
<1> USE JobsAssumption
<1>1. ASSUME RInv PROVE EveryEntryOnce
  <2> SUFFICES ASSUME phase = "done", ~job.write
               PROVE  /\ InOrder(acc)
                      /\ ToSet(acc) = ToSet(AllEntries) \
                           UNION {ToSet(entries(partitions[k])) : k \in dead}
    BY DEF EveryEntryOnce
  <2> DEFINE T == partitions
  <2>1. job \in Jobs /\ index = Len(T) + 1
    BY <1>1 DEF RInv, Placing
  <2>2. Divided(T, job.files) /\ Len(T) \in Nat
    BY <1>1, <2>1, TasksDivide
  <2>3. index - 1 = Len(T)
    BY <2>1, <2>2
  <2>4. dead \subseteq 1 .. Len(T) /\ Folded(acc, T, job.files, (1 .. Len(T)) \ dead)
    BY <1>1, <2>3 DEF RInv, Folding, Held
  <2> HIDE DEF T
  <2>5. ToSet(acc) = Input(job.files) \ Covered(T, job.files, dead)
    BY <2>2, <2>4, FoldedWhole
  <2>6. ToSet(AllEntries) = Input(job.files)
    BY <1>1, <2>1, AllIsWhole
  <2>7. Covered(T, job.files, dead)
          = UNION {ToSet(entries(partitions[k])) : k \in dead}
    BY EntriesRead DEF Covered, T
  <2>8. InOrder(acc)
    BY <2>4 DEF Folded
  <2>9. QED
    BY <2>5, <2>6, <2>7, <2>8
<1>2. RetriedSpec => [](RInv /\ Writing)
  BY Invariant
<1>3. RInv /\ Writing => EveryEntryOnce
  BY <1>1
<1>4. QED
  BY <1>2, <1>3, PTL

\* No task that writes writes over another's part, and the parts of a finished
\* write, read in the order of its tasks, are the input, every entry of every file
\* once (parquet.py's derive_part_index, write.py's step_of).
THEOREM PartsHoldInput ==
  RetriedSpec => []PartsAreTheInput
<1> USE JobsAssumption
<1>1. ASSUME RInv, Writing PROVE PartsAreTheInput
  <2> SUFFICES ASSUME job.write
               PROVE  /\ IsInjective(acc)
                      /\ phase = "done" =>
                           Flat([i \in DOMAIN acc |-> parts[acc[i]]]) = AllEntries
    BY DEF PartsAreTheInput, Flat
  <2> DEFINE T == partitions
             n == Len(T)
  <2>1. job \in Jobs /\ index \in 1 .. n + 1
    BY <1>1 DEF RInv, Placing
  <2>2. Divided(T, job.files) /\ n \in Nat
    BY <1>1, <2>1, TasksDivide
  <2>3. /\ acc = [k \in 1 .. index - 1 |-> PartOf(T[k])]
        /\ \A k \in 1 .. index - 1 : parts[PartOf(T[k])] = Reads(T[k], job.files)
    BY <1>1 DEF Writing
  <2>4. /\ job.how \in {"blind", "eager"} /\ job.n \in Nat \ {0} /\ job.files \in Seq(Nat)
        /\ T = make_partitions(job.how, job.n, job.files)
    BY <1>1, <2>1 DEF JobsAssumption, partitions
  <2> HIDE DEF T
  <2>5. \A k \in 1 .. index - 1 : k \in 1 .. n
    BY <2>1, <2>2
  <2>6. IsInjective(acc)
    <3>1. \A k, l \in 1 .. n : k # l => PartOf(T[k]) # PartOf(T[l])
      BY <2>4, PartsDiffer DEF PartOf
    <3>2. QED
      BY <2>3, <2>5, <3>1 DEF IsInjective
  <2>7. ASSUME phase = "done"
        PROVE  Flat([i \in DOMAIN acc |-> parts[acc[i]]]) = AllEntries
    <3>1. index = n + 1 /\ index - 1 = n
      BY <1>1, <2>2, <2>7 DEF RInv, Placing, T
    <3> DEFINE w == [k \in 1 .. n |-> Reads(T[k], job.files)]
    <3>2. [i \in DOMAIN acc |-> parts[acc[i]]] = w
      <4>1. DOMAIN acc = 1 .. n /\ \A k \in 1 .. n : acc[k] = PartOf(T[k])
        BY <2>3, <3>1
      <4>2. \A k \in 1 .. n : parts[acc[k]] = Reads(T[k], job.files)
        BY <2>3, <3>1, <4>1
      <4>3. QED
        BY <4>1, <4>2
    <3>3. ASSUME NEW k \in 1 .. n
          PROVE  Reads(T[k], job.files) \in Seq(Int \X Int) /\ InOrder(Reads(T[k], job.files))
      <4>1. PICK f \in Nat, a \in Int, b \in Int : Reads(T[k], job.files) = Span(f, a, b)
        BY <2>2 DEF Divided
      <4>2. QED
        BY <4>1, SpanIs, SpanInOrder
    <3>4. w \in Seq(Seq(Int \X Int)) /\ Len(w) = n /\ \A k \in 1 .. n : w[k] = Reads(T[k], job.files)
      BY <2>2, <3>3
    <3> HIDE DEF w
    <3>5. \A k, l \in 1 .. n : k < l =>
            \A x \in ToSet(w[k]), y \in ToSet(w[l]) : Before(x, y)
      BY <2>2, <3>4 DEF Divided
    <3>6. InOrder(Flat(w)) /\ Flat(w) \in Seq(Int \X Int)
      BY <3>3, <3>4, <3>5, FlatInOrder, FlatTyping
    <3>7. ToSet(Flat(w)) = Input(job.files)
      <4>1. ToSet(Flat(w)) = UNION {ToSet(w[k]) : k \in 1 .. n}
        BY <3>4, FlatSet
      <4>2. UNION {ToSet(w[k]) : k \in 1 .. n}
              = UNION {ToSet(Reads(T[k], job.files)) : k \in 1 .. n}
        BY <3>4
      <4>3. QED
        BY <2>2, <4>1, <4>2 DEF Divided
    <3>8. Flat(w) = AllEntries
      BY <1>1, <2>1, <3>6, <3>7, AllIsWhole, SameInOrder
    <3>9. QED
      BY <3>2, <3>8
  <2>8. QED
    BY <2>6, <2>7
<1>2. RetriedSpec => [](RInv /\ Writing)
  BY Invariant
<1>3. RInv /\ Writing => PartsAreTheInput
  BY <1>1
<1>4. QED
  BY <1>2, <1>3, PTL
=============================================================================
