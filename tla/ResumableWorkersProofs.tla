---------------------- MODULE ResumableWorkersProofs ----------------------
(***************************************************************************)
(* For every number of drivers, workers, tasks and journals, whatever is   *)
(* killed, damaged or lost: every answer is one of its task's own results; *)
(* and, when only a process's death can cut an append short, plans over a  *)
(* store keep the promise of DurableResults, and no result a plan saw is   *)
(* computed again while its bytes are whole.                               *)
(***************************************************************************)
EXTENDS ResumableWorkers, StoreFilesProofs, FiniteSetTheorems

(***************************************************************************)
(* Types.                                                                  *)
(***************************************************************************)

IdleWorkers == [pc : {"idle"}, writer : Writers \union {NoWriter}]

BusyWorkers ==
  [pc : {"get", "run", "stat", "replace", "journal"}, writer : Writers,
   driver : Drivers, task : Tasks, bad : SUBSET Digests, value : Digests \union {NoBlob}]

Mappings == [Tasks -> Digests \union {NoBlob}]

StoreOK ==
  /\ objects \in [Digests -> ObjectStates] /\ volatile \subseteq Digests
  /\ journals \in [Writers -> Logs(Records)]

DriversOK ==
  /\ plan \in [Drivers -> Mappings] /\ answers \in [Drivers -> Mappings]
  /\ running \subseteq Drivers

WorkersOK == worker \in [Workers -> IdleWorkers \union BusyWorkers]

TypeOK ==
  /\ StoreOK /\ DriversOK /\ WorkersOK
  /\ harmed \subseteq Digests /\ recorded \in [Tasks -> SUBSET Digests]
  /\ known \in [Drivers -> [Tasks -> SUBSET Digests]]

Busy(w) == worker[w].pc # "idle"

(***************************************************************************)
(* Authenticity.  A worker's answer is what the process returned, or the   *)
(* blob its plan was tagged with; the plan took that from a journal.       *)
(***************************************************************************)

Told(log) ==
  \A i \in Readable(log.lines) : log.lines[i].blob \in Outcomes[log.lines[i].task]

JournalsAuthentic == \A w \in Writers : Told(journals[w])

PlanAuthentic ==
  \A d \in Drivers, t \in Tasks : plan[d][t] # NoBlob => plan[d][t] \in Outcomes[t]

ValuesAuthentic ==
  \A w \in Workers : worker[w].pc \in {"stat", "replace", "journal"} =>
    worker[w].value \in Outcomes[worker[w].task]

Authentic ==
  TypeOK /\ JournalsAuthentic /\ PlanAuthentic /\ ValuesAuthentic /\ AnswersAreAuthentic

LEMMA BusyWorker ==
  ASSUME WorkersOK, NEW w \in Workers, Busy(w)
  PROVE  worker[w] \in BusyWorkers
BY DEF WorkersOK, Busy, IdleWorkers

\* What a worker records is a record.
LEMMA RecordType ==
  ASSUME WorkersAssumption, WorkersOK, ValuesAuthentic, NEW w \in Workers, Working(w, "journal")
  PROVE  /\ Record(w) \in Records /\ worker[w].writer \in Writers
         /\ Value(w) \in Outcomes[Task(w)] /\ Task(w) \in Tasks /\ Value(w) \in Digests
<1>1. worker[w] \in BusyWorkers
  BY BusyWorker DEF Working, Busy
<1>2. worker[w].task \in Tasks /\ worker[w].writer \in Writers
  BY <1>1 DEF BusyWorkers
<1>3. worker[w].value \in Outcomes[worker[w].task]
  BY DEF ValuesAuthentic, Working
<1>4. QED
  BY <1>2, <1>3 DEF Record, Records, Value, Task, WorkersAssumption

\* An append of an authentic record, cut short or not, leaves a log that is
\* authentic.
LEMMA AppendTold ==
  ASSUME NEW log \in Logs(Records), Told(log), NEW t \in Tasks, NEW r \in Digests,
         r \in Outcomes[t], NEW tears,
         NEW after \in CrashedAppends(log, [task |-> t, blob |-> r], tears)
                         \union {Appended(log, [task |-> t, blob |-> r])}
  PROVE  after \in Logs(Records) /\ Told(after)
<1>1. [task |-> t, blob |-> r] \in Records
  BY DEF Records
<1>2. /\ after \in Logs(Records)
      /\ \A i \in DOMAIN after.lines :
           \/ after.lines[i] = Torn
           \/ i \in DOMAIN log.lines /\ after.lines[i] = log.lines[i]
           \/ after.lines[i] = [task |-> t, blob |-> r]
  BY <1>1, CrashedAppendLines
<1>3. QED
  BY <1>2 DEF Told, Readable

\* What dying processes leave of each journal: it as it was, or an append its
\* own writer was at, cut somewhere.
LEMMA LeftByWriters ==
  ASSUME NEW dying \in SUBSET Workers, NEW left \in LeftBy(dying)
  PROVE  /\ left = [v \in Writers |-> left[v]]
         /\ \A v \in Writers :
              \/ left[v] = journals[v]
              \/ \E w \in dying : /\ Working(w, "journal") /\ worker[w].writer = v
                                  /\ left[v] \in CrashedAppends(Journal(w), Record(w), Tears)
<1> DEFINE cut == {w \in dying : Working(w, "journal")}
           Ends(w) == CrashedAppends(Journal(w), Record(w), Tears)
<1>1. PICK end \in {e \in [cut -> UNION {Ends(w) : w \in cut}] : \A w \in cut : e[w] \in Ends(w)} :
        left = [v \in Writers |->
                  IF \E w \in cut : worker[w].writer = v
                  THEN end[CHOOSE w \in cut : worker[w].writer = v]
                  ELSE journals[v]]
  BY DEF LeftBy
<1>2. ASSUME NEW v \in Writers, left[v] # journals[v]
      PROVE  \E w \in dying : /\ Working(w, "journal") /\ worker[w].writer = v
                              /\ left[v] \in CrashedAppends(Journal(w), Record(w), Tears)
  <2>1. \E w \in cut : worker[w].writer = v
    BY <1>1, <1>2
  <2> DEFINE one == CHOOSE w \in cut : worker[w].writer = v
  <2>2. one \in cut /\ worker[one].writer = v
    BY <2>1
  <2>3. left[v] = end[one]
    BY <1>1, <2>1
  <2>4. end[one] \in Ends(one)
    BY <1>1, <2>2
  <2>5. QED
    BY <2>2, <2>3, <2>4
<1>3. QED
  BY <1>1, <1>2

\* The journals after any step: of each, what was there, or what an append of
\* a worker at "journal" leaves of it.
LEMMA JournalsStep ==
  ASSUME WorkersAssumption, StoreOK, WorkersOK, [Next]_vars
  PROVE  /\ journals' = [v \in Writers |-> journals'[v]]
         /\ \A v \in Writers :
              \/ journals'[v] = journals[v]
              \/ \E w \in Workers, tears \in BOOLEAN :
                   /\ Working(w, "journal") /\ worker[w].writer = v
                   /\ journals'[v] \in CrashedAppends(journals[v], Record(w), tears)
                                         \union {Appended(journals[v], Record(w))}
<1>0. journals = [v \in Writers |-> journals[v]]
  BY DEF StoreOK
<1>1. ASSUME NEW w \in Workers, RecordDone(w)
      PROVE  /\ journals' = [v \in Writers |-> journals'[v]]
             /\ \A v \in Writers :
                  \/ journals'[v] = journals[v]
                  \/ /\ Working(w, "journal") /\ worker[w].writer = v
                     /\ journals'[v] = Appended(journals[v], Record(w))
  <2>1. journals' = [journals EXCEPT ![worker[w].writer] =
                       Appended(journals[worker[w].writer], Record(w))]
    BY <1>1 DEF RecordDone, Record
  <2>2. QED
    BY <1>0, <1>1, <2>1 DEF RecordDone
<1>2. ASSUME NEW w \in Workers, Raise(w)
      PROVE  /\ journals' = [v \in Writers |-> journals'[v]]
             /\ \A v \in Writers :
                  \/ journals'[v] = journals[v]
                  \/ /\ Working(w, "journal") /\ worker[w].writer = v
                     /\ journals'[v] \in CrashedAppends(journals[v], Record(w), TRUE)
  BY <1>0, <1>2 DEF Raise, Journal
<1>3. ASSUME NEW dying \in SUBSET Workers, journals' \in LeftBy(dying)
      PROVE  /\ journals' = [v \in Writers |-> journals'[v]]
             /\ \A v \in Writers :
                  \/ journals'[v] = journals[v]
                  \/ \E w \in Workers :
                       /\ Working(w, "journal") /\ worker[w].writer = v
                       /\ journals'[v] \in CrashedAppends(journals[v], Record(w), Tears)
  BY <1>3, LeftByWriters DEF Journal
<1>4. CASE UNCHANGED journals
  BY <1>0, <1>4
<1>5. TRUE \in BOOLEAN /\ Tears \in BOOLEAN
  BY DEF WorkersAssumption
<1>6. CASE \E w \in Workers : RecordDone(w)
  BY <1>1, <1>5, <1>6
<1>7. CASE \E w \in Workers : Raise(w)
  BY <1>2, <1>5, <1>7
<1>8. CASE PowerFailure \/ \E w \in Workers : Kill(w)
  BY <1>3, <1>5, <1>8 DEF PowerFailure, Kill
<1>9. QED
  BY <1>4, <1>6, <1>7, <1>8
     DEF Next, WorkerStep, Hand, vars, files, Resumable, Return, Claim, Serve, Miss, Run,
         Stat, Replace, Damage

LEMMA NextJournals ==
  WorkersAssumption /\ Authentic /\ [Next]_vars
    => journals' \in [Writers -> Logs(Records)] /\ JournalsAuthentic'
<1> SUFFICES ASSUME WorkersAssumption, Authentic, [Next]_vars
             PROVE  journals' \in [Writers -> Logs(Records)] /\ JournalsAuthentic'
  OBVIOUS
<1>1. ASSUME NEW v \in Writers
      PROVE  journals'[v] \in Logs(Records) /\ Told(journals'[v])
  <2>1. journals[v] \in Logs(Records) /\ Told(journals[v])
    BY DEF Authentic, TypeOK, StoreOK, JournalsAuthentic
  <2>2. ASSUME NEW w \in Workers, NEW tears, Working(w, "journal"),
               journals'[v] \in CrashedAppends(journals[v], Record(w), tears)
                                  \union {Appended(journals[v], Record(w))}
        PROVE  journals'[v] \in Logs(Records) /\ Told(journals'[v])
    <3>1. /\ Value(w) \in Outcomes[Task(w)] /\ Task(w) \in Tasks /\ Value(w) \in Digests
          /\ Record(w) = [task |-> Task(w), blob |-> Value(w)]
      BY <2>2, RecordType DEF Record, Authentic, TypeOK
    <3>2. QED
      BY <2>1, <2>2, <3>1, AppendTold
  <2>3. QED
    BY <2>1, <2>2, JournalsStep DEF Authentic, TypeOK
<1>2. QED
  BY <1>1, JournalsStep DEF Authentic, TypeOK, JournalsAuthentic

\* What a plan's lookup finds is in one of the journals, with a present object.
LEMMA ReplayedIsRecorded ==
  ASSUME WorkersAssumption, StoreOK, NEW t \in Tasks, Replayed[t] # NoBlob
  PROVE  \E w \in Writers : \E i \in Readable(journals[w].lines) :
           journals[w].lines[i] = [task |-> t, blob |-> Replayed[t]]
<1>1. PICK last \in Writers : /\ Completed(objects, journals[last].lines)[t] # NoBlob
                              /\ Replayed[t] = Completed(objects, journals[last].lines)[t]
  <2> DEFINE of(w) == Completed(objects, journals[w].lines)[t]
             hits == {w \in Writers : of(w) # NoBlob}
             last == CHOOSE w \in hits : \A v \in hits : v <= w
  <2>1. hits # {} /\ Replayed[t] = of(last)
    BY DEF Replayed
  <2>2. Cardinality(Writers) \in Nat /\ hits \in SUBSET (1..Cardinality(Writers))
    BY FS_CardinalityType DEF WorkersAssumption
  <2>3. last \in hits
    BY <2>1, <2>2, LastExists
  <2>4. QED
    BY <2>1, <2>3
<1>2. journals[last] \in Logs(Records)
  BY DEF StoreOK
<1>3. journals[last] \in Logs([task : Tasks, blob : Digests])
  BY <1>2 DEF Records
<1>4. PICK i \in DOMAIN journals[last].lines :
        /\ journals[last].lines[i] # Torn /\ journals[last].lines[i].task = t
        /\ Replayed[t] = journals[last].lines[i].blob
  <2>1. \E i \in DOMAIN journals[last].lines :
          /\ journals[last].lines[i] # Torn /\ journals[last].lines[i].task = t
          /\ Completed(objects, journals[last].lines)[t] = journals[last].lines[i].blob
          /\ Present(objects, journals[last].lines[i].blob)
    <3>1. Completed(objects, journals[last].lines)[t] # NoBlob
      BY <1>1
    <3> DEFINE log == journals[last]
    <3> HIDE DEF log
    <3>2. log \in Logs([task : Tasks, blob : Digests]) /\ Completed(objects, log.lines)[t] # NoBlob
      BY ONLY <1>3, <3>1 DEF log
    <3>3. \E i \in DOMAIN log.lines :
            /\ log.lines[i] # Torn /\ log.lines[i].task = t
            /\ Completed(objects, log.lines)[t] = log.lines[i].blob
            /\ Present(objects, log.lines[i].blob)
      BY ONLY <3>2, t \in Tasks, CompletedIsRecorded
    <3>4. QED
      BY ONLY <3>3 DEF log
  <2>2. QED
    BY <1>1, <2>1
<1>5. journals[last].lines[i] \in Records
  BY <1>2, <1>4 DEF Logs
<1>6. journals[last].lines[i] = [task |-> t, blob |-> Replayed[t]]
  BY <1>4, <1>5 DEF Records
<1>7. QED
  BY <1>1, <1>4, <1>6 DEF Readable

\* So a plan is tagged with results of its own tasks.
LEMMA ReplayedType ==
  ASSUME WorkersAssumption, StoreOK, JournalsAuthentic
  PROVE  /\ Replayed \in Mappings
         /\ \A t \in Tasks : Replayed[t] # NoBlob => Replayed[t] \in Outcomes[t]
<1>1. ASSUME NEW t \in Tasks, Replayed[t] # NoBlob
      PROVE  Replayed[t] \in Digests /\ Replayed[t] \in Outcomes[t]
  <2>1. PICK w \in Writers : \E i \in Readable(journals[w].lines) :
          journals[w].lines[i] = [task |-> t, blob |-> Replayed[t]]
    BY <1>1, ReplayedIsRecorded
  <2>2. Replayed[t] \in Outcomes[t]
    BY <2>1 DEF JournalsAuthentic, Told
  <2>3. QED
    BY <2>2 DEF WorkersAssumption
<1>2. Replayed = [t \in Tasks |-> Replayed[t]]
  BY DEF Replayed
<1>3. QED
  BY <1>1, <1>2 DEF Mappings

(***************************************************************************)
(* What each step does to the workers, in the terms the proofs need.       *)
(***************************************************************************)

\* One worker moves, the others do not.
Only(w, r) ==
  /\ worker' = [worker EXCEPT ![w] = r]
  /\ worker' \in [Workers -> IdleWorkers \union BusyWorkers]
  /\ worker'[w] = r /\ \A v \in Workers \ {w} : worker'[v] = worker[v]

LEMMA OnlyOne ==
  ASSUME WorkersOK, NEW w \in Workers, NEW r \in IdleWorkers \union BusyWorkers,
         worker' = [worker EXCEPT ![w] = r]
  PROVE  Only(w, r)
BY DEF WorkersOK, Only

LEMMA IdleType ==
  ASSUME WorkersOK, NEW w \in Workers
  PROVE  /\ worker[w].writer \in Writers \union {NoWriter}
         /\ Idle(worker[w].writer) \in IdleWorkers /\ Idle(NoWriter) \in IdleWorkers
<1>1. CASE worker[w] \in IdleWorkers
  BY <1>1 DEF Idle, IdleWorkers
<1>2. CASE worker[w] \in BusyWorkers
  BY <1>2 DEF Idle, IdleWorkers, BusyWorkers
<1>3. QED
  BY <1>1, <1>2 DEF WorkersOK

LEMMA ClaimStep ==
  ASSUME WorkersOK, NEW w \in Workers, NEW d \in Drivers, NEW t \in Tasks,
         NEW writer \in Writers, Claim(w, d, t, writer)
  PROVE  Only(w, [pc |-> "get", writer |-> writer, driver |-> d, task |-> t,
                  bad |-> {}, value |-> NoBlob])
BY OnlyOne DEF Claim, BusyWorkers

\* A step of a task at hand changes where it is, what it refused, its value.
LEMMA BusyStep ==
  ASSUME WorkersAssumption, StoreOK, WorkersOK, DriversOK, NEW w \in Workers,
         Miss(w) \/ Run(w) \/ Stat(w) \/ Replace(w)
  PROVE  /\ worker[w] \in BusyWorkers /\ worker'[w] \in BusyWorkers
         /\ Only(w, worker'[w])
         /\ worker'[w].writer = worker[w].writer /\ worker'[w].driver = worker[w].driver
         /\ worker'[w].task = worker[w].task
<1>1. worker[w] \in BusyWorkers
  BY BusyWorker DEF Miss, Run, Stat, Replace, Working, Busy
<1>2. Held(w) \in Digests \union {NoBlob}
  BY <1>1 DEF Held, Task, DriversOK, Mappings, BusyWorkers
<1>3. ASSUME NEW p \in {"get", "run", "stat", "replace", "journal"},
             NEW b \in SUBSET Digests, NEW x \in Digests \union {NoBlob},
             worker' = [worker EXCEPT ![w] = [worker[w] EXCEPT !.pc = p, !.bad = b, !.value = x]]
      PROVE  /\ worker'[w] \in BusyWorkers /\ Only(w, worker'[w])
             /\ worker'[w].writer = worker[w].writer /\ worker'[w].driver = worker[w].driver
             /\ worker'[w].task = worker[w].task
  <2> DEFINE r == [worker[w] EXCEPT !.pc = p, !.bad = b, !.value = x]
  <2>1. /\ r \in BusyWorkers /\ r.writer = worker[w].writer
        /\ r.driver = worker[w].driver /\ r.task = worker[w].task
    BY <1>1 DEF BusyWorkers
  <2>2. Only(w, r) /\ worker'[w] = r
    BY <1>3, <2>1, OnlyOne DEF Only
  <2>3. QED
    BY <2>1, <2>2
<1> DEFINE same == worker[w]
<1>4. /\ same.bad \in SUBSET Digests /\ same.value \in Digests \union {NoBlob}
      /\ same = [same EXCEPT !.bad = same.bad] /\ same = [same EXCEPT !.value = same.value]
  BY <1>1 DEF BusyWorkers
<1>5. CASE Miss(w)
  <2> DEFINE b == IF Held(w) = NoBlob THEN same.bad ELSE RefusedBy(objects, same.bad, Held(w))
  <2>1. b \in SUBSET Digests
    BY <1>2, <1>4 DEF RefusedBy
  <2>2. worker' = [worker EXCEPT ![w] = [same EXCEPT !.pc = "run", !.bad = b,
                                                     !.value = same.value]]
    BY <1>1, <1>5 DEF Miss, BusyWorkers, WorkersOK
  <2>3. QED
    BY <1>1, <1>3, <1>4, <2>1, <2>2
<1>6. CASE Run(w)
  <2>1. PICK x \in Outcomes[Task(w)] :
          worker' = [worker EXCEPT ![w].pc = "stat", ![w].value = x]
    BY <1>6 DEF Run
  <2>2. x \in Digests
    BY <1>1, <2>1 DEF WorkersAssumption, Task, BusyWorkers
  <2>3. worker' = [worker EXCEPT ![w] = [same EXCEPT !.pc = "stat", !.bad = same.bad,
                                                     !.value = x]]
    BY <1>1, <2>1 DEF BusyWorkers, WorkersOK
  <2>4. QED
    BY <1>1, <1>3, <1>4, <2>2, <2>3
<1>7. CASE Stat(w)
  <2>1. PICK p \in {"replace", "journal"} : worker' = [worker EXCEPT ![w].pc = p]
    BY <1>7 DEF Stat, Goes
  <2>2. worker' = [worker EXCEPT ![w] = [same EXCEPT !.pc = p, !.bad = same.bad,
                                                     !.value = same.value]]
    BY <1>1, <2>1 DEF BusyWorkers, WorkersOK
  <2>3. QED
    BY <1>1, <1>3, <1>4, <2>1, <2>2
<1>8. CASE Replace(w)
  <2>1. worker' = [worker EXCEPT ![w] = [same EXCEPT !.pc = "journal",
                                           !.bad = same.bad \ {Value(w)}, !.value = same.value]]
    BY <1>1, <1>8 DEF Replace, BusyWorkers, WorkersOK
  <2>2. same.bad \ {Value(w)} \in SUBSET Digests
    BY <1>4
  <2>3. QED
    BY <1>1, <1>3, <1>4, <2>1, <2>2
<1>9. QED
  BY <1>5, <1>6, <1>7, <1>8

\* An answer frees the worker that gives it.
LEMMA DeliverStep ==
  ASSUME WorkersOK, NEW w \in Workers, NEW x, Deliver(w, x)
  PROVE  Only(w, Idle(worker[w].writer))
BY OnlyOne, IdleType DEF Deliver

LEMMA EndStep ==
  ASSUME WorkersOK, NEW w \in Workers, Raise(w) \/ Kill(w)
  PROVE  \E writer \in {worker[w].writer, NoWriter} :
           Only(w, Idle(writer)) /\ (Kill(w) => writer = NoWriter)
<1>1. CASE Kill(w)
  BY <1>1, OnlyOne, IdleType DEF Kill
<1>2. CASE Raise(w) /\ ~Kill(w)
  BY <1>2, OnlyOne, IdleType DEF Raise
<1>3. QED
  BY <1>1, <1>2

(***************************************************************************)
(* Each part of the invariant, preserved by each action.                   *)
(***************************************************************************)

LEMMA NextStore == WorkersAssumption /\ Authentic /\ [Next]_vars => StoreOK'
<1> SUFFICES ASSUME WorkersAssumption, Authentic, [Next]_vars PROVE StoreOK'
  OBVIOUS
<1>1. journals' \in [Writers -> Logs(Records)]
  BY NextJournals
<1>2. objects' \in [Digests -> ObjectStates] /\ volatile' \subseteq Digests
  <2> USE DEF Authentic, TypeOK, StoreOK
  <2>1. ASSUME NEW w \in Workers, Replace(w)
        PROVE  objects' \in [Digests -> ObjectStates] /\ volatile' \subseteq Digests
    <3>1. Value(w) \in Digests
      <4>1. worker[w] \in BusyWorkers
        BY <2>1, BusyWorker DEF Replace, Working, Busy
      <4>2. worker[w].value \in Outcomes[worker[w].task] /\ worker[w].task \in Tasks
        BY <2>1, <4>1 DEF ValuesAuthentic, Replace, Working, BusyWorkers
      <4>3. QED
        BY <4>2 DEF Value, WorkersAssumption
    <3>2. QED
      BY <2>1, <3>1 DEF Replace, Replaced, ObjectStates
  <2>2. CASE PowerFailure
    BY <2>2 DEF PowerFailure, ObjectStates
  <2>3. CASE \E digest \in Digests : Damage(digest)
    BY <2>3 DEF Damage, ObjectStates
  <2>4. CASE UNCHANGED <<objects, volatile>>
    BY <2>4
  <2>5. QED
    BY <2>1, <2>2, <2>3, <2>4
       DEF Next, WorkerStep, Hand, vars, files, Resumable, Return, Claim, Serve, Miss, Run,
           Stat, RecordDone, Raise, Kill
<1>3. QED
  BY <1>1, <1>2 DEF StoreOK

LEMMA NextWorkers ==
  WorkersAssumption /\ Authentic /\ [Next]_vars => WorkersOK' /\ ValuesAuthentic'
<1> SUFFICES ASSUME WorkersAssumption, Authentic, [Next]_vars
             PROVE  WorkersOK' /\ ValuesAuthentic'
  OBVIOUS
<1> USE DEF Authentic, TypeOK
<1>1. ASSUME NEW w \in Workers, NEW r, Only(w, r),
             r.pc \in {"stat", "replace", "journal"} => r.value \in Outcomes[r.task]
      PROVE  WorkersOK' /\ ValuesAuthentic'
  BY <1>1 DEF Only, WorkersOK, ValuesAuthentic
<1>2. ASSUME NEW w \in Workers, Hand(w) PROVE WorkersOK' /\ ValuesAuthentic'
  BY <1>1, <1>2, ClaimStep DEF Hand
<1>3. ASSUME NEW w \in Workers, Serve(w) \/ RecordDone(w)
      PROVE  WorkersOK' /\ ValuesAuthentic'
  BY <1>1, <1>3, DeliverStep DEF Serve, RecordDone, Idle
<1>4. ASSUME NEW w \in Workers, Raise(w) \/ Kill(w)
      PROVE  WorkersOK' /\ ValuesAuthentic'
  BY <1>1, <1>4, EndStep DEF Idle
<1>5. ASSUME NEW w \in Workers, Miss(w) \/ Run(w) \/ Stat(w) \/ Replace(w)
      PROVE  WorkersOK' /\ ValuesAuthentic'
  <2>1. Only(w, worker'[w]) /\ worker'[w].task = worker[w].task /\ worker[w] \in BusyWorkers
    BY <1>5, BusyStep
  <2>2. CASE Miss(w)
    <3>1. worker'[w].pc = "run"
      BY <2>1, <2>2 DEF Miss, WorkersOK, BusyWorkers
    <3>2. QED
      BY <1>1, <2>1, <3>1
  <2>3. CASE Run(w)
    <3>1. worker'[w].value \in Outcomes[Task(w)]
      BY <2>1, <2>3 DEF Run, WorkersOK, BusyWorkers
    <3>2. QED
      BY <1>1, <2>1, <3>1 DEF Task
  <2>4. CASE Stat(w) \/ Replace(w)
    <3>1. worker'[w].value = worker[w].value
      BY <2>1, <2>4 DEF Stat, Goes, Replace, WorkersOK, BusyWorkers
    <3>2. worker[w].value \in Outcomes[worker[w].task]
      BY <2>4 DEF Stat, Replace, Working, ValuesAuthentic
    <3>3. QED
      BY <1>1, <2>1, <3>1, <3>2
  <2>5. QED
    BY <1>5, <2>2, <2>3, <2>4
<1>6. CASE PowerFailure
  <2>1. worker' = [w \in Workers |-> Idle(NoWriter)]
    BY <1>6 DEF PowerFailure
  <2>2. QED
    BY <2>1, IdleType DEF WorkersOK, ValuesAuthentic, Idle, IdleWorkers
<1>7. CASE UNCHANGED worker
  BY <1>7 DEF WorkersOK, ValuesAuthentic
<1>8. QED
  BY <1>2, <1>3, <1>4, <1>5, <1>6, <1>7
     DEF Next, WorkerStep, vars, Resumable, Return, Damage

\* A worker answers for the task it was handed.
LEMMA DeliverAnswer ==
  ASSUME DriversOK, WorkersOK, NEW w \in Workers, Busy(w), NEW x \in Digests, Deliver(w, x)
  PROVE  /\ worker[w].driver \in Drivers /\ Task(w) \in Tasks
         /\ answers' \in [Drivers -> Mappings]
         /\ answers'[worker[w].driver][Task(w)] = x
         /\ \A d \in Drivers, t \in Tasks :
              d # worker[w].driver \/ t # Task(w) => answers'[d][t] = answers[d][t]
<1>1. worker[w].driver \in Drivers /\ Task(w) \in Tasks
  BY BusyWorker DEF BusyWorkers, Task
<1>2. answers' = [answers EXCEPT ![worker[w].driver][Task(w)] = x]
  BY DEF Deliver
<1>3. answers \in [Drivers -> Mappings]
  BY DEF DriversOK
<1>4. QED
  BY <1>1, <1>2, <1>3 DEF Mappings

\* What Serve delivers is the blob the plan was tagged with.
LEMMA ServedIsHeld ==
  ASSUME StoreOK, DriversOK, WorkersOK, NEW w \in Workers, Serve(w)
  PROVE  /\ Busy(w) /\ Held(w) \in Digests /\ Held(w) = plan[worker[w].driver][Task(w)]
         /\ Deliver(w, Held(w)) /\ objects[Held(w)] = "good"
<1>1. Busy(w) /\ worker[w].driver \in Drivers /\ Task(w) \in Tasks
  BY BusyWorker DEF Serve, Working, Busy, BusyWorkers, Task
<1>2. Held(w) \in Digests
  BY <1>1 DEF Held, DriversOK, Mappings, Serve, Servable
<1>3. Get(objects, Held(w)) = Held(w)
  BY DEF Serve, Servable, Get
<1>4. objects[Held(w)] = "good"
  BY <1>2, <1>3, FilesAssumption
     DEF Serve, Servable, Get, Content, FilesAssumption, StoreOK, ObjectStates
<1>5. QED
  BY <1>1, <1>2, <1>3, <1>4 DEF Serve, Held

LEMMA NextDrivers ==
  WorkersAssumption /\ Authentic /\ [Next]_vars
    => DriversOK' /\ PlanAuthentic' /\ AnswersAreAuthentic'
<1> SUFFICES ASSUME WorkersAssumption, Authentic, [Next]_vars
             PROVE  DriversOK' /\ PlanAuthentic' /\ AnswersAreAuthentic'
  OBVIOUS
<1> USE DEF Authentic, TypeOK
<1>1. ASSUME NEW w \in Workers, NEW x \in Digests, Busy(w), Deliver(w, x),
             x \in Outcomes[Task(w)], UNCHANGED <<plan, running>>
      PROVE  DriversOK' /\ PlanAuthentic' /\ AnswersAreAuthentic'
  BY <1>1, DeliverAnswer DEF DriversOK, PlanAuthentic, AnswersAreAuthentic
<1>2. ASSUME NEW w \in Workers, Serve(w)
      PROVE  DriversOK' /\ PlanAuthentic' /\ AnswersAreAuthentic'
  <2>1. /\ Busy(w) /\ Held(w) \in Digests /\ Held(w) = plan[worker[w].driver][Task(w)]
        /\ Deliver(w, Held(w))
    BY <1>2, ServedIsHeld
  <2>2. worker[w].driver \in Drivers /\ Task(w) \in Tasks
    BY <2>1, DeliverAnswer
  <2>3. Held(w) \in Outcomes[Task(w)]
    BY <2>1, <2>2, FilesAssumption DEF PlanAuthentic, FilesAssumption
  <2>4. QED
    BY <1>1, <1>2, <2>1, <2>3 DEF Serve
<1>3. ASSUME NEW w \in Workers, RecordDone(w)
      PROVE  DriversOK' /\ PlanAuthentic' /\ AnswersAreAuthentic'
  <2>1. Busy(w) /\ Working(w, "journal") /\ Deliver(w, Value(w)) /\ UNCHANGED <<plan, running>>
    BY <1>3 DEF RecordDone, Working, Busy
  <2>2. Value(w) \in Outcomes[Task(w)] /\ Value(w) \in Digests
    BY <2>1, RecordType
  <2>3. QED
    BY <1>1, <2>1, <2>2
<1>4. ASSUME NEW d \in Drivers, Resumable(d)
      PROVE  DriversOK' /\ PlanAuthentic' /\ AnswersAreAuthentic'
  <2>1. /\ Replayed \in Mappings /\ NothingHeld \in Mappings
        /\ \A t \in Tasks : Replayed[t] # NoBlob => Replayed[t] \in Outcomes[t]
        /\ \A t \in Tasks : NothingHeld[t] = NoBlob
    BY ReplayedType DEF Mappings, NothingHeld
  <2>2. /\ plan' = [plan EXCEPT ![d] = Replayed] /\ running' = running \union {d}
        /\ answers' = [answers EXCEPT ![d] = NothingHeld]
    BY <1>4 DEF Resumable
  <2>3. DriversOK'
    BY <2>1, <2>2 DEF DriversOK
  <2>4. PlanAuthentic' /\ AnswersAreAuthentic'
    BY <2>1, <2>2 DEF PlanAuthentic, AnswersAreAuthentic, DriversOK
  <2>5. QED
    BY <2>3, <2>4
<1>5. CASE PowerFailure
  <2>1. NothingHeld \in Mappings /\ \A t \in Tasks : NothingHeld[t] = NoBlob
    BY DEF Mappings, NothingHeld
  <2>2. QED
    BY <1>5, <2>1 DEF PowerFailure, DriversOK, PlanAuthentic, AnswersAreAuthentic
<1>6. CASE UNCHANGED <<plan, answers>> /\ running' \subseteq running
  BY <1>6 DEF DriversOK, PlanAuthentic, AnswersAreAuthentic
<1>7. QED
  BY <1>2, <1>3, <1>4, <1>5, <1>6
     DEF Next, WorkerStep, Hand, vars, Return, Claim, Miss, Run, Stat, Replace, Raise, Kill,
         Damage

LEMMA NextHistory ==
  WorkersAssumption /\ Authentic /\ [Next]_vars
    => /\ harmed' \subseteq Digests /\ recorded' \in [Tasks -> SUBSET Digests]
       /\ known' \in [Drivers -> [Tasks -> SUBSET Digests]]
<1> SUFFICES ASSUME WorkersAssumption, Authentic, [Next]_vars
             PROVE  /\ harmed' \subseteq Digests /\ recorded' \in [Tasks -> SUBSET Digests]
                    /\ known' \in [Drivers -> [Tasks -> SUBSET Digests]]
  OBVIOUS
<1> USE DEF Authentic, TypeOK
<1>1. ASSUME NEW w \in Workers, RecordDone(w)
      PROVE  recorded' \in [Tasks -> SUBSET Digests] /\ UNCHANGED <<harmed, known>>
  <2>1. Task(w) \in Tasks /\ Value(w) \in Digests
    BY <1>1, RecordType DEF RecordDone
  <2>2. QED
    BY <1>1, <2>1 DEF RecordDone
<1>2. ASSUME NEW d \in Drivers, Resumable(d)
      PROVE  known' \in [Drivers -> [Tasks -> SUBSET Digests]] /\ UNCHANGED <<harmed, recorded>>
  <2> DEFINE k == [t \in Tasks |-> {r \in recorded[t] : Present(objects, r)}]
  <2>1. k \in [Tasks -> SUBSET Digests]
    OBVIOUS
  <2>2. known' = [known EXCEPT ![d] = k] /\ UNCHANGED <<harmed, recorded>>
    BY <1>2 DEF Resumable
  <2>3. QED
    BY <2>1, <2>2
<1>3. CASE PowerFailure
  BY <1>3 DEF PowerFailure, StoreOK
<1>4. CASE \E digest \in Digests : Damage(digest)
  BY <1>4 DEF Damage
<1>5. CASE UNCHANGED <<harmed, recorded, known>>
  BY <1>5
<1>6. QED
  BY <1>1, <1>2, <1>3, <1>4, <1>5
     DEF Next, WorkerStep, Hand, vars, Return, Claim, Serve, Miss, Run, Stat, Replace, Raise,
         Kill

LEMMA InitAuthentic == WorkersAssumption /\ Init => Authentic
<1> SUFFICES ASSUME WorkersAssumption, Init PROVE Authentic
  OBVIOUS
<1>1. EmptyLog \in Logs(Records) /\ Readable(EmptyLog.lines) = {}
  BY DEF EmptyLog, Logs, Readable
<1>2. StoreOK /\ JournalsAuthentic
  BY <1>1 DEF Init, StoreOK, ObjectStates, JournalsAuthentic, Told
<1>3. DriversOK /\ PlanAuthentic /\ AnswersAreAuthentic
  BY DEF Init, DriversOK, PlanAuthentic, AnswersAreAuthentic, NothingHeld, Mappings
<1>4. WorkersOK /\ ValuesAuthentic
  BY DEF Init, WorkersOK, ValuesAuthentic, Idle, IdleWorkers
<1>5. /\ harmed \subseteq Digests /\ recorded \in [Tasks -> SUBSET Digests]
      /\ known \in [Drivers -> [Tasks -> SUBSET Digests]]
  BY DEF Init, Nothing
<1>6. QED
  BY <1>2, <1>3, <1>4, <1>5 DEF Authentic, TypeOK

LEMMA NextAuthentic == WorkersAssumption /\ Authentic /\ [Next]_vars => Authentic'
BY NextStore, NextJournals, NextWorkers, NextDrivers, NextHistory DEF Authentic, TypeOK

LEMMA Authenticity == Spec => []Authentic
<1>1. WorkersAssumption
  BY WorkersAssumption
<1>2. QED
  BY <1>1, InitAuthentic, NextAuthentic, PTL DEF Spec

\* Two drivers and any number of workers share a store that crashes, a full
\* disk and damage may do anything to: a runner never gets back bytes its
\* task's process did not return.
THEOREM AnswersAuthentic == Spec => []AnswersAreAuthentic
BY Authenticity, PTL DEF Authentic

(***************************************************************************)
(* What the promise of DurableResults rests on.  A journal belongs to one  *)
(* process, and a process that lives has only ever ended its lines: so no  *)
(* append ever takes a record with it, and what a line says stays said.    *)
(***************************************************************************)

Processes ==
  /\ \A v, w \in Workers :
       v # w /\ worker[v].writer = worker[w].writer => worker[v].writer = NoWriter
  /\ ~ShortWrites =>
       \A w \in Workers : worker[w].writer # NoWriter => journals[worker[w].writer].ended

\* A task is with one worker of a driver, and not answered yet.
Assignments ==
  /\ \A v, w \in Workers :
       /\ Busy(v) /\ Busy(w)
       /\ worker[v].driver = worker[w].driver /\ worker[v].task = worker[w].task
       => v = w
  /\ \A w \in Workers : Busy(w) =>
       /\ answers[worker[w].driver][worker[w].task] = NoBlob
       /\ worker[w].driver \in running

\* Only harm makes a stored blob other than whole, and a worker journals one
\* it found or left whole.
Wholeness ==
  /\ \A x \in Digests : objects[x] \in {"corrupt", "truncated"} => x \in harmed
  /\ \A w \in Workers : worker[w].pc = "journal" =>
       objects[worker[w].value] = "good" \/ worker[w].value \in harmed

LEMMA NextProcesses ==
  WorkersAssumption /\ Authentic /\ Processes /\ [Next]_vars => Processes'
<1> SUFFICES ASSUME WorkersAssumption, Authentic, Processes, [Next]_vars PROVE Processes'
  OBVIOUS
<1> USE DEF Processes
<1>0. StoreOK /\ WorkersOK /\ DriversOK
  BY DEF Authentic, TypeOK
<1>a. ASSUME NEW w \in Workers, NEW r, Only(w, r), r.writer \in {worker[w].writer, NoWriter},
             ~ShortWrites =>
               \A v \in Workers : worker'[v].writer # NoWriter =>
                 \/ journals'[worker'[v].writer] = journals[worker'[v].writer]
                 \/ journals'[worker'[v].writer].ended
      PROVE  Processes'
  <2>1. \A v \in Workers : worker'[v].writer \in {worker[v].writer, NoWriter}
    BY <1>a DEF Only
  <2>2. QED
    BY <1>a, <2>1
<1>1. ASSUME NEW w \in Workers, Hand(w) PROVE Processes'
  <2>1. PICK d \in Drivers, t \in Tasks, writer \in Writers : Claim(w, d, t, writer)
    BY <1>1 DEF Hand
  <2> DEFINE r == [pc |-> "get", writer |-> writer, driver |-> d, task |-> t,
                   bad |-> {}, value |-> NoBlob]
  <2>2. Only(w, r) /\ journals' = journals
    BY <1>0, <2>1, ClaimStep DEF Claim, files
  <2>3. CASE worker[w].writer = NoWriter
    <3>1. writer \notin Used
      BY <2>1, <2>3 DEF Claim
    <3>2. journals[writer] = EmptyLog /\ \A v \in Workers : worker[v].writer # writer
      BY <3>1 DEF Used
    <3>3. journals[writer].ended
      BY <3>2 DEF EmptyLog
    <3>4. worker'[w].writer = writer /\ \A v \in Workers \ {w} : worker'[v] = worker[v]
      BY <2>2 DEF Only
    <3>5. QED
      BY <2>2, <3>2, <3>3, <3>4
  <2>4. CASE worker[w].writer # NoWriter
    <3>1. r.writer = worker[w].writer
      BY <2>1, <2>4 DEF Claim
    <3>2. QED
      BY <1>a, <2>2, <3>1
  <2>5. QED
    BY <2>3, <2>4
<1>2. ASSUME NEW w \in Workers, Serve(w) PROVE Processes'
  <2>1. Only(w, Idle(worker[w].writer)) /\ journals' = journals
    BY <1>0, <1>2, DeliverStep DEF Serve, files
  <2>2. QED
    BY <1>a, <2>1 DEF Idle
<1>3. ASSUME NEW w \in Workers, RecordDone(w) PROVE Processes'
  <2>1. Only(w, Idle(worker[w].writer))
    BY <1>0, <1>3, DeliverStep DEF RecordDone
  <2>2. \A v \in Writers : journals'[v] = journals[v] \/ journals'[v].ended
    BY <1>0, <1>3 DEF RecordDone, Appended, StoreOK
  <2>3. \A v \in Workers : worker'[v].writer \in Writers \union {NoWriter}
    BY <1>0, <2>1, IdleType DEF Only, Idle
  <2>4. QED
    BY <1>a, <2>1, <2>2, <2>3 DEF Idle
<1>4. ASSUME NEW w \in Workers, Raise(w) PROVE Processes'
  <2>1. PICK writer \in {worker[w].writer, NoWriter} : Only(w, Idle(writer))
    BY <1>0, <1>4, EndStep
  <2>2. ~ShortWrites => journals' = journals
    BY <1>4 DEF Raise
  <2>3. QED
    BY <1>a, <2>1, <2>2 DEF Idle
<1>5. ASSUME NEW w \in Workers, Kill(w) PROVE Processes'
  <2>1. Only(w, Idle(NoWriter))
    BY <1>0, <1>5, EndStep
  <2>2. \A v \in Writers : journals'[v] = journals[v] \/ worker[w].writer = v
    BY <1>5, LeftByWriters DEF Kill
  <2>3. \A v \in Workers : worker'[v].writer # NoWriter =>
          /\ v # w /\ worker'[v].writer = worker[v].writer
          /\ worker[v].writer \in Writers /\ worker[v].writer # worker[w].writer
    BY <1>0, <2>1, IdleType DEF Only, Idle
  <2>4. QED
    BY <1>a, <2>1, <2>2, <2>3 DEF Idle
<1>6. ASSUME NEW w \in Workers, Miss(w) \/ Run(w) \/ Stat(w) \/ Replace(w) PROVE Processes'
  <2>1. Only(w, worker'[w]) /\ worker'[w].writer = worker[w].writer
    BY <1>0, <1>6, BusyStep
  <2>2. journals' = journals
    BY <1>6 DEF Miss, Run, Stat, Replace, files
  <2>3. QED
    BY <1>a, <2>1, <2>2
<1>7. CASE PowerFailure
  BY <1>7 DEF PowerFailure, Idle
<1>8. CASE UNCHANGED <<worker, journals>>
  BY <1>8
<1>9. QED
  BY <1>1, <1>2, <1>3, <1>4, <1>5, <1>6, <1>7, <1>8
     DEF Next, WorkerStep, vars, files, Resumable, Return, Damage

LEMMA NextAssignments ==
  WorkersAssumption /\ Authentic /\ Assignments /\ [Next]_vars => Assignments'
<1> SUFFICES ASSUME WorkersAssumption, Authentic, Assignments, [Next]_vars PROVE Assignments'
  OBVIOUS
<1> USE DEF Assignments, Busy
<1>0. StoreOK /\ WorkersOK /\ DriversOK
  BY DEF Authentic, TypeOK
<1>b. ASSUME NEW w \in Workers, Busy(w)
      PROVE  worker[w].driver \in Drivers /\ worker[w].task \in Tasks
  BY <1>0, <1>b, BusyWorker DEF BusyWorkers
<1>1. ASSUME NEW w \in Workers, Hand(w) PROVE Assignments'
  <2>1. PICK d \in Drivers, t \in Tasks, writer \in Writers : Claim(w, d, t, writer)
    BY <1>1 DEF Hand
  <2>2. /\ worker'[w].driver = d /\ worker'[w].task = t
        /\ \A v \in Workers \ {w} : worker'[v] = worker[v]
    <3>1. Only(w, [pc |-> "get", writer |-> writer, driver |-> d, task |-> t,
                   bad |-> {}, value |-> NoBlob])
      BY <1>0, <2>1, ClaimStep
    <3>2. QED
      BY <3>1 DEF Only
  <2>3. \A v \in Workers \ {w} : Busy(v) => ~(worker[v].driver = d /\ worker[v].task = t)
    BY <2>1 DEF Claim, Working, Task
  <2>4. d \in running /\ answers[d][t] = NoBlob /\ answers' = answers /\ running' = running
    BY <2>1 DEF Claim
  <2>5. QED
    BY <2>2, <2>3, <2>4
<1>2. ASSUME NEW w \in Workers, NEW x \in Digests, Busy(w), Deliver(w, x), running' = running
      PROVE  Assignments'
  <2>1. Only(w, Idle(worker[w].writer))
    BY <1>0, <1>2, DeliverStep
  <2>2. \A d \in Drivers, t \in Tasks :
          d # worker[w].driver \/ t # worker[w].task => answers'[d][t] = answers[d][t]
    BY <1>0, <1>2, DeliverAnswer DEF Task
  <2>3. ~Busy(w)' /\ \A v \in Workers \ {w} : worker'[v] = worker[v]
    BY <2>1 DEF Only, Idle
  <2>4. QED
    BY <1>2, <1>b, <2>2, <2>3
<1>3. ASSUME NEW w \in Workers, Serve(w) \/ RecordDone(w) PROVE Assignments'
  <2>1. CASE Serve(w)
    BY <1>0, <1>2, <2>1, ServedIsHeld DEF Serve
  <2>2. CASE RecordDone(w)
    <3>1. Value(w) \in Digests /\ Busy(w)
      BY <2>2, RecordType DEF RecordDone, Authentic, TypeOK, Working
    <3>2. QED
      BY <1>2, <2>2, <3>1 DEF RecordDone
  <2>3. QED
    BY <1>3, <2>1, <2>2
<1>4. ASSUME NEW w \in Workers, Raise(w) \/ Kill(w) PROVE Assignments'
  <2>1. ~Busy(w)' /\ \A v \in Workers \ {w} : worker'[v] = worker[v]
    <3>1. PICK writer : Only(w, Idle(writer))
      BY <1>0, <1>4, EndStep
    <3>2. QED
      BY <3>1 DEF Only, Idle
  <2>2. answers' = answers /\ running' = running
    BY <1>4 DEF Raise, Kill
  <2>3. QED
    BY <2>1, <2>2
<1>5. ASSUME NEW w \in Workers, Miss(w) \/ Run(w) \/ Stat(w) \/ Replace(w) PROVE Assignments'
  <2>1. /\ Only(w, worker'[w]) /\ worker[w] \in BusyWorkers
        /\ worker'[w].driver = worker[w].driver /\ worker'[w].task = worker[w].task
    BY <1>0, <1>5, BusyStep
  <2>2. answers' = answers /\ running' = running
    BY <1>5 DEF Miss, Run, Stat, Replace
  <2>3. QED
    BY <2>1, <2>2 DEF Only, BusyWorkers
<1>6. CASE PowerFailure
  BY <1>6 DEF PowerFailure, Idle
<1>7. ASSUME NEW d \in Drivers, Resumable(d) PROVE Assignments'
  <2>1. /\ \A w \in Workers : Busy(w) => worker[w].driver # d
        /\ answers' = [answers EXCEPT ![d] = NothingHeld]
        /\ running \subseteq running' /\ worker' = worker
    BY <1>7 DEF Resumable
  <2>2. QED
    BY <1>0, <1>b, <2>1 DEF DriversOK
<1>8. ASSUME NEW d \in Drivers, Return(d) PROVE Assignments'
  BY <1>8, <1>b DEF Return
<1>9. CASE UNCHANGED <<worker, answers, running>>
  BY <1>9
<1>10. QED
  BY <1>1, <1>3, <1>4, <1>5, <1>6, <1>7, <1>8, <1>9
     DEF Next, WorkerStep, vars, Damage

LEMMA NextWholeness ==
  WorkersAssumption /\ Authentic /\ Wholeness /\ [Next]_vars => Wholeness'
<1> SUFFICES ASSUME WorkersAssumption, Authentic, Wholeness, [Next]_vars PROVE Wholeness'
  OBVIOUS
<1> USE DEF Wholeness
<1>0. StoreOK /\ WorkersOK /\ DriversOK /\ ValuesAuthentic /\ harmed \subseteq Digests
  BY DEF Authentic, TypeOK
<1>1. ASSUME NEW w \in Workers, NEW r, Only(w, r), UNCHANGED <<objects, harmed>>,
             r.pc = "journal" => objects[r.value] = "good" \/ r.value \in harmed
      PROVE  Wholeness'
  BY <1>1 DEF Only
<1>2. ASSUME NEW w \in Workers, Hand(w) PROVE Wholeness'
  BY <1>0, <1>1, <1>2, ClaimStep DEF Hand, Claim, files
<1>3. ASSUME NEW w \in Workers, Serve(w) \/ RecordDone(w) PROVE Wholeness'
  BY <1>0, <1>1, <1>3, DeliverStep DEF Serve, RecordDone, Idle, files
<1>4. ASSUME NEW w \in Workers, Raise(w) \/ Kill(w) PROVE Wholeness'
  BY <1>0, <1>1, <1>4, EndStep DEF Raise, Kill, Idle
<1>5. ASSUME NEW w \in Workers, Miss(w) \/ Run(w) PROVE Wholeness'
  <2>1. Only(w, worker'[w]) /\ worker[w] \in BusyWorkers
    BY <1>0, <1>5, BusyStep
  <2>2. worker'[w].pc # "journal" /\ UNCHANGED <<objects, harmed>>
    BY <1>5, <1>0, <2>1 DEF Miss, Run, files, WorkersOK, BusyWorkers
  <2>3. QED
    BY <1>1, <2>1, <2>2
<1>6. ASSUME NEW w \in Workers, Stat(w) PROVE Wholeness'
  <2>1. Only(w, worker'[w]) /\ worker[w] \in BusyWorkers
    BY <1>0, <1>6, BusyStep
  <2>2. worker[w].value \in Digests
    BY <1>0, <1>6, <2>1 DEF ValuesAuthentic, Stat, Working, WorkersAssumption, BusyWorkers
  <2>3. worker'[w].value = worker[w].value /\ UNCHANGED <<objects, harmed>>
    BY <1>6, <1>0, <2>1 DEF Stat, Goes, files, WorkersOK, BusyWorkers
  <2>4. worker'[w].pc = "journal" => ~NeedsWrite(objects, worker[w].bad, Value(w))
    BY <1>6, <1>0, <2>1 DEF Stat, Goes, WorkersOK, BusyWorkers
  <2>5. worker'[w].pc = "journal" => objects[worker[w].value] \in {"good", "corrupt"}
    BY <2>4 DEF NeedsWrite, Value
  <2>6. QED
    BY <1>1, <2>1, <2>2, <2>3, <2>5
<1>7. ASSUME NEW w \in Workers, Replace(w) PROVE Wholeness'
  <2>0. Only(w, worker'[w]) /\ worker[w] \in BusyWorkers
    BY <1>0, <1>7, BusyStep
  <2>1. /\ Only(w, worker'[w]) /\ worker[w] \in BusyWorkers
        /\ worker'[w].value = worker[w].value
    BY <1>0, <1>7, <2>0 DEF Replace, Goes, WorkersOK, BusyWorkers
  <2>2. worker[w].value \in Digests
    BY <1>0, <1>7, <2>1 DEF ValuesAuthentic, Replace, Working, WorkersAssumption, BusyWorkers
  <2>3. objects' = [objects EXCEPT ![worker[w].value] = "good"] /\ harmed' = harmed
    BY <1>7 DEF Replace, Replaced, Value
  <2>4. \A v \in Workers : worker[v].pc = "journal" => worker[v].value \in Digests
    BY <1>0, BusyWorker DEF ValuesAuthentic, Busy, BusyWorkers, WorkersAssumption
  <2>5. QED
    BY <1>0, <2>1, <2>2, <2>3, <2>4 DEF Only, StoreOK
<1>8. CASE PowerFailure
  <2>1. PICK lost \in SUBSET Digests :
          /\ objects' = [x \in Digests |-> IF x \in lost THEN "absent" ELSE objects[x]]
          /\ harmed' = harmed \union lost
    BY <1>0, <1>8 DEF PowerFailure, StoreOK
  <2>2. \A w \in Workers : worker'[w].pc = "idle"
    BY <1>8 DEF PowerFailure, Idle
  <2>3. QED
    BY <2>1, <2>2
<1>9. ASSUME NEW x \in Digests, Damage(x) PROVE Wholeness'
  <2>1. PICK s \in {"corrupt", "truncated"} : objects' = [objects EXCEPT ![x] = s]
    BY <1>9 DEF Damage
  <2>2. harmed' = harmed \union {x} /\ worker' = worker
    BY <1>9 DEF Damage
  <2>3. \A v \in Workers : worker[v].pc = "journal" => worker[v].value \in Digests
    BY <1>0, BusyWorker DEF ValuesAuthentic, Busy, BusyWorkers, WorkersAssumption
  <2>4. QED
    BY <1>0, <2>1, <2>2, <2>3 DEF StoreOK
<1>10. CASE UNCHANGED <<worker, objects, harmed>>
  BY <1>10
<1>11. QED
  BY <1>2, <1>3, <1>4, <1>5, <1>6, <1>7, <1>8, <1>9, <1>10
     DEF Next, WorkerStep, vars, files, Resumable, Return

\* A line of one of the journals records r for t.
Said(t, r) ==
  \E w \in Writers : \E i \in Readable(journals[w].lines) :
    journals[w].lines[i] = [task |-> t, blob |-> r]

\* What was recorded is still said, and a plan is tagged with something for
\* every task whose recorded result it found.
Remembered ==
  /\ \A d \in Drivers, t \in Tasks : plan[d][t] # NoBlob => Said(t, plan[d][t])
  /\ \A t \in Tasks : \A r \in recorded[t] : Said(t, r)
  /\ \A d \in running, t \in Tasks : known[d][t] # {} => plan[d][t] # NoBlob

\* A recorded result is one of the task's own.
RecordedAuthentic ==
  /\ \A t \in Tasks : recorded[t] \subseteq Outcomes[t]
  /\ \A d \in Drivers, t \in Tasks : known[d][t] \subseteq Outcomes[t]

\* No step takes a readable line away.
LEMMA LinesStay ==
  ASSUME WorkersAssumption, Authentic, Processes, ~ShortWrites, [Next]_vars,
         NEW v \in Writers, NEW i \in Readable(journals[v].lines)
  PROVE  i \in Readable(journals'[v].lines) /\ journals'[v].lines[i] = journals[v].lines[i]
<1>0. StoreOK /\ WorkersOK /\ ValuesAuthentic
  BY DEF Authentic, TypeOK
<1>1. CASE journals'[v] = journals[v]
  BY <1>1
<1>2. ASSUME NEW w \in Workers, NEW tears, Working(w, "journal"), worker[w].writer = v,
             journals'[v] \in CrashedAppends(journals[v], Record(w), tears)
                                \union {Appended(journals[v], Record(w))}
      PROVE  i \in Readable(journals'[v].lines) /\ journals'[v].lines[i] = journals[v].lines[i]
  <2>1. journals[v] \in Logs(Records) /\ Record(w) \in Records
    BY <1>0, <1>2, RecordType DEF StoreOK
  <2>2. worker[w].writer # NoWriter
    BY <1>2 DEF WorkersAssumption
  <2>3. journals[v].ended
    BY <1>2, <2>2 DEF Processes
  <2>4. i \in Solid(journals[v])
    BY <2>3 DEF Solid
  <2>5. i \in Solid(journals'[v]) /\ journals'[v].lines[i] = journals[v].lines[i]
    BY <1>2, <2>1, <2>4, SolidStays
  <2>6. QED
    BY <2>5 DEF Solid
<1>3. QED
  BY <1>0, <1>1, <1>2, JournalsStep

LEMMA SaidStays ==
  ASSUME WorkersAssumption, Authentic, Processes, ~ShortWrites, [Next]_vars,
         NEW t, NEW r, Said(t, r)
  PROVE  Said(t, r)'
<1>1. PICK w \in Writers : \E i \in Readable(journals[w].lines) :
        journals[w].lines[i] = [task |-> t, blob |-> r]
  BY DEF Said
<1>2. PICK i \in Readable(journals[w].lines) : journals[w].lines[i] = [task |-> t, blob |-> r]
  BY <1>1
<1>3. i \in Readable(journals'[w].lines) /\ journals'[w].lines[i] = journals[w].lines[i]
  BY LinesStay
<1>4. QED
  BY <1>2, <1>3 DEF Said

\* A record that record_done returned from is said.
LEMMA DoneIsSaid ==
  ASSUME WorkersAssumption, Authentic, Processes, ~ShortWrites, NEW w \in Workers,
         RecordDone(w), NEW t, NEW r, t = Task(w), r = Value(w)
  PROVE  Said(t, r)'
<1> DEFINE v == worker[w].writer
<1>1. Working(w, "journal") /\ StoreOK
  BY DEF RecordDone, Authentic, TypeOK
<1>2. Record(w) \in Records /\ v \in Writers
  BY <1>1, RecordType DEF Authentic, TypeOK
<1>3. journals'[v] = Appended(journals[v], Record(w)) /\ journals[v] \in Logs(Records)
  BY <1>1, <1>2 DEF RecordDone, Record, StoreOK
<1>4. journals[v].ended
  BY <1>2 DEF Processes, WorkersAssumption
<1>5. Record(w) # Torn
  BY <1>2, FilesAssumption DEF FilesAssumption, Records
<1>6. PICK i \in Solid(journals'[v]) : journals'[v].lines[i] = Record(w)
  BY <1>2, <1>3, <1>4, <1>5, AppendedIsSolid
<1>7. i \in Readable(journals'[v].lines) /\ journals'[v].lines[i] = [task |-> t, blob |-> r]
  BY <1>6 DEF Solid, Record
<1>8. \E u \in Writers : \E j \in Readable(journals'[u].lines) :
        journals'[u].lines[j] = [task |-> t, blob |-> r]
  BY <1>2, <1>7
<1>9. QED
  BY <1>8 DEF Said

\* A result said for a task, and present, tags a plan read now.
LEMMA SaidIsReplayed ==
  ASSUME WorkersAssumption, StoreOK, NEW t \in Tasks, NEW r \in Digests, Said(t, r),
         Present(objects, r)
  PROVE  Replayed[t] # NoBlob
<1> DEFINE of(w) == Completed(objects, journals[w].lines)[t]
           hits == {w \in Writers : of(w) # NoBlob}
           last == CHOOSE w \in hits : \A v \in hits : v <= w
<1>1. PICK w \in Writers : \E i \in Readable(journals[w].lines) :
        journals[w].lines[i] = [task |-> t, blob |-> r]
  BY DEF Said
<1>2. PICK i \in Readable(journals[w].lines) : journals[w].lines[i] = [task |-> t, blob |-> r]
  BY <1>1
<1>3. journals[w] \in Logs([task : Tasks, blob : Digests])
  BY DEF StoreOK, Records
<1>4. /\ Present(objects, journals[w].lines[i].blob)
      /\ journals[w].lines[i].task = t
  BY <1>2
<1>5. of(w) \in Digests
  BY <1>3, <1>4, RecordedIsCompleted
<1>6. w \in hits
  BY <1>5, FilesAssumption DEF FilesAssumption
<1>7. Cardinality(Writers) \in Nat /\ hits \in SUBSET (1..Cardinality(Writers))
  BY FS_CardinalityType DEF WorkersAssumption
<1>8. last \in hits
  BY <1>6, <1>7, LastExists
<1>9. Replayed[t] = of(last)
  BY <1>6 DEF Replayed
<1>10. QED
  BY <1>8, <1>9

LEMMA NextRecorded ==
  WorkersAssumption /\ Authentic /\ RecordedAuthentic /\ [Next]_vars => RecordedAuthentic'
<1> SUFFICES ASSUME WorkersAssumption, Authentic, RecordedAuthentic, [Next]_vars
             PROVE  RecordedAuthentic'
  OBVIOUS
<1> USE DEF RecordedAuthentic
<1>0. /\ recorded \in [Tasks -> SUBSET Digests]
      /\ known \in [Drivers -> [Tasks -> SUBSET Digests]]
  BY DEF Authentic, TypeOK
<1>1. ASSUME NEW w \in Workers, RecordDone(w) PROVE RecordedAuthentic'
  <2>1. Value(w) \in Outcomes[Task(w)] /\ Task(w) \in Tasks
    BY <1>1, RecordType DEF RecordDone, Authentic, TypeOK
  <2>2. recorded' = [recorded EXCEPT ![Task(w)] = @ \union {Value(w)}] /\ known' = known
    BY <1>1 DEF RecordDone
  <2>3. QED
    BY <1>0, <2>1, <2>2
<1>2. ASSUME NEW d \in Drivers, Resumable(d) PROVE RecordedAuthentic'
  BY <1>0, <1>2 DEF Resumable
<1>3. CASE UNCHANGED <<recorded, known>>
  BY <1>3
<1>4. QED
  BY <1>1, <1>2, <1>3
     DEF Next, WorkerStep, Hand, vars, Return, Claim, Serve, Miss, Run, Stat, Replace, Raise,
         Kill, PowerFailure, Damage

LEMMA NextRemembered ==
  WorkersAssumption /\ Authentic /\ Processes /\ Remembered /\ ~ShortWrites /\ [Next]_vars
    => Remembered'
<1> SUFFICES ASSUME WorkersAssumption, Authentic, Processes, Remembered, ~ShortWrites,
                    [Next]_vars
             PROVE  Remembered'
  OBVIOUS
<1> USE DEF Remembered
<1>0. /\ recorded \in [Tasks -> SUBSET Digests]
      /\ known \in [Drivers -> [Tasks -> SUBSET Digests]]
      /\ StoreOK /\ DriversOK /\ WorkersOK
  BY DEF Authentic, TypeOK
<1>a. \A t, r : Said(t, r) => Said(t, r)'
  BY SaidStays
<1>b. \A t \in Tasks : Replayed[t] # NoBlob => Said(t, Replayed[t])
  BY <1>0, ReplayedIsRecorded DEF Said
<1>1. ASSUME NEW w \in Workers, RecordDone(w) PROVE Remembered'
  <2>1. Task(w) \in Tasks
    BY <1>1, RecordType DEF RecordDone, Authentic, TypeOK
  <2>2. \A t, r : t = Task(w) /\ r = Value(w) => Said(t, r)'
    BY <1>1, DoneIsSaid
  <2>3. /\ recorded' = [recorded EXCEPT ![Task(w)] = @ \union {Value(w)}]
        /\ UNCHANGED <<known, plan, running>>
    BY <1>1 DEF RecordDone
  <2>4. \A t \in Tasks : \A r : r \in recorded'[t] => Said(t, r)'
    BY <1>0, <1>a, <2>1, <2>2, <2>3
  <2>5. \A d \in Drivers, t \in Tasks : \A r : r = plan'[d][t] /\ r # NoBlob => Said(t, r)'
    BY <1>a, <2>3
  <2>6. QED
    BY <2>3, <2>4, <2>5
<1>2. ASSUME NEW d \in Drivers, Resumable(d) PROVE Remembered'
  <2>1. /\ plan' = [plan EXCEPT ![d] = Replayed] /\ running' = running \union {d}
        /\ known' = [known EXCEPT ![d] =
                       [t \in Tasks |-> {r \in recorded[t] : Present(objects, r)}]]
        /\ recorded' = recorded
    BY <1>2 DEF Resumable
  <2>2. \A e \in Drivers, t \in Tasks : \A r : r = plan'[e][t] /\ r # NoBlob => Said(t, r)'
    BY <1>0, <1>a, <1>b, <2>1 DEF DriversOK
  <2>3. ASSUME NEW t \in Tasks, known'[d][t] # {} PROVE Replayed[t] # NoBlob
    <3>1. PICK r \in recorded[t] : Present(objects, r)
      BY <1>0, <2>1, <2>3
    <3>2. r \in Digests /\ Said(t, r)
      BY <1>0
    <3>3. QED
      BY <1>0, <3>1, <3>2, SaidIsReplayed
  <2>4. plan'[d] = Replayed /\ \A e \in Drivers \ {d} : plan'[e] = plan[e] /\ known'[e] = known[e]
    BY <1>0, <2>1 DEF DriversOK
  <2>5. running' \subseteq Drivers
    BY <1>0, <2>1 DEF DriversOK
  <2>6. \A e \in running', t \in Tasks : known'[e][t] # {} => plan'[e][t] # NoBlob
    BY <2>1, <2>3, <2>4, <2>5
  <2>7. \A t \in Tasks : \A r : r \in recorded'[t] => Said(t, r)'
    BY <1>a, <2>1
  <2>8. QED
    BY <2>2, <2>6, <2>7
<1>3. CASE UNCHANGED <<recorded, known>> /\ plan' = plan /\ running' \subseteq running
  <2>1. \A d \in Drivers, t \in Tasks : \A r : r = plan'[d][t] /\ r # NoBlob => Said(t, r)'
    BY <1>3, <1>a
  <2>2. \A t \in Tasks : \A r : r \in recorded'[t] => Said(t, r)'
    BY <1>3, <1>a
  <2>3. QED
    BY <1>3, <2>1, <2>2
<1>4. CASE PowerFailure
  <2>1. /\ recorded' = recorded /\ running' = {}
        /\ \A d \in Drivers, t \in Tasks : plan'[d][t] = NoBlob
    BY <1>4 DEF PowerFailure, NothingHeld
  <2>2. \A t \in Tasks : \A r : r \in recorded'[t] => Said(t, r)'
    BY <1>a, <2>1
  <2>3. QED
    BY <2>1, <2>2
<1>5. QED
  BY <1>1, <1>2, <1>3, <1>4
     DEF Next, WorkerStep, Hand, vars, Return, Claim, Serve, Miss, Run, Stat, Replace, Raise,
         Kill, Damage

DurableInv ==
  /\ Authentic /\ Processes /\ Assignments /\ Wholeness /\ RecordedAuthentic
  /\ ~ShortWrites => Remembered

LEMMA DurableInvariance == Spec => []DurableInv
<1>1. WorkersAssumption
  BY WorkersAssumption
<1>2. Init => Processes /\ Assignments /\ Wholeness /\ RecordedAuthentic /\ Remembered
  BY DEF Init, Processes, Assignments, Wholeness, RecordedAuthentic, Remembered, Busy, Idle,
         NothingHeld, Nothing
<1>3. Init => DurableInv
  BY <1>1, <1>2, InitAuthentic DEF DurableInv
<1>4. DurableInv /\ [Next]_vars => DurableInv'
  <2>1. DurableInv /\ [Next]_vars => (~ShortWrites => Remembered')
    BY <1>1, NextRemembered DEF DurableInv
  <2>2. DurableInv /\ [Next]_vars =>
          Authentic' /\ Processes' /\ Assignments' /\ Wholeness' /\ RecordedAuthentic'
    BY <1>1, NextAuthentic, NextProcesses, NextAssignments, NextWholeness, NextRecorded
       DEF DurableInv
  <2>3. QED
    BY <2>1, <2>2 DEF DurableInv
<1>5. QED
  BY <1>3, <1>4, PTL DEF Spec

(***************************************************************************)
(* The store keeps results: each step is one of DurableResults, or none.   *)
(***************************************************************************)

\* Kept, spelled out: a whole object some line records.
LEMMA KeptIs ==
  ASSUME NEW t \in Tasks
  PROVE  Kept[t] = {x \in Digests : objects[x] = "good" /\ Said(t, x)}
BY DEF Kept, Said

\* What is kept for a task is its own result, in every next state too.
LEMMA KeptAuthentic ==
  ASSUME WorkersAssumption, Authentic, [Next]_vars, NEW t \in Tasks
  PROVE  Kept'[t] \subseteq Outcomes[t]
<1>1. Authentic'
  BY NextAuthentic
<1>2. ASSUME NEW x \in Kept'[t] PROVE x \in Outcomes[t]
  <2>1. PICK w \in Writers : \E i \in Readable(journals'[w].lines) :
          journals'[w].lines[i] = [task |-> t, blob |-> x]
    BY <1>2 DEF Kept
  <2>2. PICK i \in Readable(journals'[w].lines) :
          journals'[w].lines[i] = [task |-> t, blob |-> x]
    BY <2>1
  <2>3. journals'[w].lines[i].blob \in Outcomes[journals'[w].lines[i].task]
    BY <1>1 DEF Authentic, JournalsAuthentic, Told
  <2>4. QED
    BY <2>2, <2>3
<1>3. QED
  BY <1>2

\* A kept result stays kept while its object stays whole.
LEMMA KeptStays ==
  ASSUME WorkersAssumption, Authentic, Processes, ~ShortWrites, [Next]_vars,
         NEW t \in Tasks, NEW x \in Kept[t], objects'[x] = "good"
  PROVE  x \in Kept'[t]
<1>1. x \in Digests /\ Said(t, x)
  BY KeptIs
<1>2. Said(t, x)'
  BY <1>1, SaidStays
<1>3. QED
  BY <1>1, <1>2 DEF Kept, Said

LEMMA KeepsStep ==
  WorkersAssumption /\ DurableInv /\ ~ShortWrites /\ [Next]_vars
    => [Durable!Next]_<<Kept, harmed, answers>>
<1> SUFFICES ASSUME WorkersAssumption, DurableInv, ~ShortWrites, [Next]_vars
             PROVE  [Durable!Next]_<<Kept, harmed, answers>>
  OBVIOUS
<1> USE DEF DurableInv
<1>0. StoreOK /\ WorkersOK /\ DriversOK /\ ValuesAuthentic
  BY DEF Authentic, TypeOK
<1>a. Kept' = [t \in Tasks |-> Kept'[t]] /\ Kept = [t \in Tasks |-> Kept[t]]
  BY DEF Kept
<1>b. \A t \in Tasks : Kept'[t] \subseteq Outcomes[t]
  BY KeptAuthentic
<1>c. \A t \in Tasks : \A x \in Kept[t] : objects'[x] = "good" => x \in Kept'[t]
  BY KeptStays
<1>d. \A t \in Tasks : \A x \in Kept[t] : x \in Digests /\ objects[x] = "good"
  BY KeptIs
\* Steps that leave the files alone.
<1>1. ASSUME UNCHANGED <<objects, journals>> PROVE Kept' = Kept
  BY <1>1 DEF Kept
\* Steps that may make results whole or record them.
<1>2. ASSUME \A x \in Digests : objects[x] = "good" => objects'[x] = "good", harmed' = harmed
      PROVE  Durable!Keep
  BY <1>2, <1>b, <1>c, <1>d DEF Durable!Keep
<1>3. ASSUME NEW w \in Workers, NEW x \in Digests, Busy(w), Deliver(w, x),
             x \in Outcomes[Task(w)], x \in Kept'[Task(w)] \union harmed, Durable!Keep
      PROVE  Durable!Next
  <2> DEFINE d == worker[w].driver
             t == Task(w)
  <2>1. d \in Drivers /\ t \in Tasks
    BY <1>0, <1>3, DeliverAnswer
  <2>2. answers[d][t] = NoBlob
    BY <1>3 DEF Assignments, Task
  <2>3. answers' = [answers EXCEPT ![d][t] = x]
    BY <1>3 DEF Deliver
  <2> HIDE DEF d, t
  <2>4. Durable!Answer
    BY <1>3, <2>1, <2>2, <2>3 DEF Durable!Answer, d, t
  <2>5. QED
    BY <1>3, <2>4 DEF Durable!Next, Durable!Give
<1>4. ASSUME NEW w \in Workers, Serve(w) PROVE Durable!Next
  <2>1. /\ Busy(w) /\ Held(w) \in Digests /\ Held(w) = plan[worker[w].driver][Task(w)]
        /\ Deliver(w, Held(w)) /\ objects[Held(w)] = "good"
    BY <1>0, <1>4, ServedIsHeld
  <2>2. worker[w].driver \in Drivers /\ Task(w) \in Tasks
    BY <1>0, <2>1, DeliverAnswer
  <2>3. Held(w) # NoBlob
    BY <2>1, FilesAssumption DEF FilesAssumption
  <2>4. Said(Task(w), Held(w)) /\ Held(w) \in Outcomes[Task(w)]
    BY <2>1, <2>2, <2>3 DEF Remembered, Authentic, PlanAuthentic
  <2>5. Held(w) \in Kept[Task(w)]
    BY <2>1, <2>2, <2>4, KeptIs
  <2>6. UNCHANGED <<objects, journals, harmed>>
    BY <1>4 DEF Serve, files
  <2>7. Kept' = Kept
    BY <1>1, <2>6
  <2>8. Durable!Keep
    BY <1>2, <2>6
  <2>9. Held(w) \in Kept'[Task(w)] \union harmed
    BY <2>5, <2>7
  <2>10. QED
    BY <1>3, <2>1, <2>4, <2>8, <2>9
<1>5. ASSUME NEW w \in Workers, RecordDone(w) PROVE Durable!Next
  <2> DEFINE t == Task(w)
             x == Value(w)
  <2>1. Working(w, "journal") /\ Busy(w) /\ Deliver(w, x) /\ UNCHANGED <<objects, harmed>>
    BY <1>5 DEF RecordDone, Working, Busy
  <2>2. x \in Outcomes[t] /\ t \in Tasks /\ x \in Digests
    BY <1>0, <2>1, RecordType
  <2>3. objects[x] = "good" \/ x \in harmed
    BY <2>1 DEF Wholeness, Working, Value
  <2>4. \A u, y : u = t /\ y = x => Said(u, y)'
    BY <1>5, DoneIsSaid
  <2>5. \A u \in Tasks, y \in Digests : u = t /\ y = x /\ objects'[y] = "good" => y \in Kept'[u]
    BY <2>4 DEF Kept, Said
  <2>6. x \in Kept'[t] \union harmed
    BY <2>1, <2>2, <2>3, <2>5
  <2>7. Durable!Keep
    BY <1>2, <2>1
  <2>8. QED
    BY <1>3, <2>1, <2>2, <2>6, <2>7
<1>6. ASSUME NEW w \in Workers, Replace(w) \/ Kill(w) PROVE Durable!Next
  <2>1. UNCHANGED <<answers, harmed>>
    BY <1>6 DEF Replace, Kill
  <2>2. \A x \in Digests : objects[x] = "good" => objects'[x] = "good"
    BY <1>0, <1>6 DEF Replace, Replaced, Kill, StoreOK
  <2>3. QED
    BY <1>2, <2>1, <2>2 DEF Durable!Next, Durable!Gain
\* Forgetting no driver's answers, one's, or every driver's.
<1>7. ASSUME NEW d \in Drivers, Resumable(d) PROVE Durable!Next
  <2>1. answers' = [e \in Drivers |-> IF e \in {d} THEN NothingHeld ELSE answers[e]]
    BY <1>0, <1>7 DEF Resumable, DriversOK
  <2>2. Durable!Forget
    BY <2>1 DEF Durable!Forget, Durable!NoAnswers, NothingHeld
  <2>3. UNCHANGED <<objects, journals, harmed>>
    BY <1>7 DEF Resumable, files
  <2>4. QED
    BY <1>1, <2>2, <2>3 DEF Durable!Next
<1>8. ASSUME NEW lost \in SUBSET Digests, harmed' = harmed \union lost,
             \A x \in lost : objects'[x] # "good",
             \A x \in Digests \ lost : objects'[x] = objects[x]
      PROVE  Durable!Harm
  <2>1. \A t \in Tasks : Kept[t] \ lost \subseteq Kept'[t]
    BY <1>8, <1>c, <1>d
  <2>2. \A t \in Tasks : \A x \in Kept'[t] : objects'[x] = "good"
    BY DEF Kept
  <2>3. \A t \in Tasks : Kept'[t] \subseteq Outcomes[t] \ lost
    BY <1>8, <1>b, <2>2
  <2>4. QED
    BY <1>8, <2>1, <2>3 DEF Durable!Harm
<1>9. ASSUME PowerFailure PROVE Durable!Next
  <2>1. PICK lost \in SUBSET Digests :
          /\ objects' = [x \in Digests |-> IF x \in lost THEN "absent" ELSE objects[x]]
          /\ harmed' = harmed \union lost
    BY <1>0, <1>9 DEF PowerFailure, StoreOK
  <2>2. Durable!Harm
    BY <1>8, <2>1
  <2>3. answers' = [e \in Drivers |-> IF e \in Drivers THEN NothingHeld ELSE answers[e]]
    BY <1>9 DEF PowerFailure
  <2>4. Durable!Forget
    BY <2>3 DEF Durable!Forget, Durable!NoAnswers, NothingHeld
  <2>5. QED
    BY <2>2, <2>4 DEF Durable!Next
<1>10. ASSUME NEW x \in Digests, Damage(x) PROVE Durable!Next
  <2>1. PICK s \in {"corrupt", "truncated"} : objects' = [objects EXCEPT ![x] = s]
    BY <1>10 DEF Damage
  <2>2. harmed' = harmed \union {x} /\ answers' = answers
    BY <1>10 DEF Damage
  <2>3. Durable!Harm
    <3>1. {x} \in SUBSET Digests
      OBVIOUS
    <3>2. /\ \A y \in {x} : objects'[y] # "good"
          /\ \A y \in Digests \ {x} : objects'[y] = objects[y]
      BY <1>0, <2>1 DEF StoreOK
    <3>3. QED
      BY <1>8, <2>2, <3>1, <3>2
  <2>4. Durable!Forget
    <3> DEFINE gone == {}
    <3>1. answers' = [e \in Drivers |-> IF e \in gone THEN Durable!NoAnswers ELSE answers[e]]
      BY <1>0, <2>2 DEF DriversOK
    <3>2. gone \in SUBSET Drivers
      OBVIOUS
    <3> HIDE DEF gone
    <3>3. QED
      BY <3>1, <3>2 DEF Durable!Forget
  <2>5. QED
    BY <2>3, <2>4 DEF Durable!Next
<1>11. ASSUME UNCHANGED <<objects, journals, harmed, answers>>
       PROVE  UNCHANGED <<Kept, harmed, answers>>
  BY <1>1, <1>11
<1>12. ASSUME NEW w \in Workers, Raise(w) PROVE UNCHANGED <<Kept, harmed, answers>>
  BY <1>11, <1>12 DEF Raise
<1>13. ASSUME NEW w \in Workers, Hand(w) \/ Miss(w) \/ Run(w) \/ Stat(w)
       PROVE  UNCHANGED <<Kept, harmed, answers>>
  BY <1>11, <1>13 DEF Hand, Claim, Miss, Run, Stat, files
<1>14. ASSUME NEW d \in Drivers, Return(d) PROVE UNCHANGED <<Kept, harmed, answers>>
  BY <1>11, <1>14 DEF Return, files
<1>15. ASSUME UNCHANGED vars PROVE UNCHANGED <<Kept, harmed, answers>>
  BY <1>11, <1>15 DEF vars, files
<1>16. QED
  BY <1>4, <1>5, <1>6, <1>7, <1>9, <1>10, <1>12, <1>13, <1>14, <1>15
     DEF Next, WorkerStep

\* Checkpointing keeps results: whatever runs the tasks, results are gained or
\* harmed and never dropped, and each driver gets one answer per task, a result
\* of that task that was kept first or harmed.  Assumes that only a process's
\* death cuts an append short.
THEOREM Keeps == ASSUME ~ShortWrites PROVE Spec => KeepsResults
<1>1. WorkersAssumption
  BY WorkersAssumption
<1>2. Init => Durable!Init
  <2> SUFFICES ASSUME Init PROVE Durable!Init
    OBVIOUS
  <2>1. \A w \in Writers : Readable(journals[w].lines) = {}
    BY DEF Init, EmptyLog, Readable
  <2>2. Kept = [t \in Tasks |-> {}]
    BY <2>1 DEF Kept
  <2>3. QED
    BY <2>2 DEF Init, Durable!Init, Durable!NoAnswers, NothingHeld
<1>3. DurableInv /\ [Next]_vars => [Durable!Next]_<<Kept, harmed, answers>>
  BY <1>1, KeepsStep
<1>4. QED
  BY <1>2, <1>3, DurableInvariance, PTL DEF Spec, KeepsResults, Durable!Spec

(***************************************************************************)
(* No whole result is computed again.  A worker runs a task when it was    *)
(* tagged with nothing, so that none of its results was there to be found, *)
(* or when the bytes it was tagged with are not whole.                     *)
(***************************************************************************)

\* "The loss from a kill at any moment is the one partition in flight": for
\* tasks whose process returns the same bytes each time, and assuming that
\* only a process's death cuts an append short.
THEOREM NotRerun ==
  ASSUME ~ShortWrites, \A t \in Tasks : \A q, r \in Outcomes[t] : q = r
  PROVE  Spec => RecordedIsNotRerun
<1> DEFINE NoRerun ==
      \A w \in Workers :
        worker[w].pc = "get" /\ worker'[w].pc = "run" =>
          \A r \in known[worker[w].driver][Task(w)] : Get(objects, r) = NoBlob
<1>1. WorkersAssumption
  BY WorkersAssumption
<1>2. DurableInv /\ [Next]_vars => NoRerun
  <2> SUFFICES ASSUME DurableInv, [Next]_vars, NEW w \in Workers,
                      worker[w].pc = "get", worker'[w].pc = "run",
                      NEW r \in known[worker[w].driver][Task(w)]
               PROVE  Get(objects, r) = NoBlob
    OBVIOUS
  <2>0. StoreOK /\ WorkersOK /\ DriversOK /\ known \in [Drivers -> [Tasks -> SUBSET Digests]]
    BY DEF DurableInv, Authentic, TypeOK
  <2>1. worker[w] \in BusyWorkers
    BY <2>0, BusyWorker DEF Busy
  <2>2. worker[w].driver \in Drivers /\ Task(w) \in Tasks /\ worker[w].driver \in running
    BY <2>1 DEF BusyWorkers, Task, DurableInv, Assignments, Busy
  <2>3. ~Servable(w)
    <3>1. ASSUME NEW v \in Workers, NEW x, Only(v, x), x.pc # "run" PROVE FALSE
      BY <3>1 DEF Only
    <3>2. ASSUME NEW v \in Workers, Hand(v) PROVE FALSE
      <4>1. PICK d \in Drivers, t \in Tasks, writer \in Writers : Claim(v, d, t, writer)
        BY <3>2 DEF Hand
      <4>2. Only(v, [pc |-> "get", writer |-> writer, driver |-> d, task |-> t,
                     bad |-> {}, value |-> NoBlob])
        BY <2>0, <4>1, ClaimStep
      <4>3. QED
        BY <3>1, <4>2
    <3>3. ASSUME NEW v \in Workers, Serve(v) \/ RecordDone(v) PROVE FALSE
      BY <2>0, <3>1, <3>3, DeliverStep DEF Serve, RecordDone, Idle
    <3>4. ASSUME NEW v \in Workers, Raise(v) \/ Kill(v) PROVE FALSE
      BY <2>0, <3>1, <3>4, EndStep DEF Idle
    <3>5. ASSUME NEW v \in Workers, Miss(v) \/ Run(v) \/ Stat(v) \/ Replace(v)
          PROVE  v = w /\ Miss(v)
      <4>1. Only(v, worker'[v]) /\ worker[v] \in BusyWorkers
        BY <1>1, <2>0, <3>5, BusyStep
      <4>2. v = w
        BY <4>1 DEF Only
      <4>3. QED
        BY <3>5, <4>2 DEF Run, Stat, Replace, Working
    <3>6. CASE PowerFailure
      BY <3>6 DEF PowerFailure, Idle
    <3>7. CASE UNCHANGED worker
      BY <3>7
    <3>8. QED
      BY <3>2, <3>3, <3>4, <3>5, <3>6, <3>7
         DEF Next, WorkerStep, vars, Resumable, Return, Damage, Miss
  <2>4. Held(w) # NoBlob /\ Held(w) \in Outcomes[Task(w)]
    BY <2>2 DEF DurableInv, Remembered, Authentic, PlanAuthentic, Held
  <2>5. r \in Outcomes[Task(w)]
    BY <2>2 DEF DurableInv, RecordedAuthentic
  <2>6. r = Held(w)
    BY <2>2, <2>4, <2>5
  <2>7. QED
    BY <2>3, <2>4, <2>6 DEF Servable
<1>3. QED
  BY <1>2, DurableInvariance, PTL DEF Spec, RecordedIsNotRerun
=============================================================================
