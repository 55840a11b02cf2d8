------------------------- MODULE ResumableWorkers -------------------------
(***************************************************************************)
(* resumable (python/graphed/checkpoint/resume.py): drivers make their     *)
(* plans serve from, and record to, one directory store, and the workers   *)
(* of whatever runner runs them open that store themselves.  Nothing is    *)
(* locked.  A worker process writes a journal of its own, which no later   *)
(* process appends to; objects are shared, whoever writes them.            *)
(***************************************************************************)
EXTENDS StoreFiles, FiniteSets

CONSTANTS
  Drivers, Workers,
  Writers,       \* journals there can be: 1..k, in file-name order
  NoWriter,
  Outcomes,      \* task -> the digests its process may return
  Tears, Loses,  \* what a crash can do: cut an append short, undo renames
  ShortWrites,   \* whether an append that raises may have written a part
  MaxPlans, MaxDamage,
  MaxCrashes     \* kills, power failures and tasks that raise

ASSUME WorkersAssumption ==
  /\ IsFiniteSet(Writers) /\ Writers = 1..Cardinality(Writers)
  /\ NoWriter \notin Writers
  /\ Outcomes \in [Tasks -> SUBSET Digests] /\ \A t \in Tasks : Outcomes[t] # {}
  /\ Tears \in BOOLEAN /\ Loses \in BOOLEAN /\ ShortWrites \in BOOLEAN

VARIABLES
  objects,    \* the object files
  journals,   \* writer -> its journal
  volatile,   \* digests whose rename is not yet durable
  plan,       \* driver -> its plan's tagged tasks: task -> blob held at plan time
  running,    \* the drivers whose plan is being run
  answers,    \* driver -> task -> the digest of the bytes its runner got back
  worker,     \* worker -> what it is doing, for whom
  plans, crashes, damage,   \* bounds
  harmed,     \* history: digests damaged or lost, ever
  recorded,   \* history: task -> digests whose record_done returned
  known       \* history: driver -> task -> the recorded digests there were when
              \* its plan read the store

files  == <<objects, journals, volatile>>
bounds == <<plans, crashes, damage>>
vars   == <<files, plan, running, answers, worker, bounds, harmed, recorded, known>>

NothingHeld == [t \in Tasks |-> NoBlob]
Nothing     == [t \in Tasks |-> {}]

\* A worker: its process's journal token (none before its first task), and the
\* task at hand with the store instance task_store opened for it.
Idle(writer) == [pc |-> "idle", writer |-> writer]

Init ==
  /\ objects = [d \in Digests |-> "absent"] /\ volatile = {}
  /\ journals = [w \in Writers |-> EmptyLog]
  /\ plan = [d \in Drivers |-> NothingHeld] /\ running = {}
  /\ answers = [d \in Drivers |-> NothingHeld]
  /\ worker = [w \in Workers |-> Idle(NoWriter)]
  /\ plans = 0 /\ crashes = 0 /\ damage = 0
  /\ harmed = {} /\ recorded = Nothing /\ known = [d \in Drivers |-> Nothing]

(***************************************************************************)
(* The driver.                                                             *)
(***************************************************************************)

\* Store.completed over every journal: a later file's record wins over an
\* earlier file's, and in a file the later line.
Replayed ==
  [t \in Tasks |->
     LET of(w) == Completed(objects, journals[w].lines)[t]
         hits  == {w \in Writers : of(w) # NoBlob}
     IN  IF hits = {} THEN NoBlob
         ELSE of(CHOOSE w \in hits : \A v \in hits : v <= w)]

\* resumable tags each task with the blob the store holds for it, and the plan
\* is given to a runner.
Resumable(d) ==
  /\ d \notin running /\ plans < MaxPlans
  /\ \A w \in Workers : worker[w].pc # "idle" => worker[w].driver # d
  /\ plans' = plans + 1
  /\ plan' = [plan EXCEPT ![d] = Replayed]
  /\ running' = running \union {d}
  /\ answers' = [answers EXCEPT ![d] = NothingHeld]
  /\ known' = [known EXCEPT ![d] =
                [t \in Tasks |-> {r \in recorded[t] : Present(objects, r)}]]
  /\ UNCHANGED <<files, worker, crashes, damage, harmed, recorded>>

\* The runner has every answer.
Return(d) ==
  /\ d \in running /\ \A t \in Tasks : answers[d][t] # NoBlob
  /\ running' = running \ {d}
  /\ UNCHANGED <<files, plan, answers, worker, bounds, harmed, recorded, known>>

(***************************************************************************)
(* A worker: _served_or_run.                                               *)
(***************************************************************************)

Working(w, pc) == worker[w].pc = pc
Task(w)        == worker[w].task
Held(w)        == plan[worker[w].driver][Task(w)]
Value(w)       == worker[w].value
Journal(w)     == journals[worker[w].writer]

Goes(w, pc) == worker' = [worker EXCEPT ![w].pc = pc]

\* A worker every process of which reopens the first process's journal.
Claim_SharesJournal(w, d, t, writer) ==
  /\ Working(w, "idle") /\ d \in running /\ answers[d][t] = NoBlob
  /\ \A v \in Workers : ~Working(v, "idle") => <<worker[v].driver, Task(v)>> # <<d, t>>
  /\ writer = 1
  /\ worker' = [worker EXCEPT ![w] = [pc |-> "get", writer |-> writer, driver |-> d,
                                      task |-> t, bad |-> {}, value |-> NoBlob]]
  /\ UNCHANGED <<files, plan, running, answers, bounds, harmed, recorded, known>>

Used == {v \in Writers : journals[v] # EmptyLog}
           \union {worker[v].writer : v \in Workers}

\* The runner hands worker w a task of d's plan; task_store opens the store
\* under the process's token, drawn at its first task.
Claim(w, d, t, writer) ==
  /\ Working(w, "idle") /\ d \in running /\ answers[d][t] = NoBlob
  /\ \A v \in Workers : ~Working(v, "idle") => <<worker[v].driver, Task(v)>> # <<d, t>>
  /\ IF worker[w].writer = NoWriter THEN writer \notin Used
                                    ELSE writer = worker[w].writer
  /\ worker' = [worker EXCEPT ![w] = [pc |-> "get", writer |-> writer, driver |-> d,
                                      task |-> t, bad |-> {}, value |-> NoBlob]]
  /\ UNCHANGED <<files, plan, running, answers, bounds, harmed, recorded, known>>

Deliver(w, digest) ==
  /\ answers' = [answers EXCEPT ![worker[w].driver][Task(w)] = digest]
  /\ worker' = [worker EXCEPT ![w] = Idle(@.writer)]

Servable(w) == Held(w) # NoBlob /\ Get(objects, Held(w)) # NoBlob

Serve(w) ==
  /\ Working(w, "get") /\ Servable(w)
  /\ Deliver(w, Get(objects, Held(w)))
  /\ UNCHANGED <<files, plan, running, bounds, harmed, recorded, known>>

Miss(w) ==
  /\ Working(w, "get") /\ ~Servable(w)
  /\ worker' = [worker EXCEPT ![w].pc = "run",
                              ![w].bad = IF Held(w) = NoBlob THEN @
                                         ELSE RefusedBy(objects, @, Held(w))]
  /\ UNCHANGED <<files, plan, running, answers, bounds, harmed, recorded, known>>

Run(w) ==
  /\ Working(w, "run")
  /\ \E d \in Outcomes[Task(w)] :
       worker' = [worker EXCEPT ![w].pc = "stat", ![w].value = d]
  /\ UNCHANGED <<files, plan, running, answers, bounds, harmed, recorded, known>>

\* A put that journals first and lets the write follow.
Stat_JournalFirst(w) ==
  /\ Working(w, "stat")
  /\ Goes(w, "journal")
  /\ UNCHANGED <<files, plan, running, answers, bounds, harmed, recorded, known>>

\* put looks at the size of what is there, and at what this instance refused.
Stat(w) ==
  /\ Working(w, "stat")
  /\ Goes(w, IF NeedsWrite(objects, worker[w].bad, Value(w)) THEN "replace" ELSE "journal")
  /\ UNCHANGED <<files, plan, running, answers, bounds, harmed, recorded, known>>

\* _atomic_write renames its own temp file over the name, whoever else does.
Replace(w) ==
  /\ Working(w, "replace")
  /\ objects' = Replaced(objects, Value(w))
  /\ volatile' = volatile \union {Value(w)}
  /\ worker' = [worker EXCEPT ![w].pc = "journal", ![w].bad = @ \ {Value(w)}]
  /\ UNCHANGED <<journals, plan, running, answers, bounds, harmed, recorded, known>>

RecordDone(w) ==
  /\ Working(w, "journal")
  /\ journals' = [journals EXCEPT ![worker[w].writer] =
                    Appended(@, [task |-> Task(w), blob |-> Value(w)])]
  /\ recorded' = [recorded EXCEPT ![Task(w)] = @ \union {Value(w)}]
  /\ Deliver(w, Value(w))
  /\ UNCHANGED <<objects, volatile, plan, running, bounds, harmed, known>>

Record(w) == [task |-> Task(w), blob |-> Value(w)]

Crashes == crashes < MaxCrashes /\ crashes' = crashes + 1

\* The task raises: process fails, or a store call does (StoreUnavailableError).
\* The runner hands it out again.  An append that fails may have written a part.
Raise(w) ==
  /\ ~Working(w, "idle")
  /\ Crashes
  /\ IF Working(w, "journal") /\ ShortWrites
     THEN \E left \in CrashedAppends(Journal(w), Record(w), TRUE) :
            journals' = [journals EXCEPT ![worker[w].writer] = left]
     ELSE UNCHANGED journals
  /\ worker' = [worker EXCEPT ![w] = Idle(@.writer)]
  /\ UNCHANGED <<objects, volatile, plan, running, answers, plans, damage,
                 harmed, recorded, known>>

(***************************************************************************)
(* The environment.                                                        *)
(***************************************************************************)

\* The journals processes leave that die now: an append under way is cut
\* anywhere, the rest is as it was.
LeftBy(dying) ==
  LET cut == {w \in dying : Working(w, "journal")}
      Ends(w) == CrashedAppends(Journal(w), Record(w), Tears)
  IN  {[v \in Writers |->
          IF \E w \in cut : worker[w].writer = v
          THEN end[CHOOSE w \in cut : worker[w].writer = v]
          ELSE journals[v]] :
        end \in {e \in [cut -> UNION {Ends(w) : w \in cut}] : \A w \in cut : e[w] \in Ends(w)}}

\* A worker process is killed; the pool starts another, with a token of its own.
Kill(w) ==
  /\ ~Working(w, "idle")
  /\ Crashes
  /\ journals' \in LeftBy({w})
  /\ worker' = [worker EXCEPT ![w] = Idle(NoWriter)]
  /\ UNCHANGED <<objects, volatile, plan, running, answers, plans, damage,
                 harmed, recorded, known>>

\* The machine stops: every process, and the renames that were not durable.
PowerFailure ==
  /\ Crashes
  /\ journals' \in LeftBy(Workers)
  /\ \E lost \in IF Loses THEN SUBSET volatile ELSE {{}} :
       /\ objects' = [d \in Digests |-> IF d \in lost THEN "absent" ELSE objects[d]]
       /\ harmed' = harmed \union lost
  /\ volatile' = {}
  /\ worker' = [w \in Workers |-> Idle(NoWriter)]
  /\ running' = {} /\ answers' = [d \in Drivers |-> NothingHeld]
  /\ plan' = [d \in Drivers |-> NothingHeld]
  /\ UNCHANGED <<plans, damage, recorded, known>>

Damage(digest) ==
  /\ damage < MaxDamage /\ objects[digest] = "good"
  /\ damage' = damage + 1
  /\ \E s \in {"corrupt", "truncated"} : objects' = [objects EXCEPT ![digest] = s]
  /\ harmed' = harmed \union {digest}
  /\ UNCHANGED <<journals, volatile, plan, running, answers, worker, plans,
                 crashes, recorded, known>>

WorkerStep(w) == Serve(w) \/ Miss(w) \/ Run(w) \/ Stat(w) \/ Replace(w) \/ RecordDone(w)

Hand(w) == \E d \in Drivers, t \in Tasks, writer \in Writers : Claim(w, d, t, writer)

Next ==
  \/ \E d \in Drivers : Resumable(d) \/ Return(d)
  \/ \E w \in Workers : Hand(w) \/ WorkerStep(w) \/ Raise(w) \/ Kill(w)
  \/ PowerFailure
  \/ \E digest \in Digests : Damage(digest)

Spec == Init /\ [][Next]_vars

(***************************************************************************)
(* Correctness.                                                            *)
(***************************************************************************)

Records == [task : Tasks, blob : Digests]
\* Whatever was damaged, shared, killed or run twice, a runner gets back for a
\* task only bytes its own process returned at some time.
AnswersAreAuthentic ==
  \A d \in Drivers, t \in Tasks :
    answers[d][t] # NoBlob => answers[d][t] \in Outcomes[t]

\* "The loss from a kill at any moment is the one partition in flight": a worker
\* runs a task only if of the results recorded for it when the driver planned,
\* and there then, none is whole.  (For tasks with one outcome: of several
\* outcomes only the last record's is tried.)
RecordedIsNotRerun ==
  [][\A w \in Workers :
       worker[w].pc = "get" /\ worker'[w].pc = "run" =>
         \A r \in known[worker[w].driver][Task(w)] : Get(objects, r) = NoBlob]_vars

\* What the store would serve for a task.
Kept == [t \in Tasks |-> {digest \in Digests :
           /\ objects[digest] = "good"
           /\ \E w \in Writers : \E i \in Readable(journals[w].lines) :
                journals[w].lines[i] = [task |-> t, blob |-> digest]}]

\* Every plan over the store keeps the promise of DurableResults.
Durable == INSTANCE DurableResults WITH kept <- Kept
KeepsResults == Durable!Spec
=============================================================================
