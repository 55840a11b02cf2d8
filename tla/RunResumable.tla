--------------------------- MODULE RunResumable ---------------------------
(***************************************************************************)
(* run_resumable (python/graphed/checkpoint/runner.py): one driver folds a *)
(* plan's partitions in order, serving those its store holds and running,  *)
(* storing and journalling the others.  The process may die anywhere and   *)
(* be started again over the files it left; a disk may damage an object.   *)
(*                                                                         *)
(* Partition i of the plan is task i.  A task's bytes are one of           *)
(* Outcomes[i] (one, for a deterministic process); those in Poison fail on *)
(* every attempt, those in Flaky may fail or succeed on each.              *)
(***************************************************************************)
EXTENDS StoreFiles, FiniteSets

CONSTANTS
  N,             \* partitions of the plan, Tasks = 1..N
  Outcomes,      \* task -> the digests its process may return
  Poison, Flaky, \* tasks whose process fails always, sometimes
  Retries,       \* attempts the retry policy adds to the first
  ErrorBudget,   \* dead letters tolerated, or NoBudget
  NoBudget,
  Tears,         \* whether a crash may cut an append short
  Loses,         \* whether a crash may undo the renames not yet durable
  MaxCrashes, MaxDamage, MaxRuns

ASSUME RunAssumption ==
  /\ N \in Nat \ {0} /\ Tasks = 1..N
  /\ Outcomes \in [Tasks -> SUBSET Digests] /\ \A t \in Tasks : Outcomes[t] # {}
  /\ Poison \subseteq Tasks /\ Flaky \subseteq Tasks /\ Poison \intersect Flaky = {}
  /\ Retries \in Nat /\ ErrorBudget \in Nat \union {NoBudget} /\ NoBudget \notin Nat
  /\ Tears \in BOOLEAN /\ Loses \in BOOLEAN
  /\ MaxCrashes \in Nat /\ MaxDamage \in Nat /\ MaxRuns \in Nat

VARIABLES
  objects,    \* the object files
  journal,    \* journal.log
  deadlog,    \* dead_letter.log
  volatile,   \* digests renamed into place whose directory entry is not on disk
  pc,         \* where the driver is
  part,       \* the partition it is at
  held,       \* completed(), read once when the run starts
  bad,        \* the store instance's _bad
  value,      \* the digest process returned, in pc "put" and "journal"
  attempts,   \* failed attempts of this partition
  acc,        \* the partials folded so far: what was combined, in order
  report,     \* executed, skipped and dead counts, stopped, dead_letters
  crashes, damage, runs,   \* bounds
  dead,       \* history: the tasks this run dead-lettered
  hit,        \* history: digests damaged or lost since this run started
  committed   \* history: task -> the blob of the last record_done that returned

files   == <<objects, journal, deadlog, volatile>>
driver  == <<pc, part, held, bad, value, attempts, acc, report>>
bounds  == <<crashes, damage, runs>>
history == <<dead, hit, committed>>
vars    == <<files, driver, bounds, history>>

DoneRecord(t, d) == [task |-> t, blob |-> d]

NoReport == [executed |-> 0, skipped |-> 0, dead |-> 0, stopped |-> FALSE,
             letters |-> {}]

NothingHeld == [t \in Tasks |-> NoBlob]

Init ==
  /\ objects = [d \in Digests |-> "absent"] /\ volatile = {}
  /\ journal = EmptyLog /\ deadlog = EmptyLog
  /\ pc = "down" /\ part = 1 /\ held = NothingHeld
  /\ bad = {} /\ value = NoBlob /\ attempts = 0
  /\ acc = << >> /\ report = NoReport
  /\ crashes = 0 /\ damage = 0 /\ runs = 0
  /\ dead = {} /\ hit = {} /\ committed = NothingHeld

(***************************************************************************)
(* The driver.                                                             *)
(***************************************************************************)

\* A run that picks up a persisted running accumulator.
Start_KeepsAccumulator ==
  /\ pc \in {"down", "done"} /\ runs < MaxRuns
  /\ runs' = runs + 1
  /\ pc' = "visit" /\ part' = 1
  /\ held' = Completed(objects, journal.lines)
  /\ bad' = {} /\ value' = NoBlob /\ attempts' = 0
  /\ report' = NoReport
  /\ dead' = {} /\ hit' = {}
  /\ UNCHANGED <<files, acc, crashes, damage, committed>>

\* run_resumable is called: a new store instance, one read of the journal.
Start ==
  /\ pc \in {"down", "done"} /\ runs < MaxRuns
  /\ runs' = runs + 1
  /\ pc' = "visit" /\ part' = 1
  /\ held' = Completed(objects, journal.lines)
  /\ bad' = {} /\ value' = NoBlob /\ attempts' = 0
  /\ acc' = << >> /\ report' = NoReport
  /\ dead' = {} /\ hit' = {}
  /\ UNCHANGED <<files, crashes, damage, committed>>

\* What is combined into the accumulator: the task and the digest its bytes
\* decode from.
Folded(t, d) == Append(acc, [task |-> t, blob |-> d])

\* What _stored_partial finds: an entry whose blob is there and verifies.
Stored(t) == held[t] # NoBlob /\ Get(objects, held[t]) # NoBlob

\* _stored_partial returns the committed partial: fold it, next partition.
Reuse ==
  /\ pc = "visit" /\ part <= N /\ Stored(part)
  /\ acc' = Folded(part, Get(objects, held[part]))
  /\ report' = [report EXCEPT !.skipped = @ + 1]
  /\ part' = part + 1
  /\ UNCHANGED <<files, pc, held, bad, value, attempts, bounds, history>>

\* No entry, or its blob is gone or does not hash to its name.
Miss ==
  /\ pc = "visit" /\ part <= N /\ ~Stored(part)
  /\ bad' = IF held[part] = NoBlob THEN bad ELSE RefusedBy(objects, bad, held[part])
  /\ pc' = "process" /\ attempts' = 0
  /\ UNCHANGED <<files, part, held, value, acc, report, bounds, history>>

\* process returns, at the first attempt or one the retry policy makes.
Succeed ==
  /\ pc = "process" /\ part \notin Poison
  /\ \E d \in Outcomes[part] : value' = d
  /\ pc' = "put"
  /\ UNCHANGED <<files, part, held, bad, attempts, acc, report, bounds, history>>

\* Retries nothing counts.
Fail_Uncounted ==
  /\ pc = "process" /\ part \in Poison \union Flaky
  /\ attempts' = (attempts + 1) % (Retries + 1)
  /\ pc' = IF attempts < Retries + 1 THEN "process" ELSE "letter"
  /\ UNCHANGED <<files, part, held, bad, value, acc, report, bounds, history>>

\* process raises and the policy has an attempt left, or re-raises.
Fail ==
  /\ pc = "process" /\ part \in Poison \union Flaky
  /\ attempts' = attempts + 1
  /\ pc' = IF attempts < Retries THEN "process" ELSE "letter"
  /\ UNCHANGED <<files, part, held, bad, value, acc, report, bounds, history>>

OverBudget_AtLimit(n) == ErrorBudget # NoBudget /\ n >= ErrorBudget

OverBudget(n) == ErrorBudget # NoBudget /\ n > ErrorBudget

RecordDead ==
  /\ pc = "letter"
  /\ deadlog' = Appended(deadlog, part)
  /\ dead' = dead \union {part}
  /\ report' = [report EXCEPT !.dead = @ + 1, !.stopped = OverBudget(report.dead + 1)]
  /\ IF OverBudget(report.dead + 1)
     THEN pc' = "finish" /\ UNCHANGED part
     ELSE pc' = "visit" /\ part' = part + 1
  /\ UNCHANGED <<objects, journal, volatile, held, bad, value, attempts, acc,
                 bounds, hit, committed>>

Put ==
  /\ pc = "put"
  /\ IF NeedsWrite(objects, bad, value)
     THEN /\ objects' = Replaced(objects, value)
          /\ bad' = bad \ {value}
          /\ volatile' = volatile \union {value}
     ELSE UNCHANGED <<objects, bad, volatile>>
  /\ pc' = "journal"
  /\ UNCHANGED <<journal, deadlog, part, held, value, attempts, acc, report,
                 bounds, history>>

RecordDone ==
  /\ pc = "journal"
  /\ journal' = Appended(journal, DoneRecord(part, value))
  /\ committed' = [committed EXCEPT ![part] = value]
  /\ acc' = Folded(part, value)
  /\ report' = [report EXCEPT !.executed = @ + 1]
  /\ pc' = "visit" /\ part' = part + 1
  /\ UNCHANGED <<objects, deadlog, volatile, held, bad, value, attempts, bounds,
                 dead, hit>>

\* The loop ends, or the budget broke it: read the dead letters back, return.
Finish ==
  /\ pc = "finish" \/ (pc = "visit" /\ part > N)
  /\ pc' = "done"
  /\ report' = [report EXCEPT !.letters =
                  {deadlog.lines[i] : i \in Readable(deadlog.lines)}]
  /\ UNCHANGED <<files, part, held, bad, value, attempts, acc, bounds, history>>

(***************************************************************************)
(* The environment.                                                        *)
(***************************************************************************)

\* The process dies.  An append it was in the middle of leaves what an
\* interrupted append may; a power failure may also undo renames whose
\* directory entry was never synced (the code syncs the file, not the
\* directory), which is how a journal line comes to outrace its object.
Crash ==
  /\ pc # "down" /\ crashes < MaxCrashes
  /\ crashes' = crashes + 1
  /\ pc' = "down"
  /\ journal' \in IF pc = "journal"
                  THEN CrashedAppends(journal, DoneRecord(part, value), Tears)
                  ELSE {journal}
  /\ deadlog' \in IF pc = "letter" THEN CrashedAppends(deadlog, part, Tears)
                                   ELSE {deadlog}
  /\ \E lost \in IF Loses THEN SUBSET volatile ELSE {{}} :
       /\ objects' = [d \in Digests |-> IF d \in lost THEN "absent" ELSE objects[d]]
       /\ hit' = hit \union lost
  /\ volatile' = {}
  \* the process's memory goes with it
  /\ part' = 1 /\ held' = NothingHeld /\ bad' = {} /\ value' = NoBlob
  /\ attempts' = 0 /\ acc' = << >> /\ report' = NoReport /\ dead' = {}
  /\ UNCHANGED <<damage, runs, committed>>

\* A disk error or a hand edit damages a stored object.
Damage(d) ==
  /\ damage < MaxDamage /\ objects[d] = "good"
  /\ damage' = damage + 1
  /\ \E s \in {"corrupt", "truncated"} : objects' = [objects EXCEPT ![d] = s]
  /\ hit' = hit \union {d}
  /\ UNCHANGED <<journal, deadlog, volatile, driver, crashes, runs, dead, committed>>

DriverStep == Reuse \/ Miss \/ Succeed \/ Fail \/ RecordDead \/ Put
                    \/ RecordDone \/ Finish

Next ==
  \/ Start
  \/ DriverStep
  \/ Crash
  \/ \E d \in Digests : Damage(d)

Spec == Init /\ [][Next]_vars

\* A started run is scheduled until it returns, and its user starts it again
\* after a crash.
FairSpec == Spec /\ WF_vars(DriverStep) /\ WF_vars(pc = "down" /\ Start)

(***************************************************************************)
(* Correctness.                                                            *)
(***************************************************************************)

Records == [task : Tasks, blob : Digests]

FilesOK ==
  /\ objects \in [Digests -> ObjectStates] /\ volatile \subseteq Digests
  /\ journal \in Logs(Records) /\ deadlog \in Logs(Tasks)

DriverOK ==
  /\ pc \in {"down", "visit", "process", "put", "journal", "letter", "finish", "done"}
  /\ part \in 1..(N + 1)
  /\ held \in [Tasks -> Digests \union {NoBlob}]
  /\ bad \subseteq Digests /\ value \in Digests \union {NoBlob}
  /\ attempts \in Nat
  /\ acc \in Seq([task : Tasks, blob : Digests])

ReportOK ==
  report \in [executed : Nat, skipped : Nat, dead : Nat, stopped : BOOLEAN,
              letters : SUBSET Tasks]

BoundsOK == crashes \in Nat /\ damage \in Nat /\ runs \in Nat

HistoryOK ==
  /\ dead \subseteq Tasks /\ hit \subseteq Digests
  /\ committed \in [Tasks -> Digests \union {NoBlob}]

TypeOK == FilesOK /\ DriverOK /\ ReportOK /\ BoundsOK /\ HistoryOK

FoldedTasks == {acc[k].task : k \in DOMAIN acc}

\* The module doc's "no double-count and no lost partition": wherever crashes
\* fell, what a run has folded is each partition it has passed that it did not
\* dead-letter, once and in plan order, and a run that returns without having
\* stopped has passed them all.
NoDoubleCountNoLoss ==
  pc # "down" =>
    /\ \A j, k \in DOMAIN acc : j < k => acc[j].task < acc[k].task
    /\ FoldedTasks = (1..(part - 1)) \ dead
    /\ pc = "done" /\ ~report.stopped => part = N + 1

\* No fold ever takes damaged bytes, or a result of another task: each partial
\* is one the task's own process returned, whatever the disk did since.
FoldedIsAuthentic ==
  \A k \in DOMAIN acc : acc[k].blob \in Outcomes[acc[k].task]

\* error_budget tolerates exactly that many dead letters: a run never goes on
\* to process a partition past them, and it reports itself stopped just when it
\* exceeded them.
BudgetIsExact ==
  ErrorBudget # NoBudget =>
    /\ pc = "process" => Cardinality(dead) <= ErrorBudget
    /\ pc = "done" => (report.stopped <=> Cardinality(dead) = ErrorBudget + 1)

\* A damaged blob the journal names is repaired by the run that recomputes its
\* task, so the next run is served: what a run returned under the blob it found
\* journalled is stored whole, unless it was damaged again meanwhile.
RefusedIsRewritten ==
  pc = "done" =>
    \A k \in DOMAIN acc :
      acc[k].blob = held[acc[k].task] =>
        objects[acc[k].blob] = "good" \/ acc[k].blob \in hit

\* Tasks whose record_done returned, but which no line of the journal says.
Forgotten ==
  {t \in Tasks : /\ committed[t] # NoBlob
                 /\ ~\E i \in Readable(journal.lines) : journal.lines[i].task = t}

\* "A half-written journal degrades to slightly less recovery": the line an
\* append finds cut short takes that append's record with it, but one crash
\* never costs more than one committed record.
OneLossPerCrash == Cardinality(Forgotten) <= crashes

\* Retries and the budget bound every run's work, so each run ends, and a user
\* who starts it again after each crash gets a result.
Returns == <>(pc = "done") /\ []<>(pc \in {"down", "done"})
=============================================================================
