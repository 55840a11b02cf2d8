------------------------ MODULE RunResumableProofs ------------------------
(***************************************************************************)
(* For every plan, store and choice of crashes and damage: a run folds     *)
(* each partition it passes once, in plan order, and every partial it      *)
(* folds is one the task's own process returned.                           *)
(***************************************************************************)
EXTENDS RunResumable, StoreFilesProofs, FiniteSetTheorems

(***************************************************************************)
(* The inductive invariant.  What a run folds comes from the process, or   *)
(* from a blob the journal named when the run started; so authenticity has *)
(* to be carried by the journal's lines, by what was read from them, and   *)
(* by the digest in flight.  What it has folded is tied to where it is by  *)
(* the dead letters written so far.                                        *)
(***************************************************************************)

JournalAuthentic ==
  \A i \in DOMAIN journal.lines :
    journal.lines[i] # Torn =>
      journal.lines[i].blob \in Outcomes[journal.lines[i].task]

HeldAuthentic ==
  \A t \in Tasks : held[t] # NoBlob => held[t] \in Outcomes[t]

ValueAuthentic ==
  pc \in {"put", "journal"} => part \in Tasks /\ value \in Outcomes[part]

Position ==
  /\ pc \in {"process", "put", "journal", "letter"} => part <= N
  /\ pc \in {"visit", "process", "put", "journal", "letter"} => dead \subseteq 1..(part - 1)
  /\ pc = "finish" => report.stopped
  /\ pc = "done" => report.stopped \/ part = N + 1

FoldInOrder ==
  /\ \A k \in DOMAIN acc : acc[k].task \in (1..(part - 1)) \ dead
  /\ \A t \in (1..(part - 1)) \ dead : \E k \in DOMAIN acc : acc[k].task = t
  /\ \A j, k \in DOMAIN acc : j < k => acc[j].task < acc[k].task

IInv ==
  /\ TypeOK /\ JournalAuthentic /\ HeldAuthentic /\ ValueAuthentic
  /\ FoldedIsAuthentic /\ Position /\ FoldInOrder

\* Reading the journal at the start of a run keeps the authenticity its lines
\* carry.
LEMMA CompletedAuthentic ==
  ASSUME TypeOK, JournalAuthentic
  PROVE  /\ Completed(objects, journal.lines) \in [Tasks -> Digests \union {NoBlob}]
         /\ \A t \in Tasks : Completed(objects, journal.lines)[t] # NoBlob =>
              Completed(objects, journal.lines)[t] \in Outcomes[t]
<1> DEFINE C == Completed(objects, journal.lines)
<1>1. journal \in Logs(Records)
  BY DEF TypeOK, FilesOK
<1>2. ASSUME NEW t \in Tasks, C[t] # NoBlob
      PROVE  C[t] \in Digests /\ C[t] \in Outcomes[t]
  <2>1. PICK i \in DOMAIN journal.lines :
          /\ journal.lines[i] # Torn /\ journal.lines[i].task = t
          /\ C[t] = journal.lines[i].blob
    <3>1. journal \in Logs([task : Tasks, blob : Digests])
      BY <1>1 DEF Records
    <3>2. Completed(objects, journal.lines)[t] # NoBlob
      BY <1>2
    <3>3. \E i \in DOMAIN journal.lines :
            /\ journal.lines[i] # Torn /\ journal.lines[i].task = t
            /\ Completed(objects, journal.lines)[t] = journal.lines[i].blob
            /\ Present(objects, journal.lines[i].blob)
      BY <3>1, <3>2, CompletedIsRecorded
    <3>4. QED
      BY <3>3
  <2>2. journal.lines[i] \in Records
    BY <1>1, <2>1 DEF Logs
  <2>3. QED
    BY <2>1, <2>2 DEF Records, JournalAuthentic
<1>3. C = [t \in Tasks |-> C[t]]
  BY DEF Completed
<1>4. QED
  BY <1>2, <1>3

\* Whatever an append or a crash inside it leaves, the lines stay authentic.
LEMMA JournalStaysAuthentic ==
  ASSUME TypeOK, JournalAuthentic, NEW t \in Tasks, NEW d \in Outcomes[t],
         RunAssumption,
         journal' \in CrashedAppends(journal, DoneRecord(t, d), Tears)
                        \union {Appended(journal, DoneRecord(t, d))}
  PROVE  journal' \in Logs(Records) /\ JournalAuthentic'
<1>1. DoneRecord(t, d) \in Records
  BY DEF DoneRecord, Records, RunAssumption
<1>2. journal \in Logs(Records)
  BY DEF TypeOK, FilesOK
<1>3. /\ journal' \in Logs(Records)
      /\ \A i \in DOMAIN journal'.lines :
           \/ journal'.lines[i] = Torn
           \/ i \in DOMAIN journal.lines /\ journal'.lines[i] = journal.lines[i]
           \/ journal'.lines[i] = DoneRecord(t, d)
  BY <1>1, <1>2, CrashedAppendLines
<1>4. QED
  BY <1>3 DEF JournalAuthentic, DoneRecord

LEMMA InitIInv == RunAssumption /\ Init => IInv
<1> SUFFICES ASSUME RunAssumption, Init PROVE IInv
  OBVIOUS
<1>1. EmptyLog \in Logs(Records) /\ EmptyLog \in Logs(Tasks)
  BY DEF EmptyLog, Logs
<1>2. TypeOK
  BY <1>1 DEF Init, TypeOK, FilesOK, DriverOK, ReportOK, BoundsOK, HistoryOK,
              RunAssumption, NothingHeld, NoReport, ObjectStates
<1>3. QED
  BY <1>2 DEF Init, IInv, JournalAuthentic, HeldAuthentic, ValueAuthentic,
              FoldedIsAuthentic, Position, FoldInOrder, EmptyLog, NothingHeld,
              RunAssumption

(***************************************************************************)
(* Each part of the invariant, preserved by each action.                   *)
(***************************************************************************)

LEMMA NextFiles == RunAssumption /\ IInv /\ [Next]_vars => FilesOK'
<1> SUFFICES ASSUME RunAssumption, IInv, [Next]_vars PROVE FilesOK'
  OBVIOUS
<1> USE DEF IInv, TypeOK, FilesOK
<1>1. CASE UNCHANGED files
  BY <1>1 DEF files
<1>2. CASE RecordDead
  <2>1. part \in Tasks
    BY <1>2 DEF RecordDead, DriverOK, Position, RunAssumption
  <2>2. deadlog' \in Logs(Tasks)
    BY <1>2, <2>1, CrashedAppendLines DEF RecordDead
  <2>3. QED
    BY <1>2, <2>2 DEF RecordDead
<1>3. CASE Put
  <2>1. pc = "put"
    BY <1>3 DEF Put
  <2>2. value \in Digests
    BY <2>1 DEF ValueAuthentic, RunAssumption
  <2>3. Replaced(objects, value) \in [Digests -> ObjectStates]
    BY <2>2 DEF Replaced, ObjectStates
  <2>4. QED
    BY <1>3, <2>2, <2>3 DEF Put
<1>4. CASE RecordDone
  <2>1. part \in Tasks /\ value \in Outcomes[part]
    BY <1>4 DEF RecordDone, ValueAuthentic
  <2>2. journal' \in Logs(Records)
    BY <1>4, <2>1, JournalStaysAuthentic DEF RecordDone
  <2>3. QED
    BY <1>4, <2>2 DEF RecordDone
<1>5. CASE Crash
  <2>1. journal' \in Logs(Records)
    <3>1. CASE pc = "journal"
      BY <1>5, <3>1, JournalStaysAuthentic DEF Crash, ValueAuthentic
    <3>2. CASE pc # "journal"
      BY <1>5, <3>2 DEF Crash
    <3>3. QED
      BY <3>1, <3>2
  <2>2. deadlog' \in Logs(Tasks)
    <3>1. CASE pc = "letter"
      <4>1. part \in Tasks
        BY <3>1 DEF DriverOK, Position, RunAssumption
      <4>2. QED
        BY <1>5, <3>1, <4>1, CrashedAppendLines DEF Crash
    <3>2. CASE pc # "letter"
      BY <1>5, <3>2 DEF Crash
    <3>3. QED
      BY <3>1, <3>2
  <2>3. objects' \in [Digests -> ObjectStates] /\ volatile' \subseteq Digests
    BY <1>5 DEF Crash, ObjectStates
  <2>4. QED
    BY <2>1, <2>2, <2>3
<1>6. CASE \E d \in Digests : Damage(d)
  BY <1>6 DEF Damage, ObjectStates
<1>7. QED
  BY <1>1, <1>2, <1>3, <1>4, <1>5, <1>6
     DEF Next, DriverStep, vars, Start, Reuse, Miss, Succeed, Fail, Finish

LEMMA NextDriver == RunAssumption /\ IInv /\ [Next]_vars => DriverOK'
<1> SUFFICES ASSUME RunAssumption, IInv, [Next]_vars PROVE DriverOK'
  OBVIOUS
<1> USE DEF IInv, TypeOK, DriverOK
<1>1. CASE Start
  <2>1. held' \in [Tasks -> Digests \union {NoBlob}]
    BY <1>1, CompletedAuthentic DEF Start
  <2>2. QED
    BY <1>1, <2>1 DEF Start, RunAssumption
<1>2. CASE Reuse
  <2>1. part \in Tasks /\ Get(objects, held[part]) \in Digests
    BY <1>2 DEF Reuse, Stored, Get, RunAssumption
  <2>2. acc' \in Seq([task : Tasks, blob : Digests])
    BY <1>2, <2>1 DEF Reuse, Folded
  <2>3. QED
    BY <1>2, <2>1, <2>2 DEF Reuse, RunAssumption
<1>3. CASE Miss
  BY <1>3 DEF Miss, RefusedBy, RunAssumption
<1>4. CASE Succeed
  BY <1>4 DEF Succeed, Position, RunAssumption
<1>5. CASE Fail
  BY <1>5 DEF Fail
<1>6. CASE RecordDead
  BY <1>6 DEF RecordDead, Position, RunAssumption
<1>7. CASE Put
  BY <1>7 DEF Put
<1>8. CASE RecordDone
  <2>1. part \in Tasks /\ value \in Digests
    BY <1>8 DEF RecordDone, ValueAuthentic, RunAssumption
  <2>2. acc' \in Seq([task : Tasks, blob : Digests])
    BY <1>8, <2>1 DEF RecordDone, Folded
  <2>3. QED
    BY <1>8, <2>1, <2>2 DEF RecordDone, RunAssumption
<1>9. CASE Finish
  BY <1>9 DEF Finish
<1>10. CASE Crash
  BY <1>10 DEF Crash, NothingHeld, RunAssumption
<1>11. CASE UNCHANGED driver
  BY <1>11 DEF driver
<1>12. QED
  BY <1>1, <1>2, <1>3, <1>4, <1>5, <1>6, <1>7, <1>8, <1>9, <1>10, <1>11
     DEF Next, DriverStep, vars, Damage

LEMMA NextReport == RunAssumption /\ IInv /\ [Next]_vars => ReportOK'
<1> SUFFICES ASSUME RunAssumption, IInv, [Next]_vars PROVE ReportOK'
  OBVIOUS
<1> USE DEF IInv, TypeOK, ReportOK
<1>a. /\ report.executed + 1 \in Nat /\ report.skipped + 1 \in Nat /\ report.dead + 1 \in Nat
  OBVIOUS
<1>1. CASE Finish
  <2>1. {deadlog.lines[i] : i \in Readable(deadlog.lines)} \subseteq Tasks
    BY DEF FilesOK, Logs, Readable
  <2>2. QED
    BY <1>1, <2>1 DEF Finish
<1>2. CASE Start \/ Crash
  <2>1. report' = NoReport
    BY <1>2 DEF Start, Crash
  <2>2. QED
    BY <2>1 DEF NoReport
<1>3. CASE Reuse
  <2>1. report' = [report EXCEPT !.skipped = report.skipped + 1]
    BY <1>3 DEF Reuse
  <2>2. QED
    BY ONLY <1>a, <2>1, IInv DEF IInv, TypeOK, ReportOK
<1>4. CASE RecordDead
  <2>1. PICK b \in BOOLEAN :
          report' = [report EXCEPT !.dead = report.dead + 1, !.stopped = b]
    BY <1>4 DEF RecordDead, OverBudget
  <2>2. QED
    BY ONLY <1>a, <2>1, IInv DEF IInv, TypeOK, ReportOK
<1>5. CASE RecordDone
  <2>1. report' = [report EXCEPT !.executed = report.executed + 1]
    BY <1>5 DEF RecordDone
  <2>2. QED
    BY ONLY <1>a, <2>1, IInv DEF IInv, TypeOK, ReportOK
<1>6. CASE UNCHANGED report
  BY <1>6
<1>7. QED
  BY <1>1, <1>2, <1>3, <1>4, <1>5, <1>6
     DEF Next, DriverStep, vars, driver, Miss, Succeed, Fail, Put, Damage

LEMMA NextHistory == RunAssumption /\ IInv /\ [Next]_vars => BoundsOK' /\ HistoryOK'
<1> SUFFICES ASSUME RunAssumption, IInv, [Next]_vars PROVE BoundsOK' /\ HistoryOK'
  OBVIOUS
<1>1. BoundsOK'
  BY DEF IInv, TypeOK, BoundsOK, Next, DriverStep, vars, bounds, Start, Reuse, Miss,
         Succeed, Fail, RecordDead, Put, RecordDone, Finish, Crash, Damage
<1>2. HistoryOK'
  <2> USE DEF IInv, TypeOK, HistoryOK
  <2>1. CASE RecordDead
    BY <2>1 DEF RecordDead, DriverOK, Position, RunAssumption
  <2>2. CASE RecordDone
    BY <2>2 DEF RecordDone, ValueAuthentic, RunAssumption
  <2>3. CASE Crash
    BY <2>3 DEF Crash, FilesOK
  <2>4. CASE Start
    BY <2>4 DEF Start
  <2>5. CASE \E d \in Digests : Damage(d)
    BY <2>5 DEF Damage
  <2>6. CASE UNCHANGED history
    BY <2>6 DEF history
  <2>7. QED
    BY <2>1, <2>2, <2>3, <2>4, <2>5, <2>6
       DEF Next, DriverStep, vars, Reuse, Miss, Succeed, Fail, Put, Finish
<1>3. QED
  BY <1>1, <1>2

\* Authenticity flows from the process to the journal, and from the journal
\* to what a later run holds.
LEMMA NextSources ==
  RunAssumption /\ IInv /\ [Next]_vars
    => JournalAuthentic' /\ HeldAuthentic' /\ ValueAuthentic'
<1> SUFFICES ASSUME RunAssumption, IInv, [Next]_vars
             PROVE  JournalAuthentic' /\ HeldAuthentic' /\ ValueAuthentic'
  OBVIOUS
<1> USE DEF IInv
<1>1. JournalAuthentic'
  <2>1. CASE RecordDone
    BY <2>1, JournalStaysAuthentic DEF RecordDone, ValueAuthentic
  <2>2. CASE Crash /\ pc = "journal"
    BY <2>2, JournalStaysAuthentic DEF Crash, ValueAuthentic
  <2>3. CASE UNCHANGED journal
    BY <2>3 DEF JournalAuthentic
  <2>4. QED
    BY <2>1, <2>2, <2>3
       DEF Next, DriverStep, vars, files, Start, Reuse, Miss, Succeed, Fail, RecordDead,
           Put, Finish, Crash, Damage
<1>2. HeldAuthentic'
  <2>1. CASE Start
    BY <2>1, CompletedAuthentic DEF Start, HeldAuthentic
  <2>2. CASE Crash
    BY <2>2 DEF Crash, HeldAuthentic, NothingHeld
  <2>3. CASE UNCHANGED held
    BY <2>3 DEF HeldAuthentic
  <2>4. QED
    BY <2>1, <2>2, <2>3
       DEF Next, DriverStep, vars, driver, Reuse, Miss, Succeed, Fail, RecordDead, Put,
           RecordDone, Finish, Damage
<1>3. ValueAuthentic'
  <2>1. CASE Succeed
    BY <2>1 DEF Succeed, ValueAuthentic, TypeOK, DriverOK, Position, RunAssumption
  <2>2. CASE Put
    BY <2>2 DEF Put, ValueAuthentic
  <2>3. CASE UNCHANGED <<pc, part, value>>
    BY <2>3 DEF ValueAuthentic
  <2>4. CASE pc' \notin {"put", "journal"}
    BY <2>4 DEF ValueAuthentic
  <2>5. QED
    BY <2>1, <2>2, <2>3, <2>4
       DEF Next, DriverStep, vars, driver, Start, Reuse, Miss, Fail, RecordDead,
           RecordDone, Finish, Crash, Damage
<1>4. QED
  BY <1>1, <1>2, <1>3

\* What is folded follows the position in the plan and the dead letters.
LEMMA NextFold ==
  RunAssumption /\ IInv /\ [Next]_vars
    => FoldedIsAuthentic' /\ Position' /\ FoldInOrder'
<1> SUFFICES ASSUME RunAssumption, IInv, [Next]_vars
             PROVE  FoldedIsAuthentic' /\ Position' /\ FoldInOrder'
  OBVIOUS
<1> USE DEF IInv, TypeOK, DriverOK
<1>1. ASSUME NEW d \in Outcomes[part], pc \in {"visit", "journal"}, pc' = "visit",
             part \in Tasks, part' = part + 1, dead' = dead, dead \subseteq 1..(part - 1),
             acc' = Append(acc, [task |-> part, blob |-> d])
      PROVE  FoldedIsAuthentic' /\ Position' /\ FoldInOrder'
  <2>1. /\ Len(acc) \in Nat /\ DOMAIN acc = 1..Len(acc)
        /\ DOMAIN acc' = 1..(Len(acc) + 1)
        /\ \A k \in DOMAIN acc : acc'[k] = acc[k]
        /\ acc'[Len(acc) + 1] = [task |-> part, blob |-> d]
    BY <1>1
  <2>2. FoldedIsAuthentic'
    BY <1>1, <2>1 DEF FoldedIsAuthentic
  <2>3. Position'
    BY <1>1 DEF Position
  <2>4. \A k \in DOMAIN acc' : acc'[k].task \in (1..(part' - 1)) \ dead'
    BY <1>1, <2>1 DEF FoldInOrder
  <2>5. \A t \in (1..(part' - 1)) \ dead' : \E k \in DOMAIN acc' : acc'[k].task = t
    <3>1. TAKE t \in (1..(part' - 1)) \ dead'
    <3>2. CASE t = part
      BY <2>1, <3>2
    <3>3. CASE t # part
      <4>1. t \in (1..(part - 1)) \ dead
        BY <1>1, <3>3
      <4>2. PICK k \in DOMAIN acc : acc[k].task = t
        BY <4>1 DEF FoldInOrder
      <4>3. QED
        BY <2>1, <4>2
    <3>4. QED
      BY <3>2, <3>3
  <2>6. \A j, k \in DOMAIN acc' : j < k => acc'[j].task < acc'[k].task
    <3>1. \A j \in DOMAIN acc : acc[j].task < part
      BY <1>1 DEF FoldInOrder
    <3>2. \A j, k \in DOMAIN acc : j < k => acc[j].task < acc[k].task
      BY DEF FoldInOrder
    <3>3. acc'[Len(acc) + 1].task = part
      BY <2>1
    <3>4. QED
      BY ONLY <2>1, <3>1, <3>2, <3>3
  <2>7. QED
    BY <2>2, <2>3, <2>4, <2>5, <2>6 DEF FoldInOrder
<1>2. CASE Reuse
  <2>1. part \in Tasks /\ Get(objects, held[part]) \in Outcomes[part]
    BY <1>2 DEF Reuse, Stored, Get, HeldAuthentic, RunAssumption
  <2>2. QED
    BY <1>1, <1>2, <2>1 DEF Reuse, Folded, history, Position
<1>3. CASE RecordDone
  BY <1>1, <1>3 DEF RecordDone, Folded, ValueAuthentic, Position
<1>4. CASE RecordDead
  <2>1. /\ part \in 1..N /\ dead \subseteq 1..(part - 1) /\ dead' = dead \union {part}
        /\ acc' = acc /\ part' \in {part, part + 1}
        /\ pc' \in {"finish", "visit"} /\ (pc' = "visit" => part' = part + 1)
        /\ (pc' = "finish" => report'.stopped)
    BY <1>4 DEF RecordDead, Position, ReportOK
  <2>2. (1..(part' - 1)) \ dead' = (1..(part - 1)) \ dead
    BY <2>1
  <2>3. FoldedIsAuthentic'
    BY <2>1 DEF FoldedIsAuthentic
  <2>4. FoldInOrder'
    BY <2>1, <2>2 DEF FoldInOrder
  <2>5. Position'
    <3>1. dead' \subseteq 1..((part + 1) - 1)
      BY <2>1
    <3>2. CASE pc' = "visit"
      BY <2>1, <3>1, <3>2 DEF Position
    <3>3. CASE pc' = "finish"
      BY <2>1, <3>3 DEF Position
    <3>4. QED
      BY <2>1, <3>2, <3>3
  <2>6. QED
    BY <2>3, <2>4, <2>5
<1>5. CASE Start \/ Crash
  BY <1>5 DEF Start, Crash, FoldedIsAuthentic, FoldInOrder, Position
<1>6. CASE Finish
  BY <1>6 DEF Finish, FoldedIsAuthentic, FoldInOrder, Position, history, ReportOK
<1>7. CASE UNCHANGED <<acc, part, dead, report>> /\ pc = "visit" /\ pc' = "process" /\ part <= N
  BY <1>7 DEF FoldedIsAuthentic, FoldInOrder, Position
<1>8. CASE /\ UNCHANGED <<acc, part, dead, report>>
           /\ pc \in {"process", "put"} /\ pc' \in {"process", "put", "letter", "journal"}
  BY <1>8 DEF FoldedIsAuthentic, FoldInOrder, Position
<1>9. CASE UNCHANGED <<acc, part, dead, report, pc>>
  BY <1>9 DEF FoldedIsAuthentic, FoldInOrder, Position
<1>10. QED
  BY <1>2, <1>3, <1>4, <1>5, <1>6, <1>7, <1>8, <1>9
     DEF Next, DriverStep, vars, driver, history, Miss, Succeed, Fail, Put, Damage

LEMMA NextIInv == RunAssumption /\ IInv /\ [Next]_vars => IInv'
BY NextFiles, NextDriver, NextReport, NextHistory, NextSources, NextFold
   DEF IInv, TypeOK

LEMMA Invariance == Spec => []IInv
<1>1. RunAssumption
  BY RunAssumption
<1>2. QED
  BY <1>1, InitIInv, NextIInv, PTL DEF Spec

\* The state always has the shapes the driver and its files have.
THEOREM Typing == Spec => []TypeOK
BY Invariance, PTL DEF IInv

\* "A crash at any point causes no double-count and no lost partition"
\* (store.py), for run_resumable.
THEOREM ExactlyOnce == Spec => []NoDoubleCountNoLoss
<1>1. IInv => NoDoubleCountNoLoss
  <2> SUFFICES ASSUME IInv, pc # "down" PROVE NoDoubleCountNoLoss
    BY DEF NoDoubleCountNoLoss
  <2>1. FoldedTasks = (1..(part - 1)) \ dead
    BY DEF IInv, FoldInOrder, FoldedTasks
  <2>2. QED
    BY <2>1 DEF IInv, FoldInOrder, Position, NoDoubleCountNoLoss
<1>2. QED
  BY <1>1, Invariance, PTL

\* No damaged or foreign bytes are ever combined into a result.
THEOREM Authentic == Spec => []FoldedIsAuthentic
BY Invariance, PTL DEF IInv

(***************************************************************************)
(* The error budget.  The report's count is the number of tasks dead-      *)
(* lettered, none twice, because the position never comes back to a task;  *)
(* and a run that is still going has not exceeded the budget.              *)
(***************************************************************************)

BudgetKept ==
  /\ IsFiniteSet(dead) /\ Cardinality(dead) = report.dead
  /\ pc \in {"visit", "process", "put", "journal", "letter"} =>
       ~report.stopped /\ ~OverBudget(report.dead)
  /\ pc \in {"finish", "done"} =>
       (report.stopped <=> ErrorBudget # NoBudget /\ report.dead = ErrorBudget + 1)

LEMMA NextBudget == RunAssumption /\ IInv /\ BudgetKept /\ [Next]_vars => BudgetKept'
<1> SUFFICES ASSUME RunAssumption, IInv, BudgetKept, [Next]_vars PROVE BudgetKept'
  OBVIOUS
<1> USE DEF BudgetKept
<1>0. report \in [executed : Nat, skipped : Nat, dead : Nat, stopped : BOOLEAN,
                  letters : SUBSET Tasks]
  BY DEF IInv, TypeOK, ReportOK
<1>1. CASE RecordDead
  <2>1. pc = "letter" /\ part \notin dead /\ dead' = dead \union {part}
    BY <1>1 DEF RecordDead, IInv, Position, TypeOK, DriverOK, RunAssumption
  <2>2. IsFiniteSet(dead') /\ Cardinality(dead') = report.dead + 1
    BY <2>1, FS_AddElement
  <2>3. PICK b \in BOOLEAN : /\ b = OverBudget(report.dead + 1)
                             /\ report' = [report EXCEPT !.dead = report.dead + 1, !.stopped = b]
    BY <1>1 DEF RecordDead, OverBudget
  <2>4. report'.dead = report.dead + 1 /\ report'.stopped = b
    BY ONLY <1>0, <2>3
  <2>5. pc' = IF b THEN "finish" ELSE "visit"
    BY <1>1, <2>3 DEF RecordDead
  <2>6. ~OverBudget(report.dead) /\ report.dead \in Nat
    BY <1>0, <2>1
  <2>7. OverBudget(report.dead + 1) =>
          ErrorBudget # NoBudget /\ report.dead + 1 = ErrorBudget + 1
    <3>1. ErrorBudget # NoBudget => ErrorBudget \in Nat
      BY DEF RunAssumption
    <3>2. QED
      BY <2>6, <3>1 DEF OverBudget
  <2>8. QED
    BY <2>2, <2>3, <2>4, <2>5, <2>7
<1>2. CASE Start \/ Crash
  <2>1. dead' = {} /\ report' = NoReport /\ pc' \in {"visit", "down"}
    BY <1>2 DEF Start, Crash
  <2>2. IsFiniteSet(dead') /\ Cardinality(dead') = 0
    BY <2>1, FS_EmptySet
  <2>3. ~OverBudget(0)
    BY DEF OverBudget, RunAssumption
  <2>4. QED
    BY <2>1, <2>2, <2>3 DEF NoReport
<1>3. CASE Finish
  <2>1. dead' = dead /\ report'.dead = report.dead /\ report'.stopped = report.stopped
    BY <1>0, <1>3 DEF Finish, history
  <2>2. pc' = "done" /\ pc \in {"finish", "visit"}
    BY <1>3 DEF Finish
  <2>3. CASE pc = "finish"
    BY <2>1, <2>2, <2>3
  <2>4. CASE pc = "visit"
    <3>1. ~report.stopped /\ (ErrorBudget # NoBudget => report.dead # ErrorBudget + 1)
      BY <1>0, <2>4 DEF OverBudget, RunAssumption
    <3>2. QED
      BY <2>1, <2>2, <3>1
  <2>5. QED
    BY <2>2, <2>3, <2>4
<1>4. ASSUME dead' = dead, report'.dead = report.dead, report'.stopped = report.stopped,
             \/ pc' = pc
             \/ /\ pc \in {"visit", "process", "put", "journal"}
                /\ pc' \in {"visit", "process", "put", "journal", "letter"}
      PROVE  BudgetKept'
  BY <1>4
<1>5. CASE Reuse \/ RecordDone
  <2>1. report'.dead = report.dead /\ report'.stopped = report.stopped
    BY <1>0, <1>5 DEF Reuse, RecordDone
  <2>2. QED
    BY <1>4, <1>5, <2>1 DEF Reuse, RecordDone, history
<1>6. CASE Miss \/ Succeed \/ Fail \/ Put
  BY <1>4, <1>6 DEF Miss, Succeed, Fail, Put, history
<1>7. CASE UNCHANGED <<pc, dead, report>>
  BY <1>7
<1>8. QED
  BY <1>1, <1>2, <1>3, <1>5, <1>6, <1>7
     DEF Next, DriverStep, vars, driver, history, Damage

\* A run goes on while its dead letters are within error_budget, and reports
\* itself stopped exactly when one more than that was written.
THEOREM Budget == Spec => []BudgetIsExact
<1>1. Init => BudgetKept
  BY FS_EmptySet DEF Init, BudgetKept, NoReport
<1>2. RunAssumption
  BY RunAssumption
<1>3. IInv /\ BudgetKept => BudgetIsExact
  BY RunAssumption
     DEF BudgetKept, BudgetIsExact, OverBudget, IInv, TypeOK, ReportOK, RunAssumption
<1>4. QED
  BY <1>1, <1>2, <1>3, Invariance, NextBudget, PTL DEF Spec

(***************************************************************************)
(* Repair.  A run that recomputes a task because the blob its journal      *)
(* names was refused remembers the refusal until it puts that blob again,  *)
(* so a put of the same bytes rewrites it.                                 *)
(***************************************************************************)

WholeOrHit == {d \in Digests : objects[d] = "good" \/ d \in hit}

RefusedIsKnown ==
  pc \in {"process", "put"} /\ held[part] # NoBlob =>
    held[part] \in bad \/ objects[held[part]] = "absent"

Repaired ==
  /\ RefusedIsKnown
  /\ pc = "journal" /\ value = held[part] => value \in WholeOrHit
  /\ \A k \in DOMAIN acc : acc[k].blob = held[acc[k].task] => acc[k].blob \in WholeOrHit

LEMMA NextRepaired == RunAssumption /\ IInv /\ Repaired /\ [Next]_vars => Repaired'
<1> SUFFICES ASSUME RunAssumption, IInv, Repaired, [Next]_vars PROVE Repaired'
  OBVIOUS
<1> USE DEF Repaired
<1>0. /\ acc \in Seq([task : Tasks, blob : Digests])
      /\ objects \in [Digests -> ObjectStates]
      /\ held \in [Tasks -> Digests \union {NoBlob}]
      /\ part \in 1..(N + 1) /\ N \in Nat /\ Tasks = 1..N
  BY DEF IInv, TypeOK, DriverOK, FilesOK, RunAssumption
<1>a. ASSUME NEW k \in DOMAIN acc PROVE acc[k].task \in Tasks /\ acc[k].blob \in Digests
  <2>1. acc \in Seq([task : Tasks, blob : Digests]) /\ k \in 1..Len(acc)
    BY <1>0
  <2>2. acc[k] \in [task : Tasks, blob : Digests]
    BY ONLY <2>1, ElementOfSeq
  <2>3. QED
    BY ONLY <2>2
\* What was whole stays so until the process that saw it dies.
<1>b. ASSUME pc' # "down", ~Start, NEW d \in Digests, d \in WholeOrHit PROVE d \in WholeOrHit'
  BY <1>0, <1>b
     DEF WholeOrHit, Next, DriverStep, vars, files, history, Reuse, Miss, Succeed, Fail,
         RecordDead, Put, RecordDone, Finish, Crash, Damage, Replaced
<1>c. ASSUME part \in Tasks, NEW d \in Digests, held' = held,
             acc' = Append(acc, [task |-> part, blob |-> d]),
             d = held[part] => d \in WholeOrHit', pc' # "down", ~Start
      PROVE  \A k \in DOMAIN acc' : acc'[k].blob = held'[acc'[k].task] => acc'[k].blob \in WholeOrHit'
  <2>1. /\ Len(acc) \in Nat /\ DOMAIN acc = 1..Len(acc)
        /\ DOMAIN acc' = 1..(Len(acc) + 1)
        /\ \A k \in DOMAIN acc : acc'[k] = acc[k]
        /\ acc'[Len(acc) + 1] = [task |-> part, blob |-> d]
    BY <1>0, <1>c
  <2>2. QED
    BY <1>a, <1>b, <1>c, <2>1
<1>1. CASE Start \/ Crash
  BY <1>1 DEF Start, Crash, RefusedIsKnown
<1>2. CASE Reuse
  <2>1. part \in Tasks /\ Get(objects, held[part]) = held[part] /\ held[part] \in Digests
    BY <1>0, <1>2 DEF Reuse, Stored, Get
  <2>2. objects[held[part]] = "good"
    BY <2>1, <1>0, FilesAssumption DEF Get, Content, ObjectStates, FilesAssumption
  <2>3. held[part] \in WholeOrHit'
    BY <1>2, <2>1, <2>2 DEF Reuse, files, WholeOrHit
  <2>4. acc' = Append(acc, [task |-> part, blob |-> held[part]])
    BY <1>2, <2>1 DEF Reuse, Folded
  <2>5. pc' = "visit" /\ pc = "visit" /\ held' = held
    BY <1>2 DEF Reuse
  <2>6. \A k \in DOMAIN acc' : acc'[k].blob = held'[acc'[k].task] => acc'[k].blob \in WholeOrHit'
    BY <1>c, <1>1, <2>1, <2>3, <2>4, <2>5
  <2>7. QED
    BY <2>5, <2>6 DEF RefusedIsKnown
<1>3. CASE Miss
  <2>1. part \in Tasks
    BY <1>0, <1>3 DEF Miss
  <2>2. held[part] # NoBlob => held[part] \in bad' \/ objects[held[part]] = "absent"
    BY <1>0, <1>3, <2>1 DEF Miss, Stored, Get, Content, RefusedBy, ObjectStates
  <2>3. RefusedIsKnown'
    BY <1>3, <2>2 DEF Miss, RefusedIsKnown, files
  <2>4. QED
    BY <1>3, <2>3 DEF Miss, WholeOrHit, files, history
<1>4. CASE Succeed \/ Fail
  BY <1>4 DEF Succeed, Fail, RefusedIsKnown, WholeOrHit, files, history
<1>5. CASE Put
  <2>1. part \in Tasks /\ value \in Digests
    BY <1>5, <1>0 DEF Put, IInv, ValueAuthentic, RunAssumption
  <2>2. value = held[part] => value \in WholeOrHit'
    <3>1. CASE NeedsWrite(objects, bad, value)
      BY <1>0, <1>5, <2>1, <3>1 DEF Put, Replaced, WholeOrHit
    <3>2. CASE ~NeedsWrite(objects, bad, value) /\ value = held[part]
      <4>1. held[part] # NoBlob
        BY <2>1, <3>2, FilesAssumption DEF FilesAssumption
      <4>2. value \in bad \/ objects[value] = "absent"
        BY <1>5, <3>2, <4>1 DEF RefusedIsKnown, Put
      <4>3. QED
        BY <3>2, <4>2 DEF NeedsWrite
    <3>3. QED
      BY <3>1, <3>2
  <2>3. /\ pc' = "journal" /\ held' = held /\ acc' = acc /\ part' = part
        /\ value' = value
    BY <1>5 DEF Put
  <2>4. QED
    BY <1>a, <1>b, <1>1, <2>2, <2>3 DEF RefusedIsKnown, WholeOrHit
<1>6. CASE RecordDone
  <2>1. part \in Tasks /\ value \in Digests
    BY <1>6, <1>0 DEF RecordDone, IInv, ValueAuthentic, RunAssumption
  <2>2. value = held[part] => value \in WholeOrHit'
    BY <1>6 DEF RecordDone, WholeOrHit
  <2>3. /\ acc' = Append(acc, [task |-> part, blob |-> value])
        /\ pc' = "visit" /\ held' = held /\ pc = "journal"
    BY <1>6 DEF RecordDone, Folded
  <2>4. \A k \in DOMAIN acc' : acc'[k].blob = held'[acc'[k].task] => acc'[k].blob \in WholeOrHit'
    BY <1>c, <1>1, <2>1, <2>2, <2>3
  <2>5. QED
    BY <2>3, <2>4 DEF RefusedIsKnown
<1>7. CASE RecordDead \/ Finish
  BY <1>7 DEF RecordDead, Finish, RefusedIsKnown, WholeOrHit, files, history
<1>8. CASE \E d \in Digests : Damage(d)
  <2>1. PICK d \in Digests : Damage(d)
    BY <1>8
  <2>2. UNCHANGED <<pc, part, held, bad, value, acc>> /\ objects[d] = "good"
    BY <2>1 DEF Damage, driver
  <2>3. \A x \in Digests : x \in WholeOrHit => x \in WholeOrHit'
    BY <1>0, <2>1 DEF Damage, WholeOrHit
  <2>4. \A x \in Digests : objects[x] = "absent" => objects'[x] = "absent"
    BY <1>0, <2>1 DEF Damage
  <2>5. RefusedIsKnown'
    <3>1. pc \in {"process", "put"} => part \in Tasks
      BY <1>0 DEF IInv, Position
    <3>2. QED
      BY <1>0, <2>2, <2>4, <3>1 DEF RefusedIsKnown
  <2>6. pc = "journal" => value \in Digests
    BY DEF IInv, ValueAuthentic, RunAssumption
  <2>7. QED
    BY <1>a, <2>2, <2>3, <2>5, <2>6
<1>9. CASE UNCHANGED vars
  BY <1>9 DEF vars, files, driver, history, RefusedIsKnown, WholeOrHit
<1>10. QED
  BY <1>1, <1>2, <1>3, <1>4, <1>5, <1>6, <1>7, <1>8, <1>9 DEF Next, DriverStep

\* A blob that was refused is put again by the run that recomputes its task:
\* the next run is served from it.
THEOREM Repair == Spec => []RefusedIsRewritten
<1>1. Init => Repaired
  BY DEF Init, Repaired, RefusedIsKnown
<1>2. RunAssumption
  BY RunAssumption
<1>3. Repaired => RefusedIsRewritten
  BY DEF Repaired, RefusedIsRewritten, WholeOrHit
<1>4. QED
  BY <1>1, <1>2, <1>3, Invariance, NextRepaired, PTL DEF Spec

(***************************************************************************)
(* Losses.  A committed record is at risk when no solid line says it: an   *)
(* unended last one the next append takes with it.  A crash                *)
(* puts at most one record at risk; an append onto an unended line ends    *)
(* the line, so that one crash is paid for once.                           *)
(***************************************************************************)

AtRisk ==
  {t \in Tasks : /\ committed[t] # NoBlob
                 /\ ~\E i \in Solid(journal) : journal.lines[i].task = t}

Unpaid == IF journal.ended THEN 0 ELSE 1

LossBounded == Cardinality(AtRisk) + Unpaid <= crashes

LEMMA NextLoss == RunAssumption /\ IInv /\ LossBounded /\ [Next]_vars => LossBounded'
<1> SUFFICES ASSUME RunAssumption, IInv, LossBounded, [Next]_vars PROVE LossBounded'
  OBVIOUS
<1>0. /\ journal \in Logs(Records) /\ journal.ended \in BOOLEAN /\ crashes \in Nat
      /\ committed \in [Tasks -> Digests \union {NoBlob}]
      /\ IsFiniteSet(Tasks)
  BY FS_Interval DEF IInv, TypeOK, FilesOK, BoundsOK, HistoryOK, Logs, RunAssumption
<1>a. \A S \in SUBSET Tasks : IsFiniteSet(S) /\ Cardinality(S) \in Nat
  BY <1>0, FS_Subset, FS_CardinalityType
<1>b. AtRisk \in SUBSET Tasks /\ AtRisk' \in SUBSET Tasks
  BY DEF AtRisk
<1>c. \A S, T \in SUBSET Tasks : S \subseteq T => Cardinality(S) <= Cardinality(T)
  BY <1>a, FS_Subset
<1>1. CASE RecordDone
  <2>1. /\ part \in Tasks /\ value \in Digests /\ DoneRecord(part, value) \in Records
        /\ journal' = Appended(journal, DoneRecord(part, value))
        /\ committed' = [committed EXCEPT ![part] = value]
        /\ crashes' = crashes
    BY <1>1 DEF RecordDone, IInv, ValueAuthentic, RunAssumption, DoneRecord, Records, bounds
  <2>2. AtRisk' \subseteq AtRisk \union {part}
    <3>1. \A i \in Solid(journal) : i \in Solid(journal') /\ journal'.lines[i] = journal.lines[i]
      BY <1>0, <2>1, SolidStays
    <3>2. QED
      BY <1>0, <2>1, <3>1 DEF AtRisk
  <2>3. Unpaid' = 0
    BY <2>1 DEF Unpaid, Appended
  <2>4. CASE journal.ended
    <3>1. \E i \in Solid(journal') : journal'.lines[i].task = part
      <4>1. PICK i \in Solid(journal') : journal'.lines[i] = DoneRecord(part, value)
        <5>1. DoneRecord(part, value) # Torn
          BY <2>1, FilesAssumption DEF FilesAssumption, Records
        <5>2. QED
          BY <1>0, <2>1, <2>4, <5>1, AppendedIsSolid
      <4>2. QED
        BY <4>1 DEF DoneRecord
    <3>2. AtRisk' \subseteq AtRisk
      BY <2>2, <3>1 DEF AtRisk
    <3>3. QED
      BY <1>a, <1>b, <1>c, <1>0, <2>1, <2>3, <2>4, <3>2 DEF LossBounded, Unpaid
  <2>5. CASE ~journal.ended
    <3>1. Cardinality(AtRisk \union {part}) <= Cardinality(AtRisk) + 1
      <4>1. IsFiniteSet(AtRisk) /\ Cardinality(AtRisk) \in Nat
        BY <1>a, <1>b
      <4>2. Cardinality(AtRisk \union {part}) =
              IF part \in AtRisk THEN Cardinality(AtRisk) ELSE Cardinality(AtRisk) + 1
        BY <4>1, FS_AddElement
      <4>3. QED
        BY ONLY <4>1, <4>2
    <3>2. AtRisk \union {part} \in SUBSET Tasks
      BY <1>b, <2>1
    <3>3. Cardinality(AtRisk') <= Cardinality(AtRisk \union {part})
      BY <1>b, <1>c, <2>2, <3>2
    <3>4. Unpaid = 1
      BY <2>5 DEF Unpaid
    <3>5. QED
      BY <1>a, <1>b, <1>0, <2>1, <2>3, <3>1, <3>2, <3>3, <3>4 DEF LossBounded
  <2>6. QED
    BY <2>4, <2>5
<1>2. CASE Crash
  <2>1. committed' = committed /\ crashes' = crashes + 1
    BY <1>2 DEF Crash
  <2>2. \A i \in Solid(journal) : i \in Solid(journal') /\ journal'.lines[i] = journal.lines[i]
    <3>1. CASE pc = "journal"
      <4>1. DoneRecord(part, value) \in Records
        BY <3>1 DEF IInv, ValueAuthentic, RunAssumption, DoneRecord, Records
      <4>2. QED
        BY <1>0, <1>2, <3>1, <4>1, SolidStays DEF Crash
    <3>2. CASE pc # "journal"
      BY <1>2, <3>2 DEF Crash
    <3>3. QED
      BY <3>1, <3>2
  <2>3. AtRisk' \subseteq AtRisk
    BY <2>1, <2>2 DEF AtRisk
  <2>4. Unpaid \in {0, 1} /\ Unpaid' \in {0, 1}
    BY DEF Unpaid
  <2>5. QED
    BY <1>0, <1>a, <1>b, <1>c, <2>1, <2>3, <2>4 DEF LossBounded
<1>3. CASE UNCHANGED <<journal, committed, crashes>>
  BY <1>3 DEF LossBounded, AtRisk, Unpaid
<1>4. QED
  BY <1>1, <1>2, <1>3
     DEF Next, DriverStep, vars, files, bounds, history, Start, Reuse, Miss, Succeed, Fail,
         RecordDead, Put, Finish, Damage

\* "A half-written journal degrades to slightly less recovery" (store.py): of
\* the records whose record_done returned, no more are lost than there were
\* crashes.
THEOREM Losses == Spec => []OneLossPerCrash
<1>1. RunAssumption
  BY RunAssumption
<1>2. Init => LossBounded
  <2> SUFFICES ASSUME Init PROVE LossBounded
    OBVIOUS
  <2>1. AtRisk = {} /\ Unpaid = 0 /\ crashes = 0
    BY DEF Init, AtRisk, Unpaid, EmptyLog, NothingHeld
  <2>2. QED
    BY <2>1, FS_EmptySet DEF LossBounded
<1>3. IInv /\ LossBounded => OneLossPerCrash
  <2> SUFFICES ASSUME IInv, LossBounded PROVE OneLossPerCrash
    OBVIOUS
  <2>1. Forgotten \subseteq AtRisk /\ AtRisk \subseteq Tasks
    BY DEF Forgotten, AtRisk, Solid
  <2>2. IsFiniteSet(AtRisk)
    <3>1. IsFiniteSet(Tasks)
      BY <1>1, FS_Interval DEF RunAssumption
    <3>2. QED
      BY <2>1, <3>1, FS_Subset
  <2>3. Cardinality(Forgotten) <= Cardinality(AtRisk) /\ Cardinality(AtRisk) \in Nat
        /\ Cardinality(Forgotten) \in Nat
    BY <2>1, <2>2, FS_Subset, FS_CardinalityType
  <2>4. Unpaid \in {0, 1} /\ crashes \in Nat
    BY DEF Unpaid, IInv, TypeOK, BoundsOK
  <2>5. QED
    BY <2>3, <2>4 DEF OneLossPerCrash, LossBounded
<1>4. QED
  BY <1>1, <1>2, <1>3, Invariance, NextLoss, PTL DEF Spec
=============================================================================
