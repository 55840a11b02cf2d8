--------------------------- MODULE DriverProofs ---------------------------
(***************************************************************************)
(* What a driver keeps account of.  Under which environments the store's   *)
(* results were made (EnvironmentRecord), for any number of runs and       *)
(* environments, overlapping or not, killed or not: a run that was alone and*)
(* goes on without accepting is served no environment's results but its own*)
(* and those some run accepted, and one in the environment recorded last is*)
(* not refused; both hold if no kill cuts an append to the journal short   *)
(* (Tears).  And which chunks failed (SkipFailed), for any number of chunks,*)
(* any shape of the merge tree, any budget and any blame for lost workers: *)
(* each chunk is in the value or among the failures, once; the budget is met*)
(* exactly; and what is told on the driver are warnings of chunks in the   *)
(* value, all but those their process had shown for what is not in it.     *)
(***************************************************************************)
EXTENDS EnvironmentRecord, SkipFailed, FiniteSetTheorems, TLAPS

(***************************************************************************)
(* The environment record.                                                 *)
(***************************************************************************)
EnvRecords == [n : Nat \ {0}, env : Envs]

\* The records there are.
Written == {records.lines[i] : i \in DOMAIN records.lines}

Phases  == {"read", "check", "record", "running", "refused", "done"}
Reading == {"read", "check", "record"}

\* Some record of a set is numbered last, if there is one.
HasTop(recs) == recs = {} \/ \E rec \in recs : \A s \in recs : s.n <= rec.n

JournalOK ==
  /\ records.lines \in Seq(EnvRecords) /\ records.ended = TRUE
  /\ blobs \subseteq Envs /\ \A rec \in Written : rec.env \in blobs
  /\ HasTop(Written)

States ==
  [pc : Phases, env : Envs, accept : BOOLEAN, seen : SUBSET EnvRecords, held : SUBSET Envs,
   alone : BOOLEAN]

RunsOK == run \in [Runs -> {Idle} \union States] /\ results \subseteq Envs

(***************************************************************************)
(* What a run has read.  That of a run which is alone is what there is.    *)
(***************************************************************************)

Snapshot(r) ==
  /\ run[r].alone => Alone(r)
  /\ HasTop(run[r].seen)
  /\ run[r].pc \in Reading /\ run[r].alone => run[r].seen = Written
  /\ run[r].pc \in {"check", "record"} /\ run[r].alone => run[r].held = results
  /\ run[r].pc = "record" =>
       run[r].env \in blobs /\ (run[r].accept \/ run[r].seen = {})

Snapshots == \A r \in Runs : Underway(r) => Snapshot(r)

(***************************************************************************)
(* While no accept raced another run.  A run that was under way when it    *)
(* read knows every record but first ones, and whatever the store holds is *)
(* of an environment in force or was accepted.                             *)
(***************************************************************************)

Known(r) == \A rec \in Written : rec \in run[r].seen \/ rec.n = 1

Answered == forgiven \union InForce(Written)

Unraced ==
  /\ results \subseteq Answered
  /\ \A r \in Runs : run[r].pc = "running" => run[r].env \in Answered
  /\ \A r \in Runs : run[r].pc \in Reading => run[r].seen \subseteq Written /\ Known(r)
  /\ ToldOfOtherEnvironments

Current == current # NoBlob => InForce(Written) = {current}

IInv == JournalOK /\ RunsOK /\ Snapshots /\ (~raced => Unraced) /\ Current

(***************************************************************************)
(* What a step does to what the runs are doing.                            *)
(***************************************************************************)

\* A run that another's step leaves where it is, at most no longer alone.
Stays(q) ==
  /\ run'[q].pc = run[q].pc /\ run'[q].env = run[q].env /\ run'[q].accept = run[q].accept
  /\ run'[q].seen = run[q].seen /\ run'[q].held = run[q].held
  /\ run'[q].alone => run[q].alone

LEMMA UnderwayState == ASSUME RunsOK, NEW r \in Runs, run[r].pc # "new" PROVE run[r] \in States
  BY DEF RunsOK, Idle

LEMMA GoesTo ==
  ASSUME RunsOK, NEW r \in Runs, NEW step \in States, Goes(r, step)
  PROVE  /\ run' \in [Runs -> {Idle} \union States]
         /\ run'[r].pc = step.pc /\ run'[r].env = step.env /\ run'[r].accept = step.accept
         /\ run'[r].seen = step.seen /\ run'[r].held = step.held
         /\ run'[r].alone => step.alone /\ Alone(r)
         /\ \A q \in Runs \ {r} : Stays(q)
<1> DEFINE mine == [step EXCEPT !.alone = @ /\ Alone(r)]
<1>1. run' = [q \in Runs |->
               IF q = r THEN mine
               ELSE IF Underway(q) /\ Underway(r) THEN [run[q] EXCEPT !.alone = FALSE]
               ELSE run[q]]
  BY DEF Goes
<1>2. /\ mine \in States /\ mine.pc = step.pc /\ mine.env = step.env /\ mine.accept = step.accept
      /\ mine.seen = step.seen /\ mine.held = step.held
      /\ mine.alone => step.alone /\ Alone(r)
  <2>1. (step.alone /\ Alone(r)) \in BOOLEAN
    BY DEF Alone
  <2>2. QED
    BY ONLY <2>1, step \in States DEF States
<1>3. ASSUME NEW q \in Runs, Underway(q), NEW other, other = [run[q] EXCEPT !.alone = FALSE]
      PROVE  /\ other \in States /\ other.alone = FALSE
             /\ other.pc = run[q].pc /\ other.env = run[q].env /\ other.accept = run[q].accept
             /\ other.seen = run[q].seen /\ other.held = run[q].held
  <2>1. run[q] \in States
    BY <1>3, UnderwayState DEF Underway
  <2>2. QED
    BY ONLY <1>3, <2>1 DEF States
<1> HIDE DEF mine
<1>4. ASSUME NEW q \in Runs \ {r} PROVE Stays(q) /\ run'[q] \in {Idle} \union States
  <2>1. CASE Underway(q) /\ Underway(r)
    <3>1. run'[q] = [run[q] EXCEPT !.alone = FALSE]
      BY <1>1, <2>1
    <3>2. QED
      BY <1>3, <2>1, <3>1 DEF Stays
  <2>2. CASE ~(Underway(q) /\ Underway(r))
    BY <1>1, <2>2 DEF Stays, RunsOK
  <2>3. QED
    BY <2>1, <2>2
<1>5. run'[r] = mine
  BY <1>1
<1>6. run' \in [Runs -> {Idle} \union States]
  BY <1>1, <1>2, <1>4, <1>5
<1>7. QED
  BY <1>2, <1>4, <1>5, <1>6

Advances(r, to, held) ==
  /\ run'[r].pc = to /\ run'[r].held = held /\ run'[r].env = run[r].env
  /\ run'[r].accept = run[r].accept /\ run'[r].seen = run[r].seen
  /\ run'[r].alone => run[r].alone
  /\ \A q \in Runs \ {r} : Stays(q)

LEMMA GoesOn ==
  ASSUME RunsOK, NEW r \in Runs, Underway(r), NEW to \in Phases,
         Goes(r, [run[r] EXCEPT !.pc = to]), UNCHANGED results
  PROVE  RunsOK' /\ Advances(r, to, run[r].held)
<1>1. run[r] \in States
  BY UnderwayState DEF Underway
<1>2. PICK step : step = [run[r] EXCEPT !.pc = to]
  OBVIOUS
<1>3. /\ step \in States /\ step.pc = to /\ step.env = run[r].env /\ step.accept = run[r].accept
      /\ step.seen = run[r].seen /\ step.held = run[r].held /\ step.alone = run[r].alone
  BY ONLY <1>1, <1>2, to \in Phases DEF States
<1>4. Goes(r, step)
  BY <1>2
<1>5. /\ run' \in [Runs -> {Idle} \union States]
      /\ run'[r].pc = step.pc /\ run'[r].env = step.env /\ run'[r].accept = step.accept
      /\ run'[r].seen = step.seen /\ run'[r].held = step.held
      /\ run'[r].alone => step.alone /\ Alone(r)
      /\ \A q \in Runs \ {r} : Stays(q)
  BY <1>3, <1>4, GoesTo
<1>6. QED
  BY <1>3, <1>5 DEF Advances, RunsOK

LEMMA EndsRun ==
  ASSUME RunsOK, NEW r \in Runs, Underway(r), run' = [run EXCEPT ![r].pc = "done"],
         UNCHANGED results
  PROVE  RunsOK' /\ Advances(r, "done", run[r].held)
<1>1. run[r] \in States
  BY UnderwayState DEF Underway
<1>2. PICK step : step = [run[r] EXCEPT !.pc = "done"]
  OBVIOUS
<1>3. /\ step \in States /\ step.pc = "done" /\ step.env = run[r].env
      /\ step.accept = run[r].accept
      /\ step.seen = run[r].seen /\ step.held = run[r].held /\ step.alone = run[r].alone
  BY ONLY <1>1, <1>2 DEF States, Phases
<1>4. run'[r] = step /\ \A q \in Runs \ {r} : run'[q] = run[q]
  BY <1>2 DEF RunsOK
<1>5. run' \in [Runs -> {Idle} \union States]
  BY <1>3, <1>4 DEF RunsOK
<1>6. QED
  BY <1>3, <1>4, <1>5 DEF Advances, Stays, RunsOK

LEMMA Reads ==
  ASSUME RunsOK, NEW r \in Runs, ReadResults(r)
  PROVE  RunsOK' /\ Advances(r, "check", results)
<1>1. run[r] \in States /\ results \in SUBSET Envs
  BY UnderwayState DEF ReadResults, RunsOK
<1>2. PICK step : step = [run[r] EXCEPT !.pc = "check", !.held = results]
  OBVIOUS
<1>3. /\ step \in States /\ step.pc = "check" /\ step.env = run[r].env
      /\ step.accept = run[r].accept
      /\ step.seen = run[r].seen /\ step.held = results /\ step.alone = run[r].alone
  BY ONLY <1>1, <1>2 DEF States, Phases
<1>4. Goes(r, step)
  BY <1>2 DEF ReadResults
<1>5. /\ run' \in [Runs -> {Idle} \union States]
      /\ run'[r].pc = step.pc /\ run'[r].env = step.env /\ run'[r].accept = step.accept
      /\ run'[r].seen = step.seen /\ run'[r].held = step.held
      /\ run'[r].alone => step.alone /\ Alone(r)
      /\ \A q \in Runs \ {r} : Stays(q)
  BY <1>3, <1>4, GoesTo
<1>6. QED
  BY <1>3, <1>5 DEF Advances, RunsOK, ReadResults

\* A run under way beside another is not alone, and keeps what it has read.
LEMMA OthersStay ==
  ASSUME Snapshots, NEW r \in Runs, Underway(r), NEW to, NEW held, Advances(r, to, held),
         blobs \subseteq blobs', NEW q \in Runs \ {r}, Underway(q)'
  PROVE  Underway(q) /\ ~run[q].alone /\ Snapshot(q)'
<1>1. Stays(q) /\ Underway(q)
  BY DEF Advances, Stays, Underway
<1>2. Snapshot(q) /\ ~run[q].alone
  BY <1>1 DEF Snapshots, Snapshot, Alone
<1>3. QED
  BY <1>1, <1>2 DEF Snapshot, Stays

LEMMA StaysAlone ==
  ASSUME Snapshots, NEW r \in Runs, Underway(r), NEW to, NEW held, Advances(r, to, held),
         run'[r].alone
  PROVE  run[r].alone /\ Alone(r) /\ Alone(r)'
  BY DEF Snapshots, Snapshot, Advances, Stays, Alone, Underway

(***************************************************************************)
(* The journal, and which of its records are in force.                     *)
(***************************************************************************)

LEMMA SeenIsWritten ==
  ASSUME EnvironmentAssumption, JournalOK
  PROVE  Seen = Written /\ Written \subseteq EnvRecords
<1>1. \A i \in DOMAIN records.lines : records.lines[i] \in EnvRecords
  BY DEF JournalOK
<1>2. Torn \notin EnvRecords
  BY DEF EnvironmentAssumption, EnvRecords
<1>3. \A i \in DOMAIN records.lines : records.lines[i].env \in blobs
  BY DEF JournalOK, Written
<1>4. Files!Readable(records.lines) = DOMAIN records.lines
  BY <1>1, <1>2 DEF Files!Readable
<1>5. QED
  BY <1>1, <1>3, <1>4 DEF Seen, Written

LEMMA AppendedIsWritten ==
  ASSUME JournalOK, NEW x \in EnvRecords, records' = Files!Appended(records, x)
  PROVE  /\ records'.lines \in Seq(EnvRecords) /\ records'.ended = TRUE
         /\ Written' = Written \union {x}
<1> DEFINE lines == records.lines
<1>1. lines \in Seq(EnvRecords) /\ records.ended = TRUE
  BY DEF JournalOK
<1>2. records' = [lines |-> Append(lines, x), ended |-> TRUE]
  BY <1>1 DEF Files!Appended, Files!Extended
<1> HIDE DEF lines
<1>3. /\ DOMAIN lines = 1..Len(lines) /\ DOMAIN Append(lines, x) = 1..(Len(lines) + 1)
      /\ Len(lines) \in Nat /\ Append(lines, x)[Len(lines) + 1] = x
      /\ \A i \in 1..Len(lines) : Append(lines, x)[i] = lines[i]
      /\ Append(lines, x) \in Seq(EnvRecords)
  BY <1>1
<1>4. {Append(lines, x)[i] : i \in DOMAIN Append(lines, x)} = {lines[i] : i \in DOMAIN lines} \union {x}
  <2>1. ASSUME NEW i \in DOMAIN Append(lines, x)
        PROVE  Append(lines, x)[i] \in {lines[k] : k \in DOMAIN lines} \union {x}
    BY <1>3, i \in DOMAIN lines \/ i = Len(lines) + 1
  <2>2. ASSUME NEW i \in DOMAIN lines
        PROVE  lines[i] \in {Append(lines, x)[k] : k \in DOMAIN Append(lines, x)}
    BY <1>3
  <2>3. x \in {Append(lines, x)[k] : k \in DOMAIN Append(lines, x)}
    BY <1>3
  <2>4. QED
    BY <2>1, <2>2, <2>3
<1>5. records'.lines = Append(lines, x) /\ records'.ended = TRUE
  BY <1>2
<1>6. QED
  BY <1>3, <1>4, <1>5 DEF Written, lines

\* The highest number, wherever there is a record.
LEMMA TopIs ==
  ASSUME NEW recs \in SUBSET EnvRecords, recs # {}, HasTop(recs)
  PROVE  /\ \A rec \in recs : rec.n <= Top(recs)
         /\ \E rec \in recs : rec.n = Top(recs)
         /\ Top(recs) \in Nat \ {0}
<1>1. \A rec \in recs : rec.n \in Nat \ {0}
  BY DEF EnvRecords
<1>2. PICK top \in recs : \A s \in recs : s.n <= top.n
  BY DEF HasTop
<1>3. \E k \in {rec.n : rec \in recs} : \A rec \in recs : rec.n <= k
  BY <1>2
<1>4. Top(recs) \in {rec.n : rec \in recs} /\ \A rec \in recs : rec.n <= Top(recs)
  BY <1>3 DEF Top
<1>5. QED
  BY <1>1, <1>4

LEMMA NoneInForce ==
  ASSUME NEW recs \in SUBSET EnvRecords, HasTop(recs)
  PROVE  InForce(recs) = {} <=> recs = {}
<1>1. CASE recs # {}
  BY <1>1, TopIs DEF InForce
<1>2. CASE recs = {}
  BY <1>2 DEF InForce
<1>3. QED
  BY <1>1, <1>2

\* A record numbered above all others is the only one in force.
LEMMA NewestInForce ==
  ASSUME NEW recs \in SUBSET EnvRecords, HasTop(recs),
         NEW x \in EnvRecords, x.n = Top(recs) + 1
  PROVE  InForce(recs \union {x}) = {x.env} /\ HasTop(recs \union {x})
<1>1. \A rec \in recs : rec.n < x.n
  BY TopIs DEF EnvRecords
<1>2. \A rec \in recs \union {x} : rec.n <= x.n /\ rec.n \in Nat
  BY <1>1 DEF EnvRecords
<1>3. HasTop(recs \union {x})
  BY <1>2 DEF HasTop
<1>4. Top(recs \union {x}) = x.n
  <2>1. /\ \A rec \in recs \union {x} : rec.n <= Top(recs \union {x})
        /\ \E rec \in recs \union {x} : rec.n = Top(recs \union {x})
    BY <1>3, TopIs
  <2>2. QED
    BY <1>2, <2>1
<1>5. QED
  BY <1>1, <1>3, <1>4 DEF InForce, EnvRecords

\* First records are in force together.
LEMMA FirstInForce ==
  ASSUME NEW recs \in SUBSET EnvRecords, \A rec \in recs : rec.n = 1,
         NEW x \in EnvRecords, x.n = 1
  PROVE  InForce(recs \union {x}) = InForce(recs) \union {x.env} /\ HasTop(recs \union {x})
<1>1. HasTop(recs \union {x}) /\ HasTop(recs)
  BY DEF HasTop
<1>2. Top(recs \union {x}) = 1
  <2>1. \E rec \in recs \union {x} : rec.n = Top(recs \union {x})
    BY <1>1, TopIs
  <2>2. QED
    BY <2>1
<1>3. recs # {} => Top(recs) = 1
  <2>1. recs # {} => \E rec \in recs : rec.n = Top(recs)
    BY <1>1, TopIs
  <2>2. QED
    BY <2>1
<1>4. QED
  BY <1>1, <1>2, <1>3 DEF InForce

\* Of what was read nothing is out of force for first records written since.
LEMMA StillInForce ==
  ASSUME NEW recs \in SUBSET EnvRecords, HasTop(recs),
         NEW seen \in SUBSET recs, seen # {}, HasTop(seen),
         \A rec \in recs : rec \in seen \/ rec.n = 1
  PROVE  InForce(seen) \subseteq InForce(recs)
<1>1. /\ \A rec \in recs : rec.n <= Top(recs)
      /\ \E rec \in recs : rec.n = Top(recs)
      /\ Top(recs) \in Nat \ {0}
  BY TopIs
<1>2. /\ \A rec \in seen : rec.n <= Top(seen)
      /\ \E rec \in seen : rec.n = Top(seen)
      /\ Top(seen) \in Nat \ {0}
  BY TopIs
<1>3. Top(seen) = Top(recs)
  BY <1>1, <1>2
<1>4. QED
  BY <1>3 DEF InForce

(***************************************************************************)
(* The invariant, step by step.                                            *)
(***************************************************************************)

LEMMA InitIInv == EnvironmentAssumption /\ Init => IInv
<1> SUFFICES ASSUME EnvironmentAssumption, Init PROVE IInv
  OBVIOUS
<1>1. records.lines = << >> /\ records.ended = TRUE
  BY DEF Init, Files!EmptyLog
<1>2. Written = {}
  BY <1>1 DEF Written
<1>3. JournalOK
  BY <1>1, <1>2 DEF Init, JournalOK, HasTop
<1>4. \A r \in Runs : run[r].pc = "new"
  BY DEF Init, Idle
<1>5. RunsOK /\ Snapshots
  BY <1>4 DEF Init, RunsOK, Snapshots, Underway
<1>6. Unraced
  BY <1>4 DEF Init, Unraced, Reading, ToldOfOtherEnvironments
<1>7. QED
  BY <1>3, <1>5, <1>6 DEF Init, IInv, Current

\* A step of one run that leaves records and results as they are.
LEMMA Calm ==
  ASSUME IInv, NEW r \in Runs, Underway(r), NEW to, NEW held, Advances(r, to, held), RunsOK',
         UNCHANGED <<records, results>>, forgiven \subseteq forgiven', raced => raced',
         current' \in {current, NoBlob},
         blobs \subseteq blobs', blobs' \subseteq Envs,
         to \in Reading => run[r].pc \in Reading,
         to \in {"check", "record"} /\ run[r].alone => held = results,
         to = "record" => run[r].env \in blobs' /\ (run[r].accept \/ run[r].seen = {}),
         ~raced /\ to = "running" =>
           /\ run[r].env \in Answered
           /\ ~run[r].accept /\ run[r].alone => held \subseteq {run[r].env} \union forgiven
  PROVE  IInv'
<1>1. Written' = Written /\ Answered \subseteq Answered'
  BY DEF Written, Answered
<1>2. JournalOK'
  BY <1>1 DEF IInv, JournalOK
<1>3. Snapshots'
  <2>1. ASSUME NEW q \in Runs \ {r}, Underway(q)' PROVE Snapshot(q)'
    BY <2>1, OthersStay DEF IInv
  <2>2. ASSUME Underway(r)' PROVE Snapshot(r)'
    <3>1. run'[r].alone => run[r].alone /\ Alone(r)'
      BY StaysAlone DEF IInv
    <3>2. Snapshot(r)
      BY DEF IInv, Snapshots
    <3>3. QED
      BY <1>1, <3>1, <3>2 DEF Snapshot, Advances
  <2>3. QED
    BY <2>1, <2>2 DEF Snapshots
<1>4. ASSUME ~raced' PROVE Unraced'
  <2>1. Unraced /\ ~raced
    BY <1>4 DEF IInv
  <2>2. ASSUME NEW q \in Runs, run'[q].pc = "running" PROVE run'[q].env \in Answered'
    BY <1>1, <2>1, <2>2 DEF Unraced, Advances, Stays
  <2>3. ASSUME NEW q \in Runs, run'[q].pc \in Reading
        PROVE  run'[q].seen \subseteq Written' /\ Known(q)'
    <3>1. run[q].pc \in Reading /\ run'[q].seen = run[q].seen
      BY <2>3 DEF Advances, Stays
    <3>2. QED
      BY <1>1, <2>1, <3>1 DEF Unraced, Known
  <2>4. ASSUME NEW q \in Runs, run'[q].pc = "running", ~run'[q].accept, run'[q].alone
        PROVE  run'[q].held \subseteq {run'[q].env} \union forgiven'
    <3>1. CASE q = r
      BY <2>1, <2>4, <3>1 DEF Advances
    <3>2. CASE q # r
      <4>1. /\ run[q].pc = "running" /\ run[q].accept = run'[q].accept /\ run[q].alone
            /\ run[q].held = run'[q].held /\ run[q].env = run'[q].env
        BY <2>4, <3>2 DEF Advances, Stays
      <4>2. QED
        BY <2>1, <2>4, <4>1 DEF Unraced, ToldOfOtherEnvironments
    <3>3. QED
      BY <3>1, <3>2
  <2>5. QED
    BY <1>1, <2>1, <2>2, <2>3, <2>4 DEF Unraced, ToldOfOtherEnvironments
<1>5. Current'
  BY <1>1 DEF IInv, Current
<1>6. QED
  BY <1>2, <1>3, <1>4, <1>5 DEF IInv

LEMMA NextReadEnvironments ==
  ASSUME EnvironmentAssumption, IInv, NEW r \in Runs, ReadEnvironments(r)
  PROVE  IInv'
<1>1. Seen = Written /\ Written \subseteq EnvRecords
  BY SeenIsWritten DEF IInv
<1>2. PICK e \in Envs, accept \in BOOLEAN :
        run' = [q \in Runs |->
                 IF q = r THEN [pc |-> "read", env |-> e, accept |-> accept, seen |-> Seen,
                                held |-> {}, alone |-> Alone(r)]
                 ELSE IF Underway(q) THEN [run[q] EXCEPT !.alone = FALSE]
                 ELSE run[q]]
  BY DEF ReadEnvironments
<1> DEFINE mine == [pc |-> "read", env |-> e, accept |-> accept, seen |-> Written,
                    held |-> {}, alone |-> Alone(r)]
<1>3. mine \in States
  BY <1>1 DEF States, Phases, Alone
<1>4. ASSUME NEW q \in Runs, Underway(q), NEW other, other = [run[q] EXCEPT !.alone = FALSE]
      PROVE  /\ other \in States /\ other.alone = FALSE
             /\ other.pc = run[q].pc /\ other.env = run[q].env /\ other.accept = run[q].accept
             /\ other.seen = run[q].seen /\ other.held = run[q].held
  <2>1. run[q] \in States
    BY <1>4, UnderwayState DEF Underway, IInv
  <2>2. QED
    BY ONLY <1>4, <2>1 DEF States
<1>5. run'[r] = mine
  BY <1>1, <1>2
<1>6. ASSUME NEW q \in Runs \ {r}
      PROVE  /\ Stays(q) /\ run'[q] \in {Idle} \union States
             /\ Underway(q) => ~run'[q].alone
  <2>1. CASE Underway(q)
    <3>1. run'[q] = [run[q] EXCEPT !.alone = FALSE]
      BY <1>2, <2>1
    <3>2. QED
      BY <1>4, <2>1, <3>1 DEF Stays
  <2>2. CASE ~Underway(q)
    BY <1>2, <2>2 DEF Stays, RunsOK, IInv
  <2>3. QED
    BY <2>1, <2>2
<1>7. RunsOK'
  <2>1. run' = [q \in Runs |-> run'[q]] /\ results' = results
    BY <1>2 DEF ReadEnvironments
  <2>2. QED
    BY <1>3, <1>5, <1>6, <2>1 DEF RunsOK, IInv
<1>8. Written' = Written /\ Answered' = Answered /\ JournalOK' /\ Current'
  BY DEF ReadEnvironments, Written, Answered, JournalOK, Current, IInv
<1>9. Snapshots'
  <2>1. ASSUME NEW q \in Runs \ {r}, Underway(q)' PROVE Snapshot(q)'
    <3>1. Stays(q) /\ Underway(q) /\ ~run'[q].alone
      BY <1>6, <2>1 DEF Stays, Underway
    <3>2. Snapshot(q)
      BY <3>1 DEF IInv, Snapshots
    <3>3. blobs' = blobs
      BY DEF ReadEnvironments
    <3>4. QED
      BY <3>1, <3>2, <3>3 DEF Snapshot, Stays
  <2>2. Snapshot(r)'
    <3>1. Alone(r) => Alone(r)'
      BY <1>6 DEF Alone, Stays, Underway
    <3>2. QED
      BY <1>5, <1>8, <3>1 DEF Snapshot, Reading, IInv, JournalOK
  <2>3. QED
    BY <2>1, <2>2 DEF Snapshots
<1>10. ASSUME ~raced' PROVE Unraced'
  <2>1. Unraced /\ UNCHANGED <<results, forgiven>>
    BY <1>10 DEF IInv, ReadEnvironments
  <2>2. run'[r].pc = "read" /\ run'[r].seen = Written
    BY <1>5
  <2>3. ASSUME NEW q \in Runs, run'[q].pc = "running" PROVE run'[q].env \in Answered'
    BY <1>6, <1>8, <2>1, <2>2, <2>3 DEF Unraced, Stays
  <2>4. ASSUME NEW q \in Runs, run'[q].pc \in Reading
        PROVE  run'[q].seen \subseteq Written' /\ Known(q)'
    BY <1>6, <1>8, <2>1, <2>2, <2>4 DEF Unraced, Known, Stays
  <2>5. ASSUME NEW q \in Runs, run'[q].pc = "running", ~run'[q].accept, run'[q].alone
        PROVE  run'[q].held \subseteq {run'[q].env} \union forgiven'
    <3>1. q # r
      BY <2>2, <2>5
    <3>2. /\ run[q].pc = "running" /\ run[q].accept = run'[q].accept /\ run[q].alone
          /\ run[q].held = run'[q].held /\ run[q].env = run'[q].env
      BY <1>6, <2>5, <3>1 DEF Stays
    <3>3. ~raced /\ ToldOfOtherEnvironments
      BY <1>10, <2>1 DEF ReadEnvironments, Unraced
    <3>4. QED
      BY <2>1, <2>5, <3>2, <3>3 DEF ToldOfOtherEnvironments
  <2>6. QED
    BY <1>8, <2>1, <2>3, <2>4, <2>5 DEF Unraced, ToldOfOtherEnvironments
<1>11. QED
  BY <1>7, <1>8, <1>9, <1>10 DEF IInv

LEMMA NextReadResults == ASSUME IInv, NEW r \in Runs, ReadResults(r) PROVE IInv'
<1>1. Underway(r) /\ RunsOK' /\ Advances(r, "check", results)
  BY Reads DEF IInv, ReadResults, Underway
<1>2. blobs' = blobs /\ blobs \subseteq Envs
  BY DEF ReadResults, IInv, JournalOK
<1>3. QED
  BY <1>1, <1>2, Calm DEF ReadResults, Reading

\* In an environment that is the one in force: what it is served are results
\* of that one, and accepted ones.
LEMMA NextPass == ASSUME EnvironmentAssumption, IInv, NEW r \in Runs, Pass(r) PROVE IInv'
<1>1. Underway(r)
  BY DEF Pass, Underway
<1>2. RunsOK' /\ Advances(r, "running", run[r].held)
  BY <1>1, GoesOn DEF IInv, Pass, Phases
<1>3. blobs' = blobs /\ blobs \subseteq Envs
  BY DEF Pass, IInv, JournalOK
<1>4. Snapshot(r) /\ run[r].pc = "check" /\ InForce(run[r].seen) = {run[r].env}
  BY <1>1 DEF IInv, Snapshots, Pass, Agrees
<1>5. ASSUME ~raced
      PROVE  /\ run[r].env \in Answered
             /\ run[r].alone => run[r].held \subseteq {run[r].env} \union forgiven
  <2>1. Unraced /\ Written \in SUBSET EnvRecords /\ HasTop(Written)
    BY <1>5, SeenIsWritten DEF IInv, JournalOK
  <2>2. run[r].seen \subseteq Written /\ Known(r) /\ HasTop(run[r].seen)
    BY <1>4, <2>1 DEF Unraced, Reading, Snapshot
  <2>3. run[r].seen # {}
    BY <1>4, <2>1, <2>2, NoneInForce
  <2>4. InForce(run[r].seen) \subseteq InForce(Written)
    BY <2>1, <2>2, <2>3, StillInForce DEF Known
  <2>5. run[r].alone => run[r].seen = Written /\ run[r].held = results
    BY <1>4 DEF Snapshot, Reading
  <2>6. QED
    BY <1>4, <2>1, <2>4, <2>5 DEF Unraced, Answered
<1>6. QED
  BY <1>1, <1>2, <1>3, <1>5, Calm DEF Pass, Reading

\* The environment recorded last agrees with itself.
LEMMA NextRefuse ==
  ASSUME EnvironmentAssumption, IInv, NEW r \in Runs, Refuse(r)
  PROVE  IInv' /\ (run[r].alone => run[r].env # current)
<1>1. Underway(r)
  BY DEF Refuse, Underway
<1>2. RunsOK' /\ Advances(r, "refused", run[r].held)
  BY <1>1, GoesOn DEF IInv, Refuse, Phases
<1>3. blobs' = blobs /\ blobs \subseteq Envs
  BY DEF Refuse, IInv, JournalOK
<1>4. IInv'
  BY <1>1, <1>2, <1>3, Calm DEF Refuse, Reading
<1>5. ASSUME run[r].alone PROVE run[r].env # current
  <2>1. run[r].seen = Written
    BY <1>1, <1>5 DEF IInv, Snapshots, Snapshot, Reading, Refuse
  <2>2. run[r].env \in Envs
    BY UnderwayState DEF IInv, Refuse, States
  <2>3. current = NoBlob \/ InForce(Written) = {current}
    BY DEF IInv, Current
  <2>4. QED
    BY <2>1, <2>2, <2>3 DEF Refuse, Agrees, EnvironmentAssumption
<1>6. QED
  BY <1>4, <1>5

LEMMA NextPutEnvironment ==
  ASSUME IInv, NEW r \in Runs, PutEnvironment(r) PROVE IInv'
<1>1. Underway(r) /\ run[r] \in States
  BY UnderwayState DEF PutEnvironment, Underway, IInv
<1>2. RunsOK' /\ Advances(r, "record", run[r].held)
  BY <1>1, GoesOn DEF IInv, PutEnvironment, Phases
<1>3. Snapshot(r) /\ HasTop(run[r].seen) /\ run[r].seen \in SUBSET EnvRecords
  BY <1>1 DEF IInv, Snapshots, Snapshot, States
<1>4. run[r].accept \/ run[r].seen = {}
  BY <1>3, NoneInForce DEF PutEnvironment, Refused
<1>5. blobs \subseteq blobs' /\ blobs' \subseteq Envs /\ run[r].env \in blobs'
  BY <1>1 DEF PutEnvironment, IInv, JournalOK, States
<1>6. run[r].alone => run[r].held = results
  BY <1>3 DEF Snapshot, PutEnvironment
<1>7. QED
  BY <1>1, <1>2, <1>4, <1>5, <1>6, Calm DEF PutEnvironment, Reading

LEMMA NextReturn == ASSUME IInv, NEW r \in Runs, Return(r) PROVE IInv'
<1>1. Underway(r)
  BY DEF Return, Underway
<1>2. RunsOK' /\ Advances(r, "done", run[r].held)
  BY <1>1, EndsRun DEF IInv, Return
<1>3. blobs' = blobs /\ blobs \subseteq Envs
  BY DEF Return, IInv, JournalOK
<1>4. QED
  BY <1>1, <1>2, <1>3, Calm DEF Return, Reading

LEMMA NextWork == ASSUME IInv, NEW r \in Runs, Work(r) PROVE IInv'
<1>1. /\ results' = results \union {run[r].env} /\ run[r].pc = "running"
      /\ UNCHANGED <<blobs, records, run, forgiven, raced, current>>
  BY DEF Work
<1>2. run[r] \in States
  BY <1>1, UnderwayState DEF IInv
<1>3. RunsOK' /\ JournalOK' /\ Written' = Written /\ Answered' = Answered /\ Current'
  BY <1>1, <1>2 DEF IInv, RunsOK, JournalOK, Written, Answered, Current, States
<1>4. Snapshots'
  <2> SUFFICES ASSUME NEW q \in Runs, Underway(q)' PROVE Snapshot(q)'
    BY DEF Snapshots
  <2>1. Snapshot(q) /\ (q # r => ~run[q].alone)
    BY <1>1 DEF IInv, Snapshots, Snapshot, Alone, Underway
  <2>2. QED
    BY <1>1, <1>3, <2>1 DEF Snapshot, Alone, Underway
<1>5. ASSUME ~raced' PROVE Unraced'
  BY <1>1, <1>3, <1>5 DEF IInv, Unraced, Known, ToldOfOtherEnvironments
<1>6. QED
  BY <1>3, <1>4, <1>5 DEF IInv

LEMMA TopAdded ==
  ASSUME NEW recs \in SUBSET EnvRecords, HasTop(recs), NEW x \in EnvRecords
  PROVE  HasTop(recs \union {x})
<1>1. \A rec \in recs \union {x} : rec.n \in Nat
  BY DEF EnvRecords
<1>2. CASE recs = {}
  BY <1>1, <1>2 DEF HasTop
<1>3. CASE recs # {}
  <2>1. PICK top \in recs : \A s \in recs : s.n <= top.n
    BY <1>3 DEF HasTop
  <2>2. CASE x.n <= top.n
    BY <1>1, <2>1, <2>2 DEF HasTop
  <2>3. CASE top.n < x.n
    BY <1>1, <2>1, <2>3 DEF HasTop
  <2>4. QED
    BY <1>1, <2>1, <2>2, <2>3
<1>4. QED
  BY <1>2, <1>3

\* A record appended.  An accept that raced no run takes over all that the store
\* holds; a record that is no accept is a first one, or the run was not alone.
LEMMA Appending ==
  ASSUME EnvironmentAssumption, IInv, NEW r \in Runs, run[r].pc = "record",
         NEW to \in {"running", "done"}, Advances(r, to, run[r].held), RunsOK',
         records' = Files!Appended(records, Numbered(r)), Acknowledged(r),
         UNCHANGED <<blobs, results>>,
         current' # NoBlob => current' = run[r].env /\ run[r].alone
  PROVE  IInv'
<1> DEFINE x == Numbered(r)
<1>0. Underway(r) /\ Snapshot(r) /\ run[r] \in States
  BY UnderwayState DEF Underway, IInv, Snapshots
<1>1. /\ run[r].seen \in SUBSET EnvRecords /\ HasTop(run[r].seen)
      /\ run[r].env \in Envs /\ run[r].env \in blobs
      /\ run[r].accept \/ run[r].seen = {}
      /\ run[r].alone => run[r].seen = Written /\ run[r].held = results /\ Alone(r)
  BY <1>0 DEF States, Snapshot, Reading
<1>2. Written \in SUBSET EnvRecords /\ HasTop(Written)
  BY SeenIsWritten DEF IInv, JournalOK
<1>3. /\ x \in EnvRecords /\ x.env = run[r].env /\ x.n = Top(run[r].seen) + 1
      /\ run[r].seen = {} => x.n = 1
  <2>1. Top(run[r].seen) \in Nat /\ (run[r].seen = {} => Top(run[r].seen) = 0)
    <3>1. CASE run[r].seen = {}
      BY <3>1 DEF Top
    <3>2. CASE run[r].seen # {}
      BY <1>1, <3>2, TopIs
    <3>3. QED
      BY <3>1, <3>2
  <2>2. QED
    BY <1>1, <2>1 DEF Numbered, EnvRecords
<1> HIDE DEF x
<1>4. /\ records'.lines \in Seq(EnvRecords) /\ records'.ended = TRUE
      /\ Written' = Written \union {x}
  BY <1>3, AppendedIsWritten DEF IInv, x
<1>5. JournalOK'
  <2>1. \A rec \in Written' : rec.env \in blobs'
    BY <1>1, <1>3, <1>4 DEF IInv, JournalOK
  <2>2. HasTop(Written')
    BY <1>2, <1>3, <1>4, TopAdded
  <2>3. QED
    BY <1>4, <2>1, <2>2 DEF IInv, JournalOK
<1>6. Snapshots'
  <2>1. ASSUME NEW q \in Runs \ {r}, Underway(q)' PROVE Snapshot(q)'
    BY <1>0, <2>1, OthersStay DEF IInv
  <2>2. Snapshot(r)'
    <3>1. run'[r].alone => Alone(r)'
      BY <1>0, StaysAlone DEF IInv
    <3>2. QED
      BY <1>1, <3>1 DEF Snapshot, Advances, Reading
  <2>3. QED
    BY <2>1, <2>2 DEF Snapshots
<1>7. ASSUME run[r].alone PROVE InForce(Written') = {run[r].env}
  BY <1>1, <1>2, <1>3, <1>4, <1>7, NewestInForce
<1>8. Current'
  BY <1>7 DEF Current
<1>9. forgiven \subseteq forgiven' /\ (run[r].accept => run[r].held \subseteq forgiven')
  BY DEF Acknowledged
<1>10. ASSUME ~raced' PROVE Unraced'
  <2>1. Unraced /\ ~raced /\ (run[r].accept => run[r].alone /\ Alone(r))
    BY <1>10 DEF Acknowledged, IInv
  <2>2. /\ run'[r].pc \notin Reading
        /\ \A q \in Runs \ {r} : Stays(q)
    BY DEF Advances, Reading
  <2>3. run[r].env \in Answered'
    <3>1. CASE run[r].alone
      BY <1>7, <3>1 DEF Answered
    <3>2. CASE ~run[r].alone
      <4>1. \A rec \in Written : rec.n = 1
        BY <1>1, <2>1, <3>2 DEF Unraced, Known, Reading
      <4>2. InForce(Written') = InForce(Written) \union {run[r].env}
        BY <1>1, <1>2, <1>3, <1>4, <2>1, <3>2, <4>1, FirstInForce
      <4>3. QED
        BY <4>2 DEF Answered
    <3>3. QED
      BY <3>1, <3>2
  <2>4. CASE run[r].alone
    <3>1. results \subseteq forgiven'
      <4>1. CASE run[r].accept
        BY <1>1, <1>9, <2>4, <4>1
      <4>2. CASE ~run[r].accept
        <5>1. Written = {}
          BY <1>1, <2>4, <4>2
        <5>2. InForce(Written) = {}
          BY <5>1 DEF InForce
        <5>3. QED
          BY <1>9, <2>1, <5>2 DEF Unraced, Answered
      <4>3. QED
        BY <4>1, <4>2
    <3>2. \A q \in Runs \ {r} : ~Underway(q)'
      BY <1>1, <2>2, <2>4 DEF Alone, Underway, Stays
    <3>3. ASSUME NEW q \in Runs, run'[q].pc \in Reading \union {"running"} PROVE q = r
      BY <3>2, <3>3 DEF Underway, Reading
    <3>4. results' \subseteq Answered'
      BY <3>1 DEF Answered
    <3>5. run'[r].held = results /\ run'[r].env = run[r].env
      BY <1>1, <2>4 DEF Advances
    <3>6. QED
      BY <2>2, <2>3, <3>1, <3>3, <3>4, <3>5 DEF Unraced, ToldOfOtherEnvironments
  <2>5. CASE ~run[r].alone
    <3>1. ~run[r].accept /\ run[r].seen = {} /\ x.n = 1
      BY <1>1, <1>3, <2>1, <2>5
    <3>2. \A rec \in Written : rec.n = 1
      BY <2>1, <3>1 DEF Unraced, Known, Reading
    <3>3. InForce(Written') = InForce(Written) \union {run[r].env}
      BY <1>2, <1>3, <1>4, <3>1, <3>2, FirstInForce
    <3>4. Answered \subseteq Answered'
      BY <1>9, <3>3 DEF Answered
    <3>5. ASSUME NEW q \in Runs, run'[q].pc = "running" PROVE run'[q].env \in Answered'
      BY <2>1, <2>2, <2>3, <3>4, <3>5 DEF Unraced, Stays, Advances
    <3>6. ASSUME NEW q \in Runs, run'[q].pc \in Reading
          PROVE  run'[q].seen \subseteq Written' /\ Known(q)'
      <4>1. q # r /\ run'[q].seen = run[q].seen /\ run[q].pc \in Reading
        BY <2>2, <3>6 DEF Stays
      <4>2. QED
        BY <1>4, <2>1, <3>1, <4>1 DEF Unraced, Known
    <3>7. ASSUME NEW q \in Runs, run'[q].pc = "running", ~run'[q].accept, run'[q].alone
          PROVE  run'[q].held \subseteq {run'[q].env} \union forgiven'
      <4>1. q # r
        BY <2>5, <3>7 DEF Advances
      <4>2. /\ run[q].pc = "running" /\ run[q].accept = run'[q].accept /\ run[q].alone
            /\ run[q].held = run'[q].held /\ run[q].env = run'[q].env
        BY <2>2, <3>7, <4>1 DEF Stays
      <4>3. QED
        BY <1>9, <2>1, <3>7, <4>2 DEF Unraced, ToldOfOtherEnvironments
    <3>8. results' \subseteq Answered'
      BY <2>1, <3>4 DEF Unraced
    <3>9. QED
      BY <3>5, <3>6, <3>7, <3>8 DEF Unraced, ToldOfOtherEnvironments
  <2>6. QED
    BY <2>4, <2>5
<1>11. QED
  BY <1>5, <1>6, <1>8, <1>10 DEF IInv

LEMMA NextRecordEnvironment ==
  ASSUME EnvironmentAssumption, IInv, NEW r \in Runs, RecordEnvironment(r)
  PROVE  IInv'
<1>1. Underway(r) /\ run[r].pc = "record"
  BY DEF RecordEnvironment, Underway
<1>2. RunsOK' /\ Advances(r, "running", run[r].held)
  BY <1>1, GoesOn DEF IInv, RecordEnvironment, Phases
<1>3. current' # NoBlob => current' = run[r].env /\ run[r].alone
  BY DEF RecordEnvironment
<1>4. QED
  BY <1>1, <1>2, <1>3, Appending DEF RecordEnvironment

\* A kill, before the append or after it.
LEMMA NextKill ==
  ASSUME EnvironmentAssumption, ~Tears, IInv, NEW r \in Runs, Kill(r)
  PROVE  IInv'
<1>1. Underway(r)
  BY DEF Kill
<1>2. RunsOK' /\ Advances(r, "done", run[r].held)
  BY <1>1, EndsRun DEF IInv, Kill
<1>3. UNCHANGED <<blobs, results>> /\ blobs \subseteq Envs
  BY DEF Kill, IInv, JournalOK
<1>4. CASE run[r].pc # "record"
  BY <1>1, <1>2, <1>3, <1>4, Calm DEF Kill, Reading
<1>5. CASE run[r].pc = "record"
  <2>1. /\ records' \in {records, Files!Appended(records, Numbered(r))}
        /\ Acknowledged(r) /\ current' = NoBlob
    BY <1>5 DEF Kill, Files!CrashedAppends
  <2>2. CASE records' = Files!Appended(records, Numbered(r))
    BY <1>2, <1>3, <1>5, <2>1, <2>2, Appending
  <2>3. CASE records' = records
    <3>1. forgiven \subseteq forgiven' /\ (raced => raced')
      BY <2>1 DEF Acknowledged
    <3>2. QED
      BY <1>1, <1>2, <1>3, <2>1, <2>3, <3>1, Calm DEF Reading
  <2>4. QED
    BY <2>1, <2>2, <2>3
<1>6. QED
  BY <1>4, <1>5

LEMMA NextIInv ==
  ASSUME EnvironmentAssumption, ~Tears, IInv, [Next]_vars
  PROVE  /\ IInv'
         /\ \A r \in Runs :
              run[r].pc = "check" /\ run'[r].pc = "refused" /\ run[r].alone => run[r].env # current
<1> DEFINE Right == \A r \in Runs : run[r].pc = "check" /\ run'[r].pc = "refused" /\ run[r].alone
                                      => run[r].env # current
<1>1. ASSUME NEW r \in Runs, Refuse(r) PROVE IInv' /\ Right
  <2>1. RunsOK' /\ Advances(r, "refused", run[r].held)
    BY <1>1, GoesOn DEF IInv, Refuse, Phases, Underway
  <2>2. \A q \in Runs \ {r} : run'[q].pc = run[q].pc
    BY <2>1 DEF Advances, Stays
  <2>3. IInv' /\ (run[r].alone => run[r].env # current)
    BY <1>1, NextRefuse
  <2>4. QED
    BY <2>2, <2>3
<1>2. ASSUME NEW r \in Runs, ReadEnvironments(r) PROVE IInv' /\ Right
  <2>1. \A q \in Runs : run'[q].pc # "refused" \/ run[q].pc = "refused"
    BY <1>2, UnderwayState DEF ReadEnvironments, Underway, IInv, RunsOK, States
  <2>2. QED
    BY <1>2, <2>1, NextReadEnvironments
<1>3. ASSUME NEW r \in Runs, ReadResults(r) PROVE IInv' /\ Right
  <2>1. \A q \in Runs \ {r} : run'[q].pc = run[q].pc
    BY <1>3, Reads DEF IInv, Advances, Stays
  <2>2. run'[r].pc = "check"
    BY <1>3, Reads DEF IInv, Advances
  <2>3. QED
    BY <1>3, <2>1, <2>2, NextReadResults
<1>4. ASSUME NEW r \in Runs, NEW to \in {"running", "record"}, Underway(r),
             Goes(r, [run[r] EXCEPT !.pc = to]), results' = results
      PROVE  Right
  <2>1. Advances(r, to, run[r].held)
    BY <1>4, GoesOn DEF IInv, Phases
  <2>2. QED
    BY <2>1 DEF Advances, Stays
<1>5. ASSUME NEW r \in Runs, Pass(r) \/ PutEnvironment(r) \/ RecordEnvironment(r) PROVE IInv' /\ Right
  BY <1>4, <1>5, NextPass, NextPutEnvironment, NextRecordEnvironment
     DEF Pass, PutEnvironment, RecordEnvironment, Underway
<1>6. ASSUME NEW r \in Runs, Work(r) PROVE IInv' /\ Right
  BY <1>6, NextWork DEF Work
<1>7. ASSUME NEW r \in Runs, Return(r) \/ Kill(r) PROVE IInv' /\ Right
  <2>1. Underway(r) /\ run' = [run EXCEPT ![r].pc = "done"] /\ results' = results
    BY <1>7 DEF Return, Kill, Underway
  <2>2. Advances(r, "done", run[r].held)
    BY <2>1, EndsRun DEF IInv
  <2>3. Right
    BY <2>2 DEF Advances, Stays
  <2>4. QED
    BY <1>7, <2>3, NextReturn, NextKill
<1>8. CASE UNCHANGED vars
  <2>1. UNCHANGED <<blobs, records, results, run, forgiven, raced, current>>
    BY <1>8 DEF vars
  <2>2. Written' = Written /\ Answered' = Answered
    BY <2>1 DEF Written, Answered
  <2>3. JournalOK' /\ RunsOK' /\ Current'
    BY <2>1, <2>2 DEF IInv, JournalOK, RunsOK, Current
  <2>4. Snapshots'
    BY <2>1, <2>2 DEF IInv, Snapshots, Snapshot, Alone, Underway
  <2>5. (~raced => Unraced)'
    BY <2>1, <2>2 DEF IInv, Unraced, Known, ToldOfOtherEnvironments
  <2>6. QED
    BY <2>1, <2>3, <2>4, <2>5 DEF IInv
<1>9. QED
  BY <1>1, <1>2, <1>3, <1>5, <1>6, <1>7, <1>8 DEF Next

(***************************************************************************)
(* The properties.                                                         *)
(***************************************************************************)

\* check_environment: results of another environment reach a run that did not
\* accept only by way of one that did, unless runs raced an accept.
THEOREM Told ==
  ASSUME ~Tears PROVE Spec => []ToldOfOtherEnvironments
<1>1. Init => IInv
  BY EnvironmentAssumption, InitIInv
<1>2. IInv /\ [Next]_vars => IInv'
  BY EnvironmentAssumption, NextIInv
<1>3. IInv => ToldOfOtherEnvironments
  BY DEF IInv, Unraced, ToldOfOtherEnvironments
<1>4. QED
  BY <1>1, <1>2, <1>3, PTL DEF Spec

\* "accept_environment=True records the new environment and resumes": what was
\* recorded last, by a run no other was under way with, is what is in force.
THEOREM NotRefused ==
  ASSUME ~Tears PROVE Spec => RecordedIsNotRefused
<1>1. Init => IInv
  BY EnvironmentAssumption, InitIInv
<1>2. IInv /\ [Next]_vars =>
        /\ IInv'
        /\ \A r \in Runs :
             run[r].pc = "check" /\ run'[r].pc = "refused" /\ run[r].alone => run[r].env # current
  BY EnvironmentAssumption, NextIInv
<1>3. IInv /\ [Next]_vars =>
        [\A r \in Runs :
           run[r].pc = "check" /\ run'[r].pc = "refused" /\ run[r].alone => run[r].env # current]_vars
  BY <1>2
<1>4. QED
  BY <1>1, <1>2, <1>3, PTL DEF Spec, RecordedIsNotRefused

(***************************************************************************)
(* The failed chunks.                                                      *)
(***************************************************************************)
TypeOK ==
  /\ pc \in {"running", "result", "raised", "error"} /\ pending \subseteq Tasks
  /\ DOMAIN sinks \subseteq Tasks
  /\ DOMAIN warned = Tasks
  /\ lost \subseteq {LabelOf[t] : t \in Tasks}
  /\ IsFiniteSet(partials)
  /\ budget \in Int /\ repeats \in Nat /\ losses \in Nat
  /\ \A p \in partials : p.value \subseteq Tasks /\ p.failed \subseteq Tasks

(***************************************************************************)
(* The accounts.  Every task is in exactly one place: not handed out yet,  *)
(* under way, or in one partial, on one of its two sides.                  *)
(***************************************************************************)

Of(p) == p.value \union p.failed

Apart ==
  /\ pending \intersect DOMAIN sinks = {}
  /\ \A p \in partials : Of(p) \intersect (pending \union DOMAIN sinks) = {}
  /\ \A p \in partials : p.value \intersect p.failed = {}
  /\ \A p, q \in partials : p # q => Of(p) \intersect Of(q) = {}

Complete ==
  \A t \in Tasks : t \in pending \/ t \in DOMAIN sinks \/ \E p \in partials : t \in Of(p)

Accounts == TypeOK /\ Apart /\ Complete

LEMMA EmptyDomain == DOMAIN << >> = {}
OBVIOUS

\* A partial of one task, new to the partials, keeps the accounts.
LEMMA OnePartial ==
  ASSUME Accounts, NEW t \in Tasks, NEW c, NEW p,
         t \in pending \union DOMAIN sinks,
         p = Partial({t}, {}, c) \/ p = Partial({}, {t}, c),
         partials' = partials \union {p},
         pending' = pending \ {t}, DOMAIN sinks' = DOMAIN sinks \ {t}
  PROVE  /\ Apart' /\ Complete'
         /\ \A q \in partials' : q.value \subseteq Tasks /\ q.failed \subseteq Tasks
         /\ IsFiniteSet(partials')
<1>1. /\ Of(p) = {t} /\ p.value \intersect p.failed = {}
      /\ p.value \subseteq Tasks /\ p.failed \subseteq Tasks
  BY DEF Partial, Of
<1>2. \A q \in partials : t \notin Of(q)
  BY DEF Accounts, Apart
<1>3. Apart'
  BY <1>1, <1>2 DEF Accounts, Apart
<1>4. Complete'
  BY <1>1 DEF Accounts, Complete
<1>5. IsFiniteSet(partials')
  BY FS_AddElement DEF Accounts, TypeOK
<1>6. QED
  BY <1>1, <1>3, <1>4, <1>5 DEF Accounts, TypeOK

LEMMA StartStep ==
  ASSUME Accounts, NEW t \in Tasks, Start(t)
  PROVE  Apart' /\ Complete' /\ TypeOK'
<1>1. t \in pending /\ pending' = pending \ {t} /\ UNCHANGED <<pc, warned, lost, budget, repeats, losses>>
  BY DEF Start
<1>2. CASE LabelOf[t] \in lost
  <2>1. partials' = partials \union {Partial({}, {t}, << >>)} /\ sinks' = sinks
    BY <1>2 DEF Start
  <2>2. DOMAIN sinks' = DOMAIN sinks \ {t}
    BY <1>1, <2>1 DEF Accounts, Apart
  <2>3. /\ Apart' /\ Complete'
        /\ \A q \in partials' : q.value \subseteq Tasks /\ q.failed \subseteq Tasks
        /\ IsFiniteSet(partials')
    BY <1>1, <2>1, <2>2, OnePartial
  <2>4. QED
    BY <1>1, <2>1, <2>3 DEF Accounts, TypeOK
<1>3. CASE LabelOf[t] \notin lost
  <2>1. DOMAIN sinks' = DOMAIN sinks \union {t} /\ partials' = partials
    BY <1>3 DEF Start
  <2>2. QED
    BY <1>1, <2>1 DEF Accounts, TypeOK, Apart, Complete
<1>4. QED
  BY <1>2, <1>3

LEMMA ProcessStep ==
  ASSUME Accounts, NEW t \in Tasks, Process(t)
  PROVE  Apart' /\ Complete' /\ TypeOK'
<1>1. PICK p \in SkipProcess(t) : partials' = partials \union {p}
  BY DEF Process
<1>2. PICK c : p = Partial({t}, {}, c) \/ p = Partial({}, {t}, c)
  BY <1>1 DEF SkipProcess
<1>3. /\ t \in DOMAIN sinks /\ DOMAIN sinks' = DOMAIN sinks \ {t} /\ pending' = pending
      /\ UNCHANGED <<pc, warned, lost, budget, repeats, losses>>
  BY DEF Process
<1>4. pending' = pending \ {t}
  BY <1>3 DEF Accounts, Apart
<1>5. /\ Apart' /\ Complete'
      /\ \A q \in partials' : q.value \subseteq Tasks /\ q.failed \subseteq Tasks
      /\ IsFiniteSet(partials')
  BY <1>1, <1>2, <1>3, <1>4, OnePartial
<1>6. QED
  BY <1>3, <1>5 DEF Accounts, TypeOK

LEMMA CombineStep ==
  ASSUME Accounts, NEW a \in partials, NEW b \in partials, a # b, SkipCombine(a, b)
  PROVE  Apart' /\ Complete' /\ TypeOK'
<1> DEFINE m == Merged(a, b)
<1>1. m.value = a.value \union b.value /\ m.failed = a.failed \union b.failed
  BY DEF Merged, Partial
<1>2. UNCHANGED <<pending, sinks, warned, lost, budget, repeats, losses>>
  BY DEF SkipCombine
<1>3. CASE pc' = "raised" /\ partials' = partials
  BY <1>2, <1>3 DEF Accounts, Apart, Complete, TypeOK
<1>4. CASE partials' = (partials \ {a, b}) \union {m} /\ pc' = pc
  <2>1. Of(m) = Of(a) \union Of(b)
    BY <1>1 DEF Of
  <2> HIDE DEF m
  <2>2. m.value \intersect m.failed = {}
    <3>1. Of(a) \intersect Of(b) = {} /\ a.value \intersect a.failed = {}
          /\ b.value \intersect b.failed = {}
      BY DEF Accounts, Apart
    <3>2. QED
      BY <1>1, <3>1 DEF Of
  <2>3. \A q \in partials \ {a, b} : Of(q) \intersect Of(m) = {}
    BY <2>1 DEF Accounts, Apart
  <2>4. Of(m) \intersect (pending \union DOMAIN sinks) = {}
    BY <2>1 DEF Accounts, Apart
  <2>5. Apart'
    BY <1>2, <1>4, <2>2, <2>3, <2>4 DEF Accounts, Apart
  <2>6. Complete'
    BY <1>2, <1>4, <2>1 DEF Accounts, Complete
  <2>7. IsFiniteSet(partials')
    <3>1. IsFiniteSet(partials \ {a, b})
      BY FS_Subset DEF Accounts, TypeOK
    <3>2. QED
      BY <1>4, <3>1, FS_AddElement
  <2>8. QED
    BY <1>1, <1>2, <1>4, <2>5, <2>6, <2>7 DEF Accounts, TypeOK
<1>5. QED
  BY <1>3, <1>4 DEF SkipCombine

LEMMA NextAccounts == SkipAssumption /\ Accounts /\ [SkipNext]_skipVars => Accounts'
<1> SUFFICES ASSUME SkipAssumption, Accounts, [SkipNext]_skipVars PROVE Accounts'
  OBVIOUS
<1>1. ASSUME NEW t \in Tasks, Start(t) PROVE Accounts'
  BY <1>1, StartStep DEF Accounts
<1>2. ASSUME NEW t \in Tasks, Process(t) PROVE Accounts'
  BY <1>2, ProcessStep DEF Accounts
<1>3. ASSUME NEW t \in Tasks, NEW w \in Warnings, Warn(t, w) PROVE Accounts'
  <2>1. DOMAIN sinks' = DOMAIN sinks
    BY <1>3 DEF Warn
  <2>2. UNCHANGED <<pc, pending, partials, lost, budget, repeats, losses>>
    BY <1>3 DEF Warn
  <2>3. DOMAIN warned' = Tasks
    BY <1>3 DEF Warn, Accounts, TypeOK
  <2>4. QED
    BY <2>1, <2>2, <2>3 DEF Accounts, TypeOK, Apart, Complete
<1>4. ASSUME NEW a \in partials, NEW b \in partials, a # b, SkipCombine(a, b) PROVE Accounts'
  BY <1>4, CombineStep DEF Accounts
<1>5. ASSUME NEW t \in Tasks, NEW gone, LoseWorker(LabelOf[t], gone) PROVE Accounts'
  <2>1. /\ lost' = lost \union {LabelOf[t]} /\ budget' \in {budget, budget - 1}
        /\ repeats' \in {repeats, repeats + 1} /\ losses' = losses + 1
        /\ pc' \in {pc, "raised"}
    BY <1>5 DEF LoseWorker, Charged
  <2>2. CASE UNCHANGED <<pending, sinks, partials, warned>>
    BY <2>1, <2>2 DEF Accounts, TypeOK, Apart, Complete
  <2>3. CASE pending' = Tasks /\ sinks' = << >> /\ partials' = {} /\ warned' = Quiet
    BY <2>1, <2>3, EmptyDomain, FS_EmptySet DEF Accounts, TypeOK, Apart, Complete, Quiet
  <2>4. QED
    BY <1>5, <2>2, <2>3 DEF LoseWorker
<1>6. CASE Finalize
  BY <1>6 DEF Finalize, Accounts, TypeOK, Apart, Complete
<1>7. ASSUME NEW a, NEW b, CombineRaises(a, b) PROVE Accounts'
  BY <1>7 DEF CombineRaises, Accounts, TypeOK, Apart, Complete
<1>8. ASSUME NEW p, NEW w, WarnElsewhere(p, w) PROVE Accounts'
  BY <1>8 DEF WarnElsewhere, Accounts, TypeOK, Apart, Complete
<1>9. CASE UNCHANGED skipVars
  BY <1>9 DEF skipVars, Accounts, TypeOK, Apart, Complete
<1>10. QED
  BY <1>1, <1>2, <1>3, <1>4, <1>5, <1>6, <1>7, <1>8, <1>9 DEF SkipNext

LEMMA AccountsInvariance == SkipSpec => []Accounts
<1>1. SkipAssumption
  BY SkipAssumption
<1>2. SkipInit => Accounts
  BY <1>1, EmptyDomain, FS_EmptySet DEF SkipInit, Accounts, TypeOK, Apart, Complete, Quiet, SkipAssumption
<1>3. QED
  BY <1>1, <1>2, NextAccounts, PTL DEF SkipSpec

\* However the tree is shaped and whoever is blamed for a lost worker, no
\* chunk is in the value twice or silently out of it.
THEOREM EveryChunk == SkipSpec => []EveryChunkAccounted
<1>1. Accounts => EveryChunkAccounted
  <2> SUFFICES ASSUME Accounts PROVE EveryChunkAccounted
    OBVIOUS
  <2>1. pending \union DOMAIN sinks \union UNION {p.value \union p.failed : p \in partials} = Tasks
    BY DEF Accounts, TypeOK, Complete, Of
  <2>2. QED
    BY <2>1 DEF Accounts, Apart, Of, EveryChunkAccounted
<1>2. QED
  BY <1>1, AccountsInvariance, PTL

(***************************************************************************)
(* The budget.  What is left of it is what it was less the repeated        *)
(* blames, and while the run goes on it is at least one: so no partial     *)
(* holds more failures than it.                                            *)
(***************************************************************************)

Blamed == {t \in Tasks : LabelOf[t] \in lost}

Solvent ==
  /\ budget = Budget - repeats
  /\ pc # "raised" =>
       budget >= 1 /\ \A p \in partials : Cardinality(p.failed) <= budget
  /\ pc = "raised" => Cardinality(Failures \union Blamed) + repeats > Budget

\* The head a result is made of.
Result ==
  pc = "result" => \E p : partials = {p} /\ told = p.caught

\* A part of the tasks is finite, and no larger part of it is.
LEMMA TasksFinite ==
  ASSUME SkipAssumption
  PROVE  /\ \A S \in SUBSET Tasks : IsFiniteSet(S) /\ Cardinality(S) \in Nat
         /\ \A S, T \in SUBSET Tasks : S \subseteq T => Cardinality(S) <= Cardinality(T)
<1>1. \A S \in SUBSET Tasks : IsFiniteSet(S)
  BY FS_Subset DEF SkipAssumption
<1>2. QED
  BY <1>1, FS_Subset, FS_CardinalityType

LEMMA OneFailure ==
  ASSUME NEW S, NEW t, S = {} \/ S = {t}
  PROVE  Cardinality(S) \in {0, 1}
BY FS_EmptySet, FS_Singleton

\* At least one task was blamed for each label left out.
LEMMA BlamedCount ==
  ASSUME SkipAssumption, NEW L \in SUBSET {LabelOf[t] : t \in Tasks}
  PROVE  /\ IsFiniteSet(L) /\ Cardinality(L) \in Nat
         /\ Cardinality({t \in Tasks : LabelOf[t] \in L}) >= Cardinality(L)
<1> DEFINE B == {t \in Tasks : LabelOf[t] \in L}
           f == [t \in B |-> LabelOf[t]]
<1>1. IsFiniteSet(B) /\ Cardinality(B) \in Nat
  BY TasksFinite
<1>2. f \in Surjection(B, L)
  BY DEF Surjection
<1> HIDE DEF B, f
<1>3. IsFiniteSet(L) /\ Cardinality(L) <= Cardinality(B)
  BY <1>1, <1>2, FS_Surjection
<1>4. Cardinality(L) \in Nat
  BY <1>3, FS_CardinalityType
<1>5. QED
  BY <1>1, <1>3, <1>4 DEF B

LEMMA NextSolvent ==
  SkipAssumption /\ Accounts /\ Solvent /\ Result /\ [SkipNext]_skipVars => Solvent' /\ Result'
<1> SUFFICES ASSUME SkipAssumption, Accounts, Solvent, Result, [SkipNext]_skipVars
             PROVE  Solvent' /\ Result'
  OBVIOUS
<1> USE DEF Solvent, Result
<1>0. budget \in Int /\ repeats \in Nat /\ Budget \in Nat \ {0}
  BY DEF Accounts, TypeOK, SkipAssumption
<1>1. ASSUME pc = "running", NEW p, Cardinality(p.failed) \in {0, 1}, pc' = pc,
             partials' = partials \/ partials' = partials \union {p},
             UNCHANGED <<lost, budget, repeats>>
      PROVE  Solvent' /\ Result'
  <2>1. \A q \in partials' : Cardinality(q.failed) <= budget
    <3>1. budget >= 1 /\ Cardinality(p.failed) <= budget
      BY <1>0, <1>1
    <3>2. QED
      BY <1>1, <3>1
  <2>2. QED
    BY <1>1, <2>1
<1>2. ASSUME NEW t \in Tasks, Start(t) \/ Process(t) PROVE Solvent' /\ Result'
  <2>1. PICK p : /\ partials' = partials \/ partials' = partials \union {p}
                 /\ p.failed = {} \/ p.failed = {t}
    <3>1. CASE Start(t) /\ LabelOf[t] \in lost
      <4>1. Partial({}, {t}, << >>).failed = {t}
        BY DEF Partial
      <4>2. QED
        BY <3>1, <4>1 DEF Start
    <3>2. CASE Start(t) /\ LabelOf[t] \notin lost
      <4>1. Partial({}, {}, << >>).failed = {}
        BY DEF Partial
      <4>2. QED
        BY <3>2, <4>1 DEF Start
    <3>3. CASE Process(t)
      <4>1. PICK p \in SkipProcess(t) : partials' = partials \union {p}
        BY <3>3 DEF Process
      <4>2. p.failed = {} \/ p.failed = {t}
        BY <4>1 DEF SkipProcess, Partial
      <4>3. QED
        BY <4>1, <4>2
    <3>4. QED
      BY <1>2, <3>1, <3>2, <3>3
  <2>2. Cardinality(p.failed) \in {0, 1}
    BY <2>1, OneFailure
  <2>3. QED
    BY <1>1, <1>2, <2>1, <2>2 DEF Start, Process
<1>3. ASSUME NEW t \in Tasks, NEW w \in Warnings, Warn(t, w) PROVE Solvent' /\ Result'
  BY <1>3 DEF Warn
<1>4. ASSUME NEW a \in partials, NEW b \in partials, a # b, SkipCombine(a, b)
      PROVE  Solvent' /\ Result'
  <2> DEFINE m == Merged(a, b)
  <2>1. m.failed = a.failed \union b.failed
    BY DEF Merged, Partial
  <2>2. pc = "running" /\ UNCHANGED <<lost, budget, repeats>>
    BY <1>4 DEF SkipCombine
  <2>3. m.failed \in SUBSET Tasks
    BY <2>1 DEF Accounts, TypeOK
  <2>4. Cardinality(m.failed) \in Nat
    BY <2>3, TasksFinite
  <2>5. CASE ~(Cardinality(m.failed) > budget)
    <3>1. partials' = (partials \ {a, b}) \union {m} /\ pc' = pc
      BY <1>4, <2>5 DEF SkipCombine
    <3> HIDE DEF m
    <3>2. \A q \in partials' : Cardinality(q.failed) <= budget
      BY <1>0, <2>2, <2>4, <2>5, <3>1
    <3>3. QED
      BY <2>2, <3>1, <3>2
  <2>6. CASE Cardinality(m.failed) > budget
    <3>1. pc' = "raised" /\ partials' = partials
      BY <1>4, <2>6 DEF SkipCombine
    <3>2. (Failures \union Blamed)' = Failures \union Blamed
      BY <2>2, <3>1 DEF Failures, Blamed
    <3>3. m.failed \subseteq Failures \union Blamed
      BY <2>1 DEF Failures
    <3>4. Failures \union Blamed \in SUBSET Tasks
      BY DEF Failures, Blamed, Accounts, TypeOK
    <3>5. /\ Cardinality(m.failed) <= Cardinality(Failures \union Blamed)
          /\ Cardinality(Failures \union Blamed) \in Nat
      BY <2>3, <3>3, <3>4, TasksFinite
    <3>6. Cardinality(Failures \union Blamed) + repeats > Budget
      BY <1>0, <2>4, <2>6, <3>5
    <3>7. QED
      BY <2>2, <3>1, <3>2, <3>6
  <2>7. QED
    BY <2>5, <2>6
<1>5. ASSUME NEW t \in Tasks, NEW gone, LoseWorker(LabelOf[t], gone) PROVE Solvent' /\ Result'
  <2>1. /\ pc = "running" /\ lost' = lost \union {LabelOf[t]}
        /\ budget' = Budget - repeats'
    BY <1>0, <1>5 DEF LoseWorker, Charged
  <2>2. lost' \in SUBSET {LabelOf[u] : u \in Tasks} /\ budget' \in Int /\ repeats' \in Nat
    BY <1>0, <1>5, <2>1 DEF LoseWorker, Charged, Accounts, TypeOK
  <2>3. Cardinality(lost') \in Nat
    BY <2>2, BlamedCount
  <2>4. Cardinality(lost') >= 1
    <3>1. IsFiniteSet(lost')
      BY <2>2, BlamedCount
    <3>2. lost' # {}
      BY <2>1
    <3>3. Cardinality(lost') # 0
      BY <3>1, <3>2, FS_EmptySet
    <3>4. QED
      BY <2>3, <3>3
  <2>5. CASE Cardinality(lost') > budget'
    <3>1. pc' = "raised" /\ partials' = partials
      BY <1>5, <2>5 DEF LoseWorker
    <3> DEFINE B == {u \in Tasks : LabelOf[u] \in lost'}
    <3>2. Cardinality(B) >= Cardinality(lost')
      BY <2>2, BlamedCount
    <3>3. B \subseteq (Failures \union Blamed)' /\ (Failures \union Blamed)' \in SUBSET Tasks
      BY <3>1 DEF Blamed, Failures, Accounts, TypeOK
    <3> HIDE DEF B
    <3>4. /\ Cardinality(B) <= Cardinality((Failures \union Blamed)')
          /\ Cardinality(B) \in Nat /\ Cardinality((Failures \union Blamed)') \in Nat
      BY <3>3, TasksFinite
    <3>5. QED
      BY <1>0, <2>1, <2>2, <2>3, <2>5, <3>1, <3>2, <3>4
  <2>6. CASE ~(Cardinality(lost') > budget')
    <3>1. pc' = pc /\ partials' = {}
      BY <1>5, <2>6 DEF LoseWorker
    <3>2. budget' >= 1
      BY <2>2, <2>3, <2>4, <2>6
    <3>3. QED
      BY <2>1, <3>1, <3>2
  <2>7. QED
    BY <2>5, <2>6
<1>6. CASE Finalize
  <2>1. PICK p : partials = {p}
    <3>1. Cardinality(partials) = 1
      BY <1>6 DEF Finalize
    <3>2. QED
      BY <3>1, FS_Singleton DEF Accounts, TypeOK
  <2>2. told' = p.caught
    BY <1>6, <2>1 DEF Finalize
  <2>3. QED
    BY <1>6, <2>1, <2>2 DEF Finalize, Failures
<1>7. ASSUME NEW a, NEW b, CombineRaises(a, b) PROVE Solvent' /\ Result'
  BY <1>7 DEF CombineRaises
<1>8. ASSUME NEW p, NEW w, WarnElsewhere(p, w) PROVE Solvent' /\ Result'
  BY <1>8 DEF WarnElsewhere
<1>9. CASE UNCHANGED skipVars
  BY <1>9 DEF skipVars, Failures, Blamed
<1>10. QED
  BY <1>2, <1>3, <1>4, <1>5, <1>6, <1>7, <1>8, <1>9 DEF SkipNext

\* "The run went past its failure budget, lost-worker reruns included": a result
\* misses at most the budget's chunks, and a run raises for no less.
THEOREM Budgeted == SkipSpec => []BudgetIsMet
<1>1. SkipAssumption
  BY SkipAssumption
<1>2. SkipInit => Solvent /\ Result
  BY <1>1 DEF SkipInit, Solvent, Result, SkipAssumption
<1>3. Accounts /\ Solvent /\ Result => BudgetIsMet
  <2> SUFFICES ASSUME Accounts, Solvent, Result PROVE BudgetIsMet
    OBVIOUS
  <2>1. ASSUME pc = "result" PROVE Cardinality(Root.failed) + repeats <= Budget
    <3>1. PICK p : partials = {p}
      BY <2>1 DEF Result
    <3>2. Root = p
      BY <3>1 DEF Root
    <3>3. p.failed \in SUBSET Tasks
      BY <3>1 DEF Accounts, TypeOK
    <3>4. Cardinality(p.failed) \in Nat
      BY <1>1, <3>3, TasksFinite
    <3>5. Cardinality(p.failed) <= budget /\ budget = Budget - repeats
      BY <2>1, <3>1 DEF Solvent
    <3>6. repeats \in Nat /\ Budget \in Nat
      BY <1>1 DEF Accounts, TypeOK, SkipAssumption
    <3>7. QED
      BY <3>2, <3>4, <3>5, <3>6
  <2>2. QED
    BY <2>1 DEF Solvent, Blamed, BudgetIsMet
<1>4. QED
  BY <1>1, <1>2, <1>3, AccountsInvariance, NextSolvent, PTL DEF SkipSpec

(***************************************************************************)
(* Warnings.  What a task was the first of its process to warn of is in    *)
(* its sink, then carried by its partial; what was suppressed had been     *)
(* shown by another task, which holds it the same way if it is of this     *)
(* attempt.                                                                *)
(***************************************************************************)

\* The task u showed w itself.
Showed(u, w) == w \in DOMAIN warned[u] /\ warned[u][w] = u

Registry ==
  /\ DOMAIN shown = Processes
  /\ \A p \in Processes : \A w \in DOMAIN shown[p] :
       shown[p][w] \in Tasks => Showed(shown[p][w], w)
  /\ \A t \in DOMAIN sinks :
       /\ sinks[t] \in [at : Processes, caught : SUBSET Warnings]
       /\ DOMAIN warned[t] \ Always \subseteq DOMAIN shown[sinks[t].at]

Attributed ==
  \A t \in Tasks : \A w \in DOMAIN warned[t] :
    /\ w \in Always => warned[t][w] = t
    /\ warned[t][w] \in Tasks => Showed(warned[t][w], w)

Carries(p) ==
  /\ \A w \in DOMAIN p.caught : p.caught[w] \in p.value /\ w \in DOMAIN warned[p.caught[w]]
  /\ \A t \in p.value : \A w \in DOMAIN warned[t] : Showed(t, w) => w \in DOMAIN p.caught

Sinks(t) ==
  /\ sinks[t].caught \subseteq DOMAIN warned[t]
  /\ \A w \in DOMAIN warned[t] : Showed(t, w) => w \in sinks[t].caught

Carrying ==
  /\ Registry /\ Attributed
  /\ \A t \in DOMAIN sinks : Sinks(t)
  /\ \A t \in pending : DOMAIN warned[t] = {}
  /\ \A p \in partials : Carries(p)

\* A task that warns keeps its own account of it, shown or not.
LEMMA WarnStep ==
  ASSUME SkipAssumption, Accounts, Carrying, NEW t \in Tasks, NEW w \in Warnings, Warn(t, w)
  PROVE  Carrying'
<1> DEFINE p == sinks[t].at
<1>1. /\ t \in DOMAIN sinks /\ t \notin pending /\ pending' = pending /\ partials' = partials
      /\ DOMAIN sinks \subseteq Tasks /\ DOMAIN warned = Tasks
  BY DEF Warn, Accounts, TypeOK, Apart
<1>2. /\ p \in Processes /\ DOMAIN shown = Processes
      /\ DOMAIN warned[t] \ Always \subseteq DOMAIN shown[p]
      /\ Sinks(t)
  BY <1>1 DEF Carrying, Registry
<1>3. /\ \A q \in Processes \ {p} : shown'[q] = shown[q]
      /\ DOMAIN shown' = Processes
      /\ w \in Always => shown'[p] = shown[p]
      /\ w \notin Always => /\ DOMAIN shown'[p] = DOMAIN shown[p] \union {w}
                            /\ w \notin DOMAIN shown[p] => shown'[p][w] = t
      /\ \A x \in DOMAIN shown[p] : shown'[p][x] = shown[p][x]
  <2>1. shown' = IF w \in Always THEN shown ELSE [shown EXCEPT ![p] = Put(shown[p], w, t)]
    BY <1>1, <1>2 DEF Warn, Registers
  <2>2. CASE w \in Always
    BY <2>1, <2>2, <1>2
  <2>3. CASE w \notin Always
    <3>1. shown'[p] = Put(shown[p], w, t) /\ \A q \in Processes \ {p} : shown'[q] = shown[q]
      BY <2>1, <2>3, <1>2
    <3>2. QED
      BY <2>1, <2>3, <1>2, <3>1 DEF Put
  <2>4. QED
    BY <2>2, <2>3
<1>4. /\ DOMAIN warned' = Tasks /\ \A u \in Tasks \ {t} : warned'[u] = warned[u]
      /\ DOMAIN warned'[t] = DOMAIN warned[t] \union {w}
      /\ \A x \in DOMAIN warned[t] : warned'[t][x] = warned[t][x]
      /\ w \notin DOMAIN warned[t] => /\ Shows(p, w) => warned'[t][w] = t
                                      /\ ~Shows(p, w) => warned'[t][w] = shown[p][w]
  <2>1. CASE Shows(p, w)
    <3>1. warned' = [warned EXCEPT ![t] = Put(warned[t], w, t)]
      BY <2>1 DEF Warn
    <3>2. QED
      BY <1>1, <2>1, <3>1 DEF Put
  <2>2. CASE ~Shows(p, w)
    <3>1. warned' = [warned EXCEPT ![t] = Put(warned[t], w, shown[p][w])]
      BY <2>2 DEF Warn
    <3>2. QED
      BY <1>1, <2>2, <3>1 DEF Put
  <2>3. QED
    BY <2>1, <2>2
<1>5. /\ DOMAIN sinks' = DOMAIN sinks /\ \A u \in DOMAIN sinks \ {t} : sinks'[u] = sinks[u]
      /\ sinks'[t].at = p
      /\ sinks'[t].caught = IF Shows(p, w) THEN sinks[t].caught \union {w} ELSE sinks[t].caught
      /\ sinks'[t] \in [at : Processes, caught : SUBSET Warnings]
  <2>1. sinks[t] \in [at : Processes, caught : SUBSET Warnings]
    BY <1>1 DEF Carrying, Registry
  <2>2. CASE Shows(p, w)
    BY <1>1, <2>1, <2>2 DEF Warn, sink
  <2>3. CASE ~Shows(p, w)
    BY <1>1, <2>1, <2>3 DEF Warn
  <2>4. QED
    BY <2>2, <2>3
<1> HIDE DEF p
<1>6. \A x \in DOMAIN warned[t] : warned'[t][x] = warned[t][x]
  BY <1>4
<1>7. DOMAIN warned'[t] = DOMAIN warned[t] \union {w}
  BY <1>4
<1>8. \A u \in Tasks : \A x : Showed(u, x) => Showed(u, x)'
  BY <1>4, <1>6, <1>7 DEF Showed
<1>9. Shows(p, w) => warned'[t][w] = t
  <2>1. SUFFICES ASSUME Shows(p, w) PROVE warned'[t][w] = t
    OBVIOUS
  <2>2. CASE w \notin DOMAIN warned[t]
    BY <1>4, <2>1, <2>2
  <2>3. CASE w \in DOMAIN warned[t]
    <3>1. w \in Always
      BY <1>2, <2>1, <2>3 DEF Shows
    <3>2. QED
      BY <1>6, <2>3, <3>1 DEF Carrying, Attributed
  <2>4. QED
    BY <2>2, <2>3
<1>10. ASSUME ~Shows(p, w), w \notin DOMAIN warned[t]
       PROVE  /\ w \notin Always /\ w \in DOMAIN shown[p] /\ warned'[t][w] = shown[p][w]
              /\ shown[p][w] # t
              /\ shown[p][w] \in Tasks => Showed(shown[p][w], w)
  <2>1. w \notin Always /\ w \in DOMAIN shown[p] /\ warned'[t][w] = shown[p][w]
    BY <1>4, <1>10 DEF Shows
  <2>2. shown[p][w] \in Tasks => Showed(shown[p][w], w)
    BY <1>2, <2>1 DEF Carrying, Registry
  <2>3. shown[p][w] # t
    BY <1>10, <2>2 DEF Showed
  <2>4. QED
    BY <2>1, <2>2, <2>3
<1>11. Registry'
  <2>1. ASSUME NEW q \in Processes, NEW x \in DOMAIN shown'[q],
               NEW u \in Tasks, u = shown'[q][x]
        PROVE  Showed(u, x)'
    <3>1. CASE x \in DOMAIN shown[q] /\ shown'[q][x] = shown[q][x]
      <4>1. Showed(u, x)
        BY <2>1, <3>1 DEF Carrying, Registry
      <4>2. QED
        BY <1>8, <4>1
    <3>2. CASE q = p /\ x = w /\ w \notin Always /\ w \notin DOMAIN shown[p]
      <4>1. u = t /\ warned'[t][w] = t
        BY <1>3, <1>9, <2>1, <3>2 DEF Shows
      <4>2. QED
        BY <1>7, <3>2, <4>1 DEF Showed
    <3>3. QED
      BY <1>3, <2>1, <3>1, <3>2
  <2>2. ASSUME NEW u \in DOMAIN sinks'
        PROVE  /\ sinks'[u] \in [at : Processes, caught : SUBSET Warnings]
               /\ DOMAIN warned'[u] \ Always \subseteq DOMAIN shown'[sinks'[u].at]
    <3>1. \A q \in Processes : DOMAIN shown[q] \subseteq DOMAIN shown'[q]
      BY <1>3
    <3>2. CASE u # t
      <4>1. u \in DOMAIN sinks /\ u \in Tasks /\ sinks'[u] = sinks[u] /\ warned'[u] = warned[u]
        BY <1>1, <1>4, <1>5, <3>2
      <4>2. /\ sinks[u] \in [at : Processes, caught : SUBSET Warnings]
            /\ DOMAIN warned[u] \ Always \subseteq DOMAIN shown[sinks[u].at]
        BY <4>1 DEF Carrying, Registry
      <4>3. QED
        BY <3>1, <4>1, <4>2
    <3>3. CASE u = t
      <4>1. w \in Always \/ w \in DOMAIN shown'[p]
        BY <1>3
      <4>2. QED
        BY <1>2, <1>5, <1>7, <3>1, <3>3, <4>1
    <3>4. QED
      BY <3>2, <3>3
  <2>3. QED
    <3>1. \A q \in Processes : \A x \in DOMAIN shown'[q] :
            shown'[q][x] \in Tasks => Showed(shown[q][x], x)'
      BY <2>1 DEF Showed
    <3>2. QED
      BY <1>3, <2>2, <3>1 DEF Registry
<1>12. Attributed'
  <2>1. ASSUME NEW u \in Tasks, NEW x \in DOMAIN warned'[u], NEW by, by = warned'[u][x]
        PROVE  /\ x \in Always => by = u
               /\ by \in Tasks => Showed(by, x)'
    <3>1. CASE x \in DOMAIN warned[u]
      <4>1. warned'[u][x] = warned[u][x]
        BY <1>4, <1>6, <3>1
      <4>2. /\ x \in Always => warned[u][x] = u
            /\ warned[u][x] \in Tasks => Showed(warned[u][x], x)
        BY <3>1 DEF Carrying, Attributed
      <4>3. by = warned[u][x]
        BY <2>1, <4>1
      <4>4. QED
        BY <1>8, <4>2, <4>3
    <3>2. CASE u = t /\ x = w /\ w \notin DOMAIN warned[t]
      <4>1. CASE Shows(p, w)
        BY <1>7, <1>9, <2>1, <3>2, <4>1 DEF Showed
      <4>2. CASE ~Shows(p, w)
        <5>1. /\ w \notin Always /\ by = shown[p][w]
              /\ shown[p][w] \in Tasks => Showed(shown[p][w], w)
          BY <1>10, <2>1, <3>2, <4>2
        <5>2. QED
          BY <1>8, <3>2, <5>1
      <4>3. QED
        BY <4>1, <4>2
    <3>3. QED
      BY <1>4, <1>7, <2>1, <3>1, <3>2
  <2>2. QED
    <3>1. \A u \in Tasks : \A x \in DOMAIN warned'[u] :
            /\ x \in Always => warned'[u][x] = u
            /\ warned'[u][x] \in Tasks => Showed(warned[u][x], x)'
      BY <2>1 DEF Showed
    <3>2. QED
      BY <3>1 DEF Attributed
<1>13. ASSUME NEW u \in DOMAIN sinks' PROVE Sinks(u)'
  <2>1. CASE u # t
    <3>1. u \in DOMAIN sinks /\ u \in Tasks /\ sinks'[u] = sinks[u] /\ warned'[u] = warned[u]
      BY <1>1, <1>4, <1>5, <2>1
    <3>2. Sinks(u)
      BY <3>1 DEF Carrying
    <3>3. QED
      BY <3>1, <3>2 DEF Sinks, Showed
  <2>2. CASE u = t
    <3>1. sinks'[t].caught \subseteq DOMAIN warned'[t]
      BY <1>2, <1>5, <1>7 DEF Sinks
    <3>2. ASSUME NEW x \in DOMAIN warned'[t], warned'[t][x] = t PROVE x \in sinks'[t].caught
      <4>1. CASE x \in DOMAIN warned[t]
        <5>1. x \in sinks[t].caught
          BY <1>2, <1>6, <3>2, <4>1 DEF Sinks, Showed
        <5>2. QED
          BY <1>5, <5>1
      <4>2. CASE x = w /\ w \notin DOMAIN warned[t]
        <5>1. Shows(p, w)
          BY <1>10, <3>2, <4>2
        <5>2. QED
          BY <1>5, <4>2, <5>1
      <4>3. QED
        BY <1>7, <3>2, <4>1, <4>2
    <3>3. QED
      BY <2>2, <3>1, <3>2 DEF Sinks, Showed
  <2>3. QED
    BY <2>1, <2>2
<1>14. ASSUME NEW q \in partials PROVE Carries(q)'
  <2>1. t \notin q.value /\ q.value \subseteq Tasks
    BY <1>1 DEF Accounts, TypeOK, Apart, Of
  <2>2. \A u \in q.value : warned'[u] = warned[u]
    BY <1>4, <2>1
  <2>3. Carries(q)
    BY DEF Carrying
  <2>4. QED
    BY <2>2, <2>3 DEF Carries, Showed
<1>15. \A u \in pending : DOMAIN warned'[u] = {}
  BY <1>1, <1>4 DEF Carrying, Accounts, TypeOK
<1>16. QED
  BY <1>1, <1>11, <1>12, <1>13, <1>14, <1>15 DEF Carrying

LEMMA NextCarrying ==
  SkipAssumption /\ Accounts /\ Carrying /\ [SkipNext]_skipVars => Carrying'
<1> SUFFICES ASSUME SkipAssumption, Accounts, Carrying, [SkipNext]_skipVars PROVE Carrying'
  OBVIOUS
<1>0. /\ \A p \in partials : p.value \subseteq Tasks
      /\ pending \subseteq Tasks /\ DOMAIN sinks \subseteq Tasks
  BY DEF Accounts, TypeOK
<1>a. ASSUME warned' = warned PROVE Attributed' /\ \A p : Carries(p) => Carries(p)'
  BY <1>a DEF Carrying, Attributed, Carries, Showed
<1>1. ASSUME NEW t \in Tasks, Start(t) PROVE Carrying'
  <2>1. /\ warned' = warned /\ shown' = shown /\ t \in pending /\ pending' = pending \ {t}
        /\ DOMAIN warned[t] = {}
    BY <1>1 DEF Start, Carrying
  <2>2. CASE LabelOf[t] \in lost
    <3> DEFINE p == Partial({}, {t}, << >>)
    <3>1. partials' = partials \union {p} /\ sinks' = sinks
      BY <1>1, <2>2 DEF Start
    <3>2. p.value = {} /\ p.caught = << >>
      BY DEF Partial
    <3> HIDE DEF p
    <3>3. Carries(p)
      BY <3>2, EmptyDomain DEF Carries
    <3>4. Registry' /\ \A u \in DOMAIN sinks' : Sinks(u)'
      BY <2>1, <3>1 DEF Carrying, Registry, Sinks, Showed
    <3>5. QED
      BY <1>a, <2>1, <3>1, <3>3, <3>4 DEF Carrying
  <2>3. CASE LabelOf[t] \notin lost
    <3>1. PICK p \in Processes :
            sinks' = [u \in DOMAIN sinks \union {t} |->
                        IF u = t THEN [at |-> p, caught |-> {}] ELSE sinks[u]]
      BY <1>1, <2>3 DEF Start
    <3>2. partials' = partials
      BY <1>1, <2>3 DEF Start
    <3>3. /\ DOMAIN sinks' = DOMAIN sinks \union {t}
          /\ sinks'[t] = [at |-> p, caught |-> {}]
          /\ \A u \in DOMAIN sinks \ {t} : sinks'[u] = sinks[u]
      BY <3>1
    <3>4. t \notin DOMAIN sinks
      BY <2>1 DEF Accounts, Apart
    <3>5. Registry'
      <4>1. ASSUME NEW u \in DOMAIN sinks'
            PROVE  /\ sinks'[u] \in [at : Processes, caught : SUBSET Warnings]
                   /\ DOMAIN warned[u] \ Always \subseteq DOMAIN shown[sinks'[u].at]
        <5>1. CASE u = t
          BY <2>1, <3>3, <5>1
        <5>2. CASE u # t
          BY <3>3, <5>2 DEF Carrying, Registry
        <5>3. QED
          BY <5>1, <5>2
      <4>2. QED
        BY <2>1, <4>1 DEF Carrying, Registry, Showed
    <3>6. ASSUME NEW u \in DOMAIN sinks' PROVE Sinks(u)'
      <4>1. CASE u = t
        BY <2>1, <3>3, <4>1 DEF Sinks
      <4>2. CASE u # t
        BY <2>1, <3>3, <4>2 DEF Carrying, Sinks, Showed
      <4>3. QED
        BY <4>1, <4>2
    <3>7. QED
      BY <1>a, <2>1, <3>2, <3>5, <3>6 DEF Carrying
  <2>4. QED
    BY <2>2, <2>3
<1>2. ASSUME NEW t \in Tasks, Process(t) PROVE Carrying'
  <2>1. /\ t \in DOMAIN sinks /\ sinks' = [u \in DOMAIN sinks \ {t} |-> sinks[u]]
        /\ warned' = warned /\ shown' = shown /\ pending' = pending
    BY <1>2 DEF Process
  <2>2. PICK p \in SkipProcess(t) : partials' = partials \union {p}
    BY <1>2 DEF Process
  <2>3. Carries(p)
    <3>1. CASE p = Partial({t}, {}, carrying(t))
      <4>1. p.value = {t} /\ p.caught = [w \in sinks[t].caught |-> t]
        BY <3>1 DEF Partial, carrying
      <4>2. Sinks(t)
        BY <2>1 DEF Carrying
      <4>3. QED
        BY <4>1, <4>2 DEF Carries, Sinks
    <3>2. CASE p = Partial({}, {t}, << >>)
      <4>1. p.value = {} /\ p.caught = << >>
        BY <3>2 DEF Partial
      <4>2. QED
        BY <4>1, EmptyDomain DEF Carries
    <3>3. QED
      BY <2>2, <3>1, <3>2 DEF SkipProcess
  <2>4. Registry' /\ \A u \in DOMAIN sinks' : Sinks(u)'
    BY <2>1 DEF Carrying, Registry, Sinks, Showed
  <2>5. QED
    BY <1>a, <2>1, <2>2, <2>3, <2>4 DEF Carrying
<1>3. ASSUME NEW t \in Tasks, NEW w \in Warnings, Warn(t, w) PROVE Carrying'
  BY <1>3, WarnStep
<1>4. ASSUME NEW a \in partials, NEW b \in partials, a # b, SkipCombine(a, b) PROVE Carrying'
  <2> DEFINE m == Merged(a, b)
  <2>1. UNCHANGED <<pending, sinks, shown, warned>>
    BY <1>4 DEF SkipCombine
  <2>2. /\ m.value = a.value \union b.value
        /\ m.caught = [w \in DOMAIN a.caught \union DOMAIN b.caught |->
                         IF w \in DOMAIN a.caught THEN a.caught[w] ELSE b.caught[w]]
    BY DEF Merged, Partial, Caught
  <2>3. Carries(a) /\ Carries(b)
    BY <1>4 DEF Carrying
  <2> HIDE DEF m
  <2>4. Carries(m)
    BY <2>2, <2>3 DEF Carries
  <2>5. partials' \subseteq partials \union {m}
    BY <1>4 DEF SkipCombine, m
  <2>6. Registry' /\ \A u \in DOMAIN sinks' : Sinks(u)'
    BY <2>1 DEF Carrying, Registry, Sinks, Showed
  <2>7. QED
    BY <1>a, <2>1, <2>4, <2>5, <2>6 DEF Carrying
<1>5. ASSUME UNCHANGED <<pending, sinks, shown, partials, warned>> PROVE Carrying'
  <2>1. Registry' /\ \A u \in DOMAIN sinks' : Sinks(u)'
    BY <1>5 DEF Carrying, Registry, Sinks, Showed
  <2>2. QED
    BY <1>5, <1>a, <2>1 DEF Carrying
<1>6. ASSUME NEW t \in Tasks, NEW gone, LoseWorker(LabelOf[t], gone) PROVE Carrying'
  <2>1. CASE pending' = Tasks /\ sinks' = << >> /\ partials' = {} /\ warned' = Quiet
             /\ shown' = Outlived(gone)
    <3>1. \A u \in Tasks : DOMAIN warned'[u] = {}
      BY <2>1, EmptyDomain DEF Quiet
    <3>2. DOMAIN shown' = Processes
      BY <2>1 DEF Outlived
    <3>3. ASSUME NEW p \in Processes, NEW w \in DOMAIN shown'[p] PROVE shown'[p][w] \notin Tasks
      <4>1. p \notin gone
        BY <2>1, EmptyDomain DEF Outlived
      <4>2. shown'[p][w] = Other
        BY <2>1, <4>1 DEF Outlived
      <4>3. QED
        BY <4>2 DEF SkipAssumption
    <3>4. QED
      BY <2>1, <3>1, <3>2, <3>3, EmptyDomain DEF Carrying, Registry, Attributed
  <2>2. QED
    BY <1>5, <1>6, <2>1 DEF LoseWorker
<1>7. ASSUME NEW q \in Processes, NEW w \in Warnings \ Always, WarnElsewhere(q, w) PROVE Carrying'
  <2>1. /\ UNCHANGED <<pending, sinks, partials, warned>>
        /\ DOMAIN shown = Processes /\ shown' = [shown EXCEPT ![q] = Put(@, w, Other)]
    BY <1>7 DEF WarnElsewhere, Registers, Carrying, Registry
  <2>2. DOMAIN shown' = Processes
    BY <2>1
  <2>3. ASSUME NEW p \in Processes
        PROVE  /\ DOMAIN shown[p] \subseteq DOMAIN shown'[p]
               /\ \A x \in DOMAIN shown'[p] :
                    \/ x \in DOMAIN shown[p] /\ shown'[p][x] = shown[p][x]
                    \/ shown'[p][x] = Other
    <3>1. CASE p = q
      <4>1. shown'[p] = Put(shown[p], w, Other)
        BY <2>1, <3>1
      <4>2. QED
        BY <4>1 DEF Put
    <3>2. CASE p # q
      BY <2>1, <3>2
    <3>3. QED
      BY <3>1, <3>2
  <2>4. ASSUME NEW p \in Processes, NEW x \in DOMAIN shown'[p],
               NEW u \in Tasks, u = shown'[p][x]
        PROVE  Showed(u, x)'
    <3>1. x \in DOMAIN shown[p] /\ u = shown[p][x]
      BY <2>3, <2>4 DEF SkipAssumption
    <3>2. Showed(u, x)
      BY <3>1 DEF Carrying, Registry
    <3>3. QED
      BY <2>1, <3>2 DEF Showed
  <2>5. ASSUME NEW u \in DOMAIN sinks'
        PROVE  /\ sinks'[u] \in [at : Processes, caught : SUBSET Warnings]
               /\ DOMAIN warned'[u] \ Always \subseteq DOMAIN shown'[sinks'[u].at]
    <3>1. /\ sinks[u] \in [at : Processes, caught : SUBSET Warnings]
          /\ DOMAIN warned[u] \ Always \subseteq DOMAIN shown[sinks[u].at]
      BY <2>1 DEF Carrying, Registry
    <3>2. QED
      BY <2>1, <2>3, <3>1
  <2>6. Registry'
    <3>1. \A p \in Processes : \A x \in DOMAIN shown'[p] :
            shown'[p][x] \in Tasks => Showed(shown[p][x], x)'
      BY <2>4 DEF Showed
    <3>2. QED
      BY <2>2, <2>5, <3>1 DEF Registry
  <2>7. \A u \in DOMAIN sinks' : Sinks(u)'
    BY <2>1 DEF Carrying, Sinks, Showed
  <2>8. QED
    BY <1>a, <2>1, <2>6, <2>7 DEF Carrying
<1>8. QED
  BY <1>1, <1>2, <1>3, <1>4, <1>5, <1>6, <1>7 DEF SkipNext, skipVars, Finalize, CombineRaises

\* What is told on the driver is told under the name of a chunk of the value that
\* warned of it, and what such a chunk warned of is told unless it is no
\* RuntimeWarning and its process had shown it for something not in the value.
THEOREM Warned == SkipSpec => []WarningsReachTheDriver
<1>1. SkipAssumption
  BY SkipAssumption
<1>2. SkipInit => Solvent /\ Result /\ Carrying
  <2> SUFFICES ASSUME SkipInit PROVE Solvent /\ Result /\ Carrying
    OBVIOUS
  <2>1. Solvent /\ Result
    BY <1>1 DEF SkipInit, Solvent, Result, SkipAssumption
  <2>2. /\ sinks = << >> /\ partials = {} /\ \A t \in Tasks : DOMAIN warned[t] = {}
        /\ DOMAIN shown = Processes /\ \A p \in Processes : DOMAIN shown[p] = {}
        /\ pending = Tasks
    BY EmptyDomain DEF SkipInit, Quiet
  <2>3. QED
    BY <2>1, <2>2, EmptyDomain DEF Carrying, Registry, Attributed
<1>3. Accounts /\ Result /\ Carrying => WarningsReachTheDriver
  <2> SUFFICES ASSUME Accounts, Result, Carrying, pc = "result" PROVE WarningsReachTheDriver
    BY DEF WarningsReachTheDriver
  <2>1. PICK p : partials = {p} /\ told = p.caught
    BY DEF Result
  <2>2. Root = p
    BY <2>1 DEF Root
  <2>3. Carries(p) /\ p.value \subseteq Tasks
    BY <2>1 DEF Carrying, Accounts, TypeOK
  <2>4. ASSUME NEW t \in p.value, NEW w \in DOMAIN warned[t] \ DOMAIN told
        PROVE  w \notin Always /\ warned[t][w] \notin p.value
    <3>1. \A u \in p.value : ~Showed(u, w)
      BY <2>1, <2>3, <2>4 DEF Carries, Showed
    <3>2. /\ w \in Always => warned[t][w] = t
          /\ warned[t][w] \in Tasks => Showed(warned[t][w], w)
      BY <2>3, <2>4 DEF Carrying, Attributed
    <3>3. QED
      BY <2>3, <2>4, <3>1, <3>2 DEF Showed
  <2>5. QED
    BY <2>1, <2>2, <2>3, <2>4 DEF Carries, WarningsReachTheDriver
<1>4. QED
  BY <1>1, <1>2, <1>3, AccountsInvariance, NextSolvent, NextCarrying, PTL DEF SkipSpec
=============================================================================
