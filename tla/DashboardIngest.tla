-------------------------- MODULE DashboardIngest --------------------------
(***************************************************************************)
(* How the dashboard server (python/graphed/debug/dashboard/_server.py)    *)
(* takes one task event in: a function of its state and the event.         *)
(*                                                                         *)
(* The phases of a task are of three classes, and a key's lifecycle is the *)
(* set of classes seen since the last repeated one.  A partition's label   *)
(* is the number of the run that submitted it; 0 stands for an empty one.  *)
(***************************************************************************)
EXTENDS Integers, FiniteSets

CONSTANTS Keys, Workers

Phases == {"submitted", "started", "finished", "errored"}

ClassOf == [submitted |-> 0, started |-> 1, finished |-> 2, errored |-> 2]

NoLabel == 0

Event(phase, key, worker, label) ==
  [phase |-> phase, key |-> key, worker |-> worker, label |-> label]

NoRow    == [phase |-> "none", label |-> NoLabel]
NoRecord == [state |-> "none", label |-> NoLabel]

NewServer ==
  [life       |-> [k \in Keys |-> {}],        \* _KeyState.life
   label      |-> [k \in Keys |-> NoLabel],   \* _KeyState.label
   rows       |-> [k \in Keys |-> NoRow],     \* the tasks table
   stats      |-> [p \in Phases |-> 0],
   inflight   |-> 0,
   open       |-> {},
   seen       |-> {},                         \* _workers_seen
   records    |-> [w \in Workers |-> [k \in Keys |-> NoRecord]],   \* _workers
   unlabelled |-> {}]                         \* records, <<worker, key>>, awaiting a label

\* A repeated class is the only sign of a new run or a retry.
Life(s, e) == IF ClassOf[e.phase] \in s.life[e.key] THEN {} ELSE s.life[e.key]

\* The event of a lifecycle that has moved past it.
Late_Never(s, e) == FALSE
Late(s, e) == \E c \in Life(s, e) : c > ClassOf[e.phase]

\* A terminal event that stands for the start a lean worker did not send.
Derived(s, e, lean) == lean /\ ClassOf[e.phase] = 2 /\ 1 \notin Life(s, e)

\* _update_row: a late event writes the label only, one without a label none.
Row(s, e) ==
  LET row == s.rows[e.key]
  IN  [phase |-> IF Late(s, e) THEN row.phase ELSE e.phase,
       label |-> IF e.label = NoLabel THEN row.label ELSE e.label]

\* A submission opens its key whatever came before it.
Opened_Always(s, e) ==
  CASE ClassOf[e.phase] = 0 -> s.open \union {e.key}
    [] ClassOf[e.phase] = 2 -> s.open \ {e.key}
    [] OTHER                -> s.open

Opened(s, e) ==
  CASE ClassOf[e.phase] = 0 /\ 2 \notin Life(s, e) -> s.open \union {e.key}
    [] ClassOf[e.phase] = 2                        -> s.open \ {e.key}
    [] OTHER                                       -> s.open

Seen(s, e) == IF ClassOf[e.phase] = 0 THEN s.seen ELSE s.seen \union {e.worker}

Least(a, b)  == IF a < b THEN a ELSE b
Larger(a, b) == IF a > b THEN a ELSE b
InFlight(s, e, lean) ==
  IF lean THEN Least(Cardinality(Seen(s, e)), Cardinality(Opened(s, e)))
  ELSE CASE e.phase = "started"  -> s.inflight + 1
         [] ClassOf[e.phase] = 2 -> Larger(0, s.inflight - 1)
         [] OTHER                -> s.inflight

Stats(s, e, lean) ==
  [p \in Phases |-> s.stats[p] + (IF p = e.phase THEN 1 ELSE 0)
                      + (IF p = "started" /\ Derived(s, e, lean) THEN 1 ELSE 0)]

\* _ingest_worker's cell of the task.
Record(s, e) ==
  LET rec == s.records[e.worker][e.key]
  IN  [state |-> IF e.phase = "started" /\ rec.state # "none" THEN rec.state ELSE e.phase,
       label |-> IF e.phase = "started" /\ e.label # NoLabel THEN e.label
                 ELSE IF rec.label = NoLabel THEN s.label[e.key] ELSE rec.label]

IngestSubmitted(s, e) ==
  [s EXCEPT !.label[e.key] = e.label,
            !.records = [w \in Workers |-> [k \in Keys |->
               IF k = e.key /\ <<w, k>> \in s.unlabelled
               THEN [s.records[w][k] EXCEPT !.label = e.label] ELSE s.records[w][k]]],
            !.unlabelled = {u \in @ : u[2] # e.key}]

IngestWorker(s, e) ==
  [s EXCEPT !.records[e.worker][e.key] = Record(s, e),
            !.unlabelled = IF Record(s, e).label = NoLabel
                           THEN @ \union {<<e.worker, e.key>>} ELSE @]

\* _ingest_task.
IngestTask(s, e, lean) ==
  LET t == IF ClassOf[e.phase] = 0 THEN IngestSubmitted(s, e) ELSE IngestWorker(s, e)
  IN  [t EXCEPT !.life[e.key] = Life(s, e) \union {ClassOf[e.phase]},
                !.rows[e.key] = Row(s, e),
                !.stats = Stats(s, e, lean),
                !.inflight = InFlight(s, e, lean),
                !.open = Opened(s, e),
                !.seen = Seen(s, e)]
=============================================================================
