----------------------------- MODULE Dashboard -----------------------------
(***************************************************************************)
(* The live dashboard (python/graphed/debug/dashboard/_client.py and       *)
(* _server.py) watching runs whose workers report for themselves           *)
(* (per_worker=True).  The driver and each worker process have a monitor:  *)
(* a bounded buffer, a sender thread that drains it, and a connection of   *)
(* its own.  The server takes frames in as they come, so nothing orders    *)
(* one process's events against another's, and events may be lost.         *)
(***************************************************************************)
EXTENDS DashboardIngest, Sequences, SequencesExt, Functions

CONSTANTS
  Driver,      \* the driver's monitor
  QueueSize,   \* queue_size
  MaxAttempts, \* bound on the attempts at tasks, of all runs
  MaxBreaks    \* bound on failures of connections

ASSUME DashboardAssumption ==
  /\ IsFiniteSet(Workers) /\ Driver \notin Workers
  /\ QueueSize \in Nat \ {0} /\ MaxAttempts \in Nat /\ MaxBreaks \in Nat

Monitors == Workers \union {Driver}

VARIABLES
  lean,     \* lean=True: workers report terminal events only, unlabelled
  plan,     \* the keys of the runs' partitions
  task,     \* key -> where this run's task is, who has it, the last phase told of it
  begun, retries, breaks,   \* how many there were
  closing,  \* the runs are over: every monitor's _stop is set
  buf,      \* monitor -> NetworkMonitor._buf
  sender,   \* monitor -> where its sender thread is: pc, the drained batch, final
  conn,     \* monitor -> "none", "open", or "dead" and not yet known to be
  wire,     \* monitor -> frames its connection carries
  server,   \* the server's state
  emitted,  \* history: phase -> events monitors were told
  lost,     \* history: monitor -> events it had and dropped
  excused,  \* history: monitor -> those dropped for a full buffer or a failed connection
  blurred   \* history: a run ended early, or began before the server had heard
            \* all of the last

run           == <<lean, plan, task, begun, retries>>
dashboardVars == <<run, closing, breaks, buf, sender, conn, wire, server, emitted, lost, excused, blurred>>

Unborn == [at |-> "waiting", worker |-> Driver, told |-> "none"]

DashboardInit ==
  /\ lean \in BOOLEAN /\ plan \in SUBSET Keys \ {{}}
  /\ task = [k \in Keys |-> [Unborn EXCEPT !.at = "none"]]
  /\ begun = 0 /\ retries = 0 /\ breaks = 0 /\ closing = FALSE
  /\ buf = [m \in Monitors |-> << >>]
  /\ sender = [m \in Monitors |-> [pc |-> "top", batch |-> << >>, final |-> FALSE]]
  /\ conn = [m \in Monitors |-> "none"]
  /\ wire = [m \in Monitors |-> << >>]
  /\ server = NewServer
  /\ emitted = [p \in Phases |-> 0]
  /\ lost = [m \in Monitors |-> 0] /\ excused = [m \in Monitors |-> 0]
  /\ blurred = FALSE

(***************************************************************************)
(* The run that is watched.                                                *)
(***************************************************************************)

\* _emit: a full buffer drops its oldest event.
Emit(m, phase, k, label) ==
  /\ LET full == Len(buf[m]) = QueueSize
         kept == IF full THEN Tail(buf[m]) ELSE buf[m]
     IN  /\ buf' = [buf EXCEPT ![m] = Append(kept, Event(phase, k, m, label))]
         /\ lost' = IF full THEN [lost EXCEPT ![m] = @ + 1] ELSE lost
         /\ excused' = IF full THEN [excused EXCEPT ![m] = @ + 1] ELSE excused
  /\ emitted' = [emitted EXCEPT ![phase] = @ + 1]

\* Room for n more attempts.
Room(n) == begun * Cardinality(plan) + retries + n <= MaxAttempts

Ended(k) == task[k].at \in {"none", "finished", "errored", "left"}

Heard == \A m \in Monitors : buf[m] = << >> /\ sender[m].batch = << >> /\ wire[m] = << >>

\* The driver begins a run: the keys are the same, the plan need not be.
Begin ==
  /\ Room(Cardinality(plan)) /\ ~closing /\ \A k \in Keys : Ended(k)
  /\ begun' = begun + 1
  /\ task' = [k \in Keys |-> IF k \in plan THEN Unborn ELSE task[k]]
  /\ blurred' = (blurred \/ ~Heard \/ \E k \in Keys : task[k].at = "left")
  /\ UNCHANGED <<closing, lean, plan, retries, breaks, buf, sender, conn, wire, server, emitted, lost, excused>>

SubmitTask(k) ==
  /\ task[k].at = "waiting"
  /\ task' = [task EXCEPT ![k].at = "submitted", ![k].told = "submitted"]
  /\ Emit(Driver, "submitted", k, begun)
  /\ UNCHANGED <<closing, lean, plan, begun, retries, breaks, sender, conn, wire, server, blurred>>

Busy(w) == \E k \in Keys : task[k].worker = w /\ task[k].at = "started"

\* A worker starts a task, or its second attempt at one.
StartOn(k, w) ==
  /\ task[k].at \in {"submitted", "retried"} /\ ~Busy(w)
  /\ task[k].at = "retried" => task[k].worker = w
  /\ IF lean
     THEN /\ task' = [task EXCEPT ![k].at = "started", ![k].worker = w]
          /\ UNCHANGED <<buf, lost, excused, emitted>>
     ELSE /\ task' = [task EXCEPT ![k] = [at |-> "started", worker |-> w, told |-> "started"]]
          /\ Emit(w, "started", k, begun)
  /\ UNCHANGED <<closing, lean, plan, begun, retries, breaks, sender, conn, wire, server, blurred>>

End(k, phase) ==
  /\ task[k].at = "started"
  /\ task' = [task EXCEPT ![k].at = phase, ![k].told = phase]
  /\ Emit(task[k].worker, phase, k, IF lean THEN NoLabel ELSE begun)
  /\ UNCHANGED <<closing, lean, plan, begun, retries, breaks, sender, conn, wire, server, blurred>>

\* A failed attempt is followed by another while its run goes on.
Retry(k) ==
  /\ task[k].at = "errored" /\ Room(1) /\ ~closing
  /\ retries' = retries + 1
  /\ task' = [task EXCEPT ![k].at = "retried"]
  /\ UNCHANGED <<closing, lean, plan, begun, breaks, buf, sender, conn, wire, server, emitted, lost, excused, blurred>>

\* A cancel, or a failure, keeps the submitted tasks from starting.
Interrupt ==
  /\ \E k \in Keys : task[k].at = "submitted"
  /\ \A k \in Keys : task[k].at # "waiting"
  /\ task' = [k \in Keys |-> IF task[k].at = "submitted" THEN [task[k] EXCEPT !.at = "left"]
                                                       ELSE task[k]]
  /\ UNCHANGED <<closing, lean, plan, begun, retries, breaks, buf, sender, conn, wire, server, emitted, lost,
                 excused, blurred>>

(***************************************************************************)
(* A monitor's sender thread.                                              *)
(***************************************************************************)

\* close(), and the workers' exit flush, set _stop once the runs are over; the wait
\* for the buffer to empty before that may time out, so it decides nothing.
CloseMonitors ==
  /\ ~closing /\ begun > 0 /\ \A k \in Keys : Ended(k)
  /\ closing' = TRUE
  /\ UNCHANGED <<run, breaks, buf, sender, conn, wire, server, emitted, lost, excused, blurred>>

SenderGoes(m, pc, batch) == sender' = [sender EXCEPT ![m].pc = pc, ![m].batch = batch]

\* A sender that looks at the buffer, connects, and drains after.
Drain_ConnectsFirst(m) ==
  /\ sender[m].pc \in {"top", "ready"}
  /\ IF sender[m].pc = "top"
     THEN /\ conn' = [conn EXCEPT ![m] = IF buf[m] = << >> THEN @ ELSE "open"]
          /\ sender' = [sender EXCEPT ![m].pc = "ready", ![m].final = closing]
          /\ UNCHANGED buf
     ELSE SenderGoes(m, "send", buf[m]) /\ buf' = [buf EXCEPT ![m] = << >>] /\ UNCHANGED conn
  /\ UNCHANGED <<closing, run, breaks, wire, server, emitted, lost, excused, blurred>>

\* A tick has something to do (one that has not is left out); the one that saw
\* the stop is the last.
Ticks(m) == sender[m].pc = "top" /\ (buf[m] # << >> \/ closing)

After(final) == IF final THEN "exited" ELSE "top"

\* Drain, and connect if there is something to send and no connection.
Drain(m) ==
  /\ Ticks(m)
  /\ sender' = [sender EXCEPT ![m] = [pc |-> IF buf[m] = << >> THEN After(closing) ELSE "send",
                                      batch |-> buf[m], final |-> closing]]
  /\ buf' = [buf EXCEPT ![m] = << >>]
  /\ conn' = [conn EXCEPT ![m] = IF @ = "none" /\ buf[m] # << >> THEN "open" ELSE @]
  /\ UNCHANGED <<closing, run, breaks, wire, server, emitted, lost, excused, blurred>>

Breaks == breaks < MaxBreaks /\ breaks' = breaks + 1

\* The same with nobody to connect to: what was drained is dropped.
ConnectFails(m) ==
  /\ Ticks(m) /\ conn[m] = "none" /\ buf[m] # << >>
  /\ Breaks
  /\ SenderGoes(m, After(closing), << >>)
  /\ buf' = [buf EXCEPT ![m] = << >>]
  /\ lost' = [lost EXCEPT ![m] = @ + Len(buf[m])]
  /\ excused' = [excused EXCEPT ![m] = @ + Len(buf[m])]
  /\ UNCHANGED <<closing, run, conn, wire, server, emitted, blurred>>

\* One frame, or the batch is dropped for want of a connection.
Send(m) ==
  /\ sender[m].pc = "send" /\ conn[m] # "dead"
  /\ SenderGoes(m, After(sender[m].final), << >>)
  /\ IF conn[m] = "open" /\ sender[m].batch # << >>
     THEN wire' = [wire EXCEPT ![m] = Append(@, sender[m].batch)] /\ UNCHANGED lost
     ELSE lost' = [lost EXCEPT ![m] = @ + Len(sender[m].batch)] /\ UNCHANGED wire
  /\ UNCHANGED <<closing, run, breaks, buf, conn, server, emitted, excused, blurred>>

\* The connection is found dead: the batch is dropped, the next tick reconnects.
SendFails(m) ==
  /\ sender[m].pc = "send" /\ conn[m] = "dead"
  /\ SenderGoes(m, After(sender[m].final), << >>)
  /\ conn' = [conn EXCEPT ![m] = "none"]
  /\ lost' = [lost EXCEPT ![m] = @ + Len(sender[m].batch)]
  /\ excused' = [excused EXCEPT ![m] = @ + Len(sender[m].batch)]
  /\ UNCHANGED <<closing, run, breaks, buf, wire, server, emitted, blurred>>

(***************************************************************************)
(* The network and the server.                                             *)
(***************************************************************************)

Carried(m) == Len(FlattenSeq(wire[m]))

\* A connection dies, with the frames it carries from some point on.
Break(m) ==
  /\ conn[m] = "open" /\ Breaks
  /\ conn' = [conn EXCEPT ![m] = "dead"]
  /\ wire' = [wire EXCEPT ![m] = << >>]
  /\ lost' = [lost EXCEPT ![m] = @ + Carried(m)]
  /\ excused' = [excused EXCEPT ![m] = @ + Carried(m)]
  /\ UNCHANGED <<closing, run, buf, sender, server, emitted, blurred>>

\* _ingest: a frame is taken in whole.
Ingest(m) ==
  /\ wire[m] # << >>
  /\ server' = FoldLeft(LAMBDA s, e : IngestTask(s, e, lean), server, Head(wire[m]))
  /\ wire' = [wire EXCEPT ![m] = Tail(@)]
  /\ UNCHANGED <<closing, run, breaks, buf, sender, conn, emitted, lost, excused, blurred>>

RunStep ==
  \/ Begin \/ Interrupt
  \/ \E k \in Keys :
       \/ SubmitTask(k) \/ Retry(k)
       \/ \E w \in Workers : StartOn(k, w)
       \/ \E phase \in {"finished", "errored"} : End(k, phase)

SenderStep(m) == Drain(m) \/ Send(m) \/ SendFails(m)

DashboardNext ==
  \/ RunStep \/ CloseMonitors
  \/ \E m \in Monitors : \/ SenderStep(m) \/ ConnectFails(m)
                         \/ Break(m) \/ Ingest(m)

DashboardSpec == DashboardInit /\ [][DashboardNext]_dashboardVars

(***************************************************************************)
(* Correctness.                                                            *)
(***************************************************************************)
Ingested == SumFunction(server.stats) - (IF lean THEN server.stats["started"] ELSE 0)

\* An event told to a monitor is on its way, counted once, or gone for one of
\* the causes the docs give ("if that buffer fills or the connection drops"):
\* no interleaving of run, sender and server loses one otherwise or counts one
\* twice, and a monitor that closed has left nothing behind.
EventsAccounted ==
  /\ lost = excused
  /\ SumFunction(emitted) = Ingested + SumFunction(lost)
       + SumFunction([m \in Monitors |-> Len(buf[m]) + Len(sender[m].batch) + Carried(m)])
  /\ \A m \in Monitors : sender[m].pc = "exited" => buf[m] = << >>

\* The server has heard all there was to hear.
Quiet == Heard /\ \A m \in Monitors : lost[m] = 0

ToldOf(phases) == {k \in Keys : task[k].told \in phases}

\* A later run of keys one of which was retried.
AfterRetry == begun > 1 /\ retries > 0

LeanInFlight == server.inflight = Least(Cardinality(server.seen), Cardinality(ToldOf({"submitted"})))

\* Whatever order connections delivered in, the counters end at the events there
\* were, and in flight at the tasks that run (lean: those with no terminal event
\* yet, "capped at the number of worker names seen").
CountsConverge ==
  /\ \A p \in Phases \ {"started"} : server.stats[p] = emitted[p]
  /\ server.stats["started"] =
       IF lean THEN emitted["finished"] + emitted["errored"] ELSE emitted["started"]
  /\ ~lean => server.inflight = Cardinality({k \in Keys : task[k].at = "started"})
  /\ lean /\ ~blurred /\ ~AfterRetry => LeanInFlight

\* And each task's row ends at the last phase its task told, under the label of
\* the run it is of, as its worker's cell does.  (Not claimed of a run that
\* follows an interrupted one, a retry, or one not yet heard out when it began,
\* nor of cells in a second lean run, which keep the first one's labels.)
RowsConverge ==
  ~blurred /\ ~AfterRetry =>
    \A k \in ToldOf(Phases) :
      /\ server.rows[k] = [phase |-> task[k].told, label |-> begun]
      /\ task[k].told \in {"finished", "errored"} /\ (lean => begun = 1) =>
           server.records[task[k].worker][k] = [state |-> task[k].told, label |-> begun]

\* Once every event was heard, the page shows what happened: its counters and
\* its rows.
PageConverges == Quiet => CountsConverge /\ RowsConverge
=============================================================================
