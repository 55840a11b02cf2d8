------------------------- MODULE EnvironmentRecord -------------------------
(***************************************************************************)
(* The environment record of a checkpoint store                            *)
(* (python/graphed/checkpoint/resume.py, check_environment; store.py,      *)
(* record_environment).  Task keys do not see the installed distributions, *)
(* so a run compares the store's record of them with its own before it     *)
(* reuses anything.  All the runs here use one salt, hence one series of   *)
(* numbered records, which they append to one shared journal.              *)
(***************************************************************************)
EXTENDS Integers, FiniteSets, Sequences

CONSTANTS
  Runs,         \* calls of resumable or run_resumable, each made once
  Envs,         \* environments they are made in; one blob each
  Torn, NoBlob,
  Tears,        \* whether a kill may cut the append short
  Overlaps      \* whether runs may overlap in time

ASSUME EnvironmentAssumption ==
  /\ Tears \in BOOLEAN /\ Overlaps \in BOOLEAN
  /\ NoBlob \notin Envs /\ Torn \notin [n : Nat, env : Envs]

VARIABLES
  blobs,     \* environments whose blob is stored
  records,   \* journal.environment.log
  results,   \* environments tasks recorded in the store were computed in
  run,       \* run -> what it is doing
  forgiven,  \* history: environments whose results an accepting run was served
  raced,     \* history: an accept was recorded while another run was under way
  current    \* history: the environment recorded last, if no other run raced it

vars == <<blobs, records, results, run, forgiven, raced, current>>

\* The journal's reading and writing, with environments for task ids and blobs.
Files == INSTANCE StoreFiles WITH Tasks <- Envs, Digests <- Envs

Idle == [pc |-> "new"]

Init ==
  /\ blobs = {} /\ records = Files!EmptyLog /\ results = {}
  /\ run = [r \in Runs |-> Idle]
  /\ forgiven = {} /\ raced = FALSE /\ current = NoBlob

Underway(r) == run[r].pc \in {"read", "check", "record", "running"}
Alone(r)    == \A q \in Runs \ {r} : ~Underway(q)

\* A run loses its claim to have been alone once another is under way with it.
Goes(r, step) ==
  run' = [q \in Runs |->
            IF q = r THEN [step EXCEPT !.alone = @ /\ Alone(r)]
            ELSE IF Underway(q) /\ Underway(r) THEN [run[q] EXCEPT !.alone = FALSE]
            ELSE run[q]]

(***************************************************************************)
(* Reading: completed() goes through the journals in file-name order, so   *)
(* it may read the environment journal, and workers' journals later.       *)
(***************************************************************************)

Seen == {records.lines[i] : i \in {j \in Files!Readable(records.lines) :
                                     records.lines[j].env \in blobs}}

ReadEnvironments(r) ==
  /\ run[r].pc = "new" /\ (Overlaps \/ Alone(r))
  /\ \E e \in Envs, accept \in BOOLEAN :
       run' = [q \in Runs |->
                 IF q = r THEN [pc |-> "read", env |-> e, accept |-> accept, seen |-> Seen,
                                held |-> {}, alone |-> Alone(r)]
                 ELSE IF Underway(q) THEN [run[q] EXCEPT !.alone = FALSE]
                 ELSE run[q]]
  /\ UNCHANGED <<blobs, records, results, forgiven, raced, current>>

ReadResults(r) ==
  /\ run[r].pc = "read"
  /\ Goes(r, [run[r] EXCEPT !.pc = "check", !.held = results])
  /\ UNCHANGED <<blobs, records, results, forgiven, raced, current>>

(***************************************************************************)
(* check_environment.                                                      *)
(***************************************************************************)

Top(seen) == IF seen = {} THEN 0
             ELSE CHOOSE n \in {rec.n : rec \in seen} : \A rec \in seen : rec.n <= n

\* Every record there is, the superseded ones included.
InForce_Every(seen) == {rec.env : rec \in seen}

InForce(seen) == {rec.env : rec \in {s \in seen : s.n = Top(seen)}}

\* One matching record among those in force is enough.
Agrees_WithAny(r) == run[r].env \in InForce(run[r].seen)

Agrees(r) == InForce(run[r].seen) = {run[r].env}

Refused(r) == InForce(run[r].seen) # {} /\ ~run[r].accept

Pass(r) ==
  /\ run[r].pc = "check" /\ Agrees(r)
  /\ Goes(r, [run[r] EXCEPT !.pc = "running"])
  /\ UNCHANGED <<blobs, records, results, forgiven, raced, current>>

\* EnvironmentChangedError.
Refuse(r) ==
  /\ run[r].pc = "check" /\ ~Agrees(r) /\ Refused(r)
  /\ Goes(r, [run[r] EXCEPT !.pc = "refused"])
  /\ UNCHANGED <<blobs, records, results, forgiven, raced, current>>

PutEnvironment(r) ==
  /\ run[r].pc = "check" /\ ~Agrees(r) /\ ~Refused(r)
  /\ blobs' = blobs \union {run[r].env}
  /\ Goes(r, [run[r] EXCEPT !.pc = "record"])
  /\ UNCHANGED <<records, results, forgiven, raced, current>>
Numbered(r) == [n |-> Top(run[r].seen) + 1, env |-> run[r].env]

\* What an append, or a part of one, does to the histories.
Acknowledged(r) ==
  /\ forgiven' = forgiven \union (IF run[r].accept THEN run[r].held ELSE {})
  /\ raced' = (raced \/ (run[r].accept /\ ~(run[r].alone /\ Alone(r))))

RecordEnvironment(r) ==
  /\ run[r].pc = "record"
  /\ records' = Files!Appended(records, Numbered(r))
  /\ Acknowledged(r)
  /\ current' = IF run[r].alone /\ Alone(r) THEN run[r].env ELSE NoBlob
  /\ Goes(r, [run[r] EXCEPT !.pc = "running"])
  /\ UNCHANGED <<blobs, results>>

(***************************************************************************)
(* The run itself, and its end.                                            *)
(***************************************************************************)

Work(r) ==
  /\ run[r].pc = "running"
  /\ results' = results \union {run[r].env}
  /\ UNCHANGED <<blobs, records, run, forgiven, raced, current>>

Return(r) ==
  /\ run[r].pc = "running"
  /\ run' = [run EXCEPT ![r].pc = "done"]
  /\ UNCHANGED <<blobs, records, results, forgiven, raced, current>>

\* The process dies, inside the append if that is where it is.
Kill(r) ==
  /\ Underway(r)
  /\ IF run[r].pc = "record"
     THEN /\ records' \in Files!CrashedAppends(records, Numbered(r), Tears)
          /\ Acknowledged(r) /\ current' = NoBlob
     ELSE UNCHANGED <<records, forgiven, raced, current>>
  /\ run' = [run EXCEPT ![r].pc = "done"]
  /\ UNCHANGED <<blobs, results>>

Next ==
  \E r \in Runs :
    \/ ReadEnvironments(r) \/ ReadResults(r)
    \/ Pass(r) \/ Refuse(r) \/ PutEnvironment(r) \/ RecordEnvironment(r)
    \/ Work(r) \/ Return(r) \/ Kill(r)

Spec == Init /\ [][Next]_vars

(***************************************************************************)
(* Correctness.                                                            *)
(***************************************************************************)

NumberedRecords == [n : 1..Cardinality(Runs), env : Envs]
\* "A later run in a different environment raises": a run that read the store
\* while no other was under way, and goes on without accepting, is served no
\* result of another environment but those a run has accepted.  What a run does
\* that was under way during another's accept is outside this promise.
ToldOfOtherEnvironments ==
  \A r \in Runs :
    run[r].pc = "running" /\ ~run[r].accept /\ run[r].alone /\ ~raced =>
      run[r].held \subseteq {run[r].env} \union forgiven

\* "accept_environment=True records the new environment and resumes": a run in
\* the environment recorded last, no other run racing either, is not refused.
RecordedIsNotRefused ==
  [][\A r \in Runs :
       run[r].pc = "check" /\ run'[r].pc = "refused" /\ run[r].alone =>
         run[r].env # current]_vars
=============================================================================
