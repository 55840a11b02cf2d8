-------------------------- MODULE DurableResults --------------------------
(***************************************************************************)
(* What executor-level checkpointing (python/graphed/checkpoint/resume.py) *)
(* promises, whatever runs the tasks: the store keeps results, a driver    *)
(* gets one answer per task, an answer is a result of that task, and it is *)
(* kept before it is given unless the disk harmed it.                      *)
(***************************************************************************)
CONSTANTS Drivers, Tasks, Digests, NoBlob,
          Outcomes   \* task -> the results its process may return

VARIABLES
  kept,     \* task -> the results the store would serve for it
  harmed,   \* results whose stored bytes were damaged or lost, ever
  answers   \* driver -> task -> the result it was given, or NoBlob

NoAnswers == [t \in Tasks |-> NoBlob]

Init ==
  /\ kept = [t \in Tasks |-> {}] /\ harmed = {}
  /\ answers = [d \in Drivers |-> NoAnswers]

\* A result becomes one the store would serve: of the tasks it was recorded
\* for, or of one more.
Keep ==
  /\ \A t \in Tasks : kept[t] \subseteq kept'[t] /\ kept'[t] \subseteq Outcomes[t]
  /\ UNCHANGED harmed

\* One driver gets one task's answer, once.
Answer ==
  \E d \in Drivers, t \in Tasks, r \in Digests :
    /\ r \in Outcomes[t]
    /\ answers[d][t] = NoBlob
    /\ answers' = [answers EXCEPT ![d][t] = r]
    /\ r \in kept'[t] \union harmed

Give == Keep /\ Answer

Gain == Keep /\ UNCHANGED answers

\* The disk or a power failure takes stored bytes: never the program.  What was
\* being recorded when the machine stopped may be found kept.
Harm ==
  \E lost \in SUBSET Digests :
    /\ harmed' = harmed \union lost
    /\ \A t \in Tasks : kept[t] \ lost \subseteq kept'[t] /\ kept'[t] \subseteq Outcomes[t] \ lost

\* A power failure also takes the drivers, a driver's death its own answers.
Forget == \E gone \in SUBSET Drivers :
  answers' = [d \in Drivers |-> IF d \in gone THEN NoAnswers ELSE answers[d]]

Next ==
  \/ Give
  \/ Gain
  \/ Harm /\ Forget
  \/ UNCHANGED <<kept, harmed>> /\ Forget

Spec == Init /\ [][Next]_<<kept, harmed, answers>>
=============================================================================
