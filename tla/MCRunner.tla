------------------------------ MODULE MCRunner ------------------------------
(***************************************************************************)
(* Instances of SequentialRun and RetriedTask small enough for TLC, in one *)
(* run.  The two share no state: SequentialRun begins where one of the     *)
(* jobs, of a single entry, is done, and is not run after the others.      *)
(***************************************************************************)
EXTENDS SequentialRun, RetriedTask

Policy(how, n, least) == [kind |-> how, n |-> n, least |-> least]
Job(files, how, n, write, policy) ==
  [files |-> files, how |-> how, n |-> n, write |-> write, policy |-> policy]

\* One file that a split may cut down to single entries, or not further than
\* two, or to no size at all.
SplitJobs ==
  {Job(<<size>>, "chunks", 8, FALSE, Policy("smaller", n, least)) :
     size \in 1 .. 6, n \in 1 .. 4, least \in 0 .. 2}

\* Two files, one of them maybe empty, under the other policies.
RetryJobs ==
  {Job(files, how, 2, FALSE, policy) :
     files \in {<<3, 2>>, <<1, 0>>, <<0, 4>>}, how \in {"blind", "eager", "chunks"},
     policy \in {Policy("quarantine", 0, 0), Policy("again", 1, 0), Policy("elsewhere", 2, 0),
                 Policy("smaller", 2, 1)}}

WriteJobs ==
  {Job(files, how, n, TRUE, Policy("quarantine", 0, 0)) :
     files \in {<<5, 1>>, <<2, 0>>, <<0, 3>>}, how \in {"blind", "eager"}, n \in 1 .. 3}

OneEntry == Job(<<1>>, "eager", 1, TRUE, Policy("quarantine", 0, 0))

AllJobs == SplitJobs \union RetryJobs \union WriteJobs \union {OneEntry}

RunnerInit == Init /\ RetriedInit

Begun == job = OneEntry /\ phase = "done"

RunnerNext ==
  \/ Begun /\ Next /\ UNCHANGED retriedVars
  \/ RetriedNext /\ UNCHANGED vars

RunnerSpec ==
  /\ RunnerInit /\ [][RunnerNext]_<<vars, retriedVars>>
  /\ WF_vars(Begun /\ RunnerStep) /\ WF_vars(Begun /\ Resume)
  /\ Fairness
=============================================================================
