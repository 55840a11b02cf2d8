---------------------------- MODULE RetriedTask ----------------------------
(***************************************************************************)
(* One worker runs the tasks of a plan in order: each reads its partition  *)
(* through the worker's open files, and a read that fails goes to the      *)
(* retry policy, which may ask for the same partition again, for a fresh   *)
(* set of files, or for the partition in smaller pieces, split again where *)
(* they fail (checkpoint/retry.py, checkpoint/runner.py).  A plan that     *)
(* writes has no policy: each task writes one part and a failure ends it.  *)
(***************************************************************************)
EXTENDS Partitions

CONSTANTS
  Jobs,      \* [files, how, n, write, policy]
  Uris,      \* what a task may open: the files, by their numbers, and others
  MaxOpen,   \* max_open
  PerTask    \* files one read opens

ASSUME ResourcesAssumption == MaxOpen \in Nat /\ PerTask \in Nat

JobKinds == {"quarantine", "again", "elsewhere", "smaller"}

ASSUME JobsAssumption ==
  \A j \in Jobs :
    /\ j.files \in Seq(Nat) /\ DOMAIN j.files \subseteq Uris /\ j.files # << >> /\ j.how \in {"blind", "eager", "chunks"}
    /\ j.n \in Nat \ {0} /\ j.write \in BOOLEAN /\ (j.write => j.how # "chunks")
    /\ j.policy.kind \in JobKinds /\ j.policy.n \in Nat /\ j.policy.least \in Nat
    /\ j.write => j.policy.kind = "quarantine"

VARIABLES
  job,
  index,    \* the task to run, an index of the plan's tasks
  phase,    \* "idle", "process", "settle", "done" or "raised"
  piece,    \* the partition being read
  frames,   \* the splits under way, the innermost last: pieces to read, values read
  tries,    \* reads the policy has asked for
  acc,      \* the folded value: entries, or the parts written
  parts,    \* part -> the entries in it
  dead,     \* the tasks in the dead-letter set
  own,      \* the worker's handles while a policy's fresh ones are in use
  handles, using, stale

retriedVars == <<job, index, phase, piece, frames, tries, acc, parts, dead, own, handles, using, stale>>

None == Ranged(0, 0, 0)
partitions == make_partitions(job.how, job.n, job.files)

Worker == INSTANCE LocalResources

RetriedInit ==
  /\ job \in Jobs
  /\ index = 1 /\ phase = "idle" /\ piece = None /\ frames = << >> /\ tries = 0
  /\ acc = << >> /\ parts = << >> /\ dead = {} /\ own = << >>
  /\ Worker!Init

StartTask ==
  /\ phase = "idle" /\ index <= Len(partitions)
  /\ phase' = "process" /\ piece' = partitions[index]
  /\ UNCHANGED <<job, index, frames, tries, acc, parts, dead, own, handles, using, stale>>

\* The partition's own file is the first one a read opens.
Open(uri) ==
  /\ phase = "process" /\ (using = {} => uri = piece.file)
  /\ Worker!open_once(uri)
  /\ UNCHANGED <<job, index, phase, piece, frames, tries, acc, parts, dead, own>>

-----------------------------------------------------------------------------
entries(p) ==
  LET q == resolve(p, job.files)
  IN  [i \in 1 .. n_entries(q) |-> <<q.file, q.start + i - 1>>]

\* The handles a task goes on with: the worker's own again after a fresh set.
Returned == IF job.policy.kind = "elsewhere" /\ tries > 0 THEN own ELSE handles

EndTask ==
  /\ index' = index + 1 /\ phase' = "idle" /\ piece' = None /\ frames' = << >> /\ tries' = 0
  /\ handles' = Returned /\ using' = {} /\ stale' = {}
  /\ UNCHANGED <<job, own>>

\* A value, to the fold or to the split that asked for its piece.
Give(value, stack) ==
  IF stack = << >>
  THEN /\ acc' = acc \o value
       /\ EndTask
       /\ UNCHANGED dead
  ELSE /\ frames' = [stack EXCEPT ![Len(stack)].values = Append(@, value)]
       /\ phase' = "settle" /\ piece' = None
       /\ Worker!EndTask
       /\ UNCHANGED <<job, index, tries, acc, dead, own>>

Succeed ==
  /\ phase = "process"
  /\ IF job.write
     THEN LET part == derive_part_index(piece, job.n, job.files)
          IN  /\ parts' = [i \in DOMAIN parts \union {part} |->
                            IF i = part THEN entries(piece) ELSE parts[i]]
             /\ Give(<<part>>, frames)
     ELSE Give(entries(piece), frames) /\ UNCHANGED parts

\* The innermost split reads its next piece, or combines what its pieces gave.
Settle ==
  /\ phase = "settle"
  /\ LET top == frames[Len(frames)]
     IN  IF top.rest # << >>
         THEN /\ frames' = [frames EXCEPT ![Len(frames)].rest = Tail(@)]
              /\ piece' = Head(top.rest) /\ phase' = "process"
              /\ UNCHANGED <<job, index, tries, acc, dead, own, handles, using, stale>>
         ELSE Give(FlattenSeq(top.values), Front(frames))
  /\ UNCHANGED parts

-----------------------------------------------------------------------------
(* A read that fails. *)

\* A policy that forgets what it has asked for.
Tried_Uncounted == tries
Tried == tries + 1

\* The same partition again, on the same handles or on fresh ones.
Again ==
  /\ job.policy.kind \in {"again", "elsewhere"} /\ tries < job.policy.n
  /\ tries' = Tried
  /\ IF job.policy.kind = "elsewhere"
     THEN handles' = << >> /\ own' = Returned
     ELSE UNCHANGED <<handles, own>>
  /\ using' = {} /\ stale' = {}
  /\ UNCHANGED <<job, index, phase, piece, frames, acc, parts, dead>>

divides(p) == Len(split(p, job.policy.n)) > 1 /\ n_entries(p) > job.policy.least

Smaller ==
  /\ job.policy.kind = "smaller" /\ divides(piece)
  /\ frames' = Append(frames, [rest |-> split(piece, job.policy.n), values |-> << >>])
  /\ phase' = "settle" /\ piece' = None
  /\ Worker!EndTask
  /\ UNCHANGED <<job, index, tries, acc, parts, dead, own>>

\* No policy left: the task is a dead letter, whatever its pieces have given.
GiveUp ==
  /\ job.policy.kind \in {"again", "elsewhere"} => tries = job.policy.n
  /\ job.policy.kind = "smaller" => ~divides(piece)
  /\ IF job.write
     THEN /\ phase' = "raised"
          /\ Worker!EndTask
          /\ UNCHANGED <<job, index, piece, frames, tries, dead, own>>
     ELSE dead' = dead \union {index} /\ EndTask
  /\ UNCHANGED <<acc, parts>>

ReadFails == phase = "process" /\ (Again \/ Smaller \/ GiveUp)

Finish ==
  /\ phase = "idle" /\ index > Len(partitions)
  /\ phase' = "done"
  /\ Worker!close
  /\ UNCHANGED <<job, index, piece, frames, tries, acc, parts, dead, own>>

RetriedNext ==
  \/ StartTask \/ Succeed \/ Settle \/ ReadFails \/ Finish
  \/ \E uri \in Uris : Open(uri)

\* A read returns or raises at some time, and the rest is the worker's own loop.
Fairness ==
  /\ WF_retriedVars(StartTask) /\ WF_retriedVars(Succeed \/ ReadFails)
  /\ WF_retriedVars(Settle) /\ WF_retriedVars(Finish)
RetriedSpec == RetriedInit /\ [][RetriedNext]_retriedVars /\ Fairness

-----------------------------------------------------------------------------
AllEntries == FlattenSeq([f \in DOMAIN job.files |-> [i \in 1 .. job.files[f] |-> <<f, i - 1>>]])

\* The order of the input: file by file, each from its first entry on.
Before(d, e) == d[1] < e[1] \/ (d[1] = e[1] /\ d[2] < e[2])
InOrder(s)   == \A i, j \in DOMAIN s : i < j => Before(s[i], s[j])

\* The value of a finished run is every entry of every file once and in order,
\* but for those of the dead letters, however the partitions were cut, resolved,
\* retried and split on the way (`resolve`, `_split`, `_process_split`).
EveryEntryOnce ==
  phase = "done" /\ ~job.write =>
    LET missing == UNION {ToSet(entries(partitions[k])) : k \in dead}
    IN  InOrder(acc) /\ ToSet(acc) = ToSet(AllEntries) \ missing

\* No task writes over another's part, and read in order the parts of a finished
\* write are the input (`step_of`, `blind_part_index`, `file_bases`).
PartsAreTheInput ==
  job.write =>
    /\ IsInjective(acc)
    /\ phase = "done" =>
         FlattenSeq([i \in DOMAIN acc |-> parts[acc[i]]]) = AllEntries

\* A read that needs no more files than may be open finds each handle it got
\* open until it ends, whatever earlier reads and attempts left in the cache.
HandlesInUseStayOpen == Worker!HandlesInUseStayOpen

\* A task that keeps failing is given up: no policy asks for ever smaller pieces
\* or for ever more reads.
TasksEnd == <>(phase \in {"done", "raised"})
=============================================================================
