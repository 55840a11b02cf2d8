---------------------------- MODULE StoreFiles ----------------------------
(***************************************************************************)
(* The files of a directory checkpoint store                               *)
(* (python/graphed/checkpoint/store.py) and what reading and writing them  *)
(* does.  Constant level only: the modules that run drivers and workers    *)
(* over a store hold the files in variables and apply these operators.     *)
(*                                                                         *)
(* An object file is named by the digest of the bytes it should hold, so   *)
(* all that matters of its contents is whether they are those bytes.  A    *)
(* journal is a sequence of lines; a crash inside an append may leave its  *)
(* last line without the newline that ends it.                             *)
(***************************************************************************)
EXTENDS Integers, Sequences

CONSTANTS
  Tasks,     \* the task ids a plan can journal
  Digests,   \* the content hashes of the blobs they produce
  Torn,      \* a line that does not parse as a record
  NoBlob     \* what a mapping has for a task without an entry

ASSUME FilesAssumption ==
  /\ NoBlob \notin Digests /\ Torn \notin Digests /\ Torn # NoBlob
  /\ Torn \notin Tasks /\ Torn \notin [task : Tasks, blob : Digests]

(***************************************************************************)
(* Objects.                                                                *)
(***************************************************************************)

\* "corrupt" keeps the size and loses the content; "truncated" loses both.
ObjectStates == {"absent", "good", "corrupt", "truncated"}

Present(objects, d) == objects[d] # "absent"

\* Definitions named <Definition>_<Fault> are that definition with a plausible
\* programming error; nothing uses them, they say what the properties exclude.

\* What the bytes under a name are the bytes of: Torn stands for other bytes.
Content(objects, d) ==
  CASE objects[d] = "good"   -> d
    [] objects[d] = "absent" -> NoBlob
    [] OTHER                 -> Torn

\* Store.get serves only bytes that hash to their name ...
Get_Unverified(objects, d) == Content(objects, d)

Get(objects, d) == IF Content(objects, d) = d THEN d ELSE NoBlob

\* ... and remembers, in the instance, a present blob that did not.
RefusedBy(objects, bad, d) ==
  IF objects[d] \in {"corrupt", "truncated"} THEN bad \union {d} ELSE bad

\* A put that trusts any present blob of the right size.
NeedsWrite_TrustsSize(objects, bad, d) == objects[d] \notin {"good", "corrupt"}

\* Store.put writes unless a blob of the right size is there and this
\* instance has not refused it.
NeedsWrite(objects, bad, d) ==
  \/ d \in bad
  \/ objects[d] \notin {"good", "corrupt"}

\* The rename that ends _atomic_write: the whole content appears at once.
Replaced(objects, d) == [objects EXCEPT ![d] = "good"]

(***************************************************************************)
(* Journals and the dead-letter log, over any set of records.              *)
(***************************************************************************)

EmptyLog == [lines |-> << >>, ended |-> TRUE]

Logs(Records) == [lines : Seq(Records \union {Torn}), ended : BOOLEAN]

\* Opening for append adds to the end of the file whatever is there: onto an
\* unended last line, which then parses as nothing.
Extended(log, line) ==
  IF log.ended
  THEN Append(log.lines, line)
  ELSE [log.lines EXCEPT ![Len(log.lines)] = Torn]

\* An append that leaves the newline to the next one.
Appended_NoNewline(log, rec) == [lines |-> Extended(log, rec), ended |-> FALSE]

Appended(log, rec) == [lines |-> Extended(log, rec), ended |-> TRUE]

\* What a crash inside the append may leave: nothing of the record, all of
\* it, a proper prefix, or everything but its newline.
CutShort(log, rec) == [lines |-> Extended(log, Torn), ended |-> FALSE]
Unended(log, rec)  == [lines |-> Extended(log, rec), ended |-> FALSE]

CrashedAppends(log, rec, tears) ==
  {log, Appended(log, rec)}
    \union (IF tears THEN {CutShort(log, rec), Unended(log, rec)} ELSE {})

\* The line numbers _read_lines yields records from.
Readable(lines) == {i \in DOMAIN lines : lines[i] # Torn}

(***************************************************************************)
(* Store.completed: the last readable record of a task whose blob is there.*)
(* The lines are those of every writer's journal, in file-name order.      *)
(***************************************************************************)

Honoured(objects, lines, t) ==
  {i \in Readable(lines) : /\ lines[i].task = t
                           /\ Present(objects, lines[i].blob)}

Completed(objects, lines) ==
  [t \in Tasks |->
     LET hits == Honoured(objects, lines, t)
     IN  IF hits = {} THEN NoBlob
         ELSE lines[CHOOSE i \in hits : \A j \in hits : j <= i].blob]
=============================================================================
