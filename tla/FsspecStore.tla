---------------------------- MODULE FsspecStore ----------------------------
(***************************************************************************)
(* FsspecStore (python/graphed/checkpoint/fsspec_store.py): the checkpoint *)
(* store at a URL.  Constant level only.  Nothing can be appended to, so   *)
(* each record is an object of its own, named by its writer and a number.  *)
(* A half-written one does not parse and costs only itself: it is as if    *)
(* it were not there.                                                      *)
(*                                                                         *)
(* A store is [objects, records]; an instance is what a process keeps of   *)
(* one: the writer it was given, by which process, its count and _bad.     *)
(***************************************************************************)
EXTENDS Integers, Sequences

CONSTANTS
  NoBlob,
  Garbled   \* the bytes of a damaged blob

\* Of it only what is asked of one blob.
Files == INSTANCE StoreFiles WITH Tasks <- {}, Digests <- {}, Torn <- Garbled

\* objects: what is under each name that was written.
EmptyStore == [objects |-> << >>, records |-> {}]

Instance(proc, writer) == [pid |-> proc, writer |-> writer, seq |-> 0, bad |-> {}]

(***************************************************************************)
(* Blobs: put and get decide as those of the directory store do.           *)
(***************************************************************************)
Under(objects, d) == [x \in {d} |-> IF d \in DOMAIN objects THEN objects[d] ELSE "absent"]

Get(store, d) == Files!Get(Under(store.objects, d), d)

Refused(store, inst, d) ==
  [inst EXCEPT !.bad = Files!RefusedBy(Under(store.objects, d), @, d)]

Stored(objects, bad, d, state) ==
  IF Files!NeedsWrite(Under(objects, d), bad, d)
  THEN [x \in DOMAIN objects \union {d} |-> IF x = d THEN state ELSE objects[x]]
  ELSE objects

\* pipe_file writes the whole object.
Put(store, inst, d) == [store EXCEPT !.objects = Stored(@, inst.bad, d, "good")]

\* A write that did not end.
CutShort(store, inst, d) == [store EXCEPT !.objects = Stored(@, inst.bad, d, "truncated")]

Trusted(inst, d) == [inst EXCEPT !.bad = @ \ {d}]

(***************************************************************************)
(* Records.                                                                *)
(***************************************************************************)

\* A forked copy that goes on under its parent's name.
Appender_Inherited(inst, proc, writer) == inst

\* A forked copy takes a writer of its own.
Appender(inst, proc, writer) ==
  IF inst.pid = proc THEN inst
  ELSE [inst EXCEPT !.pid = proc, !.writer = writer, !.seq = 0]

Counted(inst) == [inst EXCEPT !.seq = @ + 1]

\* _append's write, under the appender's next name.
Appended(store, inst, record) ==
  LET name == <<inst.writer, inst.seq>>
  IN  [store EXCEPT !.records = {r \in @ : r.name # name}
                                  \union {[name |-> name, record |-> record]}]

Present(store, d) == Files!Present(Under(store.objects, d), d)

After(a, b) == a[1] > b[1] \/ (a[1] = b[1] /\ a[2] >= b[2])

\* completed: the records in name order, the last one wins whose blob is there.
Completed(store) ==
  LET served == {r \in store.records : Present(store, r.record.blob)}
      hits(t) == {r \in served : r.record.task = t}
  IN  [t \in {r.record.task : r \in served} |->
         (CHOOSE r \in hits(t) : \A s \in hits(t) : After(r.name, s.name)).record.blob]
=============================================================================
