------------------------- MODULE StoreFilesProofs -------------------------
(***************************************************************************)
(* What the operators of StoreFiles return, for every set of tasks and     *)
(* digests: an append loses at most the unended line it lands on and       *)
(* invents no record, and replaying a journal yields only records that are *)
(* in it and whose blob is there.                                          *)
(***************************************************************************)
EXTENDS StoreFiles, SequenceTheorems, WellFoundedInduction, TLAPS

\* Appending keeps a log a log, whatever state a crash left it in.
LEMMA ExtendedType ==
  ASSUME NEW R, NEW log \in Logs(R), NEW x \in R \union {Torn}
  PROVE  Extended(log, x) \in Seq(R \union {Torn})
<1> DEFINE S == R \union {Torn}
<1>1. log.lines \in Seq(S) /\ log.ended \in BOOLEAN
  BY DEF Logs
<1>2. CASE log.ended
  BY <1>1, <1>2 DEF Extended
<1>3. CASE ~log.ended
  <2>1. Extended(log, x) = [log.lines EXCEPT ![Len(log.lines)] = Torn]
    BY <1>3 DEF Extended
  <2>2. CASE Len(log.lines) \in 1..Len(log.lines)
    BY <1>1, <2>1, <2>2, ExceptSeq
  <2>3. CASE Len(log.lines) \notin 1..Len(log.lines)
    <3>1. DOMAIN log.lines = 1..Len(log.lines)
      BY <1>1
    <3>2. [log.lines EXCEPT ![Len(log.lines)] = Torn] = log.lines
      BY <1>1, <2>3, <3>1
    <3>3. QED
      BY <1>1, <2>1, <3>2
  <2>4. QED
    BY <2>2, <2>3
<1>4. QED
  BY <1>1, <1>2, <1>3

\* Each line of an extended log is torn, was there before, or is the new one.
LEMMA ExtendedLines ==
  ASSUME NEW R, NEW log \in Logs(R), NEW x \in R \union {Torn},
         NEW i \in DOMAIN Extended(log, x)
  PROVE  \/ Extended(log, x)[i] = Torn
         \/ i \in DOMAIN log.lines /\ Extended(log, x)[i] = log.lines[i]
         \/ Extended(log, x)[i] = x
<1>1. log.lines \in Seq(R \union {Torn})
  BY DEF Logs
<1>2. CASE log.ended
  <2>1. Extended(log, x) = Append(log.lines, x)
    BY <1>2 DEF Extended
  <2>2. i \in 1..(Len(log.lines) + 1)
    BY <1>1, <2>1
  <2>3. QED
    BY <1>1, <2>1, <2>2
<1>3. CASE ~log.ended
  BY <1>1, <1>3 DEF Extended
<1>4. QED
  BY <1>2, <1>3

\* The same of every state an interrupted append may leave: it is a log, and
\* it holds no record that was neither there nor being written.
LEMMA CrashedAppendLines ==
  ASSUME NEW R, NEW log \in Logs(R), NEW x \in R, NEW tears,
         NEW after \in CrashedAppends(log, x, tears) \union {Appended(log, x)}
  PROVE  /\ after \in Logs(R)
         /\ \A i \in DOMAIN after.lines :
              \/ after.lines[i] = Torn
              \/ i \in DOMAIN log.lines /\ after.lines[i] = log.lines[i]
              \/ after.lines[i] = x
<1>1. \/ after = log
      \/ \E y \in {x, Torn}, e \in BOOLEAN :
           after = [lines |-> Extended(log, y), ended |-> e]
  BY DEF CrashedAppends, Appended, CutShort, Unended
<1>2. CASE after = log
  BY <1>2
<1>3. ASSUME NEW y \in {x, Torn}, NEW e \in BOOLEAN,
             after = [lines |-> Extended(log, y), ended |-> e]
      PROVE  /\ after \in Logs(R)
             /\ \A i \in DOMAIN after.lines :
                  \/ after.lines[i] = Torn
                  \/ i \in DOMAIN log.lines /\ after.lines[i] = log.lines[i]
                  \/ after.lines[i] = x
  <2>1. y \in R \union {Torn}
    OBVIOUS
  <2>2. Extended(log, y) \in Seq(R \union {Torn})
    BY <2>1, ExtendedType
  <2>3. after \in Logs(R)
    BY <1>3, <2>2 DEF Logs
  <2>4. ASSUME NEW i \in DOMAIN Extended(log, y)
        PROVE  \/ Extended(log, y)[i] = Torn
               \/ i \in DOMAIN log.lines /\ Extended(log, y)[i] = log.lines[i]
               \/ Extended(log, y)[i] = y
    BY <2>1, ExtendedLines
  <2>5. QED
    BY <1>3, <2>3, <2>4
<1>4. QED
  BY <1>1, <1>2, <1>3

\* A non-empty set of line numbers has a last one.
LEMMA LastExists ==
  ASSUME NEW n \in Nat, NEW H \in SUBSET (1..n), H # {}
  PROVE  \E i \in H : \A j \in H : j <= i
<1> DEFINE D == {n - i : i \in H}
<1>1. D \subseteq Nat /\ D # {}
  <2>1. \A i \in H : i \in Nat /\ i <= n
    OBVIOUS
  <2>2. \A i \in H : n - i \in Nat
    BY <2>1
  <2>3. PICK h \in H : TRUE
    OBVIOUS
  <2>4. n - h \in D
    OBVIOUS
  <2>5. QED
    BY <2>2, <2>4
<1>2. PICK x \in D : \A y \in D : ~(<<y, x>> \in OpToRel(<, Nat))
  BY <1>1, NatLessThanWellFounded, WFMin
<1>3. \A y \in D : ~(y < x)
  BY <1>1, <1>2 DEF OpToRel
<1>4. PICK i \in H : x = n - i
  BY <1>2
<1>5. \A j \in H : ~(n - j < n - i)
  BY <1>3, <1>4
<1>6. QED
  BY <1>5

\* A replay honours only a record of that task that the journal holds.
LEMMA CompletedIsRecorded ==
  ASSUME NEW objs,
         NEW log \in Logs([task : Tasks, blob : Digests]), NEW t \in Tasks,
         Completed(objs, log.lines)[t] # NoBlob
  PROVE  \E i \in DOMAIN log.lines :
           /\ log.lines[i] # Torn /\ log.lines[i].task = t
           /\ Completed(objs, log.lines)[t] = log.lines[i].blob
           /\ Present(objs, log.lines[i].blob)
<1> DEFINE hits == Honoured(objs, log.lines, t)
<1>1. hits \subseteq 1..Len(log.lines) /\ Len(log.lines) \in Nat
  BY DEF Honoured, Readable, Logs
<1>2. hits # {}
  BY DEF Completed
<1> DEFINE last == CHOOSE i \in hits : \A j \in hits : j <= i
<1>3. \E i \in hits : \A j \in hits : j <= i
  BY <1>1, <1>2, LastExists
<1>4. last \in hits
  BY <1>3
<1>5. Completed(objs, log.lines)[t] = log.lines[last].blob
  BY <1>2 DEF Completed
<1>6. QED
  BY <1>4, <1>5 DEF Honoured, Readable

\* The lines no append can take with it: all but an unended last one.
Solid(log) == {i \in Readable(log.lines) : log.ended \/ i # Len(log.lines)}

\* A solid line outlives every append, and every append a crash cuts.
LEMMA SolidStays ==
  ASSUME NEW R, NEW log \in Logs(R), NEW rec \in R, NEW tears,
         NEW after \in CrashedAppends(log, rec, tears) \union {Appended(log, rec)},
         NEW i \in Solid(log)
  PROVE  i \in Solid(after) /\ after.lines[i] = log.lines[i]
<1>1. CASE after = log
  BY <1>1
<1>2. ASSUME NEW y, NEW e \in BOOLEAN,
             after = [lines |-> Extended(log, y), ended |-> e]
      PROVE  i \in Solid(after) /\ after.lines[i] = log.lines[i]
  <2>1. log.lines \in Seq(R \union {Torn}) /\ log.ended \in BOOLEAN
    BY DEF Logs
  <2>2. /\ i \in 1..Len(log.lines) /\ log.lines[i] # Torn
        /\ log.ended \/ i # Len(log.lines)
    BY <2>1 DEF Solid, Readable
  <2>3. CASE log.ended
    <3>1. Extended(log, y) = Append(log.lines, y)
      BY <2>3 DEF Extended
    <3>2. /\ DOMAIN Append(log.lines, y) = 1..(Len(log.lines) + 1)
          /\ Len(Append(log.lines, y)) = Len(log.lines) + 1
          /\ Append(log.lines, y)[i] = log.lines[i]
      BY <2>1, <2>2
    <3>3. after.lines = Append(log.lines, y) /\ Len(log.lines) \in Nat
      BY <1>2, <2>1, <3>1
    <3>4. QED
      BY <2>2, <3>2, <3>3 DEF Solid, Readable
  <2>4. CASE ~log.ended
    <3>1. after.lines = [log.lines EXCEPT ![Len(log.lines)] = Torn]
      BY <1>2, <2>4 DEF Extended
    <3>2. /\ DOMAIN after.lines = DOMAIN log.lines
          /\ after.lines[i] = log.lines[i] /\ i # Len(log.lines)
      BY <2>1, <2>2, <2>4, <3>1
    <3>3. Len(after.lines) = Len(log.lines)
      BY <2>1, <3>1, ExceptSeq
    <3>4. QED
      BY <2>1, <2>2, <3>2, <3>3 DEF Solid, Readable
  <2>5. QED
    BY <2>3, <2>4
<1>3. QED
  BY <1>1, <1>2 DEF CrashedAppends, Appended, CutShort, Unended

\* A record appended to an ended log is solid there.
LEMMA AppendedIsSolid ==
  ASSUME NEW R, NEW log \in Logs(R), NEW rec \in R, rec # Torn, log.ended
  PROVE  \E i \in Solid(Appended(log, rec)) : Appended(log, rec).lines[i] = rec
<1>1. log.lines \in Seq(R \union {Torn})
  BY DEF Logs
<1>2. Appended(log, rec) = [lines |-> Append(log.lines, rec), ended |-> TRUE]
  BY DEF Appended, Extended
<1>3. /\ Len(log.lines) + 1 \in DOMAIN Append(log.lines, rec)
      /\ Append(log.lines, rec)[Len(log.lines) + 1] = rec
  BY <1>1
<1>4. QED
  BY <1>2, <1>3 DEF Solid, Readable

\* A replay serves every task a readable line records a present blob for.
LEMMA RecordedIsCompleted ==
  ASSUME NEW objs, NEW log \in Logs([task : Tasks, blob : Digests]),
         NEW i \in Readable(log.lines), Present(objs, log.lines[i].blob),
         NEW t \in Tasks, log.lines[i].task = t
  PROVE  Completed(objs, log.lines)[t] \in Digests
<1> DEFINE hits == Honoured(objs, log.lines, t)
<1> DEFINE last == CHOOSE k \in hits : \A j \in hits : j <= k
<1>1. hits \subseteq 1..Len(log.lines) /\ Len(log.lines) \in Nat
  BY DEF Honoured, Readable, Logs
<1>2. i \in hits
  BY DEF Honoured
<1>3. \E k \in hits : \A j \in hits : j <= k
  BY <1>1, <1>2, LastExists
<1>4. last \in hits
  BY <1>3
<1>5. Completed(objs, log.lines)[t] = log.lines[last].blob
  BY <1>2 DEF Completed
<1>6. log.lines[last] \in [task : Tasks, blob : Digests]
  BY <1>4 DEF Honoured, Readable, Logs
<1>7. QED
  BY <1>5, <1>6
=============================================================================
