------------------------ MODULE ShuffleResumeProofs ------------------------
(***************************************************************************)
(* For any number of processes, forked from one another in any order,      *)
(* running any plans and dying anywhere: no record of the store at a URL   *)
(* is ever written over, each leads to what its block was made of, and     *)
(* what a run returns is made of its own plan's blocks.                    *)
(***************************************************************************)
EXTENDS ShuffleResume, WellFoundedInduction, TLAPS

\* A process whose instance is its own goes on under the writer it was given; a
\* forked copy will take another.
Owns(p) == inst[p].pid = p

StoreOK == store = [objects |-> store.objects, records |-> store.records]

Fields(i) == i = [pid |-> i.pid, writer |-> i.writer, seq |-> i.seq, bad |-> i.bad]

InstancesOK ==
  /\ used \subseteq Writers /\ DOMAIN inst = Procs
  /\ \A p \in Procs : /\ Fields(inst[p]) /\ inst[p].pid \in Procs \union {Nobody}
                      /\ inst[p].writer \in Writers \union {0} /\ inst[p].seq \in Nat

\* No two processes own a writer, and a copy is of a process that is there.
Owners ==
  /\ \A p, q \in Procs : Owns(p) /\ Owns(q) /\ p # q => inst[p].writer # inst[q].writer
  /\ \A p, q \in Procs : inst[p].pid = q => inst[q].writer # 0

\* An owner's count is past every record of its writer.
Counts ==
  /\ \A p \in Procs : Owns(p) =>
       /\ inst[p].writer \in used
       /\ \A r \in store.records : r.name[1] = inst[p].writer => r.name[2] < inst[p].seq
  /\ \A r \in store.records :
       r.name = <<r.name[1], r.name[2]>> /\ r.name[1] \in used /\ r.name[2] \in Nat

IInv == StoreOK /\ InstancesOK /\ Owners /\ Counts /\ CommittedIsRecorded

LEMMA InitIInv == ShuffleAssumption /\ Init => IInv
<1> SUFFICES ASSUME ShuffleAssumption, Init PROVE IInv
  OBVIOUS
<1>1. StoreOK /\ store.records = {}
  BY DEF Init, StoreOK, Store!EmptyStore
<1>2. InstancesOK
  BY DEF Init, InstancesOK, NoInstance, Fields
<1>3. Owners /\ Counts /\ CommittedIsRecorded
  BY <1>1 DEF Init, Owners, Counts, CommittedIsRecorded, Owns, NoInstance, ShuffleAssumption
<1>4. QED
  BY <1>1, <1>2, <1>3 DEF IInv

\* A step that writes no record, and leaves each instance whose it was.
LEMMA Quiet ==
  ASSUME IInv, StoreOK', store'.records = store.records, UNCHANGED <<used, committed>>,
         DOMAIN inst' = Procs,
         \A p \in Procs : /\ inst'[p].pid = inst[p].pid /\ inst'[p].writer = inst[p].writer
                          /\ inst'[p].seq = inst[p].seq /\ Fields(inst'[p])
  PROVE  IInv'
<1>1. InstancesOK'
  BY DEF IInv, InstancesOK
<1>2. Owners'
  <2>1. ASSUME NEW p \in Procs, NEW q \in Procs, Owns(p)', Owns(q)', p # q
        PROVE  inst'[p].writer # inst'[q].writer
    BY <2>1 DEF IInv, Owners, Owns
  <2>2. ASSUME NEW p \in Procs, NEW q \in Procs, inst'[p].pid = q
        PROVE  inst'[q].writer # 0
    BY <2>2 DEF IInv, Owners
  <2>3. QED
    BY <2>1, <2>2 DEF Owners
<1>3. Counts'
  BY DEF IInv, Counts, Owns
<1>4. CommittedIsRecorded'
  BY DEF IInv, CommittedIsRecorded
<1>5. QED
  BY <1>1, <1>2, <1>3, <1>4 DEF IInv

\* Writing a blob, whole or not, is no change to the records.
LEMMA Objects ==
  ASSUME StoreOK, NEW objects, store' = [store EXCEPT !.objects = objects]
  PROVE  StoreOK' /\ store'.records = store.records
<1>1. PICK o, r : store = [objects |-> o, records |-> r]
  BY DEF StoreOK
<1>2. store' = [objects |-> objects, records |-> r]
  BY <1>1
<1>3. QED
  BY <1>1, <1>2 DEF StoreOK

\* Nor is a blob an instance refuses, or trusts again, one to whose it is.
LEMMA Refuses ==
  ASSUME InstancesOK, NEW p \in Procs, NEW bad, inst' = [inst EXCEPT ![p].bad = bad]
  PROVE  /\ DOMAIN inst' = Procs
         /\ \A q \in Procs : /\ inst'[q].pid = inst[q].pid /\ inst'[q].writer = inst[q].writer
                             /\ inst'[q].seq = inst[q].seq /\ Fields(inst'[q])
<1>1. DOMAIN inst' = Procs /\ \A q \in Procs \ {p} : inst'[q] = inst[q]
  BY DEF InstancesOK
<1>2. PICK i, w, s, b : inst[p] = [pid |-> i, writer |-> w, seq |-> s, bad |-> b]
  BY DEF InstancesOK, Fields
<1>3. inst'[p] = [pid |-> i, writer |-> w, seq |-> s, bad |-> bad]
  BY <1>2 DEF InstancesOK
<1>4. \A q \in Procs \ {p} : Fields(inst'[q])
  BY <1>1 DEF InstancesOK
<1>5. QED
  BY <1>1, <1>2, <1>3, <1>4 DEF Fields

LEMMA NextProcess == ASSUME IInv, NEW p \in Procs, Process(p) PROVE IInv'
<1>1. UNCHANGED <<store, used, committed>>
  BY DEF Process
<1>2. StoreOK' /\ store'.records = store.records /\ InstancesOK
  BY <1>1 DEF IInv, StoreOK
<1>3. CASE Held(p) = NoBlob
  <2>1. inst' = [inst EXCEPT ![p] = inst[p]]
    BY <1>3 DEF Process
  <2>2. DOMAIN inst' = Procs /\ \A q \in Procs : inst'[q] = inst[q] /\ Fields(inst[q])
    BY <1>2, <2>1 DEF InstancesOK
  <2>3. QED
    BY <1>1, <1>2, <2>2, Quiet
<1>4. CASE Held(p) # NoBlob
  <2>1. PICK bad : inst' = [inst EXCEPT ![p].bad = bad]
    BY <1>4 DEF Process, Store!Refused
  <2>2. QED
    BY <1>1, <1>2, <2>1, Refuses, Quiet
<1>5. QED
  BY <1>3, <1>4

LEMMA NextPut ==
  ASSUME IInv, NEW p \in Procs, Put(p) \/ PutListing(p)
  PROVE  IInv'
<1>1. UNCHANGED <<used, committed>> /\ \E d : PutBlob(p, d)
  BY DEF Put, PutListing
<1>2. PICK d : PutBlob(p, d)
  BY <1>1
<1>3. PICK objects, bad : store' = [store EXCEPT !.objects = objects]
                          /\ inst' = [inst EXCEPT ![p].bad = bad]
  BY <1>2 DEF PutBlob, Store!Put, Store!Trusted
<1>4. StoreOK' /\ store'.records = store.records /\ InstancesOK
  BY <1>3, Objects DEF IInv
<1>5. QED
  BY <1>1, <1>3, <1>4, Refuses, Quiet

\* A run's first look at the store: an instance of its own, if it has none.
LEMMA NextStart ==
  ASSUME ShuffleAssumption, IInv, NEW p \in Procs,
         NEW name, NEW endpoints, NEW writer \in Writers, Start(p, name, endpoints, writer)
  PROVE  IInv'
<1>1. UNCHANGED <<store, committed>>
  BY DEF Start
<1>2. StoreOK' /\ store'.records = store.records /\ InstancesOK /\ CommittedIsRecorded'
  BY <1>1 DEF IInv, StoreOK, CommittedIsRecorded
<1>3. CASE UNCHANGED <<inst, used>>
  BY <1>1, <1>2, <1>3, Quiet DEF InstancesOK
<1>4. CASE ~UNCHANGED <<inst, used>>
  <2>1. /\ writer \notin used /\ used' = used \union {writer}
        /\ inst' = [inst EXCEPT ![p] = Store!Instance(p, writer)]
        /\ inst[p].writer = 0
    BY <1>4 DEF Start, NoInstance
  <2>2. inst'[p] = [pid |-> p, writer |-> writer, seq |-> 0, bad |-> {}]
        /\ DOMAIN inst' = Procs /\ \A q \in Procs \ {p} : inst'[q] = inst[q]
    BY <1>2, <2>1 DEF InstancesOK, Store!Instance
  <2>3. InstancesOK'
    BY <1>2, <2>1, <2>2 DEF InstancesOK, Fields
  <2>4. writer # 0
    <3>1. Writers = 1..Cardinality(Writers)
      BY DEF ShuffleAssumption
    <3>2. \A n : 0 \notin 1..n
      OBVIOUS
    <3>3. QED
      BY ONLY <3>1, <3>2, writer \in Writers
  <2>5. Owners'
    <3>1. ASSUME NEW a \in Procs, NEW b \in Procs, Owns(a)', Owns(b)', a # b
          PROVE  inst'[a].writer # inst'[b].writer
      BY <2>1, <2>2, <3>1 DEF IInv, Owners, Counts, Owns
    <3>2. ASSUME NEW a \in Procs, NEW b \in Procs, inst'[a].pid = b
          PROVE  inst'[b].writer # 0
      BY <2>2, <2>4, <3>2 DEF IInv, Owners
    <3>3. QED
      BY <3>1, <3>2 DEF Owners
  <2>6. Counts'
    BY <1>1, <2>1, <2>2 DEF IInv, Counts, Owns
  <2>7. QED
    BY <1>2, <2>3, <2>5, <2>6 DEF IInv
<1>5. QED
  BY <1>3, <1>4

\* A forked copy owns nothing: nobody is a copy of a process that has no instance.
LEMMA NextFork ==
  ASSUME ShuffleAssumption, IInv, NEW p \in Procs, NEW q \in Procs, Fork(p, q)
  PROVE  IInv'
<1>1. UNCHANGED <<store, used, committed>> /\ inst[q].writer = 0 /\ inst[p].pid # q
  BY DEF Fork, NoInstance, IInv, Owners
<1>2. StoreOK' /\ InstancesOK /\ CommittedIsRecorded'
  BY <1>1 DEF IInv, StoreOK, CommittedIsRecorded
<1>3. /\ DOMAIN inst' = Procs /\ inst'[q] = inst[p] /\ ~Owns(q)'
      /\ \A a \in Procs \ {q} : inst'[a] = inst[a]
  BY <1>1, <1>2 DEF Fork, InstancesOK, Owns
<1>4. InstancesOK'
  BY <1>1, <1>2, <1>3 DEF InstancesOK
<1>5. Owners'
  <2>1. ASSUME NEW a \in Procs, NEW b \in Procs, Owns(a)', Owns(b)', a # b
        PROVE  inst'[a].writer # inst'[b].writer
    BY <1>3, <2>1 DEF IInv, Owners, Owns
  <2>2. ASSUME NEW a \in Procs, NEW b \in Procs, inst'[a].pid = b
        PROVE  inst'[b].writer # 0
    BY <1>1, <1>3, <2>2 DEF IInv, Owners
  <2>3. QED
    BY <2>1, <2>2 DEF Owners
<1>6. Counts'
  BY <1>1, <1>3 DEF IInv, Counts, Owns
<1>7. QED
  BY <1>2, <1>4, <1>5, <1>6 DEF IInv

LEMMA NextCrash == ASSUME ShuffleAssumption, IInv, NEW p \in Procs, Crash(p) PROVE IInv'
<1>1. StoreOK' /\ store'.records = store.records
  <2>1. store' = store \/ \E objects : store' = [store EXCEPT !.objects = objects]
    BY DEF Crash, Store!CutShort
  <2>2. QED
    BY <2>1, Objects DEF IInv, StoreOK
<1>2. InstancesOK /\ CommittedIsRecorded' /\ UNCHANGED <<used, committed>>
  BY <1>1 DEF IInv, CommittedIsRecorded, Crash
<1>3. inst' = [q \in Procs |->
                IF q = p THEN NoInstance
                ELSE IF inst[q].pid = p THEN [inst[q] EXCEPT !.pid = Nobody] ELSE inst[q]]
  BY DEF Crash
<1>4. ASSUME NEW q \in Procs
      PROVE  /\ q = p => inst'[q] = NoInstance
             /\ q # p /\ inst[q].pid # p => inst'[q] = inst[q]
             /\ q # p /\ inst[q].pid = p =>
                  /\ Fields(inst'[q]) /\ inst'[q].pid = Nobody
                  /\ inst'[q].writer = inst[q].writer /\ inst'[q].seq = inst[q].seq
  <2>1. PICK i, w, s, b : inst[q] = [pid |-> i, writer |-> w, seq |-> s, bad |-> b]
    BY <1>2 DEF InstancesOK, Fields
  <2>2. [inst[q] EXCEPT !.pid = Nobody] = [pid |-> Nobody, writer |-> w, seq |-> s, bad |-> b]
    BY <2>1
  <2>3. CASE q = p
    BY ONLY <1>3, <2>3, q \in Procs
  <2>4. CASE q # p /\ inst[q].pid # p
    BY ONLY <1>3, <2>4, q \in Procs
  <2>5. CASE q # p /\ inst[q].pid = p
    <3>1. inst'[q] = [inst[q] EXCEPT !.pid = Nobody]
      BY ONLY <1>3, <2>5, q \in Procs
    <3>2. QED
      BY <2>1, <2>2, <2>5, <3>1 DEF Fields
  <2>6. QED
    BY <2>3, <2>4, <2>5
<1>5. DOMAIN inst' = Procs /\ NoInstance.pid = Nobody /\ NoInstance.writer = 0
      /\ NoInstance.seq = 0 /\ Fields(NoInstance) /\ Nobody \notin Procs
  BY <1>3 DEF NoInstance, Fields, ShuffleAssumption
<1>6. InstancesOK'
  BY <1>2, <1>4, <1>5 DEF InstancesOK
<1>7. \A q \in Procs : inst'[q].pid \in Procs =>
        q # p /\ inst'[q].pid # p /\ inst'[q] = inst[q]
  BY <1>4, <1>5
<1>8. Owners'
  <2>1. ASSUME NEW a \in Procs, NEW b \in Procs, Owns(a)', Owns(b)', a # b
        PROVE  inst'[a].writer # inst'[b].writer
    BY <1>7, <2>1 DEF IInv, Owners, Owns
  <2>2. ASSUME NEW a \in Procs, NEW b \in Procs, inst'[a].pid = b
        PROVE  inst'[b].writer # 0
    BY <1>4, <1>7, <2>2 DEF IInv, Owners
  <2>3. QED
    BY <2>1, <2>2 DEF Owners
<1>9. Counts'
  BY <1>1, <1>2, <1>7 DEF IInv, Counts, Owns
<1>10. QED
  BY <1>1, <1>2, <1>6, <1>8, <1>9 DEF IInv

\* A record is written under a name no record has: the count of a writer its process
\* owns is past them all, and a writer taken now has none.
LEMMA NextRecordDone ==
  ASSUME ShuffleAssumption, IInv, NEW p \in Procs, NEW writer \in Writers, RecordDone(p, writer)
  PROVE  IInv'
<1> DEFINE appender == Store!Appender(inst[p], p, writer)
<1> DEFINE name == <<appender.writer, appender.seq>>
<1>1. /\ ~Owns(p) => writer \notin used
      /\ used' = used \union {appender.writer}
      /\ inst' = [inst EXCEPT ![p] = Store!Counted(appender)]
      /\ store' = Store!Appended(store, appender, Record(p))
      /\ committed' = committed \union {Record(p)}
  BY DEF RecordDone, Owns
<1>2. StoreOK /\ InstancesOK /\ Owners /\ Counts /\ CommittedIsRecorded
  BY DEF IInv
<1>3. PICK i, w, s, b : inst[p] = [pid |-> i, writer |-> w, seq |-> s, bad |-> b]
  BY <1>2 DEF InstancesOK, Fields
<1>4. s \in Nat /\ (i = p => w \in used) /\ used \subseteq Writers
  BY <1>2, <1>3 DEF InstancesOK, Counts, Owns
<1>5. \E v \in Writers, n \in Nat :
        /\ appender = [pid |-> p, writer |-> v, seq |-> n, bad |-> b]
        /\ i = p => v = w /\ n = s
        /\ i # p => v = writer /\ n = 0
  <2>1. CASE i = p
    BY <1>3, <1>4, <2>1 DEF Store!Appender
  <2>2. CASE i # p
    <3>1. appender = [inst[p] EXCEPT !.pid = p, !.writer = writer, !.seq = 0]
      BY <1>3, <2>2 DEF Store!Appender
    <3>2. DOMAIN inst[p] = {"pid", "writer", "seq", "bad"} /\ inst[p].bad = b
      BY <1>3
    <3>3. appender = [k \in {"pid", "writer", "seq", "bad"} |->
                        IF k = "pid" THEN p ELSE IF k = "writer" THEN writer
                        ELSE IF k = "seq" THEN 0 ELSE b]
      BY ONLY <3>1, <3>2
    <3>4. appender = [pid |-> p, writer |-> writer, seq |-> 0, bad |-> b]
      BY ONLY <3>3
    <3>5. QED
      BY <2>2, <3>4
  <2>3. QED
    BY <2>1, <2>2
<1>6. PICK v \in Writers, n \in Nat :
        /\ appender = [pid |-> p, writer |-> v, seq |-> n, bad |-> b]
        /\ i = p => v = w /\ n = s
        /\ i # p => v = writer /\ n = 0
  BY <1>5
<1>7. name = <<v, n>> /\ \A r \in store.records : r.name[1] = v => r.name[2] < n
  <2>1. CASE i = p
    BY <1>2, <1>3, <1>6, <2>1 DEF Counts, Owns
  <2>2. CASE i # p
    <3>1. v \notin used
      BY <1>1, <1>3, <1>6, <2>2 DEF Owns
    <3>2. QED
      BY <1>2, <1>6, <3>1 DEF Counts
  <2>3. QED
    BY <2>1, <2>2
<1>8. \A r \in store.records : r.name # name
  <2>1. ASSUME NEW r \in store.records, r.name = name PROVE FALSE
    BY <1>7, <2>1
  <2>2. QED
    BY <2>1
<1>9. /\ StoreOK'
      /\ store'.records = store.records \union {[name |-> name, record |-> Record(p)]}
  <2>1. PICK o, r : store = [objects |-> o, records |-> r]
    BY <1>2 DEF StoreOK
  <2>2. {x \in r : x.name # name} = r
    BY <1>8, <2>1
  <2>3. store' = [objects |-> o, records |-> r \union {[name |-> name, record |-> Record(p)]}]
    BY <1>1, <2>1, <2>2 DEF Store!Appended
  <2>4. QED
    BY <2>1, <2>3 DEF StoreOK
<1>10. /\ DOMAIN inst' = Procs /\ \A q \in Procs \ {p} : inst'[q] = inst[q]
       /\ inst'[p] = [pid |-> p, writer |-> v, seq |-> n + 1, bad |-> b]
  <2>1. Store!Counted(appender) = [pid |-> p, writer |-> v, seq |-> n + 1, bad |-> b]
    BY <1>6 DEF Store!Counted
  <2>2. QED
    BY <1>1, <1>2, <2>1 DEF InstancesOK
<1>11. used' = used \union {v}
  BY <1>1, <1>6
<1>12. InstancesOK'
  BY <1>2, <1>4, <1>10, <1>11 DEF InstancesOK, Fields
<1>13. \A q \in Procs \ {p} : Owns(q) => inst[q].writer # v
  <2>1. CASE i = p
    BY <1>2, <1>3, <1>6, <2>1 DEF Owners, Owns
  <2>2. CASE i # p
    BY <1>1, <1>2, <1>3, <1>6, <2>2 DEF Counts, Owns
  <2>3. QED
    BY <2>1, <2>2
<1>14. Owners'
  <2>1. ASSUME NEW a \in Procs, NEW c \in Procs, Owns(a)', Owns(c)', a # c
        PROVE  inst'[a].writer # inst'[c].writer
    BY <1>2, <1>10, <1>13, <2>1 DEF Owners, Owns
  <2>2. v # 0
    <3>1. Writers = 1..Cardinality(Writers)
      BY DEF ShuffleAssumption
    <3>2. \A k : 0 \notin 1..k
      OBVIOUS
    <3>3. QED
      BY ONLY <3>1, <3>2, v \in Writers
  <2>3. ASSUME NEW a \in Procs, NEW c \in Procs, inst'[a].pid = c
        PROVE  inst'[c].writer # 0
    BY <1>2, <1>10, <2>2, <2>3 DEF Owners
  <2>4. QED
    BY <2>1, <2>3 DEF Owners
<1>15. Counts'
  <2>1. ASSUME NEW q \in Procs, Owns(q)'
        PROVE  /\ inst'[q].writer \in used'
               /\ \A r \in store'.records :
                    r.name[1] = inst'[q].writer => r.name[2] < inst'[q].seq
    <3>1. CASE q = p
      <4>1. inst'[q].writer = v /\ inst'[q].seq = n + 1
        BY <1>10, <3>1
      <4>2. \A r \in store.records : r.name[1] = v => r.name[2] < n + 1
        BY <1>2, <1>7 DEF Counts
      <4>3. [name |-> name, record |-> Record(p)].name = <<v, n>> /\ n < n + 1
        BY <1>7
      <4>4. QED
        BY <1>9, <1>11, <4>1, <4>2, <4>3
    <3>2. CASE q # p
      BY <1>2, <1>7, <1>9, <1>10, <1>11, <1>13, <2>1, <3>2 DEF Counts, Owns
    <3>3. QED
      BY <3>1, <3>2
  <2>2. ASSUME NEW r \in store'.records
        PROVE  r.name = <<r.name[1], r.name[2]>> /\ r.name[1] \in used' /\ r.name[2] \in Nat
    BY <1>2, <1>7, <1>9, <1>11, <2>2 DEF Counts
  <2>3. QED
    BY <2>1, <2>2 DEF Counts
<1>16. CommittedIsRecorded'
  <2>1. [name |-> name, record |-> Record(p)].record = Record(p)
    OBVIOUS
  <2>2. \A c \in committed : \E r \in store.records : c = r.record
    BY <1>2 DEF CommittedIsRecorded
  <2>3. ASSUME NEW c \in committed' PROVE \E r \in store'.records : c = r.record
    BY <1>1, <1>9, <2>1, <2>2
  <2>4. QED
    BY <2>3 DEF CommittedIsRecorded
<1>17. QED
  BY <1>9, <1>12, <1>14, <1>15, <1>16 DEF IInv

LEMMA NextOther ==
  ASSUME IInv,
         \/ \E p \in Procs : Reuse(p)
         \/ \E d \in DOMAIN store.objects : Damage(d)
         \/ UNCHANGED vars
  PROVE  IInv'
<1>1. UNCHANGED <<inst, used, committed>>
  BY DEF Reuse, Damage, vars
<1>2. store' = store \/ \E objects : store' = [store EXCEPT !.objects = objects]
  BY DEF Reuse, Damage, vars
<1>3. StoreOK' /\ store'.records = store.records
  BY <1>2, Objects DEF IInv, StoreOK
<1>4. DOMAIN inst' = Procs /\ \A p \in Procs : inst'[p] = inst[p] /\ Fields(inst[p])
  BY <1>1 DEF IInv, InstancesOK
<1>5. QED
  BY <1>1, <1>3, <1>4, Quiet

LEMMA NextIInv == ASSUME ShuffleAssumption, IInv, [Next]_vars PROVE IInv'
<1>1. ASSUME NEW p \in Procs, NEW name \in DOMAIN Plans, NEW endpoints \in Endpoints,
             NEW writer \in Writers, Start(p, name, endpoints, writer)
      PROVE  IInv'
  BY <1>1, NextStart
<1>2. ASSUME NEW p \in Procs, Process(p) PROVE IInv'
  BY <1>2, NextProcess
<1>3. ASSUME NEW p \in Procs, Put(p) \/ PutListing(p) PROVE IInv'
  BY <1>3, NextPut
<1>4. ASSUME NEW p \in Procs, NEW writer \in Writers, RecordDone(p, writer) PROVE IInv'
  BY <1>4, NextRecordDone
<1>5. ASSUME NEW p \in Procs, NEW q \in Procs, Fork(p, q) PROVE IInv'
  BY <1>5, NextFork
<1>6. ASSUME NEW p \in Procs, Crash(p) PROVE IInv'
  BY <1>6, NextCrash
<1>7. ASSUME \/ \E p \in Procs : Reuse(p)
             \/ \E d \in DOMAIN store.objects : Damage(d)
             \/ UNCHANGED vars
      PROVE  IInv'
  BY <1>7, NextOther
<1>8. QED
  BY <1>1, <1>2, <1>3, <1>4, <1>5, <1>6, <1>7 DEF Next

\* A record whose record_done returned is in the store for good (_append: "a forked
\* copy takes a fresh writer token"), whichever processes forked which, and whatever
\* they run, write by halves or damage: no name is ever written twice.
THEOREM NeverOver == Spec => []CommittedIsRecorded
<1>1. Init => IInv
  BY InitIInv, ShuffleAssumption
<1>2. IInv /\ [Next]_vars => IInv'
  BY NextIInv, ShuffleAssumption
<1>3. IInv => CommittedIsRecorded
  BY DEF IInv
<1>4. QED
  BY <1>1, <1>2, <1>3, PTL DEF Spec

(***************************************************************************)
(* What a record says its block was made of.                               *)
(***************************************************************************)

\* Blocks whose payloads are what their hashes are of.
Faithful(blocks) == \E S : blocks \in Seq({[hash |-> d, payload |-> d] : d \in S})

\* A plan whose stages read stages before them, and which maps before it gathers.
Layered(plan) ==
  /\ \E S : plan.stages \in Seq(S)
  /\ \A si \in DOMAIN plan.stages :
       /\ plan.stages[si].inputs = << >> <=> plan.stages[si].kind = "map_write"
       /\ \A k \in DOMAIN plan.stages[si].inputs : plan.stages[si].inputs[k] \in 1..(si - 1)

\* A run, [pc, name, plan, stage, blocks, held, value, deps]: the blocks its stage reads.
Reads(r) == Joined([si \in DOMAIN r.blocks |-> Hashes(r.blocks[si])], r.plan.stages[r.stage])

Whole(r) ==
  r = [pc |-> r.pc, name |-> r.name, plan |-> r.plan, stage |-> r.stage, blocks |-> r.blocks,
       held |-> r.held, value |-> r.value, deps |-> r.deps]

Sane(r) ==
  /\ Whole(r)
  /\ Layered(r.plan) /\ r.stage \in DOMAIN r.plan.stages
  /\ DOMAIN r.blocks = DOMAIN r.plan.stages
  /\ \A si \in DOMAIN r.blocks : Faithful(r.blocks[si])

Named(r, s) == r.deps = Listing(Reads(r)) /\ Store!Present(s, r.deps)

\* The block in hand is of its stage's kind, made of the blocks its stage reads.
Makes(r) ==
  LET stage == r.plan.stages[r.stage]
  IN  \E ir, partition, x : /\ r.value = << stage.kind, ir, partition, x >>
                            /\ stage.inputs # << >> => x = Reads(r)

Sound(r, s) ==
  r.pc # "idle" =>
    /\ Sane(r)
    /\ r.deps # NoBlob => Named(r, s)
    /\ r.pc \in {"put", "list", "record"} => Makes(r)
    /\ r.pc = "record" /\ r.plan.stages[r.stage].inputs # << >> => Named(r, s)

JInv ==
  /\ StoreOK /\ DOMAIN run = Procs
  /\ \A p \in Procs : Sound(run[p], store)
  /\ RecordsNameTheirInputs

\* With hashes and payloads one and the same, so are the lists of them.
LEMMA FaithfulHashes ==
  ASSUME NEW blocks, Faithful(blocks)
  PROVE  Hashes(blocks) = Payloads(blocks)
<1>1. PICK S : blocks \in Seq({[hash |-> d, payload |-> d] : d \in S})
  BY DEF Faithful
<1>2. \A i \in DOMAIN blocks : blocks[i].hash = blocks[i].payload
  BY <1>1
<1>3. QED
  BY <1>2 DEF Hashes, Payloads

LEMMA FaithfulAppend ==
  ASSUME NEW blocks, Faithful(blocks), NEW d
  PROVE  Faithful(Append(blocks, [hash |-> d, payload |-> d]))
<1>1. PICK S : blocks \in Seq({[hash |-> e, payload |-> e] : e \in S})
  BY DEF Faithful
<1> DEFINE T == S \union {d}
<1>2. [hash |-> d, payload |-> d] \in {[hash |-> e, payload |-> e] : e \in T}
  OBVIOUS
<1>3. {[hash |-> e, payload |-> e] : e \in S} \subseteq {[hash |-> e, payload |-> e] : e \in T}
  OBVIOUS
<1> DEFINE Before == {[hash |-> e, payload |-> e] : e \in S}
<1> DEFINE After == {[hash |-> e, payload |-> e] : e \in T}
<1> HIDE DEF Before, After
<1>4. blocks \in Seq(After)
  <2>1. blocks \in Seq(Before) /\ Before \subseteq After
    BY <1>1, <1>3 DEF Before, After
  <2>2. QED
    BY ONLY <2>1
<1>5. Append(blocks, [hash |-> d, payload |-> d]) \in Seq(After)
  BY <1>2, <1>4 DEF After
<1>6. QED
  BY <1>5 DEF Faithful, After

\* What is under a name stays there, whole or not.
LEMMA StoredStays ==
  ASSUME NEW s, s = [objects |-> s.objects, records |-> s.records], NEW i, NEW d,
         NEW s1, s1 = Store!Put(s, i, d) \/ s1 = Store!CutShort(s, i, d)
  PROVE  /\ s1 = [objects |-> s1.objects, records |-> s1.records] /\ s1.records = s.records
         /\ \A e : Store!Present(s, e) => Store!Present(s1, e)
         /\ Store!Present(s1, d)
<1> DEFINE bad == i.bad
<1> HIDE DEF bad
<1>1. PICK o, r : s = [objects |-> o, records |-> r]
  OBVIOUS
<1>2. PICK state : /\ state \in {"good", "truncated"}
                   /\ s1 = [objects |-> Store!Stored(o, bad, d, state), records |-> r]
  <2>1. CASE s1 = Store!Put(s, i, d)
    BY <1>1, <2>1 DEF Store!Put, bad
  <2>2. CASE s1 = Store!CutShort(s, i, d)
    BY <1>1, <2>2 DEF Store!CutShort, bad
  <2>3. QED
    BY <2>1, <2>2
<1>3. /\ s.objects = o /\ s1.objects = Store!Stored(o, bad, d, state) /\ state # "absent"
      /\ s1 = [objects |-> s1.objects, records |-> s1.records] /\ s1.records = s.records
  BY <1>1, <1>2
<1>4. \A t, e : Store!Present(t, e) <=>
        (IF e \in DOMAIN t.objects THEN t.objects[e] ELSE "absent") # "absent"
  BY DEF Store!Present, Store!Under, Store!Files!Present
<1>5. QED
  BY <1>3, <1>4 DEF Store!Stored, Store!Files!NeedsWrite, Store!Under

\* A blob that stays where it was is as good a list of inputs as before.
LEMMA SoundStays ==
  ASSUME NEW r, NEW s, NEW s1, Sound(r, s), \A d : Store!Present(s, d) => Store!Present(s1, d)
  PROVE  Sound(r, s1)
BY DEF Sound, Named

\* A block is done with: no stage reads its own blocks.
LEMMA DoneSound ==
  ASSUME NEW p, Sane(run[p]), NEW d, NEW s, run[p].deps # NoBlob => Named(run[p], s)
  PROVE  Sound(Done(p, d, d), s)
<1> DEFINE r == run[p]
<1> DEFINE blocks == [r.blocks EXCEPT ![r.stage] = Append(@, [hash |-> d, payload |-> d])]
<1> DEFINE last == Len(blocks[r.stage]) = Len(Stage(p).tasks)
<1> DEFINE end == last /\ r.stage = Len(r.plan.stages)
<1> DEFINE pc == IF end THEN "done" ELSE "visit"
<1> DEFINE stage == IF last /\ ~ end THEN r.stage + 1 ELSE r.stage
<1> DEFINE deps == IF last THEN NoBlob ELSE r.deps
<1> DEFINE new == [pc |-> pc, name |-> r.name, plan |-> r.plan, stage |-> stage,
                   blocks |-> blocks, held |-> r.held, value |-> NoBlob, deps |-> deps]
<1>1. Done(p, d, d) = [r EXCEPT !.blocks = blocks, !.value = NoBlob, !.pc = pc,
                                !.stage = stage, !.deps = deps]
  BY DEF Done
<1> HIDE DEF blocks, pc, stage, deps
<1>2. PICK a, b, c, e, f, g, h, i :
        r = [pc |-> a, name |-> b, plan |-> c, stage |-> e, blocks |-> f, held |-> g,
             value |-> h, deps |-> i]
  BY DEF Sane, Whole
<1>3. Done(p, d, d) = new
  BY <1>1, <1>2
<1>4. /\ DOMAIN r.blocks = DOMAIN r.plan.stages /\ r.stage \in DOMAIN r.plan.stages
      /\ Layered(r.plan) /\ \A si \in DOMAIN r.blocks : Faithful(r.blocks[si])
  BY DEF Sane
<1>5. /\ DOMAIN r.plan.stages = 1..Len(r.plan.stages) /\ Len(r.plan.stages) \in Nat
      /\ \A k \in DOMAIN r.plan.stages[r.stage].inputs :
           r.plan.stages[r.stage].inputs[k] \in 1..(r.stage - 1)
  BY <1>4 DEF Layered
<1>6. /\ DOMAIN blocks = DOMAIN r.blocks
      /\ blocks[r.stage] = Append(r.blocks[r.stage], [hash |-> d, payload |-> d])
      /\ \A si \in DOMAIN r.blocks \ {r.stage} : blocks[si] = r.blocks[si]
  BY <1>4 DEF blocks
<1>7. \A si \in DOMAIN blocks : Faithful(blocks[si])
  BY <1>4, <1>6, FaithfulAppend
<1>8. stage \in DOMAIN r.plan.stages
  BY <1>4, <1>5 DEF stage
<1>9. Sane(new)
  BY <1>4, <1>6, <1>7, <1>8 DEF Sane, Whole
<1>10. ASSUME deps # NoBlob PROVE Named(new, s)
  <2>1. deps = r.deps /\ stage = r.stage
    BY <1>10 DEF deps, stage
  <2> DEFINE inputs == r.plan.stages[r.stage].inputs
  <2> DEFINE was == [si \in DOMAIN r.blocks |-> Hashes(r.blocks[si])]
  <2> DEFINE is == [si \in DOMAIN blocks |-> Hashes(blocks[si])]
  <2>2. \A k \in DOMAIN inputs : inputs[k] \in DOMAIN r.blocks \ {r.stage}
    BY <1>4, <1>5
  <2>3. \A k \in DOMAIN inputs : is[inputs[k]] = was[inputs[k]]
    BY <1>6, <2>2
  <2> HIDE DEF is, was, inputs
  <2>4. Joined(is, r.plan.stages[r.stage]) = Joined(was, r.plan.stages[r.stage])
    <3>1. [k \in DOMAIN inputs |-> is[inputs[k]]] = [k \in DOMAIN inputs |-> was[inputs[k]]]
      BY ONLY <2>3
    <3>2. QED
      BY ONLY <3>1 DEF Joined, inputs
  <2>5. Reads(new) = Reads(r)
    BY <2>1, <2>4 DEF Reads, is, was
  <2>6. QED
    BY <1>10, <2>1, <2>5 DEF Named
<1>11. new.pc \in {"visit", "done"} /\ new.deps = deps
  BY DEF pc
<1>12. QED
  BY <1>3, <1>9, <1>10, <1>11 DEF Sound

\* A step of one run that writes no record.
LEMMA Moves ==
  ASSUME JInv, NEW p \in Procs, NEW new, run' = [run EXCEPT ![p] = new], Sound(new, store'),
         StoreOK', store'.records = store.records,
         \A d : Store!Present(store, d) => Store!Present(store', d)
  PROVE  JInv'
<1>1. /\ DOMAIN run' = Procs /\ run'[p] = new
      /\ \A q \in Procs \ {p} : run'[q] = run[q]
  BY DEF JInv
<1>2. \A q \in Procs : Sound(run'[q], store')
  <2>1. ASSUME NEW q \in Procs \ {p} PROVE Sound(run'[q], store')
    BY <1>1, SoundStays DEF JInv
  <2>2. QED
    BY <1>1, <2>1
<1>3. RecordsNameTheirInputs'
  BY DEF JInv, RecordsNameTheirInputs
<1>4. QED
  BY <1>1, <1>2, <1>3 DEF JInv

LEMMA JReuse == ASSUME JInv, NEW p \in Procs, Reuse(p) PROVE JInv'
<1>1. /\ run[p].pc = "visit" /\ Held(p) # NoBlob /\ Store!Get(store, Held(p)) # NoBlob
      /\ run' = [run EXCEPT ![p] = Done(p, Held(p), Store!Get(store, Held(p)))]
      /\ UNCHANGED store
  BY DEF Reuse, Servable
<1>2. Store!Get(store, Held(p)) = Held(p)
  BY <1>1 DEF Store!Get, Store!Files!Get
<1>3. Sane(run[p]) /\ (run[p].deps # NoBlob => Named(run[p], store))
  BY <1>1 DEF JInv, Sound
<1>4. Sound(Done(p, Held(p), Held(p)), store)
  BY <1>3, DoneSound
<1>5. StoreOK' /\ store'.records = store.records
  BY <1>1 DEF JInv, StoreOK
<1>6. QED
  BY <1>1, <1>2, <1>4, <1>5, Moves

\* A step of a run to another point of the same block, with what it now has in hand.
Step(r, pc, value, deps) == [r EXCEPT !.pc = pc, !.value = value, !.deps = deps]

LEMMA Steps ==
  ASSUME NEW r, Sane(r), NEW pc, NEW value, NEW deps, NEW new, new = Step(r, pc, value, deps)
  PROVE  /\ Sane(new) /\ new.pc = pc /\ new.value = value /\ new.deps = deps
         /\ new.name = r.name /\ new.plan = r.plan /\ new.stage = r.stage /\ new.blocks = r.blocks
         /\ new.held = r.held /\ Reads(new) = Reads(r)
<1> DEFINE Names == {"pc", "name", "plan", "stage", "blocks", "held", "value", "deps"}
<1>1. DOMAIN r = Names
  BY DEF Sane, Whole
<1>2. /\ new = [k \in Names |-> IF k = "pc" THEN pc ELSE IF k = "value" THEN value
                                ELSE IF k = "deps" THEN deps ELSE r[k]]
  BY ONLY <1>1, new = Step(r, pc, value, deps) DEF Step
<1>3. new = [pc |-> pc, name |-> r.name, plan |-> r.plan, stage |-> r.stage, blocks |-> r.blocks,
             held |-> r.held, value |-> value, deps |-> deps]
  BY ONLY <1>2
<1>4. /\ new.pc = pc /\ new.value = value /\ new.deps = deps /\ Whole(new)
      /\ new.name = r.name /\ new.plan = r.plan /\ new.stage = r.stage /\ new.blocks = r.blocks
      /\ new.held = r.held
  BY <1>3 DEF Whole
<1>5. QED
  BY <1>4 DEF Sane, Reads

LEMMA SameRead ==
  ASSUME NEW r, Sane(r)
  PROVE  [si \in DOMAIN r.blocks |-> Payloads(r.blocks[si])]
           = [si \in DOMAIN r.blocks |-> Hashes(r.blocks[si])]
<1>1. \A si \in DOMAIN r.blocks : Payloads(r.blocks[si]) = Hashes(r.blocks[si])
  BY FaithfulHashes DEF Sane
<1>2. QED
  BY <1>1

\* The payloads a task is handed are the blocks whose hashes its record will list.
LEMMA JProcess == ASSUME JInv, NEW p \in Procs, Process(p) PROVE JInv'
<1> DEFINE r == run[p]
<1>1. /\ r.pc = "visit" /\ UNCHANGED store
      /\ \E d \in Results(p) : run' = [run EXCEPT ![p].pc = "put", ![p].value = d]
  BY DEF Process
<1>2. PICK d \in Results(p) : run' = [run EXCEPT ![p].pc = "put", ![p].value = d]
  BY <1>1
<1>3. Sane(r) /\ (r.deps # NoBlob => Named(r, store)) /\ DOMAIN run = Procs
  BY <1>1 DEF JInv, Sound
<1>4. [si \in DOMAIN r.blocks |-> Payloads(r.blocks[si])] = [si \in DOMAIN r.blocks |-> Hashes(r.blocks[si])]
  BY <1>3, SameRead
<1>5. \E ir, partition, x : /\ d = << Stage(p).kind, ir, partition, x >>
                            /\ Stage(p).inputs # << >> => x = Reads(r)
  <2>1. PICK x : /\ d = Block(r.plan, Stage(p), Here(p), x)
                 /\ Stage(p).inputs # << >> =>
                      x = Joined([si \in DOMAIN r.blocks |-> Payloads(r.blocks[si])], Stage(p))
    BY <1>2 DEF Results
  <2>2. Stage(p).inputs # << >> => x = Reads(r)
    BY <1>4, <2>1 DEF Reads, Stage
  <2>3. d = << Stage(p).kind, r.plan.ir, Here(p).partition, x >>
    BY <2>1 DEF Block
  <2>4. QED
    BY <2>2, <2>3
<1>6. PICK new : new = Step(r, "put", d, r.deps)
  OBVIOUS
<1>7. /\ Sane(new) /\ new.pc = "put" /\ new.value = d /\ new.deps = r.deps
      /\ new.plan = r.plan /\ new.stage = r.stage /\ Reads(new) = Reads(r)
  BY <1>3, <1>6, Steps
<1>8. run' = [run EXCEPT ![p] = new]
  <2>1. [r EXCEPT !.pc = "put", !.value = d] = new
    BY ONLY <1>6, <1>3 DEF Step, Sane, Whole
  <2>2. QED
    BY ONLY <1>2, <1>3, <2>1
<1>9. Makes(new)
  BY <1>5, <1>7 DEF Makes, Stage
<1>10. new.deps # NoBlob => Named(new, store)
  BY <1>3, <1>7 DEF Named
<1>11. Sound(new, store)
  BY <1>7, <1>9, <1>10 DEF Sound
<1>12. StoreOK' /\ store'.records = store.records
  BY <1>1 DEF JInv, StoreOK
<1>13. QED
  BY <1>1, <1>8, <1>11, <1>12, Moves

\* A put leaves its blob there, whole.
LEMMA PutStays ==
  ASSUME StoreOK, NEW p, NEW d, PutBlob(p, d)
  PROVE  /\ StoreOK' /\ store'.records = store.records
         /\ \A e : Store!Present(store, e) => Store!Present(store', e)
         /\ Store!Present(store', d)
<1>1. store' = Store!Put(store, inst[p], d)
  BY DEF PutBlob
<1>2. store = [objects |-> store.objects, records |-> store.records]
  BY DEF StoreOK
<1>3. QED
  BY <1>1, <1>2, StoredStays DEF StoreOK

\* The blob is there; its list of inputs is, or is put next, or its stage reads none.
LEMMA JPut == ASSUME JInv, NEW p \in Procs, Put(p) PROVE JInv'
<1> DEFINE r == run[p]
<1> DEFINE pc == IF Stage(p).inputs # << >> /\ r.deps = NoBlob THEN "list" ELSE "record"
<1>1. r.pc = "put" /\ PutBlob(p, r.value) /\ run' = [run EXCEPT ![p].pc = pc]
  BY DEF Put
<1>2. Sane(r) /\ (r.deps # NoBlob => Named(r, store)) /\ Makes(r) /\ DOMAIN run = Procs /\ StoreOK
  BY <1>1 DEF JInv, Sound
<1>3. /\ StoreOK' /\ store'.records = store.records
      /\ \A e : Store!Present(store, e) => Store!Present(store', e)
  BY <1>1, <1>2, PutStays
<1> HIDE DEF pc
<1>4. PICK new : new = Step(r, pc, r.value, r.deps)
  OBVIOUS
<1>5. /\ Sane(new) /\ new.pc = pc /\ new.value = r.value /\ new.deps = r.deps
      /\ new.plan = r.plan /\ new.stage = r.stage /\ Reads(new) = Reads(r)
  BY <1>2, <1>4, Steps
<1>6. run' = [run EXCEPT ![p] = new]
  <2>1. [r EXCEPT !.pc = pc] = new
    BY ONLY <1>2, <1>4 DEF Step, Sane, Whole
  <2>2. QED
    BY ONLY <1>1, <1>2, <2>1
<1>7. Makes(new)
  BY <1>2, <1>5 DEF Makes
<1>8. new.deps # NoBlob => Named(new, store')
  BY <1>2, <1>3, <1>5 DEF Named
<1>9. new.pc = "record" /\ new.plan.stages[new.stage].inputs # << >> => new.deps # NoBlob
  BY <1>5 DEF pc, Stage
<1>10. Sound(new, store')
  BY <1>5, <1>7, <1>8, <1>9 DEF Sound
<1>11. QED
  BY <1>3, <1>6, <1>10, Moves

\* The list is of the blocks this run read, and is there before a record names it.
LEMMA JPutListing == ASSUME JInv, NEW p \in Procs, PutListing(p) PROVE JInv'
<1> DEFINE r == run[p]
<1>1. r.pc = "list" /\ PutBlob(p, Listing(Upstream(p)))
      /\ run' = [run EXCEPT ![p].pc = "record", ![p].deps = Listing(Upstream(p))]
  BY DEF PutListing
<1>2. Sane(r) /\ Makes(r) /\ DOMAIN run = Procs /\ StoreOK
  BY <1>1 DEF JInv, Sound
<1>3. /\ StoreOK' /\ store'.records = store.records
      /\ \A e : Store!Present(store, e) => Store!Present(store', e)
      /\ Store!Present(store', Listing(Upstream(p)))
  BY <1>1, <1>2, PutStays
<1>4. Upstream(p) = Reads(r)
  BY DEF Upstream, Reads, Stage
<1>5. PICK new : new = Step(r, "record", r.value, Listing(Upstream(p)))
  OBVIOUS
<1>6. /\ Sane(new) /\ new.pc = "record" /\ new.value = r.value /\ new.deps = Listing(Upstream(p))
      /\ new.plan = r.plan /\ new.stage = r.stage /\ Reads(new) = Reads(r)
  BY <1>2, <1>5, Steps
<1>7. run' = [run EXCEPT ![p] = new]
  <2>1. [r EXCEPT !.pc = "record", !.deps = Listing(Upstream(p))] = new
    BY ONLY <1>2, <1>5 DEF Step, Sane, Whole
  <2>2. QED
    BY ONLY <1>1, <1>2, <2>1
<1>8. Makes(new)
  BY <1>2, <1>6 DEF Makes
<1>9. Named(new, store')
  BY <1>3, <1>4, <1>6 DEF Named
<1>10. Sound(new, store')
  BY <1>6, <1>8, <1>9 DEF Sound
<1>11. QED
  BY <1>3, <1>7, <1>10, Moves

\* What is recorded of a stage that reads others is made of what its list names.
LEMMA JRecordDone == ASSUME JInv, NEW p \in Procs, NEW writer, RecordDone(p, writer) PROVE JInv'
<1> DEFINE r == run[p]
<1> DEFINE d == r.value
<1>1. r.pc = "record" /\ run' = [run EXCEPT ![p] = Done(p, d, d)]
      /\ \E appender : store' = Store!Appended(store, appender, Record(p))
  BY DEF RecordDone
<1>2. PICK appender : store' = Store!Appended(store, appender, Record(p))
  BY <1>1
<1>3. /\ Sane(r) /\ (r.deps # NoBlob => Named(r, store)) /\ Makes(r) /\ DOMAIN run = Procs
      /\ (r.plan.stages[r.stage].inputs # << >> => Named(r, store)) /\ StoreOK
  BY <1>1 DEF JInv, Sound
<1>4. PICK o, rs, name : /\ store = [objects |-> o, records |-> rs]
                         /\ store' = [objects |-> o, records |-> {x \in rs : x.name # name}
                                        \union {[name |-> name, record |-> Record(p)]}]
  BY <1>2, <1>3 DEF StoreOK, Store!Appended
<1>5. StoreOK' /\ store'.objects = store.objects
      /\ \A x \in store'.records : x \in store.records \/ x.record = Record(p)
  BY <1>4 DEF StoreOK
<1>6. \A e : Store!Present(store', e) <=> Store!Present(store, e)
  BY <1>5 DEF Store!Present
<1>7. Sound(Done(p, d, d), store)
  BY <1>3, DoneSound
<1>8. DOMAIN run' = Procs /\ run'[p] = Done(p, d, d) /\ \A q \in Procs \ {p} : run'[q] = run[q]
  BY <1>1, <1>3
<1>9. \A q \in Procs : Sound(run'[q], store')
  <2>1. ASSUME NEW q \in Procs PROVE Sound(run'[q], store)
    BY <1>7, <1>8 DEF JInv
  <2>2. QED
    BY <1>6, <2>1, SoundStays
<1>10. RecordsNameTheirInputs'
  <2>1. ASSUME NEW x \in store'.records, x.record.blob[1] # "map_write"
        PROVE  x.record.deps = Listing(x.record.blob[4]) /\ Store!Present(store', x.record.deps)
    <3>1. CASE x \in store.records
      BY <1>6, <2>1, <3>1 DEF JInv, RecordsNameTheirInputs
    <3>2. CASE x.record = Record(p)
      <4>1. x.record.blob = r.value /\ x.record.deps = r.deps
        BY <3>2 DEF Record
      <4>2. PICK ir, partition, y : /\ r.value = << r.plan.stages[r.stage].kind, ir, partition, y >>
                                    /\ r.plan.stages[r.stage].inputs # << >> => y = Reads(r)
        BY <1>3 DEF Makes
      <4>3. r.plan.stages[r.stage].kind # "map_write"
        BY <2>1, <4>1, <4>2
      <4>4. r.plan.stages[r.stage].inputs # << >>
        BY <1>3, <4>3 DEF Sane, Layered
      <4>5. Named(r, store) /\ r.value[4] = Reads(r)
        BY <1>3, <4>2, <4>4
      <4>6. QED
        BY <1>6, <4>1, <4>5 DEF Named
    <3>3. QED
      BY <1>5, <3>1, <3>2
  <2>2. QED
    BY <2>1 DEF RecordsNameTheirInputs
<1>11. QED
  BY <1>5, <1>8, <1>9, <1>10 DEF JInv

\* Binding endpoints leaves a plan the stages it had, reading what they read.
LEMMA BoundLayered ==
  ASSUME ShuffleAssumption, NEW name \in DOMAIN Plans, NEW endpoints
  PROVE  /\ Layered(bind_services(Plans[name], endpoints))
         /\ 1 \in DOMAIN bind_services(Plans[name], endpoints).stages
<1> DEFINE plan == Plans[name]
<1> DEFINE stages == plan.stages
<1> DEFINE Live(si) ==
      LET fn == resolve(stages[si].process)
      IN  IF fn.calls = {} THEN stages[si]
          ELSE [stages[si] EXCEPT !.process.live = BoundTo(fn, endpoints)]
<1> DEFINE bound == [si \in DOMAIN stages |-> Live(si)]
<1>1. PICK doc : plan = from_bytes(doc)
  BY DEF Plans
<1>2. PICK services, finalize :
        plan = [ir |-> doc.ir, stages |-> [si \in DOMAIN doc.stages |-> stage_from_json(doc.stages[si])],
                services |-> services, finalize |-> finalize]
  BY <1>1 DEF from_bytes, Plan
<1>3. bind_services(plan, endpoints).stages = bound
  <2>1. bind_services(plan, endpoints) = [plan EXCEPT !.stages = bound]
    BY DEF bind_services
  <2>2. "stages" \in DOMAIN plan
    BY <1>2
  <2>3. QED
    BY ONLY <2>1, <2>2
<1>4. \A si \in DOMAIN stages : Live(si).kind = stages[si].kind /\ Live(si).inputs = stages[si].inputs
  <2>1. ASSUME NEW si \in DOMAIN stages
        PROVE  Live(si).kind = stages[si].kind /\ Live(si).inputs = stages[si].inputs
    <3>1. stages[si] = stage_from_json(doc.stages[si])
      BY <1>2
    <3>2. {"kind", "inputs", "process"} \subseteq DOMAIN stages[si]
      BY <3>1 DEF stage_from_json
    <3>3. Live(si) = stages[si] \/ \E y : Live(si) = [stages[si] EXCEPT !.process = y]
      OBVIOUS
    <3>4. \A s, y : {"kind", "inputs", "process"} \subseteq DOMAIN s =>
            /\ [s EXCEPT !.process = y].kind = s.kind
            /\ [s EXCEPT !.process = y].inputs = s.inputs
      OBVIOUS
    <3>5. QED
      BY ONLY <3>2, <3>3, <3>4
  <2>2. QED
    BY <2>1
<1>5. stages \in Seq(Range(stages)) \ {<< >>}
  BY DEF ShuffleAssumption
<1>6. DOMAIN stages = 1..Len(stages) /\ Len(stages) \in Nat /\ 1 \in DOMAIN stages
  BY ONLY <1>5
<1> HIDE DEF Live, stages
<1>7. bound \in Seq({Live(si) : si \in DOMAIN stages})
  BY ONLY <1>6
<1>8. ASSUME NEW si \in DOMAIN stages
      PROVE  /\ bound[si].inputs = << >> <=> bound[si].kind = "map_write"
             /\ \A k \in DOMAIN bound[si].inputs : bound[si].inputs[k] \in 1..(si - 1)
  <2>1. bound[si].inputs = stages[si].inputs /\ bound[si].kind = stages[si].kind
    BY <1>4
  <2>2. /\ stages[si].inputs = << >> <=> stages[si].kind = "map_write"
        /\ \A dep \in Range(stages[si].inputs) : dep \in 1..(si - 1)
    BY DEF ShuffleAssumption, stages
  <2>3. \A f : \A k \in DOMAIN f : f[k] \in Range(f)
    BY DEF Range
  <2>4. QED
    BY <2>1, <2>2, <2>3
<1>9. DOMAIN bound = DOMAIN stages
  OBVIOUS
<1> HIDE DEF bound
<1>10. QED
  BY ONLY <1>3, <1>6, <1>7, <1>8, <1>9 DEF Layered

\* A run starts with no blocks, and has named none.
LEMMA JStart ==
  ASSUME ShuffleAssumption, JInv, NEW p \in Procs,
         NEW name \in DOMAIN Plans, NEW endpoints, NEW writer, Start(p, name, endpoints, writer)
  PROVE  JInv'
<1> DEFINE plan == bind_services(Plans[name], endpoints)
<1> DEFINE new == [pc |-> "visit", name |-> name, plan |-> plan, stage |-> 1,
                   blocks |-> [si \in DOMAIN plan.stages |-> << >>],
                   held |-> Store!Completed(store), value |-> NoBlob, deps |-> NoBlob]
<1>1. run' = [run EXCEPT ![p] = new] /\ UNCHANGED store
  BY DEF Start
<1>2. Layered(plan) /\ 1 \in DOMAIN plan.stages
  BY BoundLayered
<1>3. Faithful(<< >>)
  BY DEF Faithful
<1> HIDE DEF plan
<1>4. Sane(new)
  BY <1>2, <1>3 DEF Sane, Whole
<1>5. Sound(new, store)
  BY <1>4 DEF Sound
<1>6. StoreOK' /\ store'.records = store.records
  BY <1>1 DEF JInv, StoreOK
<1>7. QED
  BY <1>1, <1>5, <1>6, Moves

\* A run that dies takes what it has in hand with it; what it wrote stays.
LEMMA JCrash == ASSUME JInv, NEW p \in Procs, Crash(p) PROVE JInv'
<1>1. run' = [run EXCEPT ![p] = Idle]
      /\ (store' = store \/ \E d : store' = Store!CutShort(store, inst[p], d))
  BY DEF Crash
<1>2. store = [objects |-> store.objects, records |-> store.records] /\ StoreOK
  BY DEF JInv, StoreOK
<1>3. /\ StoreOK' /\ store'.records = store.records
      /\ \A e : Store!Present(store, e) => Store!Present(store', e)
  <2>1. CASE store' = store
    BY <1>2, <2>1 DEF StoreOK
  <2>2. CASE \E d : store' = Store!CutShort(store, inst[p], d)
    <3>1. PICK d : store' = Store!CutShort(store, inst[p], d)
      BY <2>2
    <3>2. QED
      BY <1>2, <3>1, StoredStays DEF StoreOK
  <2>3. QED
    BY <1>1, <2>1, <2>2
<1>4. Sound(Idle, store')
  BY DEF Sound, Idle
<1>5. QED
  BY <1>1, <1>3, <1>4, Moves

\* A damaged blob is still there: what is in it is found out when it is read.
LEMMA JOther ==
  ASSUME JInv,
         \/ \E d \in DOMAIN store.objects : Damage(d)
         \/ \E p, q \in Procs : Fork(p, q)
         \/ UNCHANGED vars
  PROVE  JInv'
<1>1. UNCHANGED run
  BY DEF Damage, Fork, vars
<1>2. \/ store' = store
      \/ \E d \in DOMAIN store.objects, s \in {"corrupt", "truncated"} :
           store' = [store EXCEPT !.objects[d] = s]
  BY DEF Damage, Fork, vars
<1>3. /\ StoreOK' /\ store'.records = store.records
      /\ \A e : Store!Present(store, e) => Store!Present(store', e)
  <2>1. CASE store' = store
    BY <2>1 DEF JInv, StoreOK
  <2>2. ASSUME NEW d \in DOMAIN store.objects, NEW s \in {"corrupt", "truncated"},
               store' = [store EXCEPT !.objects[d] = s]
        PROVE  /\ StoreOK' /\ store'.records = store.records
               /\ \A e : Store!Present(store, e) => Store!Present(store', e)
    <3>1. PICK o, r : store = [objects |-> o, records |-> r]
      BY DEF JInv, StoreOK
    <3>2. store' = [objects |-> [o EXCEPT ![d] = s], records |-> r]
      BY <2>2, <3>1
    <3>3. StoreOK' /\ store'.records = store.records
      BY <3>1, <3>2 DEF StoreOK
    <3>4. store.objects = o /\ store'.objects = [o EXCEPT ![d] = s] /\ d \in DOMAIN o /\ s # "absent"
      BY <2>2, <3>1, <3>2
    <3>5. \A e : Store!Present(store, e) => Store!Present(store', e)
      BY <3>4 DEF Store!Present, Store!Under, Store!Files!Present
    <3>6. QED
      BY <3>3, <3>5
  <2>3. QED
    BY <1>2, <2>1, <2>2
<1>4. \A p \in Procs : Sound(run'[p], store')
  BY <1>1, <1>3, SoundStays DEF JInv
<1>5. RecordsNameTheirInputs'
  BY <1>3 DEF JInv, RecordsNameTheirInputs
<1>6. QED
  BY <1>1, <1>3, <1>4, <1>5 DEF JInv

LEMMA NextJInv == ASSUME ShuffleAssumption, JInv, [Next]_vars PROVE JInv'
<1>1. ASSUME NEW p \in Procs, NEW name \in DOMAIN Plans, NEW endpoints \in Endpoints,
             NEW writer \in Writers, Start(p, name, endpoints, writer)
      PROVE  JInv'
  BY <1>1, JStart
<1>2. ASSUME NEW p \in Procs, Reuse(p) PROVE JInv'
  BY <1>2, JReuse
<1>3. ASSUME NEW p \in Procs, Process(p) PROVE JInv'
  BY <1>3, JProcess
<1>4. ASSUME NEW p \in Procs, Put(p) PROVE JInv'
  BY <1>4, JPut
<1>5. ASSUME NEW p \in Procs, PutListing(p) PROVE JInv'
  BY <1>5, JPutListing
<1>6. ASSUME NEW p \in Procs, NEW writer \in Writers, RecordDone(p, writer) PROVE JInv'
  BY <1>6, JRecordDone
<1>7. ASSUME NEW p \in Procs, Crash(p) PROVE JInv'
  BY <1>7, JCrash
<1>8. ASSUME \/ \E d \in DOMAIN store.objects : Damage(d)
             \/ \E p, q \in Procs : Fork(p, q)
             \/ UNCHANGED vars
      PROVE  JInv'
  BY <1>8, JOther
<1>9. QED
  BY <1>1, <1>2, <1>3, <1>4, <1>5, <1>6, <1>7, <1>8 DEF Next

\* "Journaled with its stage and the hashes of the blocks it consumed": what the
\* record of a later stage's block leads to is the list of the blocks it was made
\* of, and that list is in the store, whoever else writes there, whatever was
\* reused, and wherever runs died and files were damaged in between.
THEOREM NamesInputs == Spec => []RecordsNameTheirInputs
<1>1. Init => JInv
  <2> SUFFICES ASSUME Init PROVE JInv
    OBVIOUS
  <2>1. StoreOK /\ store.records = {} /\ DOMAIN run = Procs /\ \A p \in Procs : run[p].pc = "idle"
    BY DEF Init, StoreOK, Store!EmptyStore, Idle
  <2>2. QED
    BY <2>1 DEF JInv, Sound, RecordsNameTheirInputs
<1>2. JInv /\ [Next]_vars => JInv'
  BY NextJInv, ShuffleAssumption
<1>3. JInv => RecordsNameTheirInputs
  BY DEF JInv
<1>4. QED
  BY <1>1, <1>2, <1>3, PTL DEF Spec

(***************************************************************************)
(* What is in a task's id.                                                 *)
(***************************************************************************)

\* Two stages that read the same stages and whose tasks have the same ids in plans of
\* one graph, and two plans.
SameStage(stage, as) ==
  /\ stage.kind = as.kind /\ stage.inputs = as.inputs /\ stage.routing = as.routing
  /\ identity(stage.process) = identity(as.process)
  /\ DOMAIN stage.tasks = DOMAIN as.tasks
  /\ \A k \in DOMAIN stage.tasks :
       /\ stage.tasks[k].key = as.tasks[k].key
       /\ stage.tasks[k].partition = as.tasks[k].partition

SameIds(plan, other) ==
  /\ plan.ir = other.ir /\ DOMAIN plan.stages = DOMAIN other.stages
  /\ \A si \in DOMAIN plan.stages : SameStage(plan.stages[si], other.stages[si])

\* What JSON leaves out of a partition is not read from it either.
LEMMA PartitionKept ==
  ASSUME NEW p, Made(p)
  PROVE  partition_from_json(partition_json(p)) = p
<1> DEFINE json == partition_json(p)
<1> DEFINE range == [uri |-> p.uri, entry_start |-> p.entry_start, entry_stop |-> p.entry_stop]
<1>1. CASE p = Partition(p.uri, p.entry_start, p.entry_stop)
  <2>1. p.blind_step = Unset /\ p.blind_limit = Unset
    BY <1>1 DEF Partition
  <2>2. "blind_step" \notin DOMAIN json
    BY <2>1 DEF partition_json, Step_json, Field, Updated
  <2>3. json.uri = p.uri /\ json.entry_start = p.entry_start /\ json.entry_stop = p.entry_stop
    BY <2>1 DEF partition_json, Step_json, Field, Updated
  <2>4. partition_from_json(json) = p
    BY <1>1, <2>2, <2>3 DEF partition_from_json
  <2>5. QED
    BY <2>4
<1>2. CASE /\ p = [blind(p.uri, p.blind_step, p.blind_n_steps) EXCEPT !.blind_limit = p.blind_limit]
           /\ p.blind_step # Unset /\ p.blind_n_steps # Unset
  <2>1. /\ "blind_step" \in DOMAIN json /\ json.uri = p.uri
        /\ json["blind_step"] = p.blind_step /\ json["blind_n_steps"] = p.blind_n_steps
    BY <1>2 DEF partition_json, Step_json, Field, Updated
  <2>2. (IF "blind_limit" \in DOMAIN json THEN json["blind_limit"] ELSE Unset) = p.blind_limit
    BY DEF partition_json, Step_json, Field, Updated
  <2>3. partition_from_json(json) = p
    BY <1>2, <2>1, <2>2 DEF partition_from_json
  <2>4. QED
    BY <2>3
<1>3. QED
  BY <1>1, <1>2 DEF Made

\* A plan read from its bytes has the tasks that were written.
LEMMA BytesKeepIds ==
  ASSUME NEW plan,
         \A si \in DOMAIN plan.stages : \A k \in DOMAIN plan.stages[si].tasks :
           Made(plan.stages[si].tasks[k].partition)
  PROVE  SameIds(from_bytes(to_bytes(plan)), plan)
<1> DEFINE doc == to_bytes(plan)
<1> DEFINE back == from_bytes(doc)
<1>1. /\ doc.ir = plan.ir
      /\ doc.stages = [si \in DOMAIN plan.stages |-> stage_json(plan.stages[si])]
  BY DEF to_bytes, Updated, Field
<1>2. /\ back.ir = doc.ir
      /\ back.stages = [si \in DOMAIN doc.stages |-> stage_from_json(doc.stages[si])]
  BY DEF from_bytes, Plan
<1> HIDE DEF doc, back
<1>3. /\ back.ir = plan.ir /\ DOMAIN back.stages = DOMAIN plan.stages
      /\ \A si \in DOMAIN plan.stages : back.stages[si] = stage_from_json(stage_json(plan.stages[si]))
  BY <1>1, <1>2
<1>4. ASSUME NEW si \in DOMAIN plan.stages, NEW as, as = plan.stages[si],
             NEW stage, stage = stage_from_json(stage_json(as))
      PROVE  SameStage(stage, as)
  <2>1. stage.kind = as.kind /\ stage.inputs = as.inputs /\ stage.routing = as.routing
    BY <1>4 DEF stage_json, stage_from_json
  <2>2. stage.process = spec_from_json(spec_json(as.process))
    BY <1>4 DEF stage_json, stage_from_json
  <2>3. identity(stage.process) = identity(as.process)
    BY <2>2 DEF spec_json, spec_from_json, identity
  <2>4. /\ DOMAIN stage.tasks = DOMAIN as.tasks
        /\ \A k \in DOMAIN as.tasks :
             stage.tasks[k] = Task(as.tasks[k].key,
                                   partition_from_json(partition_json(as.tasks[k].partition)))
    BY <1>4 DEF stage_json, stage_from_json
  <2>5. ASSUME NEW k \in DOMAIN as.tasks
        PROVE  /\ stage.tasks[k].key = as.tasks[k].key
               /\ stage.tasks[k].partition = as.tasks[k].partition
    <3>1. PICK x, y : /\ x = as.tasks[k].key
                      /\ y = partition_from_json(partition_json(as.tasks[k].partition))
      OBVIOUS
    <3>2. stage.tasks[k] = [key |-> x, partition |-> y]
      BY ONLY <2>4, <3>1 DEF Task
    <3>3. Made(as.tasks[k].partition)
      BY <1>4
    <3>4. QED
      <4>1. stage.tasks[k].key = x /\ stage.tasks[k].partition = y
        BY ONLY <3>2
      <4>2. y = as.tasks[k].partition
        BY <3>1, <3>3, PartitionKept
      <4>3. QED
        BY ONLY <3>1, <4>1, <4>2
  <2>6. QED
    BY <2>1, <2>3, <2>4, <2>5 DEF SameStage
<1>5. SameIds(back, plan)
  BY <1>3, <1>4 DEF SameIds
<1>6. QED
  BY <1>5 DEF back, doc

LEMMA ShippedKeepsIds ==
  ASSUME ShuffleAssumption, NEW name \in DOMAIN Plans
  PROVE  name \in DOMAIN Written /\ SameIds(Plans[name], Written[name])
<1>1. Plans[name] = from_bytes(to_bytes(Written[name])) /\ name \in DOMAIN Written
  BY DEF Plans
<1>2. \A si \in DOMAIN Written[name].stages : \A k \in DOMAIN Written[name].stages[si].tasks :
        Made(Written[name].stages[si].tasks[k].partition)
  <2>1. \A f : \A k \in DOMAIN f : f[k] \in Range(f)
    BY DEF Range
  <2>2. QED
    BY <1>1, <2>1 DEF ShuffleAssumption
<1>3. QED
  BY <1>1, <1>2, BytesKeepIds

\* Endpoints are bound beside the specs that the ids are made of.
LEMMA BoundKeepsIds ==
  ASSUME NEW name \in DOMAIN Plans, NEW endpoints, SameIds(Plans[name], Written[name])
  PROVE  SameIds(bind_services(Plans[name], endpoints), Written[name])
<1> DEFINE plan == Plans[name]
<1> DEFINE bound == bind_services(plan, endpoints)
<1> DEFINE Live(si) ==
      LET fn == resolve(plan.stages[si].process)
      IN  IF fn.calls = {} THEN plan.stages[si]
          ELSE [plan.stages[si] EXCEPT !.process.live = BoundTo(fn, endpoints)]
<1>1. PICK doc : plan = from_bytes(doc)
  BY DEF Plans
<1>2. PICK stages, services, finalize :
        /\ plan = [ir |-> doc.ir, stages |-> stages, services |-> services, finalize |-> finalize]
        /\ stages = [si \in DOMAIN doc.stages |-> stage_from_json(doc.stages[si])]
  BY <1>1 DEF from_bytes, Plan
<1>3. bound.ir = plan.ir /\ bound.stages = [si \in DOMAIN plan.stages |-> Live(si)]
  <2>1. bound = [plan EXCEPT !.stages = [si \in DOMAIN plan.stages |-> Live(si)]]
    BY DEF bind_services
  <2>2. "stages" \in DOMAIN plan /\ "ir" \in DOMAIN plan
    BY <1>2
  <2> HIDE DEF Live, bound, plan
  <2>3. QED
    BY ONLY <2>1, <2>2
<1>4. ASSUME NEW si \in DOMAIN plan.stages
      PROVE  /\ Live(si).kind = plan.stages[si].kind /\ Live(si).routing = plan.stages[si].routing
             /\ Live(si).inputs = plan.stages[si].inputs
             /\ identity(Live(si).process) = identity(plan.stages[si].process)
             /\ Live(si).tasks = plan.stages[si].tasks
  <2> DEFINE stage == plan.stages[si]
  <2>1. stage = stage_from_json(doc.stages[si])
    BY <1>2
  <2>2. /\ {"kind", "inputs", "routing", "process", "tasks"} \subseteq DOMAIN stage
        /\ {"kind", "ref", "blob"} \subseteq DOMAIN stage.process
    BY <2>1 DEF stage_from_json, spec_from_json
  <2>3. Live(si) = stage \/ \E y : Live(si) = [stage EXCEPT !.process = [stage.process EXCEPT !.live = y]]
    OBVIOUS
  <2>4. ASSUME NEW s, NEW y, {"kind", "inputs", "routing", "process", "tasks"} \subseteq DOMAIN s,
               {"kind", "ref", "blob"} \subseteq DOMAIN s.process
        PROVE  LET t == [s EXCEPT !.process = [s.process EXCEPT !.live = y]]
               IN  /\ t.kind = s.kind /\ t.inputs = s.inputs /\ t.routing = s.routing
                   /\ t.tasks = s.tasks
                   /\ identity(t.process) = identity(s.process)
    BY <2>4 DEF identity
  <2> HIDE DEF stage, Live
  <2>5. CASE Live(si) = stage
    BY <2>5 DEF stage
  <2>6. CASE \E y : Live(si) = [stage EXCEPT !.process = [stage.process EXCEPT !.live = y]]
    <3>1. PICK y : Live(si) = [stage EXCEPT !.process = [stage.process EXCEPT !.live = y]]
      BY <2>6
    <3>2. QED
      BY ONLY <3>1, <2>2, <2>4 DEF stage
  <2>7. QED
    BY <2>3, <2>5, <2>6
<1> HIDE DEF Live, bound, plan
<1>5. /\ DOMAIN bound.stages = DOMAIN plan.stages
      /\ \A si \in DOMAIN plan.stages : bound.stages[si] = Live(si)
  BY <1>3
<1>6. SameIds(plan, Written[name])
  BY DEF plan
<1>7. SameIds(bound, Written[name])
  <2>1. ASSUME NEW si \in DOMAIN plan.stages
        PROVE  SameStage(bound.stages[si], Written[name].stages[si])
    <3>1. SameStage(plan.stages[si], Written[name].stages[si]) /\ bound.stages[si] = Live(si)
      BY <1>5, <1>6 DEF SameIds
    <3>2. QED
      BY ONLY <1>4, <3>1 DEF SameStage
  <2>2. QED
    BY ONLY <1>3, <1>5, <1>6, <2>1 DEF SameIds
<1>8. QED
  BY <1>7 DEF bound, plan

\* A plan whose every stage has an endpoint for each service it calls, and a task.
Ready(plan) ==
  \A si \in DOMAIN plan.stages :
    /\ Unbound(resolve(plan.stages[si].process)) = {}
    /\ \E S : plan.stages[si].tasks \in Seq(S) \ {<< >>}

\* A plan that carries no services, and is not asked for endpoints, calls none.
LEMMA BoundReady ==
  ASSUME ShuffleAssumption, NEW name \in DOMAIN Plans, NEW endpoints,
         require_bound(bind_services(Plans[name], endpoints))
  PROVE  Ready(bind_services(Plans[name], endpoints))
<1> DEFINE plan == Plans[name]
<1> DEFINE bound == bind_services(plan, endpoints)
<1> DEFINE Live(si) ==
      LET fn == resolve(plan.stages[si].process)
      IN  IF fn.calls = {} THEN plan.stages[si]
          ELSE [plan.stages[si] EXCEPT !.process.live = BoundTo(fn, endpoints)]
<1>1. PICK doc : plan = from_bytes(doc)
  BY DEF Plans
<1>2. PICK stages, services, finalize :
        /\ plan = [ir |-> doc.ir, stages |-> stages, services |-> services, finalize |-> finalize]
        /\ stages = [si \in DOMAIN doc.stages |-> stage_from_json(doc.stages[si])]
  BY <1>1 DEF from_bytes, Plan
<1>3. bound.services = plan.services /\ bound.stages = [si \in DOMAIN plan.stages |-> Live(si)]
  <2>1. bound = [plan EXCEPT !.stages = [si \in DOMAIN plan.stages |-> Live(si)]]
    BY DEF bind_services
  <2>2. "stages" \in DOMAIN plan /\ "services" \in DOMAIN plan
    BY <1>2
  <2> HIDE DEF Live, bound, plan
  <2>3. QED
    BY ONLY <2>1, <2>2
<1>4. ASSUME NEW si \in DOMAIN plan.stages PROVE Live(si).tasks = plan.stages[si].tasks
  <2> DEFINE stage == plan.stages[si]
  <2>1. stage = stage_from_json(doc.stages[si])
    BY <1>2
  <2>2. "tasks" \in DOMAIN stage
    BY <2>1 DEF stage_from_json
  <2>3. Live(si) = stage \/ \E y : Live(si) = [stage EXCEPT !.process = y]
    OBVIOUS
  <2> HIDE DEF stage, Live
  <2>4. Live(si).tasks = stage.tasks
    BY ONLY <2>2, <2>3
  <2>5. QED
    BY <2>4 DEF stage
<1>5. ASSUME NEW si \in DOMAIN plan.stages, plan.services = {}
      PROVE  Unbound(resolve(Live(si).process)) = {}
  <2>1. resolve(plan.stages[si].process).calls = {}
    BY <1>5 DEF ShuffleAssumption
  <2>2. Live(si) = plan.stages[si]
    BY <2>1
  <2>3. QED
    BY <2>1, <2>2 DEF Unbound
<1>6. \A si \in DOMAIN plan.stages : plan.stages[si].tasks \in Seq(Range(plan.stages[si].tasks)) \ {<< >>}
  BY DEF ShuffleAssumption
<1>7. require_bound(bound)
  OBVIOUS
<1> HIDE DEF Live, bound, plan
<1>8. DOMAIN bound.stages = DOMAIN plan.stages
      /\ \A si \in DOMAIN plan.stages : bound.stages[si] = Live(si)
  BY <1>3
<1>9. \A si \in DOMAIN bound.stages : Unbound(resolve(bound.stages[si].process)) = {}
  BY <1>3, <1>5, <1>7, <1>8 DEF require_bound
<1>10. Ready(bound)
  <2>1. ASSUME NEW si \in DOMAIN bound.stages PROVE \E S : bound.stages[si].tasks \in Seq(S) \ {<< >>}
    <3>1. bound.stages[si].tasks = plan.stages[si].tasks /\ si \in DOMAIN plan.stages
      BY <1>4, <1>8
    <3>2. QED
      BY <1>6, <3>1
  <2>2. QED
    BY <1>9, <2>1 DEF Ready
<1>11. QED
  BY <1>10 DEF bound, plan

\* Where a run is: at a task of its stage, with nothing of the stages after it.
Placed(r) ==
  /\ r.pc # "done" => Len(r.blocks[r.stage]) < Len(r.plan.stages[r.stage].tasks)
  /\ \A si \in DOMAIN r.blocks : si > r.stage => r.blocks[si] = << >>

\* A run is of a plan that was written, whatever has been bound into it since.
Kept(r) ==
  r.pc # "idle" =>
    /\ r.name \in DOMAIN Written /\ SameIds(r.plan, Written[r.name])
    /\ Ready(r.plan) /\ Placed(r)

KInv == /\ \A p \in Procs : Kept(run[p])
        /\ \A r \in store.records : r.record.task \in TaskIds

\* A block is done with: the next task of the stage, or the first of the next.
LEMMA DoneKept ==
  ASSUME NEW p, Sane(run[p]), Kept(run[p]), run[p].pc \notin {"idle", "done"}, NEW d
  PROVE  Kept(Done(p, d, d))
<1> DEFINE r == run[p]
<1> DEFINE tasks == r.plan.stages[r.stage].tasks
<1> DEFINE blocks == [r.blocks EXCEPT ![r.stage] = Append(@, [hash |-> d, payload |-> d])]
<1> DEFINE last == Len(blocks[r.stage]) = Len(tasks)
<1> DEFINE end == last /\ r.stage = Len(r.plan.stages)
<1> DEFINE pc == IF end THEN "done" ELSE "visit"
<1> DEFINE stage == IF last /\ ~ end THEN r.stage + 1 ELSE r.stage
<1> DEFINE deps == IF last THEN NoBlob ELSE r.deps
<1> DEFINE new == [pc |-> pc, name |-> r.name, plan |-> r.plan, stage |-> stage,
                   blocks |-> blocks, held |-> r.held, value |-> NoBlob, deps |-> deps]
<1>1. Done(p, d, d) = [r EXCEPT !.blocks = blocks, !.value = NoBlob, !.pc = pc,
                                !.stage = stage, !.deps = deps]
  BY DEF Done, Stage
<1> HIDE DEF blocks, pc, stage, deps, last, end, tasks
<1>2. PICK a, b, c, e, f, g, h, i :
        r = [pc |-> a, name |-> b, plan |-> c, stage |-> e, blocks |-> f, held |-> g,
             value |-> h, deps |-> i]
  BY DEF Sane, Whole
<1>3. Done(p, d, d) = new
  BY <1>1, <1>2
<1>4. /\ DOMAIN r.blocks = DOMAIN r.plan.stages /\ r.stage \in DOMAIN r.plan.stages
      /\ Layered(r.plan) /\ Faithful(r.blocks[r.stage])
  BY DEF Sane
<1>5. /\ DOMAIN r.plan.stages = 1..Len(r.plan.stages) /\ Len(r.plan.stages) \in Nat
      /\ r.stage \in 1..Len(r.plan.stages)
  BY <1>4 DEF Layered
<1>6. /\ r.name \in DOMAIN Written /\ SameIds(r.plan, Written[r.name]) /\ Ready(r.plan) /\ Placed(r)
  BY DEF Kept
<1>7. \A si \in DOMAIN r.plan.stages :
        Len(r.plan.stages[si].tasks) \in Nat /\ Len(r.plan.stages[si].tasks) > 0
  <2>1. \A S, t : t \in Seq(S) \ {<< >>} => Len(t) \in Nat /\ Len(t) > 0
    OBVIOUS
  <2>2. QED
    BY <1>6, <2>1 DEF Ready
<1>8. /\ Len(r.blocks[r.stage]) \in Nat
      /\ Len(Append(r.blocks[r.stage], [hash |-> d, payload |-> d])) = Len(r.blocks[r.stage]) + 1
  BY <1>4 DEF Faithful
<1>9. /\ DOMAIN blocks = DOMAIN r.blocks
      /\ Len(blocks[r.stage]) = Len(r.blocks[r.stage]) + 1
      /\ \A si \in DOMAIN r.blocks \ {r.stage} : blocks[si] = r.blocks[si]
  BY <1>4, <1>8 DEF blocks
<1>10. Len(r.blocks[r.stage]) < Len(tasks) /\ Len(tasks) \in Nat
  BY <1>4, <1>6, <1>7 DEF Placed, tasks
<1>11. ASSUME NEW si \in DOMAIN blocks, si > stage PROVE blocks[si] = << >>
  <2>1. stage \in Nat /\ stage >= r.stage /\ si \in Nat /\ r.stage \in Nat
    BY <1>4, <1>5, <1>9 DEF stage
  <2>2. si \in DOMAIN r.blocks \ {r.stage} /\ si > r.stage
    BY <1>9, <1>11, <2>1
  <2>3. QED
    BY <1>6, <1>9, <2>2 DEF Placed
<1>12. ASSUME pc # "done" PROVE Len(blocks[stage]) < Len(r.plan.stages[stage].tasks)
  <2>1. ~ end
    BY <1>12 DEF pc
  <2>2. CASE last
    <3>1. stage = r.stage + 1 /\ stage \in DOMAIN r.plan.stages
      BY <1>5, <2>1, <2>2 DEF stage, end
    <3>2. stage \in DOMAIN r.blocks \ {r.stage} /\ stage > r.stage
      BY <1>4, <1>5, <3>1
    <3>3. r.blocks[stage] = << >> /\ blocks[stage] = r.blocks[stage]
      BY <1>6, <1>9, <3>2 DEF Placed
    <3>4. QED
      BY <1>7, <3>1, <3>3
  <2>3. CASE ~ last
    <3>1. stage = r.stage /\ Len(blocks[stage]) = Len(r.blocks[r.stage]) + 1
      BY <1>9, <2>3 DEF stage
    <3>2. Len(blocks[r.stage]) # Len(tasks)
      BY <2>3 DEF last
    <3>3. Len(blocks[stage]) < Len(tasks)
      BY ONLY <1>8, <1>9, <1>10, <3>1, <3>2
    <3>4. QED
      BY ONLY <3>1, <3>3 DEF tasks
  <2>4. QED
    BY <2>2, <2>3
<1>13. Placed(new)
  BY <1>11, <1>12 DEF Placed
<1>14. QED
  BY <1>3, <1>6, <1>13 DEF Kept

\* A step of one run that writes no record.
LEMMA KMoves ==
  ASSUME JInv, KInv, NEW p \in Procs, NEW new, run' = [run EXCEPT ![p] = new], Kept(new),
         store'.records = store.records
  PROVE  KInv'
<1>1. run'[p] = new /\ \A q \in Procs \ {p} : run'[q] = run[q]
  BY DEF JInv
<1>2. QED
  BY <1>1 DEF KInv

\* A run's steps to another point of the same block, and what it was and is there.
LEMMA Stepped ==
  ASSUME JInv, NEW p \in Procs, Process(p) \/ Put(p) \/ PutListing(p)
  PROVE  /\ run[p].pc \in {"visit", "put", "list"}
         /\ \E new : /\ run' = [run EXCEPT ![p] = new] /\ new.pc \in {"put", "list", "record"}
                     /\ new.name = run[p].name /\ new.plan = run[p].plan
                     /\ new.stage = run[p].stage /\ new.blocks = run[p].blocks
                     /\ new.held = run[p].held
                     /\ IF run[p].pc = "visit" THEN new.value \in Results(p)
                        ELSE new.value = run[p].value
<1> DEFINE r == run[p]
<1> DEFINE Moved(pc, d, deps, new) ==
      /\ new = Step(r, pc, d, deps) /\ run' = [run EXCEPT ![p] = new]
      /\ IF r.pc = "visit" THEN d \in Results(p) ELSE d = r.value
<1>1. r.pc \in {"visit", "put", "list"} /\ DOMAIN run = Procs
  BY DEF Process, Put, PutListing, JInv
<1>2. Sane(r)
  BY <1>1 DEF JInv, Sound
<1>3. \E pc \in {"put", "list", "record"} : \E d, deps, new : Moved(pc, d, deps, new)
  <2>1. CASE Process(p)
    <3>1. PICK d \in Results(p) :
            r.pc = "visit" /\ run' = [run EXCEPT ![p].pc = "put", ![p].value = d]
      BY <2>1 DEF Process
    <3>2. PICK new : new = Step(r, "put", d, r.deps)
      OBVIOUS
    <3>3. [r EXCEPT !.pc = "put", !.value = d] = new
      BY ONLY <1>2, <3>2 DEF Step, Sane, Whole
    <3>4. run' = [run EXCEPT ![p] = new]
      BY ONLY <1>1, <3>1, <3>3
    <3>5. Moved("put", d, r.deps, new)
      BY <3>1, <3>2, <3>4
    <3> HIDE DEF Moved
    <3>6. QED
      BY <3>5
  <2>2. CASE Put(p)
    <3> DEFINE pc == IF Stage(p).inputs # << >> /\ r.deps = NoBlob THEN "list" ELSE "record"
    <3>1. run' = [run EXCEPT ![p].pc = pc] /\ pc \in {"list", "record"} /\ r.pc # "visit"
      BY <2>2 DEF Put
    <3> HIDE DEF pc
    <3>2. PICK new : new = Step(r, pc, r.value, r.deps)
      OBVIOUS
    <3>3. [r EXCEPT !.pc = pc] = new
      BY ONLY <1>2, <3>2 DEF Step, Sane, Whole
    <3>4. run' = [run EXCEPT ![p] = new]
      BY ONLY <1>1, <3>1, <3>3
    <3>5. Moved(pc, r.value, r.deps, new)
      BY <3>1, <3>2, <3>4
    <3> HIDE DEF Moved
    <3>6. QED
      BY <3>1, <3>5
  <2>3. CASE PutListing(p)
    <3>1. /\ run' = [run EXCEPT ![p].pc = "record", ![p].deps = Listing(Upstream(p))]
          /\ r.pc # "visit"
      BY <2>3 DEF PutListing
    <3>2. PICK new : new = Step(r, "record", r.value, Listing(Upstream(p)))
      OBVIOUS
    <3>3. [r EXCEPT !.pc = "record", !.deps = Listing(Upstream(p))] = new
      BY ONLY <1>2, <3>2 DEF Step, Sane, Whole
    <3>4. run' = [run EXCEPT ![p] = new]
      BY ONLY <1>1, <3>1, <3>3
    <3>5. Moved("record", r.value, Listing(Upstream(p)), new)
      BY <3>1, <3>2, <3>4
    <3> HIDE DEF Moved
    <3>6. QED
      BY <3>5
  <2>4. QED
    BY <2>1, <2>2, <2>3
<1>4. PICK pc \in {"put", "list", "record"} : \E d, deps, new : Moved(pc, d, deps, new)
  BY <1>3
<1>5. PICK d, deps, new : Moved(pc, d, deps, new)
  BY <1>4
<1>6. /\ new.pc = pc /\ new.name = r.name /\ new.plan = r.plan /\ new.value = d
      /\ new.stage = r.stage /\ new.blocks = r.blocks /\ new.held = r.held
  BY <1>2, <1>5, Steps
<1>7. QED
  BY <1>1, <1>4, <1>5, <1>6

LEMMA KStep ==
  ASSUME JInv, KInv, NEW p \in Procs, Process(p) \/ Put(p) \/ PutListing(p)
  PROVE  KInv'
<1>1. store'.records = store.records
  <2>1. CASE Process(p)
    BY <2>1 DEF Process
  <2>2. CASE Put(p) \/ PutListing(p)
    <3>1. PICK d : PutBlob(p, d)
      BY <2>2 DEF Put, PutListing
    <3>2. QED
      BY <3>1, PutStays DEF JInv
  <2>3. QED
    BY <2>1, <2>2
<1>2. PICK new : /\ run' = [run EXCEPT ![p] = new] /\ new.pc \in {"put", "list", "record"}
                 /\ new.name = run[p].name /\ new.plan = run[p].plan
                 /\ new.stage = run[p].stage /\ new.blocks = run[p].blocks
  BY Stepped
<1>3. run[p].pc \notin {"idle", "done"} /\ Kept(run[p])
  BY Stepped DEF KInv
<1>4. Kept(new)
  BY <1>2, <1>3 DEF Kept, Placed
<1>5. QED
  BY <1>1, <1>2, <1>4, KMoves

LEMMA KReuse == ASSUME JInv, KInv, NEW p \in Procs, Reuse(p) PROVE KInv'
<1>1. /\ run[p].pc = "visit" /\ Held(p) # NoBlob /\ Store!Get(store, Held(p)) # NoBlob
      /\ run' = [run EXCEPT ![p] = Done(p, Held(p), Store!Get(store, Held(p)))]
      /\ UNCHANGED store
  BY DEF Reuse, Servable
<1>2. Store!Get(store, Held(p)) = Held(p)
  BY <1>1 DEF Store!Get, Store!Files!Get
<1>3. Sane(run[p]) /\ Kept(run[p])
  BY <1>1 DEF JInv, Sound, KInv
<1>4. Kept(Done(p, Held(p), Held(p)))
  BY <1>1, <1>3, DoneKept
<1>5. QED
  BY <1>1, <1>2, <1>4, KMoves

\* The task a run is at, by its place in the stage.
Place(r) == Len(r.blocks[r.stage]) + 1

LEMMA AtTask ==
  ASSUME NEW r, Sane(r), Kept(r), r.pc \notin {"idle", "done"}
  PROVE  Place(r) \in DOMAIN r.plan.stages[r.stage].tasks
<1> DEFINE si == r.stage
<1>1. Faithful(r.blocks[si]) /\ si \in DOMAIN r.plan.stages
  BY DEF Sane
<1>2. Len(r.blocks[si]) \in Nat
  BY <1>1 DEF Faithful
<1>3. Len(r.blocks[si]) < Len(r.plan.stages[si].tasks)
  BY DEF Kept, Placed
<1>4. PICK S, tasks : tasks \in Seq(S) /\ tasks = r.plan.stages[si].tasks
  BY <1>1 DEF Kept, Ready
<1>5. DOMAIN tasks = 1..Len(tasks) /\ Len(tasks) \in Nat
  <2>1. tasks \in Seq(S)
    BY <1>4
  <2>2. QED
    BY ONLY <2>1
<1>6. \A m, n \in Nat : m < n => m + 1 \in 1..n
  OBVIOUS
<1>7. Len(r.blocks[si]) < Len(tasks)
  BY <1>3, <1>4
<1>8. Len(r.blocks[si]) + 1 \in DOMAIN tasks
  BY ONLY <1>2, <1>5, <1>6, <1>7
<1>9. QED
  BY <1>4, <1>8 DEF Place

\* The task a run is at has one of the ids of the plan that was written.
LEMMA IdOfHere ==
  ASSUME NEW p, Sane(run[p]), Kept(run[p]), run[p].pc \notin {"idle", "done"}
  PROVE  IdHere(p) \in TaskIds
<1> DEFINE r == run[p]
<1> DEFINE plan == Written[r.name]
<1> DEFINE si == r.stage
<1> DEFINE k == Place(r)
<1>1. /\ plan \in Range(Written) /\ r.plan.ir = plan.ir
      /\ DOMAIN r.plan.stages = DOMAIN plan.stages /\ si \in DOMAIN plan.stages
      /\ SameStage(r.plan.stages[si], plan.stages[si])
  <2>1. r.name \in DOMAIN Written /\ SameIds(r.plan, plan) /\ si \in DOMAIN r.plan.stages
    BY DEF Kept, Sane
  <2>2. \A f : \A x \in DOMAIN f : f[x] \in Range(f)
    BY DEF Range
  <2>3. QED
    BY <2>1, <2>2 DEF SameIds
<1>2. k \in DOMAIN r.plan.stages[si].tasks
  BY AtTask
<1>3. task_id(r.plan, si, r.plan.stages[si].tasks[k]) = task_id(plan, si, plan.stages[si].tasks[k])
  BY <1>1, <1>2 DEF SameStage, task_id
<1>4. plan.stages[si].tasks[k] \in Range(plan.stages[si].tasks)
  BY <1>1, <1>2 DEF SameStage, Range
<1>5. IdHere(p) = task_id(r.plan, si, r.plan.stages[si].tasks[k])
  BY DEF IdHere, Here, Stage, At, Place
<1> HIDE DEF plan, si, k
<1>6. QED
  BY <1>1, <1>3, <1>4, <1>5 DEF TaskIds

LEMMA KRecordDone ==
  ASSUME JInv, KInv, NEW p \in Procs, NEW writer, RecordDone(p, writer)
  PROVE  KInv'
<1> DEFINE r == run[p]
<1>1. r.pc = "record" /\ run' = [run EXCEPT ![p] = Done(p, r.value, r.value)]
      /\ \E appender : store' = Store!Appended(store, appender, Record(p))
  BY DEF RecordDone
<1>2. PICK appender : store' = Store!Appended(store, appender, Record(p))
  BY <1>1
<1>3. Sane(r) /\ Kept(r) /\ DOMAIN run = Procs /\ StoreOK
  BY <1>1 DEF JInv, Sound, KInv
<1>4. Kept(Done(p, r.value, r.value))
  BY <1>1, <1>3, DoneKept
<1>5. PICK o, rs, name : /\ store = [objects |-> o, records |-> rs]
                         /\ store' = [objects |-> o, records |-> {x \in rs : x.name # name}
                                        \union {[name |-> name, record |-> Record(p)]}]
  BY <1>2, <1>3 DEF StoreOK, Store!Appended
<1>6. \A x \in store'.records : x \in store.records \/ x.record = Record(p)
  BY <1>5
<1>7. Record(p).task \in TaskIds
  BY <1>1, <1>3, IdOfHere DEF Record
<1>8. \A x \in store'.records : x.record.task \in TaskIds
  BY <1>6, <1>7 DEF KInv
<1>9. \A q \in Procs : Kept(run'[q])
  BY <1>1, <1>3, <1>4 DEF KInv
<1>10. QED
  BY <1>8, <1>9 DEF KInv

\* What is shipped has the ids of what was written, and is refused unless bound.
LEMMA KStart ==
  ASSUME ShuffleAssumption, JInv, KInv, NEW p \in Procs,
         NEW name \in DOMAIN Plans, NEW endpoints, NEW writer, Start(p, name, endpoints, writer)
  PROVE  KInv'
<1> DEFINE plan == bind_services(Plans[name], endpoints)
<1> DEFINE new == [pc |-> "visit", name |-> name, plan |-> plan, stage |-> 1,
                   blocks |-> [si \in DOMAIN plan.stages |-> << >>],
                   held |-> Store!Completed(store), value |-> NoBlob, deps |-> NoBlob]
<1>1. run' = [run EXCEPT ![p] = new] /\ UNCHANGED store /\ require_bound(plan)
  BY DEF Start
<1>2. name \in DOMAIN Written /\ SameIds(Plans[name], Written[name])
  BY ShippedKeepsIds
<1>3. SameIds(plan, Written[name])
  BY <1>2, BoundKeepsIds
<1>4. Ready(plan)
  BY <1>1, BoundReady
<1>5. Layered(plan) /\ 1 \in DOMAIN plan.stages
  BY BoundLayered
<1> HIDE DEF plan
<1>6. Len(plan.stages[1].tasks) > 0
  <2>1. \A S, t : t \in Seq(S) \ {<< >>} => Len(t) > 0
    OBVIOUS
  <2>2. QED
    BY <1>4, <1>5, <2>1 DEF Ready
<1>7. Placed(new)
  BY <1>5, <1>6 DEF Placed
<1>8. Kept(new)
  BY <1>2, <1>3, <1>4, <1>7 DEF Kept
<1>9. QED
  BY <1>1, <1>8, KMoves

LEMMA KOther ==
  ASSUME JInv, KInv,
         \/ \E p \in Procs : Crash(p)
         \/ \E d \in DOMAIN store.objects : Damage(d)
         \/ \E p, q \in Procs : Fork(p, q)
         \/ UNCHANGED vars
  PROVE  KInv'
<1>1. store'.records = store.records
  <2>1. StoreOK
    BY DEF JInv
  <2>2. store' = store \/ \E objects : store' = [store EXCEPT !.objects = objects]
    BY DEF Crash, Store!CutShort, Damage, Fork, vars
  <2>3. QED
    BY <2>1, <2>2, Objects
<1>2. CASE \E p \in Procs : Crash(p)
  <2>1. PICK p \in Procs : run' = [run EXCEPT ![p] = Idle]
    BY <1>2 DEF Crash
  <2>2. Kept(Idle)
    BY DEF Kept, Idle
  <2>3. QED
    BY <1>1, <2>1, <2>2, KMoves
<1>3. CASE UNCHANGED run
  BY <1>1, <1>3 DEF KInv
<1>4. QED
  BY <1>2, <1>3 DEF Damage, Fork, vars

LEMMA NextKInv == ASSUME ShuffleAssumption, JInv, KInv, [Next]_vars PROVE KInv'
<1>1. ASSUME NEW p \in Procs, NEW name \in DOMAIN Plans, NEW endpoints \in Endpoints,
             NEW writer \in Writers, Start(p, name, endpoints, writer)
      PROVE  KInv'
  BY <1>1, KStart
<1>2. ASSUME NEW p \in Procs, Reuse(p) PROVE KInv'
  BY <1>2, KReuse
<1>3. ASSUME NEW p \in Procs, Process(p) \/ Put(p) \/ PutListing(p) PROVE KInv'
  BY <1>3, KStep
<1>4. ASSUME NEW p \in Procs, NEW writer \in Writers, RecordDone(p, writer) PROVE KInv'
  BY <1>4, KRecordDone
<1>5. ASSUME \/ \E p \in Procs : Crash(p)
             \/ \E d \in DOMAIN store.objects : Damage(d)
             \/ \E p, q \in Procs : Fork(p, q)
             \/ UNCHANGED vars
      PROVE  KInv'
  BY <1>5, KOther
<1>6. QED
  BY <1>1, <1>2, <1>3, <1>4, <1>5 DEF Next

\* An endpoint "is environment, never graph identity" (services.py): whatever plans
\* are written to bytes, read from them and bound to whatever endpoints, by however
\* many drivers, no task runs that calls a service it has no endpoint of, and every
\* record ever left in the store is under an id of a plan as it was written, where
\* any later run of it looks.
THEOREM NoEndpoints == Spec => []EndpointsAreNotIdentity
<1>1. Init => JInv /\ KInv
  <2> SUFFICES ASSUME Init PROVE JInv /\ KInv
    OBVIOUS
  <2>1. StoreOK /\ store.records = {} /\ DOMAIN run = Procs /\ \A p \in Procs : run[p].pc = "idle"
    BY DEF Init, StoreOK, Store!EmptyStore, Idle
  <2>2. QED
    BY <2>1 DEF JInv, Sound, RecordsNameTheirInputs, KInv, Kept
<1>2. JInv /\ KInv /\ [Next]_vars => JInv' /\ KInv'
  BY NextJInv, NextKInv, ShuffleAssumption
<1>3. JInv /\ KInv => EndpointsAreNotIdentity
  <2>1. ASSUME JInv, KInv, NEW p \in Procs, run[p].pc = "put"
        PROVE  Unbound(resolve(Stage(p).process)) = {}
    <3>1. Ready(run[p].plan) /\ run[p].stage \in DOMAIN run[p].plan.stages
      BY <2>1 DEF JInv, Sound, Sane, KInv, Kept
    <3>2. QED
      BY <3>1 DEF Ready, Stage
  <2>2. QED
    BY <2>1 DEF KInv, EndpointsAreNotIdentity
<1>4. QED
  BY <1>1, <1>2, <1>3, PTL DEF Spec

(***************************************************************************)
(* Whose blocks a run returns.                                             *)
(***************************************************************************)

\* A plan each stage of which reads only stages before it.
Ordered(plan) ==
  /\ \E n \in Nat : DOMAIN plan.stages = 1..n
  /\ \A si \in DOMAIN plan.stages : \A dep \in Range(plan.stages[si].inputs) : dep \in 1..(si - 1)

\* A stage's blocks are made of those of the stages it reads, and no others.
LEMMA OnlyReads ==
  ASSUME NEW plan, NEW stage, NEW lists, NEW others,
         \A dep \in Range(stage.inputs) : lists[dep] = others[dep]
  PROVE  ListsOf(plan, stage, lists) = ListsOf(plan, stage, others)
<1> DEFINE reads == Range(stage.inputs)
<1>1. UNION {lists[dep] : dep \in reads} = UNION {others[dep] : dep \in reads}
  OBVIOUS
<1>2. \A f : (\A dep \in reads : f[dep] \in lists[dep]) <=> (\A dep \in reads : f[dep] \in others[dep])
  OBVIOUS
<1>3. Handed(lists, stage) = Handed(others, stage)
  BY <1>1, <1>2 DEF Handed
<1>4. \A t : BlocksOf(plan, stage, t, lists) = BlocksOf(plan, stage, t, others)
  BY <1>3 DEF BlocksOf
<1>5. QED
  BY <1>4 DEF ListsOf

Solves(plan, lists, n) == lists = [si \in 1..n |-> ListsOf(plan, plan.stages[si], lists)]

\* The lists of a plan are there, stage after stage: were there a first stage up to
\* which they are not, those of the stages before it would give it its own.
LEMMA ListsExist ==
  ASSUME NEW plan, Ordered(plan), NEW n \in Nat, DOMAIN plan.stages = 1..n
  PROVE  \E lists : Solves(plan, lists, n)
<1> DEFINE without == {m \in 0..n : ~ \E lists : Solves(plan, lists, m)}
<1> SUFFICES ASSUME without # {} PROVE FALSE
  OBVIOUS
<1>1. PICK m \in without : \A k \in without : ~(<<k, m>> \in OpToRel(<, Nat))
  <2>1. without \subseteq Nat
    OBVIOUS
  <2> HIDE DEF without
  <2>2. QED
    BY <2>1, NatLessThanWellFounded, WFMin
<1>2. m \in 0..n /\ \A k \in 0..n : k < m => \E lists : Solves(plan, lists, k)
  <2>1. m \in 0..n /\ ~ \E lists : Solves(plan, lists, m)
    OBVIOUS
  <2>2. ASSUME NEW k \in 0..n, k < m PROVE k \notin without
    <3>1. k \in Nat /\ m \in Nat
      BY <2>1
    <3> HIDE DEF without
    <3>2. QED
      BY <1>1, <2>2, <3>1 DEF OpToRel
  <2>3. QED
    BY <2>1, <2>2
<1>3. CASE m = 0
  <2>1. Solves(plan, [si \in 1..0 |-> si], 0)
    BY DEF Solves
  <2>2. QED
    BY <1>3, <2>1
<1>4. CASE m > 0
  <2>1. PICK lists : Solves(plan, lists, m - 1)
    BY <1>2, <1>4
  <2> DEFINE more == [si \in 1..m |-> ListsOf(plan, plan.stages[si], lists)]
  <2>2. \A si \in 1..(m - 1) : more[si] = lists[si]
    <3>1. 1..(m - 1) \subseteq 1..m
      BY <1>2
    <3>2. QED
      BY <2>1, <3>1 DEF Solves
  <2>3. ASSUME NEW si \in 1..m
        PROVE  more[si] = ListsOf(plan, plan.stages[si], more)
    <3>1. \A dep \in Range(plan.stages[si].inputs) : dep \in 1..(m - 1)
      <4>1. si \in DOMAIN plan.stages /\ si - 1 <= m - 1
        BY <1>2
      <4>2. \A dep \in 1..(si - 1) : dep \in 1..(m - 1)
        BY <1>2, <4>1
      <4>3. QED
        BY <4>1, <4>2 DEF Ordered
    <3>2. \A dep \in Range(plan.stages[si].inputs) : lists[dep] = more[dep]
      BY <2>2, <3>1
    <3>3. more[si] = ListsOf(plan, plan.stages[si], lists)
      OBVIOUS
    <3> HIDE DEF more
    <3>4. QED
      BY <3>2, <3>3, OnlyReads
  <2>4. DOMAIN more = 1..m /\ more = [si \in 1..m |-> more[si]]
    OBVIOUS
  <2> HIDE DEF more
  <2>5. Solves(plan, more, m)
    BY <2>3, <2>4 DEF Solves
  <2>6. QED
    BY <2>5
<1>5. QED
  BY <1>2, <1>3, <1>4

LEMMA PlanListsSolve ==
  ASSUME NEW plan, Ordered(plan)
  PROVE  PlanLists(plan) =
           [si \in DOMAIN plan.stages |-> ListsOf(plan, plan.stages[si], PlanLists(plan))]
<1> DEFINE Are(lists) ==
      lists = [si \in DOMAIN plan.stages |-> ListsOf(plan, plan.stages[si], lists)]
<1>1. PICK n \in Nat : DOMAIN plan.stages = 1..n
  BY DEF Ordered
<1>2. \E lists : Are(lists)
  BY <1>1, ListsExist DEF Solves
<1>3. PlanLists(plan) = CHOOSE lists : Are(lists)
  BY DEF PlanLists
<1> HIDE DEF Are
<1>4. Are(PlanLists(plan))
  BY <1>2, <1>3
<1>5. QED
  BY <1>4 DEF Are

\* The blocks a run of a plan may come to of one task.
May(name, si, k) ==
  LET plan == Written[name]
  IN  BlocksOf(plan, plan.stages[si], plan.stages[si].tasks[k], OwnLists[name])

\* What may be under an id: under a map's, a block of the partition it names.
Genuine(id, blob) ==
  id[3] = "map_write" =>
    \E partition, x : /\ Made(partition) /\ id[6] = partition_json(partition)
                      /\ x \in Variants(partition) /\ blob = << id[3], id[1], partition, x >>

\* Apart, of a run.
Separate(r) ==
  \A si \in DOMAIN r.plan.stages : \A i \in DOMAIN r.plan.stages[si].tasks :
    LET id   == task_id(r.plan, si, r.plan.stages[si].tasks[i])
        held == IF id \in DOMAIN r.held THEN r.held[id] ELSE NoBlob
    IN  r.plan.stages[si].inputs # << >> /\ held # NoBlob =>
          \E l \in OwnLists[r.name][si] : l[i] = held

\* A run that was apart has blocks it may come to, of each stage before its own all
\* of them; and if not, what it makes of a partition is still that partition's.
Own(r) ==
  r.pc # "idle" =>
    /\ \A id \in DOMAIN r.held : Genuine(id, r.held[id])
    /\ \A si \in DOMAIN r.blocks : si < r.stage \/ r.pc = "done" =>
         Len(r.blocks[si]) = Len(r.plan.stages[si].tasks)
    /\ Separate(r) => \A si \in DOMAIN r.blocks : \A k \in DOMAIN r.blocks[si] :
                        r.blocks[si][k].hash \in May(r.name, si, k)
    /\ /\ r.pc \in {"put", "list", "record"}
       /\ Separate(r) \/ r.plan.stages[r.stage].inputs = << >>
       => r.value \in May(r.name, r.stage, Place(r))

\* Names have bounds, so that of any records there is a last.
OInv ==
  /\ \E n \in Nat : \A r \in store.records : r.name[1] \in 0..n /\ r.name[2] \in 0..n
  /\ \A r \in store.records : Genuine(r.record.task, r.record.blob)
  /\ \A p \in Procs : Own(run[p])

\* The written plan's stages read stages before them, as the shipped one's do.
LEMMA WrittenOrdered ==
  ASSUME ShuffleAssumption, NEW name \in DOMAIN Written
  PROVE  Ordered(Written[name])
<1>1. name \in DOMAIN Plans
  BY DEF Plans
<1> DEFINE stages == Plans[name].stages
<1>2. /\ DOMAIN stages = DOMAIN Written[name].stages
      /\ \A si \in DOMAIN stages : stages[si].inputs = Written[name].stages[si].inputs
  BY <1>1, ShippedKeepsIds DEF SameIds, SameStage
<1>3. stages \in Seq(Range(stages))
  BY <1>1 DEF ShuffleAssumption
<1>4. DOMAIN stages = 1..Len(stages) /\ Len(stages) \in Nat
  BY ONLY <1>3
<1>5. \A si \in DOMAIN stages : \A dep \in Range(stages[si].inputs) : dep \in 1..(si - 1)
  BY <1>1 DEF ShuffleAssumption
<1> HIDE DEF stages
<1>6. QED
  BY <1>2, <1>4, <1>5 DEF Ordered

\* A list of a stage's blocks is one block for each of its tasks.
LEMMA OwnListsAre ==
  ASSUME ShuffleAssumption, NEW name \in DOMAIN Written, NEW si \in DOMAIN Written[name].stages
  PROVE  /\ \A l \in OwnLists[name][si] : \A k \in DOMAIN Written[name].stages[si].tasks :
              l[k] \in May(name, si, k)
         /\ \A l : /\ DOMAIN l = DOMAIN Written[name].stages[si].tasks
                   /\ l = [k \in DOMAIN l |-> l[k]]
                   /\ \A k \in DOMAIN l : l[k] \in May(name, si, k)
                   => l \in OwnLists[name][si]
<1> DEFINE plan == Written[name]
<1> DEFINE stage == plan.stages[si]
<1> DEFINE blocks == UNION {BlocksOf(plan, stage, t, OwnLists[name]) : t \in Range(stage.tasks)}
<1>1. OwnLists[name] = PlanLists(plan)
  BY DEF OwnLists
<1>2. OwnLists[name][si] = ListsOf(plan, stage, OwnLists[name])
  <2>1. Ordered(plan)
    BY WrittenOrdered
  <2> HIDE DEF plan
  <2>2. PICK lists : /\ lists = PlanLists(plan)
                     /\ lists = [k \in DOMAIN plan.stages |-> ListsOf(plan, plan.stages[k], lists)]
    BY <2>1, PlanListsSolve
  <2>3. lists[si] = ListsOf(plan, stage, lists)
    BY <2>2 DEF plan
  <2>4. QED
    BY <1>1, <2>2, <2>3
<1>3. OwnLists[name][si] =
        {l \in [DOMAIN stage.tasks -> blocks] : \A k \in DOMAIN l :
           l[k] \in BlocksOf(plan, stage, stage.tasks[k], OwnLists[name])}
  BY <1>2 DEF ListsOf
<1>4. \A k : May(name, si, k) = BlocksOf(plan, stage, stage.tasks[k], OwnLists[name])
  BY DEF May
<1>5. \A k \in DOMAIN stage.tasks : May(name, si, k) \subseteq blocks
  BY <1>4 DEF Range
<1> HIDE DEF blocks
<1>6. \A l \in OwnLists[name][si] : \A k \in DOMAIN stage.tasks : l[k] \in May(name, si, k)
  BY <1>3, <1>4
<1>7. ASSUME NEW l, DOMAIN l = DOMAIN stage.tasks, l = [k \in DOMAIN l |-> l[k]],
             \A k \in DOMAIN stage.tasks : l[k] \in May(name, si, k)
      PROVE  l \in OwnLists[name][si]
  <2>1. l \in [DOMAIN stage.tasks -> blocks]
    BY <1>5, <1>7
  <2>2. QED
    BY <1>3, <1>4, <1>7, <2>1
<1>8. QED
  BY <1>6, <1>7

\* The stage a run is at, or was, as it was written.
LEMMA AsWritten ==
  ASSUME NEW r, Sane(r), Kept(r), r.pc # "idle", NEW si \in DOMAIN r.blocks
  PROVE  /\ r.name \in DOMAIN Written /\ si \in DOMAIN Written[r.name].stages
         /\ SameStage(r.plan.stages[si], Written[r.name].stages[si])
         /\ r.plan.ir = Written[r.name].ir
BY DEF Sane, Kept, SameIds

\* Of a stage it is done with, a separate run has one of the lists there may be.
LEMMA StageOwn ==
  ASSUME ShuffleAssumption, NEW r, Sane(r), Kept(r), Own(r), Separate(r), r.pc # "idle",
         NEW si \in DOMAIN r.blocks, si < r.stage \/ r.pc = "done"
  PROVE  Hashes(r.blocks[si]) \in OwnLists[r.name][si]
<1> DEFINE tasks == Written[r.name].stages[si].tasks
<1>1. /\ r.name \in DOMAIN Written /\ si \in DOMAIN Written[r.name].stages
      /\ si \in DOMAIN r.plan.stages /\ DOMAIN r.plan.stages[si].tasks = DOMAIN tasks
  BY AsWritten DEF Sane, SameStage
<1>2. DOMAIN r.plan.stages[si].tasks = 1..Len(r.plan.stages[si].tasks)
  <2>1. \A S, t : t \in Seq(S) => DOMAIN t = 1..Len(t)
    OBVIOUS
  <2>2. QED
    BY <1>1, <2>1 DEF Kept, Ready
<1>3. DOMAIN r.blocks[si] = 1..Len(r.blocks[si])
  <2>1. \A S, t : t \in Seq(S) => DOMAIN t = 1..Len(t)
    OBVIOUS
  <2>2. QED
    BY <2>1 DEF Sane, Faithful
<1>4. DOMAIN r.blocks[si] = DOMAIN tasks
  BY <1>1, <1>2, <1>3 DEF Own
<1>5. \A k \in DOMAIN tasks : Hashes(r.blocks[si])[k] \in May(r.name, si, k)
  BY <1>4 DEF Own, Hashes
<1>6. PICK l : l = Hashes(r.blocks[si])
  OBVIOUS
<1>7. DOMAIN l = DOMAIN tasks /\ l = [k \in DOMAIN l |-> l[k]]
  BY <1>4, <1>6 DEF Hashes
<1>8. \A k \in DOMAIN l : l[k] \in May(r.name, si, k)
  BY <1>5, <1>6, <1>7
<1> HIDE DEF tasks
<1>9. l \in OwnLists[r.name][si]
  BY <1>1, <1>7, <1>8, OwnListsAre DEF tasks
<1>10. QED
  BY <1>6, <1>9

\* What a task of a later stage is handed is what one may be.
LEMMA ReadsOwn ==
  ASSUME ShuffleAssumption, NEW r, Sane(r), Kept(r), Own(r), Separate(r), r.pc # "idle"
  PROVE  Reads(r) \in Handed(OwnLists[r.name], Written[r.name].stages[r.stage])
<1> DEFINE stage == Written[r.name].stages[r.stage]
<1> DEFINE reads == Range(stage.inputs)
<1> DEFINE lists == OwnLists[r.name]
<1> DEFINE all == [si \in DOMAIN r.blocks |-> Hashes(r.blocks[si])]
<1> DEFINE ups == [dep \in reads |-> all[dep]]
<1>1. r.plan.stages[r.stage].inputs = stage.inputs
  BY AsWritten DEF Sane, SameStage
<1>2. \A dep \in reads : dep \in DOMAIN r.blocks /\ dep < r.stage
  <2>1. \A k \in DOMAIN stage.inputs : stage.inputs[k] \in 1..(r.stage - 1)
    BY <1>1 DEF Sane, Layered
  <2>2. DOMAIN r.blocks = 1..Len(r.plan.stages) /\ r.stage \in DOMAIN r.blocks
    BY DEF Sane, Layered
  <2>3. \A dep \in reads : dep \in 1..(r.stage - 1)
    BY <2>1 DEF Range
  <2>4. Len(r.plan.stages) \in Nat
    BY DEF Sane, Layered
  <2>5. QED
    BY <2>2, <2>3, <2>4
<1>3. \A dep \in reads : all[dep] \in lists[dep]
  BY <1>2, StageOwn
<1>4. ups \in {f \in [reads -> UNION {lists[dep] : dep \in reads}] : \A dep \in reads : f[dep] \in lists[dep]}
  <2> HIDE DEF all, reads, lists
  <2>1. QED
    BY <1>3
<1>5. Joined(ups, stage) \in Handed(lists, stage)
  BY <1>4 DEF Handed
<1>6. Joined(ups, stage) = Reads(r)
  <2>1. \A k \in DOMAIN stage.inputs : ups[stage.inputs[k]] = all[stage.inputs[k]]
    BY DEF Range
  <2> DEFINE inputs == stage.inputs
  <2> HIDE DEF ups, all, inputs
  <2>2. [k \in DOMAIN inputs |-> ups[inputs[k]]] = [k \in DOMAIN inputs |-> all[inputs[k]]]
    BY <2>1 DEF inputs
  <2>3. Joined(ups, stage) = Joined(all, r.plan.stages[r.stage])
    BY <1>1, <2>2 DEF Joined, inputs
  <2>4. QED
    BY <2>3 DEF Reads, all
<1>7. QED
  BY <1>5, <1>6

\* What process may return is one of the blocks the run may come to.
LEMMA ResultsOwn ==
  ASSUME ShuffleAssumption, NEW p, Sane(run[p]), Kept(run[p]), Own(run[p]), run[p].pc = "visit",
         NEW d \in Results(p), Separate(run[p]) \/ Stage(p).inputs = << >>
  PROVE  d \in May(run[p].name, run[p].stage, Place(run[p]))
<1> DEFINE r == run[p]
<1> DEFINE plan == Written[r.name]
<1> DEFINE stage == plan.stages[r.stage]
<1> DEFINE k == Place(r)
<1> DEFINE task == stage.tasks[k]
<1>1. /\ Stage(p).kind = stage.kind /\ Stage(p).inputs = stage.inputs /\ r.plan.ir = plan.ir
      /\ Here(p).partition = task.partition
  <2>1. SameStage(Stage(p), stage) /\ r.plan.ir = plan.ir
    BY AsWritten DEF Sane, Stage
  <2>2. k \in DOMAIN Stage(p).tasks
    BY AtTask DEF Stage
  <2>3. Here(p) = Stage(p).tasks[k]
    BY DEF Here, At, Place
  <2>4. QED
    BY <2>1, <2>2, <2>3 DEF SameStage
<1>2. PICK x : /\ d = << Stage(p).kind, r.plan.ir, Here(p).partition, x >>
               /\ IF Stage(p).inputs = << >> THEN x \in Variants(Here(p).partition)
                  ELSE x = Joined([si \in DOMAIN r.blocks |-> Payloads(r.blocks[si])], Stage(p))
  BY DEF Results, Block
<1>3. d = Block(plan, stage, task, x)
  BY <1>1, <1>2 DEF Block
<1>4. x \in IF stage.inputs = << >> THEN Variants(task.partition)
            ELSE Handed(OwnLists[r.name], stage)
  <2>1. CASE stage.inputs = << >>
    BY <1>1, <1>2, <2>1
  <2>2. CASE stage.inputs # << >>
    <3> DEFINE payloads == [si \in DOMAIN r.blocks |-> Payloads(r.blocks[si])]
    <3> DEFINE hashes == [si \in DOMAIN r.blocks |-> Hashes(r.blocks[si])]
    <3>1. payloads = hashes
      BY SameRead
    <3>2. x = Joined(payloads, Stage(p)) /\ Reads(r) = Joined(hashes, Stage(p))
      BY <1>1, <1>2, <2>2 DEF Reads, Stage
    <3> HIDE DEF payloads, hashes
    <3>3. x = Reads(r)
      BY ONLY <3>1, <3>2
    <3>4. QED
      BY <1>1, <2>2, <3>3, ReadsOwn
  <2>3. QED
    BY <2>1, <2>2
<1>5. QED
  BY <1>3, <1>4 DEF May, BlocksOf

\* A partition is its JSON.
LEMMA OnePartition ==
  ASSUME NEW a, NEW b, Made(a), Made(b), partition_json(a) = partition_json(b)
  PROVE  a = b
<1>1. partition_from_json(partition_json(a)) = a /\ partition_from_json(partition_json(b)) = b
  BY PartitionKept
<1>2. QED
  BY <1>1

\* Of the task a run is at: its partition, its id, and what it may be.
LEMMA HereIs ==
  ASSUME ShuffleAssumption, NEW p, Sane(run[p]), Kept(run[p]), run[p].pc \notin {"idle", "done"}
  PROVE  /\ Place(run[p]) \in DOMAIN Stage(p).tasks /\ Here(p) = Stage(p).tasks[Place(run[p])]
         /\ Made(Here(p).partition)
         /\ IdHere(p)[1] = run[p].plan.ir /\ IdHere(p)[3] = Stage(p).kind
         /\ IdHere(p)[6] = partition_json(Here(p).partition)
         /\ Stage(p).inputs = << >> <=> Stage(p).kind = "map_write"
         /\ Stage(p).inputs = << >> =>
              May(run[p].name, run[p].stage, Place(run[p])) =
                {<< Stage(p).kind, run[p].plan.ir, Here(p).partition, x >> :
                   x \in Variants(Here(p).partition)}
<1> DEFINE r == run[p]
<1> DEFINE k == Place(r)
<1> DEFINE plan == Written[r.name]
<1> DEFINE stage == plan.stages[r.stage]
<1>1. k \in DOMAIN Stage(p).tasks /\ Here(p) = Stage(p).tasks[k]
  BY AtTask DEF Stage, Here, At, Place
<1>2. SameStage(Stage(p), stage) /\ r.plan.ir = plan.ir /\ r.stage \in DOMAIN plan.stages
      /\ r.name \in DOMAIN Written
  BY AsWritten DEF Sane, Stage
<1>3. Here(p).partition = stage.tasks[k].partition /\ k \in DOMAIN stage.tasks
  BY <1>1, <1>2 DEF SameStage
<1>4. Made(Here(p).partition)
  <2>1. \A f : \A i \in DOMAIN f : f[i] \in Range(f)
    BY DEF Range
  <2>2. QED
    BY <1>2, <1>3, <2>1 DEF ShuffleAssumption
<1>5. /\ IdHere(p)[1] = r.plan.ir /\ IdHere(p)[3] = Stage(p).kind
      /\ IdHere(p)[6] = partition_json(Here(p).partition)
  BY DEF IdHere, task_id, Stage
<1>6. Stage(p).inputs = << >> <=> Stage(p).kind = "map_write"
  BY DEF Sane, Layered, Stage
<1>7. ASSUME Stage(p).inputs = << >>
      PROVE  May(r.name, r.stage, k) =
               {<< Stage(p).kind, r.plan.ir, Here(p).partition, x >> : x \in Variants(Here(p).partition)}
  <2>1. stage.inputs = << >> /\ stage.kind = Stage(p).kind
    BY <1>2, <1>7 DEF SameStage
  <2>2. May(r.name, r.stage, k) = {Block(plan, stage, stage.tasks[k], x) : x \in Variants(stage.tasks[k].partition)}
    BY <2>1 DEF May, BlocksOf
  <2>3. \A x : Block(plan, stage, stage.tasks[k], x) = << Stage(p).kind, r.plan.ir, Here(p).partition, x >>
    BY <1>2, <1>3, <2>1 DEF Block
  <2>4. QED
    BY <1>3, <2>2, <2>3
<1>8. QED
  BY <1>1, <1>4, <1>5, <1>6, <1>7

\* A block that the store holds under the id of the task a run is at is one it may
\* come to: a map's is made of the partition its id names, a later stage's is so
\* if the run is separate.
LEMMA ReusedOwn ==
  ASSUME ShuffleAssumption, NEW p, Sane(run[p]), Kept(run[p]), Own(run[p]), run[p].pc = "visit",
         Held(p) # NoBlob, Separate(run[p])
  PROVE  Held(p) \in May(run[p].name, run[p].stage, Place(run[p]))
<1> DEFINE r == run[p]
<1> DEFINE k == Place(r)
<1>1. IdHere(p) \in DOMAIN r.held /\ Held(p) = r.held[IdHere(p)]
  BY DEF Held, HeldAs
<1>2. k \in DOMAIN Stage(p).tasks /\ Here(p) = Stage(p).tasks[k]
  BY HereIs
<1>3. CASE Stage(p).inputs # << >>
  <2>1. IdHere(p) = task_id(r.plan, r.stage, r.plan.stages[r.stage].tasks[k])
    BY <1>2 DEF IdHere, Stage
  <2>2. r.stage \in DOMAIN r.plan.stages /\ k \in DOMAIN r.plan.stages[r.stage].tasks
    BY <1>2 DEF Sane, Stage
  <2>3. \E l \in OwnLists[r.name][r.stage] : l[k] = Held(p)
    <3>1. task_id(r.plan, r.stage, r.plan.stages[r.stage].tasks[k]) \in DOMAIN r.held
      BY <1>1, <2>1
    <3>2. r.held[task_id(r.plan, r.stage, r.plan.stages[r.stage].tasks[k])] = Held(p)
      BY <1>1, <2>1
    <3>3. r.plan.stages[r.stage].inputs # << >>
      BY <1>3 DEF Stage
    <3> DEFINE id == task_id(r.plan, r.stage, r.plan.stages[r.stage].tasks[k])
    <3>4. /\ r.plan.stages[r.stage].inputs # << >>
          /\ (IF id \in DOMAIN r.held THEN r.held[id] ELSE NoBlob) # NoBlob
          => \E l \in OwnLists[r.name][r.stage] :
               l[k] = IF id \in DOMAIN r.held THEN r.held[id] ELSE NoBlob
      <4> HIDE DEF k
      <4>1. QED
        BY <2>2 DEF Separate
    <3>5. (IF id \in DOMAIN r.held THEN r.held[id] ELSE NoBlob) = Held(p)
      BY <3>1, <3>2
    <3> HIDE DEF k, id
    <3>6. QED
      BY <3>3, <3>4, <3>5
  <2>4. /\ r.name \in DOMAIN Written /\ r.stage \in DOMAIN Written[r.name].stages
        /\ k \in DOMAIN Written[r.name].stages[r.stage].tasks
    <3>1. r.stage \in DOMAIN r.blocks
      BY DEF Sane
    <3>2. SameStage(r.plan.stages[r.stage], Written[r.name].stages[r.stage])
          /\ r.name \in DOMAIN Written /\ r.stage \in DOMAIN Written[r.name].stages
      BY <3>1, AsWritten
    <3>3. QED
      BY <2>2, <3>2 DEF SameStage
  <2>5. PICK l \in OwnLists[r.name][r.stage] : l[k] = Held(p)
    BY <2>3
  <2> HIDE DEF k
  <2>6. l[k] \in May(r.name, r.stage, k)
    BY <2>4, OwnListsAre
  <2>7. QED
    BY <2>5, <2>6 DEF k
<1>4. CASE Stage(p).inputs = << >>
  <2>1. Genuine(IdHere(p), Held(p)) /\ IdHere(p)[3] = "map_write"
    BY <1>1, <1>4, HereIs DEF Own
  <2>2. PICK partition, x : /\ Made(partition) /\ IdHere(p)[6] = partition_json(partition)
                            /\ x \in Variants(partition)
                            /\ Held(p) = << IdHere(p)[3], IdHere(p)[1], partition, x >>
    BY <2>1 DEF Genuine
  <2>3. partition = Here(p).partition
    BY <2>2, HereIs, OnePartition
  <2>4. May(r.name, r.stage, k) = {<< Stage(p).kind, r.plan.ir, Here(p).partition, y >> :
                                     y \in Variants(Here(p).partition)}
        /\ IdHere(p)[1] = r.plan.ir /\ IdHere(p)[3] = Stage(p).kind
    BY <1>4, HereIs
  <2>5. QED
    BY <2>2, <2>3, <2>4
<1>5. QED
  BY <1>3, <1>4

\* What a run records of a map is under the id of the partition it is made of.
LEMMA RecordedGenuine ==
  ASSUME ShuffleAssumption, NEW p, Sane(run[p]), Kept(run[p]), Own(run[p]), run[p].pc = "record"
  PROVE  Genuine(IdHere(p), run[p].value)
<1> SUFFICES ASSUME IdHere(p)[3] = "map_write"
             PROVE  \E partition, x :
                      /\ Made(partition) /\ IdHere(p)[6] = partition_json(partition)
                      /\ x \in Variants(partition)
                      /\ run[p].value = << IdHere(p)[3], IdHere(p)[1], partition, x >>
  BY DEF Genuine
<1>1. Stage(p).inputs = << >>
  BY HereIs
<1>2. run[p].value \in May(run[p].name, run[p].stage, Place(run[p]))
  BY <1>1 DEF Own, Stage
<1>3. \E x \in Variants(Here(p).partition) :
        run[p].value = << Stage(p).kind, run[p].plan.ir, Here(p).partition, x >>
  <2>1. May(run[p].name, run[p].stage, Place(run[p])) =
          {<< Stage(p).kind, run[p].plan.ir, Here(p).partition, x >> :
             x \in Variants(Here(p).partition)}
    BY <1>1, HereIs
  <2>2. QED
    BY <1>2, <2>1
<1>4. QED
  BY <1>3, HereIs

\* With a block done, what a run has, and where it is.
LEMMA DoneIs ==
  ASSUME NEW p, Sane(run[p]), NEW d, NEW new, new = Done(p, d, d)
  PROVE  /\ new.name = run[p].name /\ new.plan = run[p].plan /\ new.held = run[p].held
         /\ new.blocks = [run[p].blocks EXCEPT ![run[p].stage] = Append(@, [hash |-> d, payload |-> d])]
         /\ new.pc \in {"visit", "done"} /\ new.stage \in {run[p].stage, run[p].stage + 1}
         /\ new.stage # run[p].stage \/ new.pc = "done" =>
              Len(new.blocks[run[p].stage]) = Len(Stage(p).tasks)
         /\ new.pc = "done" => run[p].stage = Len(run[p].plan.stages)
<1> DEFINE r == run[p]
<1> DEFINE blocks == [r.blocks EXCEPT ![r.stage] = Append(@, [hash |-> d, payload |-> d])]
<1> DEFINE last == Len(blocks[r.stage]) = Len(Stage(p).tasks)
<1> DEFINE end == last /\ r.stage = Len(r.plan.stages)
<1> DEFINE pc == IF end THEN "done" ELSE "visit"
<1> DEFINE stage == IF last /\ ~ end THEN r.stage + 1 ELSE r.stage
<1> DEFINE deps == IF last THEN NoBlob ELSE r.deps
<1>1. new = [r EXCEPT !.blocks = blocks, !.value = NoBlob, !.pc = pc, !.stage = stage, !.deps = deps]
  BY DEF Done
<1> HIDE DEF blocks, pc, stage, deps, last, end
<1>2. PICK a, b, c, e, f, g, h, i :
        r = [pc |-> a, name |-> b, plan |-> c, stage |-> e, blocks |-> f, held |-> g,
             value |-> h, deps |-> i]
  BY DEF Sane, Whole
<1>3. /\ new.name = r.name /\ new.plan = r.plan /\ new.held = r.held
      /\ new.blocks = blocks /\ new.pc = pc /\ new.stage = stage
  BY <1>1, <1>2
<1>4. pc = "done" => last /\ r.stage = Len(r.plan.stages)
  BY DEF pc, end
<1>5. stage # r.stage => last
  BY DEF stage
<1>6. pc \in {"visit", "done"} /\ stage \in {r.stage, r.stage + 1}
  BY DEF pc, stage
<1>7. last => Len(blocks[r.stage]) = Len(Stage(p).tasks)
  BY DEF last
<1>8. QED
  BY <1>3, <1>4, <1>5, <1>6, <1>7 DEF blocks

\* Being separate is of a run's plan and of what it found when it started.
LEMMA SeparateStays ==
  ASSUME NEW r, NEW new, new.name = r.name, new.plan = r.plan, new.held = r.held
  PROVE  Separate(new) <=> Separate(r)
BY DEF Separate

LEMMA AppendIs ==
  ASSUME NEW S, NEW t \in Seq(S), NEW x
  PROVE  /\ DOMAIN Append(t, x) = DOMAIN t \union {Len(t) + 1}
         /\ Append(t, x)[Len(t) + 1] = x
         /\ \A i \in DOMAIN t : Append(t, x)[i] = t[i]
OBVIOUS

LEMMA DoneOwn ==
  ASSUME NEW p, Sane(run[p]), Own(run[p]), run[p].pc \notin {"idle", "done"}, NEW d,
         Separate(run[p]) => d \in May(run[p].name, run[p].stage, Place(run[p]))
  PROVE  Own(Done(p, d, d))
<1> DEFINE r == run[p]
<1> DEFINE block == [hash |-> d, payload |-> d]
<1>1. PICK new : new = Done(p, d, d)
  OBVIOUS
<1>2. /\ new.name = r.name /\ new.plan = r.plan /\ new.held = r.held
      /\ new.blocks = [r.blocks EXCEPT ![r.stage] = Append(@, block)]
      /\ new.pc \in {"visit", "done"} /\ new.stage \in {r.stage, r.stage + 1}
      /\ new.stage # r.stage \/ new.pc = "done" =>
           Len(new.blocks[r.stage]) = Len(r.plan.stages[r.stage].tasks)
      /\ new.pc = "done" => r.stage = Len(r.plan.stages)
  BY <1>1, DoneIs DEF Stage
<1>3. /\ DOMAIN r.blocks = 1..Len(r.plan.stages) /\ Len(r.plan.stages) \in Nat
      /\ r.stage \in 1..Len(r.plan.stages) /\ Faithful(r.blocks[r.stage])
  BY DEF Sane, Layered
<1>4. /\ DOMAIN new.blocks = DOMAIN r.blocks
      /\ \A si \in DOMAIN r.blocks \ {r.stage} : new.blocks[si] = r.blocks[si]
      /\ new.blocks[r.stage] = Append(r.blocks[r.stage], block)
  BY <1>2, <1>3
<1>5. ASSUME NEW si \in DOMAIN new.blocks, si < new.stage \/ new.pc = "done"
      PROVE  Len(new.blocks[si]) = Len(new.plan.stages[si].tasks)
  <2>1. CASE si = r.stage
    <3>1. new.stage # r.stage \/ new.pc = "done"
      BY <1>3, <1>5, <2>1
    <3>2. QED
      BY <1>2, <2>1, <3>1
  <2>2. CASE si # r.stage
    <3>1. si < r.stage
      <4>1. si \in 1..Len(r.plan.stages)
        BY <1>3, <1>4
      <4>2. si < r.stage \/ si < r.stage + 1 \/ r.stage = Len(r.plan.stages)
        BY <1>2, <1>5
      <4>3. QED
        BY ONLY <1>3, <2>2, <4>1, <4>2
    <3>2. QED
      BY <1>2, <1>4, <2>2, <3>1 DEF Own
  <2>3. QED
    BY <2>1, <2>2
<1>6. ASSUME Separate(new), NEW si \in DOMAIN new.blocks, NEW k \in DOMAIN new.blocks[si]
      PROVE  new.blocks[si][k].hash \in May(new.name, si, k)
  <2>1. Separate(r)
    BY <1>2, <1>6, SeparateStays
  <2>2. \A j \in DOMAIN r.blocks : \A i \in DOMAIN r.blocks[j] : r.blocks[j][i].hash \in May(r.name, j, i)
    BY <2>1 DEF Own
  <2>3. CASE si = r.stage
    <3>1. PICK S, t : t \in Seq(S) /\ t = r.blocks[r.stage]
      BY <1>3 DEF Faithful
    <3>2. Place(r) = Len(t) + 1 /\ new.blocks[r.stage] = Append(t, block)
      BY <1>4, <3>1 DEF Place
    <3>3. /\ DOMAIN Append(t, block) = DOMAIN t \union {Len(t) + 1}
          /\ Append(t, block)[Len(t) + 1] = block
          /\ \A i \in DOMAIN t : Append(t, block)[i] = t[i]
      <4>1. t \in Seq(S)
        BY <3>1
      <4> HIDE DEF block
      <4>2. QED
        BY ONLY <4>1, AppendIs
    <3>4. CASE k = Place(r)
      <4>1. new.blocks[si][k].hash = d
        BY <2>3, <3>2, <3>3, <3>4
      <4>2. QED
        BY <1>2, <2>1, <2>3, <3>4, <4>1
    <3>5. CASE k # Place(r)
      <4>1. k \in DOMAIN r.blocks[si] /\ new.blocks[si][k] = r.blocks[si][k]
        BY <1>6, <2>3, <3>1, <3>2, <3>3, <3>5
      <4>2. QED
        BY <1>2, <1>4, <2>2, <4>1
    <3>6. QED
      BY <3>4, <3>5
  <2>4. CASE si # r.stage
    BY <1>2, <1>4, <1>6, <2>2, <2>4
  <2>5. QED
    BY <2>3, <2>4
<1>7. \A id \in DOMAIN new.held : Genuine(id, new.held[id])
  BY <1>2 DEF Own
<1>8. QED
  BY <1>1, <1>2, <1>5, <1>6, <1>7 DEF Own

\* Of numbers that have a bound, one is the greatest.
LEMMA GreatestExists ==
  ASSUME NEW n \in Nat, NEW S \in SUBSET (0..n), S # {}
  PROVE  \E i \in S : \A j \in S : j <= i
<1> DEFINE left == {n - i : i \in S}
<1>1. left \subseteq Nat /\ left # {}
  <2>1. \A i \in S : n - i \in Nat
    OBVIOUS
  <2>2. QED
    BY <2>1
<1>2. PICK x \in left : \A y \in left : ~(<<y, x>> \in OpToRel(<, Nat))
  BY <1>1, NatLessThanWellFounded, WFMin
<1>3. \A y \in left : ~(y < x)
  BY <1>1, <1>2 DEF OpToRel
<1>4. PICK i \in S : x = n - i
  OBVIOUS
<1>5. \A j \in S : ~(n - j < n - i)
  BY <1>3, <1>4
<1>6. QED
  BY <1>5

\* Of records whose names have a bound, one's name is after all of theirs.
LEMMA LastExists ==
  ASSUME NEW n \in Nat, NEW H, H # {}, \A r \in H : r.name[1] \in 0..n /\ r.name[2] \in 0..n
  PROVE  \E r \in H : \A s \in H : Store!After(r.name, s.name)
<1> DEFINE writers == {r.name[1] : r \in H}
<1>1. PICK w \in writers : \A v \in writers : v <= w
  <2>1. writers \subseteq 0..n /\ writers # {}
    OBVIOUS
  <2> HIDE DEF writers
  <2>2. QED
    BY <2>1, GreatestExists
<1> DEFINE seqs == {r.name[2] : r \in {s \in H : s.name[1] = w}}
<1>2. PICK q \in seqs : \A v \in seqs : v <= q
  <2>1. seqs \subseteq 0..n /\ seqs # {}
    BY <1>1
  <2> HIDE DEF seqs
  <2>2. QED
    BY <2>1, GreatestExists
<1>3. PICK r \in H : r.name[1] = w /\ r.name[2] = q
  BY <1>2
<1>4. ASSUME NEW s \in H PROVE Store!After(r.name, s.name)
  <2>1. s.name[1] <= w /\ (s.name[1] = w => s.name[2] <= q)
    BY <1>1, <1>2
  <2>2. s.name[1] \in 0..n /\ s.name[2] \in 0..n /\ r.name[1] \in 0..n /\ r.name[2] \in 0..n
    OBVIOUS
  <2>3. r.name[1] > s.name[1] \/ (r.name[1] = s.name[1] /\ r.name[2] >= s.name[2])
    BY <1>3, <2>1, <2>2
  <2>4. QED
    BY <2>3 DEF Store!After
<1>5. QED
  BY <1>4

\* What a run finds when it starts is what was recorded.
LEMMA CompletedGenuine ==
  ASSUME OInv, NEW id \in DOMAIN Store!Completed(store)
  PROVE  Genuine(id, Store!Completed(store)[id])
<1> DEFINE served == {r \in store.records : Store!Present(store, r.record.blob)}
<1> DEFINE hits == {r \in served : r.record.task = id}
<1> DEFINE last == CHOOSE r \in hits : \A s \in hits : Store!After(r.name, s.name)
<1>1. id \in {r.record.task : r \in served} /\ Store!Completed(store)[id] = last.record.blob
  BY DEF Store!Completed
<1>2. PICK n \in Nat : \A r \in hits : r.name[1] \in 0..n /\ r.name[2] \in 0..n
  BY DEF OInv
<1>3. hits # {}
  BY <1>1
<1>4. \E r \in hits : \A s \in hits : Store!After(r.name, s.name)
  <2> HIDE DEF hits
  <2>1. QED
    BY <1>2, <1>3, LastExists
<1>5. last \in hits
  BY <1>4
<1> HIDE DEF last
<1>6. last \in store.records /\ last.record.task = id
  BY <1>5
<1>7. QED
  BY <1>1, <1>6 DEF OInv

\* A step of one run that writes no record.
LEMMA OMoves ==
  ASSUME JInv, OInv, NEW p \in Procs, NEW new, run' = [run EXCEPT ![p] = new], Own(new),
         store'.records = store.records
  PROVE  OInv'
<1>1. run'[p] = new /\ \A q \in Procs \ {p} : run'[q] = run[q]
  BY DEF JInv
<1>2. \A q \in Procs : Own(run'[q])
  BY <1>1 DEF OInv
<1>3. QED
  BY <1>2 DEF OInv

LEMMA OStep ==
  ASSUME ShuffleAssumption, JInv, KInv, OInv, NEW p \in Procs, Process(p) \/ Put(p) \/ PutListing(p)
  PROVE  OInv'
<1> DEFINE r == run[p]
<1>1. store'.records = store.records
  <2>1. CASE Process(p)
    BY <2>1 DEF Process
  <2>2. CASE Put(p) \/ PutListing(p)
    <3>1. PICK d : PutBlob(p, d)
      BY <2>2 DEF Put, PutListing
    <3>2. QED
      BY <3>1, PutStays DEF JInv
  <2>3. QED
    BY <2>1, <2>2
<1>2. PICK new : /\ run' = [run EXCEPT ![p] = new] /\ new.pc \in {"put", "list", "record"}
                 /\ new.name = r.name /\ new.plan = r.plan
                 /\ new.stage = r.stage /\ new.blocks = r.blocks /\ new.held = r.held
                 /\ IF r.pc = "visit" THEN new.value \in Results(p) ELSE new.value = r.value
  BY Stepped
<1>3. r.pc \in {"visit", "put", "list"} /\ Sane(r) /\ Kept(r) /\ Own(r)
  BY Stepped DEF JInv, Sound, KInv, OInv
<1>4. Separate(new) <=> Separate(r)
  BY <1>2, SeparateStays
<1>5. ASSUME Separate(r) \/ r.plan.stages[r.stage].inputs = << >>
      PROVE  new.value \in May(r.name, r.stage, Place(r))
  <2>1. CASE r.pc = "visit"
    BY <1>2, <1>3, <1>5, <2>1, ResultsOwn DEF Stage
  <2>2. CASE r.pc # "visit"
    BY <1>2, <1>3, <1>5, <2>2 DEF Own
  <2>3. QED
    BY <2>1, <2>2
<1>6. Place(new) = Place(r)
  BY <1>2 DEF Place
<1>7. Own(new)
  BY <1>2, <1>3, <1>4, <1>5, <1>6 DEF Own
<1>8. QED
  BY <1>1, <1>2, <1>7, OMoves

LEMMA OReuse ==
  ASSUME ShuffleAssumption, JInv, KInv, OInv, NEW p \in Procs, Reuse(p)
  PROVE  OInv'
<1>1. /\ run[p].pc = "visit" /\ Held(p) # NoBlob /\ Store!Get(store, Held(p)) # NoBlob
      /\ run' = [run EXCEPT ![p] = Done(p, Held(p), Store!Get(store, Held(p)))]
      /\ UNCHANGED store
  BY DEF Reuse, Servable
<1>2. Store!Get(store, Held(p)) = Held(p)
  BY <1>1 DEF Store!Get, Store!Files!Get
<1>3. Sane(run[p]) /\ Kept(run[p]) /\ Own(run[p])
  BY <1>1 DEF JInv, Sound, KInv, OInv
<1>4. Separate(run[p]) => Held(p) \in May(run[p].name, run[p].stage, Place(run[p]))
  BY <1>1, <1>3, ReusedOwn
<1>5. Own(Done(p, Held(p), Held(p)))
  BY <1>1, <1>3, <1>4, DoneOwn
<1>6. QED
  BY <1>1, <1>2, <1>5, OMoves

\* A record's name is past no bound, and its block what its id says.
LEMMA ORecordDone ==
  ASSUME ShuffleAssumption, IInv, JInv, KInv, OInv, NEW p \in Procs, NEW writer \in Writers,
         RecordDone(p, writer)
  PROVE  OInv'
<1> DEFINE r == run[p]
<1> DEFINE appender == Store!Appender(inst[p], p, writer)
<1>1. /\ r.pc = "record" /\ run' = [run EXCEPT ![p] = Done(p, r.value, r.value)]
      /\ store' = Store!Appended(store, appender, Record(p))
  BY DEF RecordDone
<1>2. Sane(r) /\ Kept(r) /\ Own(r) /\ DOMAIN run = Procs /\ StoreOK
  BY <1>1 DEF JInv, Sound, KInv, OInv
<1>3. appender.writer \in Nat /\ appender.seq \in Nat
  <2>1. Fields(inst[p]) /\ inst[p].writer \in Writers \union {0} /\ inst[p].seq \in Nat
    BY DEF IInv, InstancesOK
  <2>2. \A v \in Writers : v \in Nat
    <3>1. Writers = 1..Cardinality(Writers)
      BY DEF ShuffleAssumption
    <3>2. \A n : \A v \in 1..n : v \in Nat
      OBVIOUS
    <3>3. QED
      BY ONLY <3>1, <3>2
  <2>3. PICK i, w, s, b : inst[p] = [pid |-> i, writer |-> w, seq |-> s, bad |-> b]
    BY <2>1 DEF Fields
  <2>4. CASE inst[p].pid = p
    BY <2>1, <2>2, <2>4 DEF Store!Appender
  <2>5. CASE inst[p].pid # p
    <3>1. appender = [inst[p] EXCEPT !.pid = p, !.writer = writer, !.seq = 0]
      BY <2>5 DEF Store!Appender
    <3>2. DOMAIN inst[p] = {"pid", "writer", "seq", "bad"}
      BY <2>3
    <3>3. appender.writer = writer /\ appender.seq = 0
      BY ONLY <3>1, <3>2
    <3>4. QED
      BY <2>2, <3>3
  <2>6. QED
    BY <2>4, <2>5
<1> DEFINE name == << appender.writer, appender.seq >>
<1> HIDE DEF appender
<1>4. PICK o, rs : /\ store = [objects |-> o, records |-> rs]
                   /\ store' = [objects |-> o, records |-> {x \in rs : x.name # name}
                                  \union {[name |-> name, record |-> Record(p)]}]
  BY <1>1, <1>2 DEF StoreOK, Store!Appended
<1>5. \A x \in store'.records : x \in store.records \/ (x.name = name /\ x.record = Record(p))
  BY <1>4
<1>6. \E n \in Nat : \A x \in store'.records : x.name[1] \in 0..n /\ x.name[2] \in 0..n
  <2>1. PICK n \in Nat : \A x \in store.records : x.name[1] \in 0..n /\ x.name[2] \in 0..n
    BY DEF OInv
  <2>2. PICK m \in Nat : m = n + appender.writer + appender.seq
    BY <1>3
  <2>3. name[1] \in 0..m /\ name[2] \in 0..m /\ \A k \in 0..n : k \in 0..m
    BY <1>3, <2>2
  <2> HIDE DEF name
  <2>4. \A x \in store'.records : x.name[1] \in 0..m /\ x.name[2] \in 0..m
    BY <1>5, <2>1, <2>3
  <2>5. QED
    BY <2>4
<1>7. Genuine(Record(p).task, Record(p).blob)
  BY <1>1, <1>2, RecordedGenuine DEF Record
<1>8. \A x \in store'.records : Genuine(x.record.task, x.record.blob)
  BY <1>5, <1>7 DEF OInv
<1>9. Own(Done(p, r.value, r.value))
  <2>1. Separate(r) => r.value \in May(r.name, r.stage, Place(r))
    BY <1>1, <1>2 DEF Own
  <2>2. QED
    BY <1>1, <1>2, <2>1, DoneOwn
<1>10. \A q \in Procs : Own(run'[q])
  BY <1>1, <1>2, <1>9 DEF OInv
<1>11. QED
  BY <1>6, <1>8, <1>10 DEF OInv

\* A run starts with what the store holds, and no blocks.
LEMMA OStart ==
  ASSUME ShuffleAssumption, JInv, OInv, NEW p \in Procs,
         NEW name \in DOMAIN Plans, NEW endpoints, NEW writer, Start(p, name, endpoints, writer)
  PROVE  OInv'
<1> DEFINE plan == bind_services(Plans[name], endpoints)
<1> DEFINE new == [pc |-> "visit", name |-> name, plan |-> plan, stage |-> 1,
                   blocks |-> [si \in DOMAIN plan.stages |-> << >>],
                   held |-> Store!Completed(store), value |-> NoBlob, deps |-> NoBlob]
<1>1. run' = [run EXCEPT ![p] = new] /\ UNCHANGED store
  BY DEF Start
<1>2. \A id \in DOMAIN new.held : Genuine(id, new.held[id])
  BY CompletedGenuine
<1>3. \A si \in DOMAIN new.blocks : ~(si < new.stage)
  <2>1. \E S : plan.stages \in Seq(S)
    BY BoundLayered DEF Layered
  <2>2. \A S, t : t \in Seq(S) => \A si \in DOMAIN t : ~(si < 1)
    OBVIOUS
  <2> HIDE DEF plan
  <2>3. QED
    BY <2>1, <2>2
<1>4. \A si \in DOMAIN new.blocks : DOMAIN new.blocks[si] = {}
  BY DEF plan
<1>5. new.pc = "visit"
  OBVIOUS
<1> HIDE DEF new
<1>6. Own(new)
  BY <1>2, <1>3, <1>4, <1>5 DEF Own
<1>7. QED
  BY <1>1, <1>6, OMoves

LEMMA OOther ==
  ASSUME JInv, OInv,
         \/ \E p \in Procs : Crash(p)
         \/ \E d \in DOMAIN store.objects : Damage(d)
         \/ \E p, q \in Procs : Fork(p, q)
         \/ UNCHANGED vars
  PROVE  OInv'
<1>1. store'.records = store.records
  <2>1. StoreOK
    BY DEF JInv
  <2>2. store' = store \/ \E objects : store' = [store EXCEPT !.objects = objects]
    BY DEF Crash, Store!CutShort, Damage, Fork, vars
  <2>3. QED
    BY <2>1, <2>2, Objects
<1>2. CASE \E p \in Procs : Crash(p)
  <2>1. PICK p \in Procs : run' = [run EXCEPT ![p] = Idle]
    BY <1>2 DEF Crash
  <2>2. Own(Idle)
    BY DEF Own, Idle
  <2>3. QED
    BY <1>1, <2>1, <2>2, OMoves
<1>3. CASE UNCHANGED run
  BY <1>1, <1>3 DEF OInv
<1>4. QED
  BY <1>2, <1>3 DEF Damage, Fork, vars

LEMMA NextOInv ==
  ASSUME ShuffleAssumption, IInv, JInv, KInv, OInv, [Next]_vars
  PROVE  OInv'
<1>1. ASSUME NEW p \in Procs, NEW name \in DOMAIN Plans, NEW endpoints \in Endpoints,
             NEW writer \in Writers, Start(p, name, endpoints, writer)
      PROVE  OInv'
  BY <1>1, OStart
<1>2. ASSUME NEW p \in Procs, Reuse(p) PROVE OInv'
  BY <1>2, OReuse
<1>3. ASSUME NEW p \in Procs, Process(p) \/ Put(p) \/ PutListing(p) PROVE OInv'
  BY <1>3, OStep
<1>4. ASSUME NEW p \in Procs, NEW writer \in Writers, RecordDone(p, writer) PROVE OInv'
  BY <1>4, ORecordDone
<1>5. ASSUME \/ \E p \in Procs : Crash(p)
             \/ \E d \in DOMAIN store.objects : Damage(d)
             \/ \E p, q \in Procs : Fork(p, q)
             \/ UNCHANGED vars
      PROVE  OInv'
  BY <1>5, OOther
<1>6. QED
  BY <1>1, <1>2, <1>3, <1>4, <1>5 DEF Next

\* "A crash at any point resumes from the last durable block" (run_shuffle_resumable):
\* whatever died, was damaged, was forked or ran at the same time, and whichever of its
\* blocks a run found there, what it returns is a list of blocks that its plan, as it
\* was written, may come to, unless the store held under an id of one of its later
\* stages a block which that plan could not have made.
THEOREM OwnResult == Spec => []ResultIsOwn
<1>1. Init => IInv /\ JInv /\ KInv /\ OInv
  <2> SUFFICES ASSUME Init PROVE IInv /\ JInv /\ KInv /\ OInv
    OBVIOUS
  <2>1. IInv
    BY InitIInv, ShuffleAssumption
  <2>2. StoreOK /\ store.records = {} /\ DOMAIN run = Procs /\ \A p \in Procs : run[p].pc = "idle"
    BY DEF Init, StoreOK, Store!EmptyStore, Idle
  <2>3. JInv /\ KInv
    BY <2>2 DEF JInv, Sound, RecordsNameTheirInputs, KInv, Kept
  <2>4. OInv
    BY <2>2 DEF OInv, Own
  <2>5. QED
    BY <2>1, <2>3, <2>4
<1>2. IInv /\ JInv /\ KInv /\ OInv /\ [Next]_vars => IInv' /\ JInv' /\ KInv' /\ OInv'
  BY NextIInv, NextJInv, NextKInv, NextOInv, ShuffleAssumption
<1>3. JInv /\ KInv /\ OInv => ResultIsOwn
  <2> SUFFICES ASSUME JInv, KInv, OInv, NEW p \in Procs, run[p].pc = "done", Apart(p)
               PROVE  Answers(p)
    BY DEF ResultIsOwn
  <2> DEFINE r == run[p]
  <2>1. Sane(r) /\ Kept(r) /\ Own(r)
    BY DEF JInv, Sound, KInv, OInv
  <2>2. Separate(r)
    BY DEF Apart, HeldAs, Separate
  <2>3. Len(r.plan.stages) \in DOMAIN r.blocks
    BY <2>1 DEF Sane, Layered
  <2>4. QED
    BY <2>1, <2>2, <2>3, StageOwn, ShuffleAssumption DEF Answers
<1>4. QED
  BY <1>1, <1>2, <1>3, PTL DEF Spec
=============================================================================
