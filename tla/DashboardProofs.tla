-------------------------- MODULE DashboardProofs --------------------------
(***************************************************************************)
(* What a dashboard hears of workers that report for themselves            *)
(* (Dashboard), for any of them, any buffers, runs, retries and failing    *)
(* connections: it has every event once, or the event is on its way, or    *)
(* dropped for an admitted cause; and once it has all of them, its         *)
(* counters and rows are what happened.                                    *)
(***************************************************************************)
EXTENDS Dashboard, FiniteSetTheorems, SequenceTheorems, WellFoundedInduction, TLAPS

(***************************************************************************)
(* What watches: monitors that lose no event unexcused.                    *)
(***************************************************************************)
(* What is added up, or taken in, element by element: numbers, the events  *)
(* of a frame, and the frames that are on their way.  (The ranges of a     *)
(* plan, which add up likewise, are RunnerProofs'.)                        *)

Numbers(f) == [kind |-> "numbers", base |-> 0, of |-> f, lean |-> FALSE]
Frame(s, frame, a) == [kind |-> "frame", base |-> s, of |-> frame, lean |-> a]
Frames(w) == [kind |-> "frames", base |-> << >>, of |-> w, lean |-> FALSE]
Ranges(rs) == [kind |-> "ranges", base |-> << >>, of |-> rs, lean |-> FALSE]

Taken(c, s) == IF c.kind = "numbers" THEN CHOOSE x \in s : TRUE ELSE Max(s)
Combined(c, x, v) ==
  CASE c.kind = "numbers" -> c.of[x] + v
    [] c.kind = "frame"   -> IngestTask(v, c.of[x], c.lean)
    [] c.kind = "frames"  -> v \o c.of[x]
    [] c.kind = "ranges"  -> IF c.of[x][2] > c.of[x][1] THEN Append(v, c.of[x]) ELSE v

After1(c, s, h) == IF s = {} THEN c.base ELSE Combined(c, Taken(c, s), h[s \ {Taken(c, s)}])

IsFold(c, D, h) == h = [s \in SUBSET D |-> After1(c, s, h)]

\* A set of numbers that is not empty has a least one.
LEMMA LeastNumber ==
  ASSUME NEW B \in SUBSET Nat, B # {}
  PROVE  \E n \in B : \A k \in B : ~(k < n)
<1>1. PICK n \in B : \A k \in B : ~(<<k, n>> \in OpToRel(<, Nat))
  BY NatLessThanWellFounded, WFMin
<1>2. QED
  BY <1>1 DEF OpToRel

\* There is a fold over every finite set: a least size at which there is none would have
\* one below it to go on from.
LEMMA FoldExists ==
  ASSUME NEW c, NEW D, IsFiniteSet(D), \A s \in SUBSET D : s # {} => Taken(c, s) \in s
  PROVE  \E h : IsFold(c, D, h)
<1> DEFINE UpTo(n, h) == h = [s \in SUBSET D |->
                             IF Cardinality(s) > n THEN c.base ELSE After1(c, s, h)]
           Bad == {n \in Nat : ~\E h : UpTo(n, h)}
<1>1. \A s \in SUBSET D : Cardinality(s) \in Nat /\ Cardinality(s) <= Cardinality(D)
  BY FS_Subset, FS_CardinalityType
<1>2. \A s \in SUBSET D : s # {} => Cardinality(s) # 0
  BY FS_EmptySet, FS_Subset
<1>3. \A s \in SUBSET D : s # {} =>
        /\ s \ {Taken(c, s)} \in SUBSET D
        /\ Cardinality(s \ {Taken(c, s)}) = Cardinality(s) - 1
  BY FS_RemoveElement, FS_Subset
<1>4. Bad = {}
  <2> SUFFICES ASSUME Bad # {} PROVE FALSE
    OBVIOUS
  <2>1. Bad \subseteq Nat
    OBVIOUS
  <2> HIDE DEF Bad
  <2>2. PICK n \in Bad : \A k \in Bad : ~(k < n)
    BY <2>1, LeastNumber
  <2>3. n \in Nat
    BY <2>1
  <2> USE DEF Bad
  <2>4. ~\E h : UpTo(n, h)
    BY <2>2
  <2>5. CASE n = 0
    <3> DEFINE h == [s \in SUBSET D |-> c.base]
    <3>1. \A s \in SUBSET D : (IF Cardinality(s) > 0 THEN c.base ELSE After1(c, s, h)) = c.base
      BY <1>1, <1>2 DEF After1
    <3>2. UpTo(n, h)
      BY <2>5, <3>1
    <3>3. QED
      BY <2>4, <3>2
  <2>6. CASE n # 0
    <3>1. n - 1 \in Nat /\ n - 1 < n
      BY <2>3, <2>6
    <3>2. n - 1 \notin Bad
      BY <2>2, <3>1
    <3>3. PICK g : UpTo(n - 1, g)
      BY <3>1, <3>2
    <3> DEFINE h == [s \in SUBSET D |-> IF Cardinality(s) > n THEN c.base ELSE After1(c, s, g)]
    <3>4. \A s \in SUBSET D : Cardinality(s) <= n - 1 => h[s] = g[s]
      <4> TAKE s \in SUBSET D
      <4> HAVE Cardinality(s) <= n - 1
      <4>1. ~(Cardinality(s) > n) /\ ~(Cardinality(s) > n - 1)
        BY <1>1, <2>3
      <4>2. g[s] = After1(c, s, g)
        BY <3>3, <4>1
      <4>3. h[s] = After1(c, s, g)
        BY <4>1
      <4>4. QED
        BY <4>2, <4>3
    <3>5. \A s \in SUBSET D : Cardinality(s) <= n => After1(c, s, h) = After1(c, s, g)
      <4> TAKE s \in SUBSET D
      <4> HAVE Cardinality(s) <= n
      <4>1. CASE s = {}
        BY <4>1 DEF After1
      <4>2. CASE s # {}
        <5>1. s \ {Taken(c, s)} \in SUBSET D /\ Cardinality(s \ {Taken(c, s)}) <= n - 1
          BY <1>1, <1>3, <2>3, <4>2
        <5>2. h[s \ {Taken(c, s)}] = g[s \ {Taken(c, s)}]
          BY <3>4, <5>1
        <5> HIDE DEF h
        <5>3. QED
          BY <4>2, <5>2 DEF After1
      <4>3. QED
        BY <4>1, <4>2
    <3>6. \A s \in SUBSET D : (IF Cardinality(s) > n THEN c.base ELSE After1(c, s, g)) =
                              (IF Cardinality(s) > n THEN c.base ELSE After1(c, s, h))
      <4> HIDE DEF h
      <4>1. \A s \in SUBSET D : ~(Cardinality(s) > n) => Cardinality(s) <= n
        BY <1>1, <2>3
      <4>2. QED
        BY ONLY <3>5, <4>1
    <3>7. UpTo(n, h)
      BY <3>6
    <3>8. QED
      BY <2>4, <3>7
  <2>7. QED
    BY <2>5, <2>6
<1>5. PICK h : UpTo(Cardinality(D), h)
  BY <1>4, FS_CardinalityType
<1>6. \A s \in SUBSET D : ~(Cardinality(s) > Cardinality(D))
  BY <1>1, FS_CardinalityType
<1>7. IsFold(c, D, h)
  BY <1>5, <1>6 DEF IsFold
<1>8. QED
  BY <1>7

\* What SumFunction computes: h has the sum over each set of arguments.
IsSum(f, D, h) ==
  \A s \in SUBSET D :
    h[s] = IF s = {} THEN 0 ELSE f[CHOOSE x \in s : TRUE] + h[s \ {CHOOSE x \in s : TRUE}]

LEMMA NumbersFold ==
  ASSUME NEW f, NEW D, IsFiniteSet(D), D = DOMAIN f
  PROVE  \E h : SumFunction(f) = h[D] /\ IsSum(f, D, h)
<1> DEFINE c == Numbers(f)
           h == CHOOSE g : g = [s \in SUBSET D |-> IF s = {} THEN 0
                  ELSE f[CHOOSE x \in s : TRUE] + g[s \ {CHOOSE x \in s : TRUE}]]
<1>1. SumFunction(f) = h[D]
  BY DEF SumFunction, SumFunctionOnSet, FoldFunctionOnSet,
         MapThenFoldSet
<1>2. \A s : Taken(c, s) = CHOOSE x \in s : TRUE
  BY DEF Taken, Numbers
<1>3. \A s \in SUBSET D : s # {} => Taken(c, s) \in s
  BY <1>2
<1>4. \A s, g : After1(c, s, g) = IF s = {} THEN 0
                  ELSE f[CHOOSE x \in s : TRUE] + g[s \ {CHOOSE x \in s : TRUE}]
  BY DEF After1, Taken, Numbers, Combined
<1>5. \E g : g = [s \in SUBSET D |-> After1(c, s, g)]
  <2> HIDE DEF c
  <2>1. \E g : IsFold(c, D, g)
    BY <1>3, FoldExists
  <2>2. QED
    BY ONLY <2>1 DEF IsFold
<1>6. \E g : g = [s \in SUBSET D |-> IF s = {} THEN 0
                    ELSE f[CHOOSE x \in s : TRUE] + g[s \ {CHOOSE x \in s : TRUE}]]
  <2>1. PICK g : g = [s \in SUBSET D |-> After1(c, s, g)]
    BY <1>5
  <2>2. [s \in SUBSET D |-> After1(c, s, g)] = [s \in SUBSET D |-> IF s = {} THEN 0
          ELSE f[CHOOSE x \in s : TRUE] + g[s \ {CHOOSE x \in s : TRUE}]]
    BY <1>4
  <2>3. QED
    BY ONLY <2>1, <2>2
<1>7. h = [s \in SUBSET D |-> IF s = {} THEN 0
             ELSE f[CHOOSE x \in s : TRUE] + h[s \ {CHOOSE x \in s : TRUE}]]
  BY <1>6
<1> HIDE DEF h
<1>8. IsSum(f, D, h)
  BY <1>7 DEF IsSum
<1>9. QED
  BY <1>1, <1>8

\* One number changed changes a sum by as much.
LEMMA SumChanges ==
  ASSUME NEW D, IsFiniteSet(D), NEW f \in [D -> Int], NEW g \in [D -> Int],
         NEW d \in D, \A x \in D : x # d => g[x] = f[x]
  PROVE  /\ SumFunction(f) \in Int
         /\ SumFunction(g) = SumFunction(f) + (g[d] - f[d])
<1>0. D = DOMAIN f /\ D = DOMAIN g
  OBVIOUS
<1>1. PICK hf : SumFunction(f) = hf[D] /\ IsSum(f, D, hf)
  BY <1>0, NumbersFold
<1>2. PICK hg : SumFunction(g) = hg[D] /\ IsSum(g, D, hg)
  BY <1>0, NumbersFold
<1> DEFINE Good(s) == hf[s] \in Int /\ hg[s] = hf[s] + (IF d \in s THEN g[d] - f[d] ELSE 0)
           Bad == {Cardinality(s) : s \in {t \in SUBSET D : ~Good(t)}}
<1>3. \A s \in SUBSET D : Cardinality(s) \in Nat
  BY FS_Subset, FS_CardinalityType
<1>4. Bad \subseteq Nat
  BY <1>3
<1>5. Bad = {}
  <2> SUFFICES ASSUME Bad # {} PROVE FALSE
    OBVIOUS
  <2> HIDE DEF Bad
  <2>1. PICK n \in Bad : \A k \in Bad : ~(k < n)
    BY <1>4, LeastNumber
  <2>2. n \in Nat
    BY <1>4
  <2>3. PICK s \in SUBSET D : ~Good(s) /\ n = Cardinality(s)
    BY <2>1 DEF Bad
  <2>4. CASE s = {}
    <3>1. hf[s] = 0 /\ hg[s] = 0 /\ d \notin s
      BY <1>1, <1>2, <2>4 DEF IsSum
    <3>2. QED
      BY <2>3, <3>1
  <2>5. CASE s # {}
    <3> DEFINE x == CHOOSE y \in s : TRUE
    <3>1. x \in s /\ x \in D
      BY <2>5
    <3>2. hf[s] = f[x] + hf[s \ {x}] /\ hg[s] = g[x] + hg[s \ {x}]
      BY <1>1, <1>2, <2>5 DEF IsSum
    <3> HIDE DEF x
    <3>3. s \ {x} \in SUBSET D /\ Cardinality(s \ {x}) = Cardinality(s) - 1
      BY <3>1, FS_RemoveElement, FS_Subset
    <3>4. Cardinality(s \ {x}) \notin Bad
      BY <2>1, <2>2, <2>3, <3>3
    <3>5. Good(s \ {x})
      BY <3>3, <3>4 DEF Bad
    <3>6. f[x] \in Int /\ g[x] \in Int /\ f[d] \in Int /\ g[d] \in Int
      BY <3>1
    <3>7. Good(s)
      BY <3>1, <3>2, <3>5, <3>6
    <3>8. QED
      BY <2>3, <3>7
  <2>6. QED
    BY <2>4, <2>5
<1>6. Good(D)
  BY <1>5
<1>7. QED
  BY <1>1, <1>2, <1>6

\* Nothing adds up to nothing.
LEMMA NothingSums ==
  ASSUME NEW D, IsFiniteSet(D), NEW f \in [D -> {0}]
  PROVE  SumFunction(f) = 0
<1>1. D = DOMAIN f
  OBVIOUS
<1>2. PICK h : SumFunction(f) = h[D] /\ IsSum(f, D, h)
  BY <1>1, NumbersFold
<1> DEFINE Bad == {Cardinality(s) : s \in {t \in SUBSET D : h[t] # 0}}
<1>3. \A s \in SUBSET D : Cardinality(s) \in Nat
  BY FS_Subset, FS_CardinalityType
<1>4. Bad \subseteq Nat
  BY <1>3
<1>5. Bad = {}
  <2> SUFFICES ASSUME Bad # {} PROVE FALSE
    OBVIOUS
  <2> HIDE DEF Bad
  <2>1. PICK n \in Bad : \A k \in Bad : ~(k < n)
    BY <1>4, LeastNumber
  <2>2. n \in Nat
    BY <1>4
  <2>3. PICK s \in SUBSET D : h[s] # 0 /\ n = Cardinality(s)
    BY <2>1 DEF Bad
  <2>4. s # {}
    BY <1>2, <2>3 DEF IsSum
  <2> DEFINE x == CHOOSE y \in s : TRUE
  <2>5. x \in s /\ x \in D
    BY <2>4
  <2>6. h[s] = f[x] + h[s \ {x}]
    BY <1>2, <2>4 DEF IsSum
  <2> HIDE DEF x
  <2>7. s \ {x} \in SUBSET D /\ Cardinality(s \ {x}) = Cardinality(s) - 1
    BY <2>5, FS_RemoveElement, FS_Subset
  <2>8. Cardinality(s \ {x}) \notin Bad
    BY <2>1, <2>2, <2>3, <2>7
  <2>9. h[s \ {x}] = 0
    BY <2>7, <2>8 DEF Bad
  <2>10. f[x] = 0
    BY <2>5
  <2>11. QED
    BY <2>3, <2>6, <2>9, <2>10
<1>6. QED
  BY <1>2, <1>5

Counted(s, a) == SumFunction(s.stats) - (IF a THEN s.stats["started"] ELSE 0)

\* A server's state, as far as counting goes.
Counting(s) == "stats" \in DOMAIN s /\ s.stats \in [Phases -> Int]

\* What workers send: lean ones tell of no start.
Tellable(e, a) == e.phase \in Phases /\ (a => e.phase # "started")

LEMMA FourPhases == IsFiniteSet(Phases)
<1>1. Phases = ((({} \union {"submitted"}) \union {"started"}) \union {"finished"})
                         \union {"errored"}
  BY DEF Phases
<1>2. QED
  BY <1>1, FS_EmptySet, FS_AddElement

\* One event in, one more counted, the start that it stands for aside.
LEMMA IngestCounts ==
  ASSUME NEW s, Counting(s), NEW e, NEW a \in BOOLEAN, Tellable(e, a)
  PROVE  /\ Counting(IngestTask(s, e, a))
         /\ Counted(s, a) \in Int
         /\ Counted(IngestTask(s, e, a), a) = Counted(s, a) + 1
<1> DEFINE r == IngestTask(s, e, a)
           derived == IF Derived(s, e, a) THEN 1 ELSE 0
           once == [s.stats EXCEPT ![e.phase] = @ + 1]
<1>1. "stats" \in DOMAIN r /\ r.stats = Stats(s, e, a)
  BY DEF IngestTask, IngestSubmitted, IngestWorker, Counting
<1>2. derived \in {0, 1} /\ (~a => derived = 0)
  BY DEF Derived
<1> HIDE DEF derived
<1>3. s.stats \in [Phases -> Int] /\ e.phase \in Phases /\ "started" \in Phases
  BY DEF Counting, Tellable, Phases
<1>4. once \in [Phases -> Int]
  BY <1>3
<1>5. r.stats = [once EXCEPT !["started"] = @ + derived]
  <2>1. Stats(s, e, a) =
          [p \in Phases |-> s.stats[p] + (IF p = e.phase THEN 1 ELSE 0)
             + (IF p = "started" /\ Derived(s, e, a) THEN 1 ELSE 0)]
    BY DEF Stats
  <2>2. \A p \in Phases :
          s.stats[p] + (IF p = e.phase THEN 1 ELSE 0)
             + (IF p = "started" /\ Derived(s, e, a) THEN 1 ELSE 0)
          = [once EXCEPT !["started"] = @ + derived][p]
    BY <1>3, <1>4 DEF derived
  <2>3. QED
    BY <1>1, <1>4, <2>1, <2>2
<1>6. r.stats \in [Phases -> Int]
  BY <1>2, <1>3, <1>4, <1>5
<1>7. /\ SumFunction(s.stats) \in Int
      /\ SumFunction(once) = SumFunction(s.stats) + (once[e.phase] - s.stats[e.phase])
  BY <1>3, <1>4, FourPhases, SumChanges
<1>8. SumFunction(r.stats) = SumFunction(once) + (r.stats["started"] - once["started"])
  BY <1>3, <1>4, <1>5, <1>6, FourPhases, SumChanges
<1>9. /\ once[e.phase] = s.stats[e.phase] + 1 /\ r.stats["started"] = once["started"] + derived
      /\ a => once["started"] = s.stats["started"]
      /\ s.stats["started"] \in Int /\ once["started"] \in Int /\ s.stats[e.phase] \in Int
  BY <1>3, <1>4, <1>5 DEF Tellable
<1>10. Counting(r)
  BY <1>1, <1>6 DEF Counting
<1> HIDE DEF r, once
<1>11. Counted(r, a) = Counted(s, a) + 1 /\ Counted(s, a) \in Int
  BY <1>2, <1>7, <1>8, <1>9 DEF Counted
<1>12. QED
  BY <1>10, <1>11 DEF r

\* A non-empty set of positions has a last one.
LEMMA LastTaken ==
  ASSUME NEW n \in Nat, NEW H \in SUBSET (1 .. n), H # {}
  PROVE  Max(H) \in H /\ \A j \in H : j <= Max(H)
<1> DEFINE D == {n - i : i \in H}
<1>0. \A i \in H : i \in Nat /\ i <= n
  OBVIOUS
<1>1. D \subseteq Nat /\ D # {}
  <2>2. \A i \in H : n - i \in Nat
    BY <1>0
  <2>3. QED
    BY <2>2
<1>2. PICK x \in D : \A y \in D : ~(y < x)
  BY <1>1, LeastNumber
<1>4. PICK i \in H : x = n - i
  BY <1>2
<1>5. \A j \in H : ~(n - j < n - i)
  BY <1>2, <1>4
<1>6. \A j \in H : i >= j
  BY <1>0, <1>5
<1>7. QED
  BY <1>6 DEF Max

\* What is not added up is taken in its order: after a beginning comes the next.
LEMMA Beginnings ==
  ASSUME NEW c, c.kind # "numbers", NEW n \in Nat, NEW g, IsFold(c, 1 .. n, g)
  PROVE  /\ g[{}] = c.base
         /\ \A k \in 1 .. n : g[1 .. k] = Combined(c, k, g[1 .. k - 1])
<1>1. \A s \in SUBSET (1 .. n) : g[s] = After1(c, s, g)
  BY DEF IsFold
<1>2. g[{}] = c.base
  <2>1. {} \in SUBSET (1 .. n)
    OBVIOUS
  <2>2. QED
    BY <1>1, <2>1 DEF After1
<1>3. ASSUME NEW k \in 1 .. n
      PROVE  g[1 .. k] = Combined(c, k, g[1 .. k - 1])
  <2>1. k \in Nat /\ 1 <= k /\ k <= n
    OBVIOUS
  <2>2. 1 .. k \in SUBSET (1 .. n)
    <3>1. \A i \in 1 .. k : i \in 1 .. n
      BY <2>1
    <3>2. QED
      BY <3>1
  <2>3. k \in 1 .. k
    BY <2>1
  <2>4. Max(1 .. k) \in 1 .. k /\ \A j \in 1 .. k : j <= Max(1 .. k)
    BY <2>1, <2>3, LastTaken
  <2>5. Max(1 .. k) = k
    BY <2>1, <2>3, <2>4
  <2>6. (1 .. k) \ {k} = 1 .. k - 1
    BY <2>1
  <2>7. Taken(c, 1 .. k) = k
    BY <2>5 DEF Taken
  <2>8. 1 .. k # {}
    BY <2>3
  <2>9. QED
    BY <1>1, <2>2, <2>6, <2>7, <2>8 DEF After1
<1>4. QED
  BY <1>2, <1>3

LEMMA InOrderFold ==
  ASSUME NEW c, c.kind # "numbers", NEW n \in Nat
  PROVE  \E g : IsFold(c, 1 .. n, g)
<1>1. IsFiniteSet(1 .. n)
  BY FS_Interval
<1>2. \A s \in SUBSET (1 .. n) : s # {} => Taken(c, s) \in s
  BY LastTaken DEF Taken
<1>3. QED
  BY <1>1, <1>2, FoldExists

\* A frame taken in.
TakenIn(b, frame, a) ==
  FoldLeft(LAMBDA s, e : IngestTask(s, e, a), b, frame)

\* What that computes: the state after each of the frame's beginnings.
LEMMA FrameFold ==
  ASSUME NEW S, NEW frame \in Seq(S), NEW b, NEW a
  PROVE  \E h : /\ TakenIn(b, frame, a) = h[Len(frame)]
                /\ h[0] = b
                /\ \A k \in 1 .. Len(frame) :
                     h[k] = IngestTask(h[k - 1], frame[k], a)
<1> DEFINE c == Frame(b, frame, a)
           D == 1 .. Len(frame)
           last(s) == Max(s)
           Taking(h) == h = [s \in SUBSET D |-> IF s = {} THEN b
                               ELSE IngestTask(h[s \ {last(s)}], frame[last(s)], a)]
           g == CHOOSE h : Taking(h)
<1>1. D = DOMAIN frame /\ Len(frame) \in Nat
  OBVIOUS
<1>2. TakenIn(b, frame, a) = g[D]
  BY <1>1 DEF TakenIn, FoldLeft, MapThenFoldSet
<1>3. \A s, h : After1(c, s, h) = IF s = {} THEN b
                  ELSE IngestTask(h[s \ {last(s)}], frame[last(s)], a)
  BY DEF After1, Taken, Frame, Combined
<1>4. \A h : IsFold(c, D, h) <=> Taking(h)
  <2> TAKE h
  <2>1. [s \in SUBSET D |-> After1(c, s, h)] = [s \in SUBSET D |-> IF s = {} THEN b
          ELSE IngestTask(h[s \ {last(s)}], frame[last(s)], a)]
    BY <1>3
  <2>2. QED
    BY ONLY <2>1 DEF IsFold
<1>5. c.kind # "numbers" /\ c.base = b
  BY DEF Frame
<1>6. \A x, v : Combined(c, x, v) = IngestTask(v, frame[x], a)
  BY DEF Combined, Frame
<1> HIDE DEF c, Taking
<1>7. \E h : Taking(h)
  BY <1>1, <1>4, <1>5, InOrderFold
<1>8. IsFold(c, D, g)
  BY <1>4, <1>7
<1> HIDE DEF g
<1>9. /\ g[{}] = b
      /\ \A k \in D : g[1 .. k] = Combined(c, k, g[1 .. k - 1])
  BY <1>1, <1>5, <1>8, Beginnings
<1> DEFINE h == [k \in 0 .. Len(frame) |-> g[1 .. k]]
<1>10. h[Len(frame)] = g[D] /\ h[0] = g[{}]
  BY <1>1
<1>11. \A k \in D : h[k] = g[1 .. k] /\ h[k - 1] = g[1 .. k - 1]
  BY <1>1
<1> HIDE DEF h
<1>12. QED
  BY <1>2, <1>6, <1>9, <1>10, <1>11

\* A frame taken in counts each of its events once.
LEMMA FrameCounts ==
  ASSUME NEW S, NEW frame \in Seq(S), NEW b, Counting(b), NEW a \in BOOLEAN,
         \A i \in 1 .. Len(frame) : Tellable(frame[i], a)
  PROVE  /\ Counting(TakenIn(b, frame, a))
         /\ Counted(b, a) \in Int
         /\ Counted(TakenIn(b, frame, a), a) = Counted(b, a) + Len(frame)
<1>1. PICK h : /\ TakenIn(b, frame, a) = h[Len(frame)]
               /\ h[0] = b
               /\ \A k \in 1 .. Len(frame) :
                    h[k] = IngestTask(h[k - 1], frame[k], a)
  BY FrameFold
<1> DEFINE Good(k) == Counting(h[k]) /\ Counted(h[k], a) = Counted(b, a) + k
           Bad == {k \in 0 .. Len(frame) : ~Good(k)}
<1>2. Len(frame) \in Nat
  OBVIOUS
<1>3. PICK e : Tellable(e, a)
  <2>1. Tellable([phase |-> "finished"], a)
    BY DEF Tellable, Phases
  <2>2. QED
    BY <2>1
<1>4. Counted(b, a) \in Int
  BY <1>3, IngestCounts
<1>5. Bad = {}
  <2> SUFFICES ASSUME Bad # {} PROVE FALSE
    OBVIOUS
  <2>0. Bad \subseteq Nat
    BY <1>2
  <2> HIDE DEF Bad
  <2>1. PICK n \in Bad : \A k \in Bad : ~(k < n)
    BY <2>0, LeastNumber
  <2>2. n \in Nat
    BY <2>0
  <2>3. n \in 0 .. Len(frame) /\ ~Good(n)
    BY <2>1 DEF Bad
  <2>4. CASE n = 0
    <3>1. h[n] = b
      BY <1>1, <2>4
    <3>2. Counted(b, a) = Counted(b, a) + n
      BY <1>4, <2>4
    <3>3. Good(n)
      BY <3>1, <3>2
    <3>4. QED
      BY <2>3, <3>3
  <2>5. CASE n # 0
    <3>1. n \in 1 .. Len(frame) /\ n - 1 \in 0 .. Len(frame) /\ n - 1 < n
      BY <1>2, <2>3, <2>5
    <3>2. Good(n - 1)
      BY <2>1, <3>1 DEF Bad
    <3>3. h[n] = IngestTask(h[n - 1], frame[n], a)
      BY <1>1, <3>1
    <3>4. Counting(h[n]) /\ Counted(h[n], a) = Counted(h[n - 1], a) + 1
      BY <3>1, <3>2, <3>3, IngestCounts
    <3>5. QED
      BY <1>4, <2>2, <2>3, <3>2, <3>4
  <2>6. QED
    BY <2>4, <2>5
<1>6. Good(Len(frame))
  BY <1>2, <1>5
<1>7. QED
  BY <1>1, <1>4, <1>6

\* What FlattenSeq computes of the frames on their way: each beginning of them in one.
IsFlat(w, h) ==
  \A i \in 1 .. Len(w) : h[i] = IF i = 1 THEN w[i] ELSE h[i - 1] \o w[i]

LEMMA FlatNext ==
  ASSUME NEW w, Len(w) \in Nat, NEW h, IsFlat(w, h), NEW i \in 1 .. Len(w), i # Len(w)
  PROVE  h[i + 1] = h[i] \o w[i + 1]
<1>1. PICK j : j = i + 1
  OBVIOUS
<1>2. j \in 1 .. Len(w) /\ j # 1 /\ j - 1 = i
  BY <1>1
<1>3. h[j] = h[j - 1] \o w[j]
  BY <1>2 DEF IsFlat
<1>4. QED
  BY <1>1, <1>2, <1>3, Zenon

LEMMA FramesFlat ==
  ASSUME NEW S, NEW w \in Seq(Seq(S)), w # << >>
  PROVE  \E h : FlattenSeq(w) = h[Len(w)] /\ IsFlat(w, h)
<1> DEFINE D == 1 .. Len(w)
           Flattens(h) == h = [i \in D |-> IF i = 1 THEN w[i] ELSE h[i - 1] \o w[i]]
           c == Frames(w)
<1>1. Len(w) \in Nat /\ Len(w) # 0 /\ \A i \in D : w[i] \in Seq(S)
  OBVIOUS
<1>2. FlattenSeq(w) = (CHOOSE h : Flattens(h))[Len(w)]
  BY <1>1 DEF FlattenSeq
<1>3. c.kind # "numbers" /\ c.base = << >> /\ \A x, v : Combined(c, x, v) = v \o w[x]
  BY DEF Frames, Combined
<1> HIDE DEF c
<1>4. PICK g : IsFold(c, D, g)
  BY <1>1, <1>3, InOrderFold
<1>5. g[{}] = << >> /\ \A k \in D : g[1 .. k] = g[1 .. k - 1] \o w[k]
  BY <1>1, <1>3, <1>4, Beginnings
<1> DEFINE f == [i \in D |-> g[1 .. i]]
<1>6. ASSUME NEW i \in D
      PROVE  f[i] = IF i = 1 THEN w[i] ELSE f[i - 1] \o w[i]
  <2>1. f[i] = g[1 .. i - 1] \o w[i]
    BY <1>5
  <2>2. CASE i = 1
    <3>1. 1 .. i - 1 = {}
      BY <2>2
    <3>2. f[i] = << >> \o w[i]
      BY <1>5, <2>1, <3>1
    <3>3. << >> \o w[i] = w[i]
      BY <1>1
    <3>4. QED
      BY <2>2, <3>2, <3>3
  <2>3. CASE i # 1
    <3>1. i - 1 \in D
      BY <1>1, <2>3
    <3>2. f[i - 1] = g[1 .. i - 1]
      BY <3>1
    <3>3. QED
      BY <2>1, <2>3, <3>2
  <2>4. QED
    BY <2>2, <2>3
<1>7. Flattens(f)
  <2>1. f = [i \in D |-> f[i]]
    OBVIOUS
  <2>2. [i \in D |-> f[i]] = [i \in D |-> IF i = 1 THEN w[i] ELSE f[i - 1] \o w[i]]
    BY <1>6
  <2>3. QED
    BY ONLY <2>1, <2>2
<1> HIDE DEF f, Flattens
<1>8. Flattens(CHOOSE h : Flattens(h))
  BY <1>7
<1>9. \A h : Flattens(h) => IsFlat(w, h)
  BY DEF Flattens, IsFlat
<1>10. QED
  BY <1>2, <1>8, <1>9

\* A fact about what comes next holds of every beginning if it holds of the first.
LEMMA FlatTyped ==
  ASSUME NEW S, NEW w \in Seq(Seq(S)), NEW h, IsFlat(w, h)
  PROVE  \A i \in 1 .. Len(w) : h[i] \in Seq(S)
<1> DEFINE Bad == {i \in 1 .. Len(w) : h[i] \notin Seq(S)}
<1>1. Len(w) \in Nat /\ \A i \in 1 .. Len(w) : w[i] \in Seq(S)
  OBVIOUS
<1> SUFFICES ASSUME Bad # {} PROVE FALSE
  OBVIOUS
<1>2. Bad \subseteq Nat
  BY <1>1
<1> HIDE DEF Bad
<1>3. PICK n \in Bad : \A k \in Bad : ~(k < n)
  BY <1>2, LeastNumber
<1>4. n \in 1 .. Len(w) /\ h[n] \notin Seq(S)
  BY <1>3 DEF Bad
<1>5. CASE n = 1
  BY <1>1, <1>4, <1>5 DEF IsFlat
<1>6. CASE n # 1
  <2>1. n - 1 \in 1 .. Len(w) /\ n - 1 < n
    BY <1>1, <1>4, <1>6
  <2>2. h[n - 1] \in Seq(S)
    BY <1>3, <2>1 DEF Bad
  <2>3. h[n - 1] \o w[n] \in Seq(S)
    BY <1>1, <1>4, <2>2
  <2>4. h[n] = h[n - 1] \o w[n]
    BY <1>4, <1>6 DEF IsFlat
  <2>5. QED
    BY <1>4, <2>3, <2>4
<1>7. QED
  BY <1>5, <1>6

\* The events that frames carry.
Load(w) == Len(FlattenSeq(w))

LEMMA NoLoad == Load(<< >>) = 0
BY DEF Load, FlattenSeq

LEMMA LoadIs ==
  ASSUME NEW S, NEW w \in Seq(Seq(S))
  PROVE  Load(w) \in Nat
<1>1. CASE w = << >>
  BY <1>1, NoLoad
<1>2. CASE w # << >>
  <2>1. PICK h : FlattenSeq(w) = h[Len(w)] /\ IsFlat(w, h)
    BY <1>2, FramesFlat
  <2>2. Len(w) \in 1 .. Len(w)
    BY <1>2
  <2>3. h[Len(w)] \in Seq(S)
    BY <2>1, <2>2, FlatTyped
  <2>4. QED
    BY <2>1, <2>3 DEF Load
<1>3. QED
  BY <1>1, <1>2

LEMMA LoadMore ==
  ASSUME NEW S, NEW w \in Seq(Seq(S)), NEW b \in Seq(S)
  PROVE  Load(Append(w, b)) = Load(w) + Len(b)
<1> DEFINE v == Append(w, b)
           n == Len(w)
<1>1. /\ v \in Seq(Seq(S)) /\ v # << >> /\ Len(v) = n + 1 /\ n \in Nat
      /\ v[n + 1] = b /\ \A i \in 1 .. n : v[i] = w[i]
  <2>1. w \in Seq(Seq(S)) /\ b \in Seq(S) /\ Len(w) \in Nat
    OBVIOUS
  <2>2. v \in Seq(Seq(S)) /\ Len(v) = Len(w) + 1
    BY <2>1
  <2>3. v[Len(w) + 1] = b /\ \A i \in 1 .. Len(w) : v[i] = w[i]
    BY <2>1
  <2>4. v # << >>
    BY <2>1, <2>2
  <2>5. QED
    BY <2>1, <2>2, <2>3, <2>4
<1> HIDE DEF v
<1>2. PICK g : FlattenSeq(v) = g[Len(v)] /\ IsFlat(v, g)
  BY <1>1, FramesFlat
<1>3. CASE w = << >>
  <2>1. g[1] = b
    BY <1>1, <1>2, <1>3 DEF IsFlat
  <2>2. Load(v) = Len(b)
    BY <1>1, <1>2, <1>3, <2>1 DEF Load
  <2>3. QED
    BY <1>3, <2>2, NoLoad DEF v
<1>4. CASE w # << >>
  <2>1. PICK h : FlattenSeq(w) = h[n] /\ IsFlat(w, h)
    BY <1>4, FramesFlat
  <2>2. n \in 1 .. n
    BY <1>1, <1>4
  <2> DEFINE Bad == {i \in 1 .. n : g[i] # h[i]}
  <2>3. Bad = {}
    <3> SUFFICES ASSUME Bad # {} PROVE FALSE
      OBVIOUS
    <3>1. Bad \subseteq Nat
      BY <1>1
    <3> HIDE DEF Bad
    <3>2. PICK k \in Bad : \A j \in Bad : ~(j < k)
      BY <3>1, LeastNumber
    <3>3. k \in 1 .. n /\ g[k] # h[k]
      BY <3>2 DEF Bad
    <3>4. k \in 1 .. Len(v) /\ v[k] = w[k]
      BY <1>1, <3>3
    <3>5. CASE k = 1
      BY <1>2, <2>1, <3>3, <3>4, <3>5 DEF IsFlat
    <3>6. CASE k # 1
      <4>1. k - 1 \in 1 .. n /\ k - 1 < k
        BY <1>1, <3>3, <3>6
      <4>2. g[k - 1] = h[k - 1]
        BY <3>2, <4>1 DEF Bad
      <4>3. g[k] = g[k - 1] \o v[k] /\ h[k] = h[k - 1] \o w[k]
        BY <1>2, <2>1, <3>3, <3>4, <3>6 DEF IsFlat
      <4>4. QED
        BY <3>3, <3>4, <4>2, <4>3
    <3>7. QED
      BY <3>5, <3>6
  <2>4. g[n] = h[n]
    BY <2>2, <2>3
  <2>5. n + 1 \in 1 .. Len(v) /\ n + 1 # 1 /\ n + 1 - 1 = n
    BY <1>1, <2>2
  <2>6. g[n + 1] = g[n] \o b
    <3>1. Len(v) \in Nat /\ n \in 1 .. Len(v) /\ n # Len(v)
      BY <1>1, <2>2
    <3>2. g[n + 1] = g[n] \o v[n + 1]
      BY <1>2, <3>1, FlatNext
    <3>3. QED
      BY <1>1, <3>2, Zenon
  <2>7. h[n] \in Seq(S)
    BY <2>1, <2>2, FlatTyped
  <2>8. Len(h[n] \o b) = Len(h[n]) + Len(b)
    BY <2>7
  <2>9. QED
    BY <1>1, <1>2, <2>1, <2>4, <2>6, <2>8 DEF Load, v
<1>5. QED
  BY <1>3, <1>4

LEMMA LoadLess ==
  ASSUME NEW S, NEW w \in Seq(Seq(S)), w # << >>
  PROVE  Load(w) = Load(Tail(w)) + Len(Head(w))
<1> DEFINE v == Tail(w)
           n == Len(v)
<1>1. /\ v \in Seq(Seq(S)) /\ Len(w) = n + 1 /\ n \in Nat
      /\ Head(w) = w[1] /\ \A i \in 1 .. n : v[i] = w[i + 1]
  OBVIOUS
<1>2. \A i \in 1 .. Len(w) : w[i] \in Seq(S)
  OBVIOUS
<1> HIDE DEF v
<1>3. PICK h : FlattenSeq(w) = h[Len(w)] /\ IsFlat(w, h)
  BY FramesFlat
<1>4. \A i \in 1 .. Len(w) : h[i] \in Seq(S)
  BY <1>3, FlatTyped
<1>5. 1 \in 1 .. Len(w) /\ h[1] = w[1]
  BY <1>1, <1>3 DEF IsFlat
<1>6. Len(w[1]) \in Nat
  BY <1>2, <1>5
<1>7. CASE n = 0
  <2>1. v = << >>
    BY <1>1, <1>7
  <2>2. Load(w) = Len(w[1])
    BY <1>1, <1>3, <1>5, <1>7 DEF Load
  <2>3. QED
    <3>1. Load(v) = 0
      BY <2>1, NoLoad
    <3>2. QED
      BY <1>1, <1>6, <2>2, <3>1 DEF v
<1>8. CASE n # 0
  <2>0. v # << >>
    BY <1>1, <1>8
  <2>1. PICK g : FlattenSeq(v) = g[n] /\ IsFlat(v, g)
    BY <1>1, <2>0, FramesFlat
  <2>2. \A i \in 1 .. n : g[i] \in Seq(S) /\ v[i] \in Seq(S)
    BY <1>1, <2>1, FlatTyped
  <2> DEFINE Bad == {i \in 1 .. n : Len(h[i + 1]) # Len(g[i]) + Len(w[1])}
  <2>3. Bad = {}
    <3> SUFFICES ASSUME Bad # {} PROVE FALSE
      OBVIOUS
    <3>0. \A i \in 1 .. n : i \in Nat
      BY <1>1
    <3>1. Bad \subseteq Nat
      BY <3>0
    <3> HIDE DEF Bad
    <3>2. PICK k \in Bad : \A j \in Bad : ~(j < k)
      BY <3>1, LeastNumber
    <3>3. k \in 1 .. n /\ Len(h[k + 1]) # Len(g[k]) + Len(w[1])
      BY <3>2 DEF Bad
    <3>4. k + 1 \in 1 .. Len(w) /\ k \in 1 .. Len(w) /\ k + 1 # 1 /\ k + 1 - 1 = k
      BY <1>1, <3>3
    <3>5. h[k + 1] = h[k] \o v[k]
      <4>1. Len(w) \in Nat /\ k \in 1 .. Len(w) /\ k # Len(w)
        BY <1>1, <3>3
      <4>2. h[k + 1] = h[k] \o w[k + 1]
        BY <1>3, <4>1, FlatNext
      <4>3. QED
        BY <1>1, <3>3, <4>2, Zenon
    <3>6. Len(h[k + 1]) = Len(h[k]) + Len(v[k])
      BY <1>4, <2>2, <3>3, <3>4, <3>5
    <3>7. Len(v[k]) \in Nat
      BY <2>2, <3>3
    <3>8. CASE k = 1
      <4>1. g[k] = v[k]
        BY <2>1, <3>3, <3>8 DEF IsFlat
      <4>2. h[k] = w[1]
        BY <1>5, <3>8
      <4>3. Len(h[k + 1]) = Len(g[k]) + Len(w[1])
        <5>1. Len(h[k + 1]) = Len(w[1]) + Len(g[k])
          BY <3>6, <4>1, <4>2, Zenon
        <5>2. Len(g[k]) \in Nat
          BY <3>7, <4>1, Zenon
        <5>3. \A x, y \in Nat : x + y = y + x
          OBVIOUS
        <5>4. QED
          BY <1>6, <5>1, <5>2, <5>3, Zenon
      <4>4. QED
        BY <3>3, <4>3
    <3>9. CASE k # 1
      <4>1. k - 1 \in 1 .. n /\ k - 1 < k /\ k - 1 + 1 = k
        BY <1>1, <3>3, <3>9
      <4>2. Len(h[k]) = Len(g[k - 1]) + Len(w[1])
        BY <3>2, <4>1 DEF Bad
      <4>3. g[k] = g[k - 1] \o v[k]
        BY <2>1, <3>3, <3>9 DEF IsFlat
      <4>4. Len(g[k]) = Len(g[k - 1]) + Len(v[k]) /\ Len(g[k - 1]) \in Nat
        BY <2>2, <3>3, <4>1, <4>3
      <4>5. Len(h[k + 1]) = Len(g[k]) + Len(w[1])
        <5>1. Len(h[k + 1]) = (Len(g[k - 1]) + Len(w[1])) + Len(v[k])
          BY <3>6, <4>2, Zenon
        <5>2. Len(g[k]) + Len(w[1]) = (Len(g[k - 1]) + Len(v[k])) + Len(w[1])
          BY <4>4, Zenon
        <5>3. \A x, y, z \in Nat : (x + y) + z = (x + z) + y
          OBVIOUS
        <5>4. QED
          BY <1>6, <3>7, <4>4, <5>1, <5>2, <5>3, Zenon
      <4>6. QED
        BY <3>3, <4>5
    <3>10. QED
      BY <3>8, <3>9
  <2>4. n \in 1 .. n
    BY <1>1, <1>8
  <2>5. Len(h[n + 1]) = Len(g[n]) + Len(w[1])
    BY <2>3, <2>4
  <2>6. QED
    BY <1>1, <1>3, <2>1, <2>5 DEF Load, v
<1>9. QED
  BY <1>7, <1>8

-----------------------------------------------------------------------------
Messages ==
  [phase : IF lean THEN Phases \ {"started"} ELSE Phases,
   key : Keys, worker : Monitors, label : Nat]

Places == {"none", "waiting", "submitted", "started", "retried", "left", "finished", "errored"}

WatchedTypes ==
  /\ lean \in BOOLEAN /\ closing \in BOOLEAN /\ begun \in Nat
  /\ task \in [Keys -> [at : Places, worker : Monitors, told : Places]]
  /\ buf \in [Monitors -> Seq(Messages)]
  /\ sender \in [Monitors ->
                   [pc : {"top", "send", "exited"}, batch : Seq(Messages), final : BOOLEAN]]
  /\ conn \in [Monitors -> {"none", "open", "dead"}]
  /\ wire \in [Monitors -> Seq(Seq(Messages))]

Counts ==
  /\ Counting(server)
  /\ emitted \in [Phases -> Int]
  /\ lost \in [Monitors -> Int]

\* A sender has a batch, and a connection it knows of, only while it sends.
Sending ==
  \A m \in Monitors :
    IF sender[m].pc = "send" THEN conn[m] # "none" ELSE sender[m].batch = << >>

\* Who is told of the end has nothing more to tell.
Over ==
  /\ closing => \A k \in Keys : Ended(k)
  /\ \A m \in Monitors :
       sender[m].pc = "exited" \/ (sender[m].pc = "send" /\ sender[m].final) =>
         closing /\ buf[m] = << >>

\* What a monitor has that is not counted yet.
Pending(m) == Len(buf[m]) + Len(sender[m].batch) + Load(wire[m])

Balance ==
  SumFunction(emitted) = Counted(server, lean) + SumFunction(lost)
    + SumFunction([m \in Monitors |-> Pending(m)])

WInv == WatchedTypes /\ Counts /\ Sending /\ Over /\ lost = excused /\ Balance

LEMMA FiniteMonitors ==
  DashboardAssumption => IsFiniteSet(Monitors) /\ QueueSize \in Nat \ {0}
<1> SUFFICES ASSUME DashboardAssumption
             PROVE  IsFiniteSet(Monitors) /\ QueueSize \in Nat \ {0}
  OBVIOUS
<1>1. IsFiniteSet(Workers) /\ QueueSize \in Nat \ {0}
  BY DEF DashboardAssumption
<1>2. QED
  BY <1>1, FS_AddElement DEF Monitors

LEMMA LengthsAre ==
  ASSUME NEW S, NEW b \in Seq(S), NEW c \in Seq(S), NEW w \in Seq(Seq(S))
  PROVE  /\ Len(b) \in Nat /\ Len(c) \in Nat /\ Load(w) \in Nat
         /\ Len(b) + Len(c) + Load(w) \in Int
<1>1. Load(w) \in Nat
  BY LoadIs
<1>2. Len(b) \in Nat /\ Len(c) \in Nat
  OBVIOUS
<1>3. QED
  BY ONLY <1>1, <1>2

\* A step of one monitor keeps the balance if what it adds to one side it adds to the other.
LEMMA Balanced ==
  ASSUME IsFiniteSet(Monitors), WatchedTypes, Counts, WatchedTypes', Counts', Balance,
         NEW m \in Monitors, NEW told \in Int,
         \A x \in Monitors : x # m => lost'[x] = lost[x] /\ Pending(x)' = Pending(x),
         SumFunction(emitted)' = SumFunction(emitted) + told,
         Counted(server, lean) \in Int, Counted(server, lean)' \in Int,
         told = (Counted(server, lean)' - Counted(server, lean)) + (lost'[m] - lost[m])
                  + (Pending(m)' - Pending(m))
  PROVE  Balance'
<1> DEFINE p == [x \in Monitors |-> Pending(x)]
           q == [x \in Monitors |-> Pending(x)']
           M == Monitors
<1>1. p \in [M -> Int] /\ q \in [M -> Int]
  <2>1. \A x \in M : Pending(x) \in Int
    <3> TAKE x \in M
    <3>1. buf[x] \in Seq(Messages) /\ sender[x].batch \in Seq(Messages) /\ wire[x] \in Seq(Seq(Messages))
      BY DEF WatchedTypes
    <3>2. QED
      BY <3>1, LengthsAre DEF Pending
  <2>2. \A x \in M : Pending(x)' \in Int
    <3> TAKE x \in M
    <3>1. /\ buf'[x] \in Seq(Messages') /\ sender'[x].batch \in Seq(Messages')
          /\ wire'[x] \in Seq(Seq(Messages'))
      BY DEF WatchedTypes
    <3>2. QED
      BY <3>1, LengthsAre DEF Pending
  <2>3. QED
    BY <2>1, <2>2
<1>2. q[m] = Pending(m)' /\ p[m] = Pending(m) /\ \A x \in M : x # m => q[x] = p[x]
  OBVIOUS
<1> HIDE DEF p, q
<1>3. /\ SumFunction(p) \in Int
      /\ SumFunction(q) = SumFunction(p) + (q[m] - p[m])
  BY <1>1, <1>2, SumChanges
<1>4. lost \in [M -> Int] /\ lost' \in [M -> Int]
  BY DEF Counts
<1>5. /\ SumFunction(lost) \in Int
      /\ SumFunction(lost') = SumFunction(lost) + (lost'[m] - lost[m])
  BY <1>4, SumChanges
<1>6. SumFunction(emitted) = Counted(server, lean) + SumFunction(lost)
        + SumFunction(p)
  BY DEF Balance, p
<1>7. lost[m] \in Int /\ lost'[m] \in Int /\ p[m] \in Int /\ q[m] \in Int
  BY <1>1, <1>4
<1>8. SumFunction(emitted)' = Counted(server, lean)' + SumFunction(lost')
        + SumFunction(q)
  BY <1>2, <1>3, <1>5, <1>6, <1>7
<1>9. QED
  BY <1>8 DEF Balance, q

TaskTypes == task \in [Keys -> [at : Places, worker : Monitors, told : Places]]

\* The runs go on and no monitor hears of it.
LEMMA Unheard ==
  ASSUME WInv,
         UNCHANGED <<lean, buf, sender, conn, wire, server, emitted, lost, excused>>,
         begun' \in Nat, TaskTypes', closing' \in BOOLEAN, closing => closing',
         closing' => \A k \in Keys : Ended(k)'
  PROVE  WInv'
<1>1. WatchedTypes /\ Counts /\ Sending /\ Over /\ lost = excused /\ Balance
  BY DEF WInv
<1>2. WatchedTypes'
  BY <1>1 DEF WatchedTypes, Messages, TaskTypes
<1>3. Counts' /\ Sending' /\ lost' = excused'
  BY <1>1 DEF Counts, Sending
<1>4. Over'
  BY <1>1 DEF Over
<1>5. Balance'
  <2>1. \A m \in Monitors : Pending(m)' = Pending(m)
    BY DEF Pending
  <2>2. [m \in Monitors |-> Pending(m)]' = [m \in Monitors |-> Pending(m)]
    BY <2>1
  <2>3. QED
    BY <1>1, <2>2 DEF Balance
<1>6. QED
  BY <1>2, <1>3, <1>4, <1>5 DEF WInv

LEMMA CountedInt == ASSUME NEW s, Counting(s), NEW a \in BOOLEAN PROVE Counted(s, a) \in Int
<1>1. Tellable([phase |-> "finished"], a)
  BY DEF Tellable, Phases
<1>2. QED
  BY <1>1, IngestCounts

\* An event is told: it waits in the buffer, or the oldest there is gone and that is excused.
LEMMA Emits ==
  ASSUME DashboardAssumption, WInv, NEW m \in Monitors, NEW phase1 \in Phases,
         lean => phase1 # "started", NEW k \in Keys, NEW label \in Nat,
         Emit(m, phase1, k, label),
         UNCHANGED <<closing, lean, begun, sender, conn, wire, server>>, TaskTypes', ~closing
  PROVE  WInv'
<1> DEFINE e == Event(phase1, k, m, label)
           full == Len(buf[m]) = QueueSize
           left == IF full THEN Tail(buf[m]) ELSE buf[m]
<1>1. WatchedTypes /\ Counts /\ Sending /\ Over /\ lost = excused /\ Balance
  BY DEF WInv
<1>2. IsFiniteSet(Monitors) /\ QueueSize \in Nat \ {0}
  BY FiniteMonitors
<1>3. /\ buf' = [buf EXCEPT ![m] = Append(left, e)]
      /\ lost' = IF full THEN [lost EXCEPT ![m] = @ + 1] ELSE lost
      /\ excused' = IF full THEN [excused EXCEPT ![m] = @ + 1] ELSE excused
      /\ emitted' = [emitted EXCEPT ![phase1] = @ + 1]
  BY DEF Emit
<1>4. e \in Messages /\ Messages' = Messages
  BY DEF Messages, Event
<1>5. buf[m] \in Seq(Messages) /\ Len(buf[m]) \in Nat
  BY <1>1 DEF WatchedTypes
<1>6. left \in Seq(Messages) /\ Len(left) = IF full THEN Len(buf[m]) - 1 ELSE Len(buf[m])
  <2>1. CASE full
    <3>1. buf[m] # << >>
      BY <1>2, <1>5, <2>1
    <3>2. Tail(buf[m]) \in Seq(Messages) /\ Len(Tail(buf[m])) = Len(buf[m]) - 1
      BY <1>5, <3>1
    <3>3. QED
      BY <2>1, <3>2
  <2>2. CASE ~full
    BY <1>5, <2>2
  <2>3. QED
    BY <2>1, <2>2
<1> HIDE DEF e, left
<1>7. Append(left, e) \in Seq(Messages) /\ Len(Append(left, e)) = Len(left) + 1
  BY <1>4, <1>6
<1>8. WatchedTypes'
  BY <1>1, <1>3, <1>4, <1>7 DEF WatchedTypes, TaskTypes
<1>9. lost \in [Monitors -> Int] /\ emitted \in [Phases -> Int] /\ Counting(server)
  BY <1>1 DEF Counts
<1>10. Counts'
  <2>1. lost' \in [Monitors -> Int]
    BY <1>3, <1>9
  <2>2. emitted' \in [Phases -> Int]
    BY <1>3, <1>9
  <2>3. QED
    BY <1>9, <2>1, <2>2 DEF Counts
<1>11. Sending' /\ lost' = excused'
  BY <1>1, <1>3 DEF Sending
<1>12. Over'
  BY <1>1 DEF Over
<1>13. Balance'
  <2>1. SumFunction(emitted') = SumFunction(emitted) + 1
    <3>1. /\ emitted' \in [Phases -> Int] /\ emitted'[phase1] = emitted[phase1] + 1
          /\ \A x \in Phases : x # phase1 => emitted'[x] = emitted[x]
          /\ emitted[phase1] \in Int
      BY <1>3, <1>9
    <3>2. /\ SumFunction(emitted) \in Int
          /\ SumFunction(emitted') = SumFunction(emitted) + (emitted'[phase1] - emitted[phase1])
      BY <1>9, <3>1, FourPhases, SumChanges
    <3>3. QED
      BY <3>1, <3>2
  <2>2. Counted(server, lean) \in Int /\ Counted(server, lean)' = Counted(server, lean)
    BY <1>1, <1>9, CountedInt DEF WatchedTypes
  <2>3. \A x \in Monitors : x # m => lost'[x] = lost[x] /\ Pending(x)' = Pending(x)
    BY <1>1, <1>3, <1>9 DEF Pending, WatchedTypes
  <2>4. /\ sender[m].batch \in Seq(Messages) /\ wire[m] \in Seq(Seq(Messages))
        /\ Len(sender[m].batch) \in Nat /\ Load(wire[m]) \in Nat
    <3>1. sender[m].batch \in Seq(Messages) /\ wire[m] \in Seq(Seq(Messages))
      BY <1>1 DEF WatchedTypes
    <3>2. QED
      BY <1>5, <3>1, LengthsAre
  <2>5. Pending(m)' = (Len(left) + 1) + Len(sender[m].batch) + Load(wire[m])
    <3>1. buf'[m] = Append(left, e)
      BY <1>1, <1>3 DEF WatchedTypes
    <3>2. QED
      BY <1>7, <3>1 DEF Pending
  <2>6. Pending(m) = Len(buf[m]) + Len(sender[m].batch) + Load(wire[m])
    BY DEF Pending
  <2>7. lost'[m] = (IF full THEN lost[m] + 1 ELSE lost[m]) /\ lost[m] \in Int
    BY <1>3, <1>9
  <2>8. 1 = (Counted(server, lean)' - Counted(server, lean)) + (lost'[m] - lost[m])
               + (Pending(m)' - Pending(m))
    <3>1. PICK c \in Int : c = Counted(server, lean)
      BY <2>2
    <3>2. PICK b \in Int : b = Len(buf[m])
      BY <1>5
    <3>3. PICK s \in Int : s = Len(sender[m].batch)
      BY ONLY <2>4
    <3>4. PICK w \in Int : w = Load(wire[m])
      BY ONLY <2>4
    <3>5. PICK l \in Int : l = lost[m]
      BY <2>7
    <3>6. CASE full
      <4>1. Len(left) = b - 1 /\ lost'[m] = l + 1
        BY <1>6, <2>7, <3>2, <3>5, <3>6, Zenon
      <4>2. 1 = (c - c) + ((l + 1) - l) + ((((b - 1) + 1) + s + w) - (b + s + w))
        BY ONLY TRUE
      <4>3. QED
        BY <2>2, <2>5, <2>6, <3>1, <3>2, <3>3, <3>4, <3>5, <4>1, <4>2, Zenon
    <3>7. CASE ~full
      <4>1. Len(left) = b /\ lost'[m] = l
        BY <1>6, <2>7, <3>2, <3>5, <3>7, Zenon
      <4>2. 1 = (c - c) + (l - l) + (((b + 1) + s + w) - (b + s + w))
        BY ONLY TRUE
      <4>3. QED
        BY <2>2, <2>5, <2>6, <3>1, <3>2, <3>3, <3>4, <3>5, <4>1, <4>2, Zenon
    <3>8. QED
      BY <3>6, <3>7, Zenon
  <2>9. QED
    BY <1>1, <1>2, <1>8, <1>10, <2>1, <2>2, <2>3, <2>8, Balanced
<1>14. QED
  BY <1>8, <1>10, <1>11, <1>12, <1>13 DEF WInv

\* A step of one monitor's that no monitor is told of.
LEMMA Settled ==
  ASSUME DashboardAssumption, WInv, NEW m \in Monitors, WatchedTypes', Counts',
         UNCHANGED <<lean, emitted>>,
         \A x \in Monitors : x # m => lost'[x] = lost[x] /\ Pending(x)' = Pending(x),
         Counted(server, lean)' + lost'[m] + Pending(m)' = Counted(server, lean) + lost[m] + Pending(m)
  PROVE  Balance'
<1>1. WatchedTypes /\ Counts /\ Balance
  BY DEF WInv
<1>2. IsFiniteSet(Monitors)
  BY FiniteMonitors
<1>3. SumFunction(emitted) \in Int
  <2>1. emitted \in [Phases -> Int] /\ "finished" \in Phases
    BY <1>1 DEF Counts, Phases
  <2>2. QED
    BY <2>1, FourPhases, SumChanges
<1>4. SumFunction(emitted)' = SumFunction(emitted) + 0
  BY <1>3
<1>5. Counted(server, lean) \in Int /\ Counted(server, lean)' \in Int
  <2>1. Counting(server) /\ Counting(server') /\ lean \in BOOLEAN
    BY <1>1 DEF Counts, WatchedTypes
  <2>2. QED
    BY <2>1, CountedInt
<1>6. lost[m] \in Int /\ lost'[m] \in Int
  BY <1>1 DEF Counts
<1>7. Pending(m) \in Int /\ Pending(m)' \in Int
  <2>1. Pending(m) \in Int
    <3>1. buf[m] \in Seq(Messages) /\ sender[m].batch \in Seq(Messages) /\ wire[m] \in Seq(Seq(Messages))
      BY <1>1 DEF WatchedTypes
    <3>2. QED
      BY <3>1, LengthsAre DEF Pending
  <2>2. Pending(m)' \in Int
    <3>1. /\ buf'[m] \in Seq(Messages') /\ sender'[m].batch \in Seq(Messages')
          /\ wire'[m] \in Seq(Seq(Messages'))
      BY <1>1 DEF WatchedTypes
    <3>2. QED
      BY <3>1, LengthsAre DEF Pending
  <2>3. QED
    BY <2>1, <2>2
<1>8. 0 = (Counted(server, lean)' - Counted(server, lean)) + (lost'[m] - lost[m])
            + (Pending(m)' - Pending(m))
  <2>1. PICK c \in Int : c = Counted(server, lean)
    BY <1>5
  <2>2. PICK d \in Int : d = Counted(server, lean)'
    BY <1>5
  <2>3. PICK p \in Int : p = Pending(m)
    BY <1>7
  <2>4. PICK q \in Int : q = Pending(m)'
    BY <1>7
  <2>5. PICK l \in Int : l = lost[m]
    BY <1>6
  <2>6. PICK n \in Int : n = lost'[m]
    BY <1>6
  <2>7. d + n + q = c + l + p
    BY <2>1, <2>2, <2>3, <2>4, <2>5, <2>6, Zenon
  <2>8. 0 = (d - c) + (n - l) + (q - p)
    BY ONLY <2>7
  <2>9. QED
    BY <2>1, <2>2, <2>3, <2>4, <2>5, <2>6, <2>8, Zenon
<1>9. 0 \in Int
  OBVIOUS
<1>10. QED
  BY <1>1, <1>2, <1>4, <1>5, <1>8, <1>9, Balanced

\* What one monitor holds.
LEMMA Holdings ==
  ASSUME WatchedTypes, NEW m \in Monitors
  PROVE  /\ buf[m] \in Seq(Messages) /\ sender[m].batch \in Seq(Messages)
         /\ wire[m] \in Seq(Seq(Messages)) /\ conn[m] \in {"none", "open", "dead"}
         /\ sender[m].pc \in {"top", "send", "exited"} /\ sender[m].final \in BOOLEAN
         /\ Len(buf[m]) \in Nat /\ Len(sender[m].batch) \in Nat /\ Load(wire[m]) \in Nat
<1>1. /\ buf[m] \in Seq(Messages) /\ sender[m].batch \in Seq(Messages)
      /\ wire[m] \in Seq(Seq(Messages)) /\ conn[m] \in {"none", "open", "dead"}
      /\ sender[m].pc \in {"top", "send", "exited"} /\ sender[m].final \in BOOLEAN
  BY DEF WatchedTypes
<1>2. QED
  BY <1>1, LengthsAre

LEMMA Drains ==
  ASSUME DashboardAssumption, WInv, NEW m \in Monitors, Drain(m)
  PROVE  WInv'
<1>1. WatchedTypes /\ Counts /\ Sending /\ Over /\ lost = excused
  BY DEF WInv
<1>2. /\ sender[m].pc = "top"
      /\ sender' = [sender EXCEPT ![m] = [pc |-> IF buf[m] = << >> THEN After(closing) ELSE "send",
                                          batch |-> buf[m], final |-> closing]]
      /\ buf' = [buf EXCEPT ![m] = << >>]
      /\ conn' = [conn EXCEPT ![m] = IF @ = "none" /\ buf[m] # << >> THEN "open" ELSE @]
      /\ UNCHANGED <<closing, lean, plan, task, begun, retries, breaks, wire, server, emitted, lost, excused>>
      /\ buf[m] # << >> \/ closing
  BY DEF Drain, Ticks, run
<1>3. /\ buf[m] \in Seq(Messages) /\ conn[m] \in {"none", "open", "dead"}
      /\ Len(buf[m]) \in Nat /\ Load(wire[m]) \in Nat
  BY <1>1, Holdings
<1>4. << >> \in Seq(Messages) /\ Messages' = Messages
  BY <1>2 DEF Messages
<1>5. WatchedTypes'
  BY <1>1, <1>2, <1>3, <1>4 DEF WatchedTypes, After
<1>6. Counts'
  BY <1>1, <1>2 DEF Counts
<1>7. Sending'
  BY <1>1, <1>2, <1>3 DEF Sending, WatchedTypes, After
<1>8. Over'
  <2>1. closing' => \A k \in Keys : Ended(k)'
    BY <1>1, <1>2 DEF Over, Ended
  <2>2. ASSUME NEW x \in Monitors,
               sender'[x].pc = "exited" \/ (sender'[x].pc = "send" /\ sender'[x].final)
        PROVE  closing' /\ buf'[x] = << >>
    BY <1>1, <1>2, <2>2 DEF Over, WatchedTypes, After
  <2>3. QED
    BY <2>1, <2>2 DEF Over
<1>9. Balance'
  <2>1. \A x \in Monitors : x # m => lost'[x] = lost[x] /\ Pending(x)' = Pending(x)
    BY <1>1, <1>2 DEF Pending, WatchedTypes
  <2>2. sender[m].batch = << >>
    BY <1>1, <1>2 DEF Sending
  <2>3. buf'[m] = << >> /\ sender'[m].batch = buf[m] /\ wire'[m] = wire[m]
    BY <1>1, <1>2 DEF WatchedTypes
  <2>4. Pending(m)' = Pending(m)
    <3>1. Len(<< >>) = 0
      OBVIOUS
    <3>2. Pending(m)' = 0 + Len(buf[m]) + Load(wire[m]) /\ Pending(m) = Len(buf[m]) + 0 + Load(wire[m])
      BY <2>2, <2>3, <3>1, Zenon DEF Pending
    <3>3. QED
      BY <1>3, <3>2
  <2>5. Counted(server, lean)' = Counted(server, lean) /\ lost'[m] = lost[m]
    BY <1>2
  <2>6. QED
    BY <1>2, <1>5, <1>6, <2>1, <2>4, <2>5, Settled
<1>10. QED
  BY <1>1, <1>2, <1>5, <1>6, <1>7, <1>8, <1>9 DEF WInv

\* The senders' threads.
Threads(S) == [pc : {"top", "send", "exited"}, batch : Seq(S), final : BOOLEAN]

\* One of them that is done with its batch.
LEMMA Emptied ==
  ASSUME NEW M, NEW S, NEW f \in [M -> Threads(S)], NEW m \in M, NEW p \in {"top", "send", "exited"}
  PROVE  [f EXCEPT ![m].pc = p, ![m].batch = << >>] \in [M -> Threads(S)]
<1>1. f[m] \in Threads(S) /\ << >> \in Seq(S)
  OBVIOUS
<1>2. [f[m] EXCEPT !.pc = p, !.batch = << >>] \in Threads(S)
  BY <1>1 DEF Threads
<1>3. [f EXCEPT ![m].pc = p, ![m].batch = << >>]
        = [f EXCEPT ![m] = [f[m] EXCEPT !.pc = p, !.batch = << >>]]
  OBVIOUS
<1>4. QED
  BY ONLY <1>2, <1>3, f \in [M -> Threads(S)], m \in M

LEMMA Sends ==
  ASSUME DashboardAssumption, WInv, NEW m \in Monitors, Send(m)
  PROVE  WInv'
<1>1. WatchedTypes /\ Counts /\ Sending /\ Over /\ lost = excused
  BY DEF WInv
<1> DEFINE b == sender[m].batch
<1>2. /\ sender[m].pc = "send" /\ conn[m] # "dead"
      /\ sender' = [sender EXCEPT ![m].pc = After(sender[m].final), ![m].batch = << >>]
      /\ UNCHANGED <<closing, lean, plan, task, begun, retries, breaks, buf, conn, server, emitted, excused>>
      /\ IF conn[m] = "open" /\ b # << >>
         THEN wire' = [wire EXCEPT ![m] = Append(@, b)] /\ UNCHANGED lost
         ELSE lost' = [lost EXCEPT ![m] = @ + Len(b)] /\ UNCHANGED wire
  BY DEF Send, SenderGoes, run
<1>3. conn[m] = "open"
  BY <1>1, <1>2, Holdings DEF Sending
<1>4. /\ b \in Seq(Messages) /\ wire[m] \in Seq(Seq(Messages))
      /\ Len(b) \in Nat /\ Len(buf[m]) \in Nat /\ Load(wire[m]) \in Nat
  BY <1>1, Holdings
<1>5. << >> \in Seq(Messages) /\ Messages' = Messages /\ Append(wire[m], b) \in Seq(Seq(Messages))
  BY <1>2, <1>4 DEF Messages
<1>6. lost' = lost
  <2>1. CASE b = << >>
    <3>1. Len(b) = 0
      BY <2>1
    <3>2. lost' = [lost EXCEPT ![m] = @ + 0]
      BY <1>2, <2>1, <3>1, Zenon
    <3>3. QED
      BY <1>1, <3>2 DEF Counts
  <2>2. CASE b # << >>
    BY <1>2, <1>3, <2>2
  <2>3. QED
    BY <2>1, <2>2
<1>7. sender'[m] = [pc |-> After(sender[m].final), batch |-> << >>, final |-> sender[m].final]
  BY <1>1, <1>2 DEF WatchedTypes
<1>8. wire' = IF b # << >> THEN [wire EXCEPT ![m] = Append(@, b)] ELSE wire
  BY <1>2, <1>3
<1>9. WatchedTypes'
  <2>1. wire' \in [Monitors -> Seq(Seq(Messages'))]
    BY <1>1, <1>5, <1>8 DEF WatchedTypes
  <2>2. sender' \in [Monitors ->
                       [pc : {"top", "send", "exited"}, batch : Seq(Messages'), final : BOOLEAN]]
    <3>1. After(sender[m].final) \in {"top", "send", "exited"}
      BY DEF After
    <3>2. sender \in [Monitors -> Threads(Messages)]
      BY <1>1 DEF WatchedTypes, Threads
    <3>3. sender' \in [Monitors -> Threads(Messages)]
      BY <1>2, <3>1, <3>2, Emptied
    <3>4. QED
      BY <1>5, <3>3, Zenon DEF Threads
  <2>3. QED
    BY <1>1, <1>2, <1>5, <2>1, <2>2 DEF WatchedTypes
<1>10. Counts'
  BY <1>1, <1>2, <1>6 DEF Counts
<1>11. Sending'
  BY <1>1, <1>2 DEF Sending, WatchedTypes, After
<1>12. Over'
  <2>1. closing' => \A k \in Keys : Ended(k)'
    BY <1>1, <1>2 DEF Over, Ended
  <2>2. ASSUME NEW x \in Monitors,
               sender'[x].pc = "exited" \/ (sender'[x].pc = "send" /\ sender'[x].final)
        PROVE  closing' /\ buf'[x] = << >>
    BY <1>1, <1>2, <2>2 DEF Over, WatchedTypes, After
  <2>3. QED
    BY <2>1, <2>2 DEF Over
<1>13. Balance'
  <2>1. \A x \in Monitors : x # m => lost'[x] = lost[x] /\ Pending(x)' = Pending(x)
    BY <1>1, <1>2, <1>6, <1>8 DEF Pending, WatchedTypes
  <2>2. buf'[m] = buf[m] /\ sender'[m].batch = << >>
    BY <1>2, <1>7
  <2>3. Load(wire'[m]) = Load(wire[m]) + Len(b)
    <3>1. CASE b = << >>
      <4>1. Len(b) = 0
        BY <3>1
      <4>2. wire'[m] = wire[m]
        BY <1>8, <3>1
      <4>3. QED
        BY <1>4, <4>1, <4>2
    <3>2. CASE b # << >>
      <4>1. wire'[m] = Append(wire[m], b)
        BY <1>1, <1>8, <3>2 DEF WatchedTypes
      <4>2. QED
        BY <1>4, <4>1, LoadMore
    <3>3. QED
      BY <3>1, <3>2
  <2>4. Pending(m)' = Pending(m)
    <3>1. Len(<< >>) = 0
      OBVIOUS
    <3>2. Pending(m)' = Len(buf[m]) + 0 + (Load(wire[m]) + Len(b))
      BY <2>2, <2>3, <3>1, Zenon DEF Pending
    <3>3. Pending(m) = Len(buf[m]) + Len(b) + Load(wire[m])
      BY DEF Pending
    <3>4. PICK x \in Nat : x = Len(buf[m])
      BY <1>4
    <3>5. PICK y \in Nat : y = Len(b)
      BY <1>4
    <3>6. PICK z \in Nat : z = Load(wire[m])
      BY <1>4
    <3>7. x + 0 + (z + y) = x + y + z
      BY ONLY TRUE
    <3>8. QED
      BY <3>2, <3>3, <3>4, <3>5, <3>6, <3>7, Zenon
  <2>5. Counted(server, lean)' = Counted(server, lean) /\ lost'[m] = lost[m]
    BY <1>2, <1>6
  <2>6. QED
    BY <1>2, <1>9, <1>10, <2>1, <2>4, <2>5, Settled
<1>14. QED
  BY <1>1, <1>2, <1>6, <1>9, <1>10, <1>11, <1>12, <1>13 DEF WInv

\* What a monitor held somewhere is dropped there, and excused.
LEMMA Drops ==
  ASSUME DashboardAssumption, WInv, NEW m \in Monitors, NEW n \in Nat,
         lost' = [lost EXCEPT ![m] = @ + n], excused' = [excused EXCEPT ![m] = @ + n],
         UNCHANGED <<closing, lean, task, server, emitted>>,
         WatchedTypes', Sending', Over',
         \A x \in Monitors : x # m => Pending(x)' = Pending(x),
         Pending(m)' + n = Pending(m), Pending(m)' \in Int
  PROVE  WInv'
<1>1. WatchedTypes /\ Counts /\ Sending /\ Over /\ lost = excused
  BY DEF WInv
<1>2. lost' = excused'
  BY <1>1
<1>3. lost \in [Monitors -> Int]
  BY <1>1 DEF Counts
<1>4. lost' \in [Monitors -> Int] /\ lost'[m] = lost[m] + n /\ lost[m] \in Int
      /\ \A x \in Monitors : x # m => lost'[x] = lost[x]
  BY <1>3
<1>5. Counts'
  BY <1>1, <1>4 DEF Counts
<1>6. Counted(server, lean) \in Int /\ Counted(server, lean)' = Counted(server, lean)
  <2>1. Counting(server) /\ lean \in BOOLEAN
    BY <1>1 DEF Counts, WatchedTypes
  <2>2. QED
    BY <2>1, CountedInt
<1>7. Counted(server, lean)' + lost'[m] + Pending(m)' = Counted(server, lean) + lost[m] + Pending(m)
  <2>1. PICK c \in Int : c = Counted(server, lean)
    BY <1>6
  <2>2. PICK q \in Int : q = Pending(m)'
    OBVIOUS
  <2>3. PICK l \in Int : l = lost[m]
    BY <1>4
  <2>4. c + (l + n) + q = c + l + (q + n)
    BY ONLY TRUE
  <2>5. QED
    BY <1>4, <1>6, <2>1, <2>2, <2>3, <2>4, Zenon
<1>8. Balance'
  BY <1>4, <1>5, <1>7, Settled
<1>9. QED
  BY <1>2, <1>5, <1>8 DEF WInv

LEMMA SendFailing ==
  ASSUME DashboardAssumption, WInv, NEW m \in Monitors, SendFails(m)
  PROVE  WInv'
<1>1. WatchedTypes /\ Sending /\ Over
  BY DEF WInv
<1> DEFINE b == sender[m].batch
<1>2. /\ sender[m].pc = "send"
      /\ sender' = [sender EXCEPT ![m].pc = After(sender[m].final), ![m].batch = << >>]
      /\ conn' = [conn EXCEPT ![m] = "none"]
      /\ lost' = [lost EXCEPT ![m] = @ + Len(b)] /\ excused' = [excused EXCEPT ![m] = @ + Len(b)]
      /\ UNCHANGED <<closing, lean, plan, task, begun, retries, breaks, buf, wire, server, emitted>>
  BY DEF SendFails, SenderGoes, run
<1>3. Len(b) \in Nat /\ Len(buf[m]) \in Nat /\ Load(wire[m]) \in Nat
  BY <1>1, Holdings
<1>4. << >> \in Seq(Messages) /\ Messages' = Messages
  BY <1>2 DEF Messages
<1>5. WatchedTypes'
  <2>1. After(sender[m].final) \in {"top", "send", "exited"}
    BY DEF After
  <2>2. sender \in [Monitors -> Threads(Messages)]
    BY <1>1 DEF WatchedTypes, Threads
  <2>3. sender' \in [Monitors -> Threads(Messages)]
    BY <1>2, <2>1, <2>2, Emptied
  <2>4. sender' \in [Monitors ->
                       [pc : {"top", "send", "exited"}, batch : Seq(Messages'), final : BOOLEAN]]
    BY <1>4, <2>3, Zenon DEF Threads
  <2>5. QED
    BY <1>1, <1>2, <1>4, <2>4 DEF WatchedTypes
<1>6. Sending'
  BY <1>1, <1>2 DEF Sending, WatchedTypes, After
<1>7. Over'
  <2>1. closing' => \A k \in Keys : Ended(k)'
    BY <1>1, <1>2 DEF Over, Ended
  <2>2. ASSUME NEW x \in Monitors,
               sender'[x].pc = "exited" \/ (sender'[x].pc = "send" /\ sender'[x].final)
        PROVE  closing' /\ buf'[x] = << >>
    BY <1>1, <1>2, <2>2 DEF Over, WatchedTypes, After
  <2>3. QED
    BY <2>1, <2>2 DEF Over
<1>8. \A x \in Monitors : x # m => Pending(x)' = Pending(x)
  BY <1>1, <1>2 DEF Pending, WatchedTypes
<1>9. Pending(m)' = Len(buf[m]) + 0 + Load(wire[m])
  <2>1. buf'[m] = buf[m] /\ sender'[m].batch = << >> /\ wire'[m] = wire[m]
    BY <1>1, <1>2 DEF WatchedTypes
  <2>2. Len(<< >>) = 0
    OBVIOUS
  <2>3. QED
    BY <2>1, <2>2, Zenon DEF Pending
<1>10. Pending(m)' + Len(b) = Pending(m) /\ Pending(m)' \in Int
  <2>1. PICK x \in Nat : x = Len(buf[m])
    BY <1>3
  <2>2. PICK y \in Nat : y = Len(b)
    BY <1>3
  <2>3. PICK z \in Nat : z = Load(wire[m])
    BY <1>3
  <2>4. x + 0 + z + y = x + y + z /\ x + 0 + z \in Int
    BY ONLY TRUE
  <2>5. Pending(m)' = x + 0 + z /\ Pending(m) = x + y + z
    BY <1>9, <2>1, <2>2, <2>3, Zenon DEF Pending
  <2>6. QED
    BY <2>2, <2>4, <2>5, Zenon
<1>11. QED
  BY <1>2, <1>3, <1>5, <1>6, <1>7, <1>8, <1>10, Drops

LEMMA ConnectFailing ==
  ASSUME DashboardAssumption, WInv, NEW m \in Monitors, ConnectFails(m)
  PROVE  WInv'
<1>1. WatchedTypes /\ Sending /\ Over
  BY DEF WInv
<1> DEFINE b == buf[m]
<1>2. /\ sender[m].pc = "top"
      /\ sender' = [sender EXCEPT ![m].pc = After(closing), ![m].batch = << >>]
      /\ buf' = [buf EXCEPT ![m] = << >>]
      /\ lost' = [lost EXCEPT ![m] = @ + Len(b)] /\ excused' = [excused EXCEPT ![m] = @ + Len(b)]
      /\ UNCHANGED <<closing, lean, plan, task, begun, retries, conn, wire, server, emitted>>
  BY DEF ConnectFails, Ticks, SenderGoes, run
<1>3. Len(b) \in Nat /\ Load(wire[m]) \in Nat
  BY <1>1, Holdings
<1>4. << >> \in Seq(Messages) /\ Messages' = Messages
  BY <1>2 DEF Messages
<1>5. WatchedTypes'
  <2>1. After(closing) \in {"top", "send", "exited"}
    BY DEF After
  <2>2. buf' \in [Monitors -> Seq(Messages')]
    BY <1>1, <1>2, <1>4 DEF WatchedTypes
  <2>3. sender' \in [Monitors ->
                       [pc : {"top", "send", "exited"}, batch : Seq(Messages'), final : BOOLEAN]]
    <3>1. sender \in [Monitors -> Threads(Messages)]
      BY <1>1 DEF WatchedTypes, Threads
    <3>2. sender' \in [Monitors -> Threads(Messages)]
      BY <1>2, <2>1, <3>1, Emptied
    <3>3. QED
      BY <1>4, <3>2, Zenon DEF Threads
  <2>4. QED
    BY <1>1, <1>2, <1>4, <2>2, <2>3 DEF WatchedTypes
<1>6. Sending'
  BY <1>1, <1>2 DEF Sending, WatchedTypes, After
<1>7. Over'
  <2>1. closing' => \A k \in Keys : Ended(k)'
    BY <1>1, <1>2 DEF Over, Ended
  <2>2. ASSUME NEW x \in Monitors,
               sender'[x].pc = "exited" \/ (sender'[x].pc = "send" /\ sender'[x].final)
        PROVE  closing' /\ buf'[x] = << >>
    BY <1>1, <1>2, <2>2 DEF Over, WatchedTypes, After
  <2>3. QED
    BY <2>1, <2>2 DEF Over
<1>8. \A x \in Monitors : x # m => Pending(x)' = Pending(x)
  BY <1>1, <1>2 DEF Pending, WatchedTypes
<1>9. Pending(m)' = 0 + 0 + Load(wire[m]) /\ Pending(m) = Len(b) + 0 + Load(wire[m])
  <2>1. buf'[m] = << >> /\ sender'[m].batch = << >> /\ wire'[m] = wire[m]
    BY <1>1, <1>2 DEF WatchedTypes
  <2>2. sender[m].batch = << >>
    BY <1>1, <1>2 DEF Sending
  <2>3. Len(<< >>) = 0
    OBVIOUS
  <2>4. QED
    BY <2>1, <2>2, <2>3, Zenon DEF Pending
<1>10. Pending(m)' + Len(b) = Pending(m) /\ Pending(m)' \in Int
  <2>1. PICK y \in Nat : y = Len(b)
    BY <1>3
  <2>2. PICK z \in Nat : z = Load(wire[m])
    BY <1>3
  <2>3. 0 + 0 + z + y = y + 0 + z /\ 0 + 0 + z \in Int
    BY ONLY TRUE
  <2>4. Pending(m)' = 0 + 0 + z /\ Pending(m) = y + 0 + z
    BY <1>9, <2>1, <2>2, Zenon
  <2>5. QED
    BY <2>1, <2>3, <2>4, Zenon
<1>11. QED
  BY <1>2, <1>3, <1>5, <1>6, <1>7, <1>8, <1>10, Drops

LEMMA Breaking ==
  ASSUME DashboardAssumption, WInv, NEW m \in Monitors, Break(m)
  PROVE  WInv'
<1>1. WatchedTypes /\ Sending /\ Over
  BY DEF WInv
<1> DEFINE n == Load(wire[m])
<1>2. /\ conn[m] = "open" /\ conn' = [conn EXCEPT ![m] = "dead"]
      /\ wire' = [wire EXCEPT ![m] = << >>]
      /\ lost' = [lost EXCEPT ![m] = @ + n] /\ excused' = [excused EXCEPT ![m] = @ + n]
      /\ UNCHANGED <<closing, lean, plan, task, begun, retries, buf, sender, server, emitted>>
  BY DEF Break, Carried, run, Load
<1>3. Len(buf[m]) \in Nat /\ Len(sender[m].batch) \in Nat /\ n \in Nat
  BY <1>1, Holdings
<1>4. << >> \in Seq(Seq(Messages)) /\ Messages' = Messages
  BY <1>2 DEF Messages
<1> HIDE DEF n
<1>5. WatchedTypes'
  BY <1>1, <1>2, <1>4 DEF WatchedTypes
<1>6. Sending'
  BY <1>1, <1>2 DEF Sending, WatchedTypes
<1>7. Over'
  BY <1>1, <1>2 DEF Over, Ended
<1>8. \A x \in Monitors : x # m => Pending(x)' = Pending(x)
  BY <1>1, <1>2 DEF Pending, WatchedTypes
<1>9. /\ Pending(m)' = Len(buf[m]) + Len(sender[m].batch) + 0
      /\ Pending(m) = Len(buf[m]) + Len(sender[m].batch) + n
  <2>1. wire'[m] = << >>
    BY <1>1, <1>2 DEF WatchedTypes
  <2>2. QED
    BY <1>2, <2>1, NoLoad, Zenon DEF Pending, n
<1>10. Pending(m)' + n = Pending(m) /\ Pending(m)' \in Int
  <2>1. PICK x \in Nat : x = Len(buf[m])
    BY <1>3
  <2>2. PICK y \in Nat : y = Len(sender[m].batch)
    BY <1>3
  <2>3. PICK z \in Nat : z = n
    BY <1>3
  <2>4. x + y + 0 + z = x + y + z /\ x + y + 0 \in Int
    BY ONLY TRUE
  <2>5. Pending(m)' = x + y + 0 /\ Pending(m) = x + y + z
    BY <1>9, <2>1, <2>2, <2>3, Zenon
  <2>6. QED
    BY <2>3, <2>4, <2>5, Zenon
<1>11. QED
  BY <1>2, <1>3, <1>5, <1>6, <1>7, <1>8, <1>10, Drops

LEMMA Ingests ==
  ASSUME DashboardAssumption, WInv, NEW m \in Monitors, Ingest(m)
  PROVE  WInv'
<1>1. WatchedTypes /\ Counts /\ Sending /\ Over /\ lost = excused
  BY DEF WInv
<1> DEFINE frame == Head(wire[m])
<1>2. /\ wire[m] # << >> /\ wire' = [wire EXCEPT ![m] = Tail(@)]
      /\ server' = TakenIn(server, frame, lean)
      /\ UNCHANGED <<closing, lean, plan, task, begun, retries, breaks, buf, sender, conn, emitted, lost, excused>>
  <2>1. server' = TakenIn(server, frame, lean)
    BY Zenon DEF Ingest, TakenIn
  <2>2. QED
    BY <2>1 DEF Ingest, run
<1>3. wire[m] \in Seq(Seq(Messages)) /\ Len(buf[m]) \in Nat /\ Len(sender[m].batch) \in Nat
  BY <1>1, Holdings
<1>4. frame \in Seq(Messages) /\ Tail(wire[m]) \in Seq(Seq(Messages)) /\ Messages' = Messages
  BY <1>2, <1>3 DEF Messages
<1>5. Len(frame) \in Nat /\ Load(Tail(wire[m])) \in Nat
      /\ Load(wire[m]) = Load(Tail(wire[m])) + Len(frame)
  <2>1. Len(frame) \in Nat
    BY <1>4
  <2>2. Load(Tail(wire[m])) \in Nat
    BY <1>4, LoadIs
  <2>3. Load(wire[m]) = Load(Tail(wire[m])) + Len(frame)
    BY <1>2, <1>3, LoadLess
  <2>4. QED
    BY <2>1, <2>2, <2>3
<1> HIDE DEF frame
<1>6. \A i \in 1 .. Len(frame) : Tellable(frame[i], lean)
  <2>1. \A e \in Messages : Tellable(e, lean)
    BY DEF Messages, Tellable
  <2>2. QED
    BY <1>4, <2>1
<1>7. lean \in BOOLEAN /\ Counting(server)
  BY <1>1 DEF WatchedTypes, Counts
<1>8. /\ Counting(server') /\ Counted(server, lean) \in Int
      /\ Counted(server, lean)' = Counted(server, lean) + Len(frame)
  <2>1. /\ Counting(TakenIn(server, frame, lean)) /\ Counted(server, lean) \in Int
        /\ Counted(TakenIn(server, frame, lean), lean) = Counted(server, lean) + Len(frame)
    BY <1>4, <1>6, <1>7, FrameCounts
  <2>2. Counted(server, lean)' = Counted(TakenIn(server, frame, lean), lean)
    BY ONLY <1>2
  <2>3. QED
    BY <1>2, <2>1, <2>2, Zenon
<1>9. WatchedTypes'
  BY <1>1, <1>2, <1>4 DEF WatchedTypes
<1>10. Counts'
  BY <1>1, <1>2, <1>8 DEF Counts
<1>11. Sending'
  BY <1>1, <1>2 DEF Sending
<1>12. Over'
  BY <1>1, <1>2 DEF Over, Ended
<1>13. Balance'
  <2>1. \A x \in Monitors : x # m => lost'[x] = lost[x] /\ Pending(x)' = Pending(x)
    BY <1>1, <1>2 DEF Pending, WatchedTypes
  <2>2. lost'[m] = lost[m] /\ lost[m] \in Int
    BY <1>1, <1>2 DEF Counts
  <2>3. PICK x \in Nat : x = Len(buf[m])
    BY <1>3
  <2>4. PICK y \in Nat : y = Len(sender[m].batch)
    BY <1>3
  <2>5. PICK z \in Nat : z = Load(Tail(wire[m]))
    BY <1>5
  <2>6. PICK n \in Nat : n = Len(frame)
    BY <1>5
  <2>7. PICK c \in Int : c = Counted(server, lean)
    BY <1>8
  <2>8. PICK l \in Int : l = lost[m]
    BY <2>2
  <2>9. Pending(m) = x + y + (z + n)
    BY <1>5, <2>3, <2>4, <2>5, <2>6, Zenon DEF Pending
  <2>10. Pending(m)' = x + y + z
    <3>1. buf'[m] = buf[m] /\ sender'[m].batch = sender[m].batch /\ wire'[m] = Tail(wire[m])
      BY <1>1, <1>2 DEF WatchedTypes
    <3>2. QED
      BY <2>3, <2>4, <2>5, <3>1, Zenon DEF Pending
  <2>11. (c + n) + l + (x + y + z) = c + l + (x + y + (z + n))
    BY ONLY TRUE
  <2>12. Counted(server, lean)' + lost'[m] + Pending(m)' = Counted(server, lean) + lost[m] + Pending(m)
    BY <1>8, <2>2, <2>6, <2>7, <2>8, <2>9, <2>10, <2>11, Zenon
  <2>13. QED
    BY <1>2, <1>9, <1>10, <2>1, <2>12, Settled
<1>14. QED
  BY <1>1, <1>2, <1>9, <1>10, <1>11, <1>12, <1>13 DEF WInv

\* The runs' own steps.
LEMMA Runs ==
  ASSUME DashboardAssumption, WInv, RunStep \/ CloseMonitors
  PROVE  WInv'
<1>1. WatchedTypes /\ Over
  BY DEF WInv
<1>2. /\ lean \in BOOLEAN /\ closing \in BOOLEAN /\ begun \in Nat /\ TaskTypes
      /\ closing => \A k \in Keys : Ended(k)
  BY <1>1 DEF WatchedTypes, TaskTypes, Over
<1>3. ASSUME Begin PROVE WInv'
  <2>1. /\ ~closing /\ begun' = begun + 1
        /\ task' = [k \in Keys |-> IF k \in plan THEN Unborn ELSE task[k]]
        /\ UNCHANGED <<closing, lean, buf, sender, conn, wire, server, emitted, lost, excused>>
    BY <1>3 DEF Begin
  <2>2. TaskTypes' /\ begun' \in Nat
    BY <1>2, <2>1 DEF TaskTypes, Unborn, Places, Monitors
  <2>3. QED
    BY <1>2, <2>1, <2>2, Unheard
<1>4. ASSUME Interrupt PROVE WInv'
  <2>1. /\ \E k \in Keys : task[k].at = "submitted"
        /\ task' = [k \in Keys |-> IF task[k].at = "submitted" THEN [task[k] EXCEPT !.at = "left"]
                                                              ELSE task[k]]
        /\ UNCHANGED <<begun, closing, lean, buf, sender, conn, wire, server, emitted, lost, excused>>
    BY <1>4 DEF Interrupt
  <2>2. TaskTypes'
    BY <1>2, <2>1 DEF TaskTypes, Places
  <2>3. ~closing
    BY <1>2, <2>1 DEF Ended
  <2>4. QED
    BY <1>2, <2>1, <2>2, <2>3, Unheard
<1>5. ASSUME NEW k \in Keys, SubmitTask(k) PROVE WInv'
  <2>1. /\ task[k].at = "waiting"
        /\ task' = [task EXCEPT ![k].at = "submitted", ![k].told = "submitted"]
        /\ Emit(Driver, "submitted", k, begun)
        /\ UNCHANGED <<closing, lean, begun, sender, conn, wire, server>>
    BY <1>5 DEF SubmitTask
  <2>2. TaskTypes'
    BY <1>2, <2>1 DEF TaskTypes, Places
  <2>3. ~closing /\ Driver \in Monitors /\ "submitted" \in Phases
    BY <1>2, <2>1 DEF Ended, Monitors, Phases
  <2>4. QED
    BY <1>2, <2>1, <2>2, <2>3, Emits
<1>6. ASSUME NEW k \in Keys, Retry(k) PROVE WInv'
  <2>1. /\ task[k].at = "errored" /\ ~closing /\ task' = [task EXCEPT ![k].at = "retried"]
        /\ UNCHANGED <<begun, closing, lean, buf, sender, conn, wire, server, emitted, lost, excused>>
    BY <1>6 DEF Retry
  <2>2. TaskTypes'
    BY <1>2, <2>1 DEF TaskTypes, Places
  <2>3. QED
    BY <1>2, <2>1, <2>2, Unheard
<1>7. ASSUME NEW k \in Keys, NEW w \in Workers, StartOn(k, w) PROVE WInv'
  <2>1. /\ task[k].at \in {"submitted", "retried"}
        /\ UNCHANGED <<closing, lean, begun, sender, conn, wire, server>>
        /\ IF lean
           THEN /\ task' = [task EXCEPT ![k].at = "started", ![k].worker = w]
                /\ UNCHANGED <<buf, lost, excused, emitted>>
           ELSE /\ task' = [task EXCEPT ![k] = [at |-> "started", worker |-> w, told |-> "started"]]
                /\ Emit(w, "started", k, begun)
    BY <1>7 DEF StartOn
  <2>2. w \in Monitors /\ ~closing /\ "started" \in Phases
    BY <1>2, <2>1 DEF Ended, Monitors, Phases
  <2>3. TaskTypes'
    BY <1>2, <2>1, <2>2 DEF TaskTypes, Places
  <2>4. CASE lean
    BY <1>2, <2>1, <2>2, <2>3, <2>4, Unheard
  <2>5. CASE ~lean
    BY <1>2, <2>1, <2>2, <2>3, <2>5, Emits
  <2>6. QED
    BY <2>4, <2>5
<1>8. ASSUME NEW k \in Keys, NEW end \in {"finished", "errored"}, End(k, end) PROVE WInv'
  <2>1. /\ task[k].at = "started" /\ task' = [task EXCEPT ![k].at = end, ![k].told = end]
        /\ Emit(task[k].worker, end, k, IF lean THEN NoLabel ELSE begun)
        /\ UNCHANGED <<closing, lean, begun, sender, conn, wire, server>>
    BY <1>8 DEF End
  <2>2. TaskTypes'
    BY <1>2, <2>1 DEF TaskTypes, Places
  <2>3. /\ task[k].worker \in Monitors /\ ~closing
        /\ end \in Phases /\ end # "started"
        /\ (IF lean THEN NoLabel ELSE begun) \in Nat
    BY <1>2, <2>1 DEF TaskTypes, Ended, Phases, NoLabel
  <2>4. QED
    BY <2>1, <2>2, <2>3, Emits
<1>9. ASSUME CloseMonitors PROVE WInv'
  <2>1. /\ \A k \in Keys : Ended(k)
        /\ closing' = TRUE
        /\ UNCHANGED <<lean, task, begun, buf, sender, conn, wire, server, emitted, lost, excused>>
    BY <1>9 DEF CloseMonitors, run
  <2>2. TaskTypes' /\ \A k \in Keys : Ended(k)'
    BY <1>2, <2>1 DEF TaskTypes, Ended
  <2>3. QED
    BY <1>2, <2>1, <2>2, Unheard
<1>10. QED
  BY <1>3, <1>4, <1>5, <1>6, <1>7, <1>8, <1>9 DEF RunStep

LEMMA WatchingStarts ==
  ASSUME DashboardAssumption, DashboardInit
  PROVE  WInv
<1>1. IsFiniteSet(Monitors)
  BY FiniteMonitors
<1> USE DEF DashboardInit
<1>2. WatchedTypes
  <2>1. Driver \in Monitors /\ << >> \in Seq(Messages) /\ << >> \in Seq(Seq(Messages))
    BY DEF Monitors
  <2>2. task \in [Keys -> [at : Places, worker : Monitors, told : Places]]
    BY <2>1 DEF Unborn, Places
  <2>3. sender \in [Monitors ->
                       [pc : {"top", "send", "exited"}, batch : Seq(Messages), final : BOOLEAN]]
    BY <2>1
  <2>4. QED
    BY <2>1, <2>2, <2>3 DEF WatchedTypes
<1>3. Counts
  BY DEF Counts, Counting, NewServer
<1>4. Sending /\ Over /\ lost = excused
  BY DEF Sending, Over
<1>5. Balance
  <2>1. SumFunction(emitted) = 0
    BY FourPhases, NothingSums
  <2>2. SumFunction(lost) = 0
    BY <1>1, NothingSums
  <2>3. Counted(server, lean) = 0
    <3>1. server.stats \in [Phases -> {0}] /\ server.stats["started"] = 0
      BY DEF NewServer, Phases
    <3>2. SumFunction(server.stats) = 0
      BY <3>1, FourPhases, NothingSums
    <3>3. QED
      BY <3>1, <3>2 DEF Counted
  <2>4. SumFunction([m \in Monitors |-> Pending(m)]) = 0
    <3>1. \A m \in Monitors : Pending(m) = 0
      BY NoLoad DEF Pending
    <3>2. [m \in Monitors |-> Pending(m)] \in [Monitors -> {0}]
      BY <3>1
    <3>3. QED
      BY <1>1, <3>2, NothingSums
  <2>5. QED
    BY <2>1, <2>2, <2>3, <2>4 DEF Balance
<1>6. QED
  BY <1>2, <1>3, <1>4, <1>5 DEF WInv

\* A step that leaves it all as it is.
LEMMA UnwatchedStutter ==
  ASSUME WInv, UNCHANGED dashboardVars
  PROVE  WInv'
<1>1. WatchedTypes /\ Over
  BY DEF WInv
<1>2. UNCHANGED <<lean, closing, task, begun, buf, sender, conn, wire, server, emitted, lost, excused>>
  BY DEF dashboardVars, run
<1>3. TaskTypes' /\ begun' \in Nat /\ closing' \in BOOLEAN
  BY <1>1, <1>2 DEF WatchedTypes, TaskTypes
<1>4. closing' => \A k \in Keys : Ended(k)'
  BY <1>1, <1>2 DEF Over, Ended
<1>5. QED
  BY <1>2, <1>3, <1>4, Unheard

\* Each step keeps that.
LEMMA Watches ==
  ASSUME DashboardAssumption, WInv, [DashboardNext]_(dashboardVars)
  PROVE  WInv'
<1>1. CASE RunStep \/ CloseMonitors
  BY <1>1, Runs
<1>2. ASSUME NEW m \in Monitors,
             \/ SenderStep(m) \/ ConnectFails(m)
             \/ Break(m) \/ Ingest(m)
      PROVE  WInv'
  BY <1>2, Drains, Sends, SendFailing, ConnectFailing, Breaking, Ingests DEF SenderStep
<1>3. CASE UNCHANGED dashboardVars
  BY <1>3, UnwatchedStutter
<1>4. QED
  BY <1>1, <1>2, <1>3 DEF DashboardNext

\* An event that a monitor was told of is in its buffer, in its sender's batch, in a
\* frame on the wire, counted once by the server, or dropped for a full buffer or a
\* connection that failed; and a monitor that has closed left none behind
\* (`_client.NetworkMonitor`, `_server._ingest_task`).
THEOREM Accounted == DashboardSpec => []EventsAccounted
<1> USE DashboardAssumption
<1>1. DashboardInit => WInv
  BY WatchingStarts
<1>2. WInv /\ [DashboardNext]_(dashboardVars) => WInv'
  BY Watches
<1>3. WInv => EventsAccounted
  <2> SUFFICES ASSUME WInv PROVE EventsAccounted
    OBVIOUS
  <2>1. Ingested = Counted(server, lean)
    BY DEF Ingested, Counted
  <2>2. [m \in Monitors |-> Len(buf[m]) + Len(sender[m].batch) + Carried(m)]
          = [m \in Monitors |-> Pending(m)]
    BY DEF Carried, Load, Pending
  <2>3. QED
    BY <2>1, <2>2 DEF WInv, Balance, Over, EventsAccounted
<1>4. QED
  BY <1>1, <1>2, <1>3, PTL DEF DashboardSpec

(***************************************************************************)
(* What sequences flatten to.                                              *)
(***************************************************************************)
Flat(w) == FlattenSeq(w)

\* h has what each beginning of w flattens to.
Joins(w, h) ==
  /\ h[0] = << >>
  /\ \A k \in 1 .. Len(w) : h[k] = h[k - 1] \o w[k]

\* What some sequences flatten to is joined from them one at a time.
LEMMA FlatJoins ==
  ASSUME NEW S, NEW w \in Seq(Seq(S))
  PROVE  \E h : Flat(w) = h[Len(w)] /\ Joins(w, h) /\ \A k \in 0 .. Len(w) : h[k] \in Seq(S)
<1>1. Flat(w) = FlattenSeq(w)
  BY DEF Flat
<1>2. Len(w) \in Nat /\ \A k \in 1 .. Len(w) : w[k] \in Seq(S)
  OBVIOUS
<1>3. CASE w = << >>
  <2> DEFINE h == [k \in {0} |-> << >>]
  <2>1. Flat(w) = << >>
    BY <1>3 DEF Flat, FlattenSeq
  <2>2. Len(w) = 0 /\ 0 .. Len(w) = {0} /\ 1 .. Len(w) = {}
    BY <1>3
  <2>3. h[0] = << >>
    OBVIOUS
  <2> HIDE DEF h
  <2>4. \A k \in 0 .. Len(w) : h[k] \in Seq(S)
    <3>1. << >> \in Seq(S)
      OBVIOUS
    <3>2. QED
      BY <2>2, <2>3, <3>1
  <2>5. Joins(w, h)
    BY <2>2, <2>3 DEF Joins
  <2>6. Flat(w) = h[Len(w)]
    BY <2>1, <2>2, <2>3
  <2>7. QED
    BY <2>4, <2>5, <2>6
<1>4. CASE w # << >>
  <2>1. PICK g : FlattenSeq(w) = g[Len(w)] /\ IsFlat(w, g)
    BY <1>4, FramesFlat
  <2>2. \A k \in 1 .. Len(w) : g[k] \in Seq(S)
    BY <2>1, FlatTyped
  <2> DEFINE h == [k \in 0 .. Len(w) |-> IF k = 0 THEN << >> ELSE g[k]]
  <2>3. h[0] = << >> /\ \A k \in 1 .. Len(w) : h[k] = g[k]
    BY <1>2
  <2>4. \A k \in 0 .. Len(w) : k # 0 => k \in 1 .. Len(w)
    BY <1>2
  <2>5. Len(w) \in 1 .. Len(w)
    BY <1>2, <1>4
  <2> HIDE DEF h
  <2>6. \A k \in 0 .. Len(w) : h[k] \in Seq(S)
    <3>1. << >> \in Seq(S)
      OBVIOUS
    <3>2. QED
      BY <2>2, <2>3, <2>4, <3>1
  <2>7. ASSUME NEW k \in 1 .. Len(w) PROVE h[k] = h[k - 1] \o w[k]
    <3>1. CASE k = 1
      <4>1. << >> \o w[k] = w[k]
        BY <1>2
      <4>2. h[k] = w[k] /\ h[k - 1] = << >>
        BY <2>1, <2>3, <3>1 DEF IsFlat
      <4>3. QED
        BY <4>1, <4>2
    <3>2. CASE k # 1
      <4>1. k - 1 \in 1 .. Len(w)
        BY <1>2, <3>2
      <4>2. QED
        BY <2>1, <2>3, <3>2, <4>1 DEF IsFlat
    <3>3. QED
      BY <3>1, <3>2
  <2>8. Flat(w) = h[Len(w)]
    BY <1>1, <2>1, <2>3, <2>5
  <2>9. QED
    BY <2>3, <2>6, <2>7, <2>8 DEF Joins
<1>5. QED
  BY <1>3, <1>4

LEMMA FlatTyping ==
  ASSUME NEW S, NEW w \in Seq(Seq(S))
  PROVE  Flat(w) \in Seq(S)
<1>1. PICK h : Flat(w) = h[Len(w)] /\ \A k \in 0 .. Len(w) : h[k] \in Seq(S)
  BY FlatJoins
<1>2. Len(w) \in 0 .. Len(w)
  OBVIOUS
<1>3. QED
  BY <1>1, <1>2

\* What holds of nothing, and goes on to hold as one more is joined, holds of all.
LEMMA StepByStep ==
  ASSUME NEW n \in Nat, NEW B \in SUBSET (0 .. n),
         0 \notin B, \A k \in 1 .. n : k - 1 \notin B => k \notin B
  PROVE  B = {}
<1> SUFFICES ASSUME B # {} PROVE FALSE
  OBVIOUS
<1>1. B \subseteq Nat
  OBVIOUS
<1>2. PICK k \in B : \A j \in B : ~(j < k)
  BY <1>1, LeastNumber
<1>3. k \in 1 .. n /\ k - 1 < k
  BY <1>1, <1>2
<1>4. QED
  BY <1>2, <1>3

LEMMA FlatNone == Flat(<< >>) = << >>
BY DEF Flat, FlattenSeq

\* One more sequence adds what it has, at the end.
LEMMA FlatMore ==
  ASSUME NEW S, NEW w \in Seq(Seq(S)), NEW b \in Seq(S)
  PROVE  Flat(Append(w, b)) = Flat(w) \o b
<1> DEFINE v == Append(w, b)
           n == Len(w)
<1>1. n \in Nat /\ v \in Seq(Seq(S)) /\ Len(v) = n + 1
  OBVIOUS
<1>2. v[n + 1] = b /\ \A i \in 1 .. n : v[i] = w[i]
  OBVIOUS
<1> HIDE DEF v
<1>3. PICK h : Flat(w) = h[n] /\ Joins(w, h)
  BY FlatJoins
<1>4. PICK g : Flat(v) = g[n + 1] /\ Joins(v, g)
  BY <1>1, FlatJoins
<1> DEFINE B == {k \in 0 .. n : g[k] # h[k]}
<1>5. B = {}
  <2>1. 0 \notin B
    BY <1>3, <1>4 DEF Joins
  <2>2. ASSUME NEW k \in 1 .. n, k - 1 \notin B PROVE k \notin B
    <3>1. k - 1 \in 0 .. n /\ k \in 1 .. n + 1
      BY <1>1
    <3>2. g[k - 1] = h[k - 1]
      BY <2>2, <3>1
    <3>3. g[k] = g[k - 1] \o v[k] /\ h[k] = h[k - 1] \o w[k]
      BY <1>1, <1>3, <1>4, <3>1 DEF Joins
    <3>4. QED
      BY <1>2, <3>2, <3>3
  <2>3. B \in SUBSET (0 .. n)
    OBVIOUS
  <2> HIDE DEF B
  <2>4. QED
    BY <1>1, <2>1, <2>2, <2>3, StepByStep
<1>6. n \in 0 .. n /\ n + 1 \in 1 .. n + 1 /\ (n + 1) - 1 = n
  BY <1>1
<1>7. g[n] = h[n]
  BY <1>5, <1>6
<1>8. g[n + 1] = g[n] \o v[n + 1]
  <2>1. PICK j : j = n + 1
    OBVIOUS
  <2>2. j \in 1 .. Len(v) /\ j - 1 = n
    BY <1>1, <1>6, <2>1
  <2>3. g[j] = g[j - 1] \o v[j]
    BY <1>4, <2>2 DEF Joins
  <2>4. QED
    BY <2>1, <2>2, <2>3, Zenon
<1>9. QED
  BY <1>2, <1>3, <1>4, <1>7, <1>8 DEF v

(***************************************************************************)
(* What the page comes to.  While nothing was lost, what a monitor was     *)
(* told and the server has not taken in is on the monitor's wire, in its   *)
(* batch and in its buffer, in that order.                                 *)
(***************************************************************************)
Due == [m \in Monitors |-> Flat(wire[m]) \o (sender[m].batch \o buf[m])]

Tells == [phase : Phases, key : Keys, worker : Monitors, label : Nat]
Dues == [Monitors -> Seq(Tells)]

\* Of monitor m one more message is due than was, its last.
Adds(q, r, m, e) ==
  /\ q \in Dues /\ r \in Dues
  /\ \A x \in Monitors : x # m => r[x] = q[x]
  /\ Len(r[m]) = Len(q[m]) + 1 /\ r[m][Len(q[m]) + 1] = e
  /\ \A i \in 1 .. Len(q[m]) : r[m][i] = q[m][i]

\* One less is, the one that was the first.
Takes(q, r, m, e) ==
  /\ q \in Dues /\ r \in Dues
  /\ \A x \in Monitors : x # m => r[x] = q[x]
  /\ Len(q[m]) = Len(r[m]) + 1 /\ q[m][1] = e
  /\ \A i \in 1 .. Len(r[m]) : q[m][i + 1] = r[m][i]

\* The first of some sequences is at the front of what they flatten to.
LEMMA FlatLess ==
  ASSUME NEW S, NEW w \in Seq(Seq(S)), w # << >>
  PROVE  Flat(w) = Head(w) \o Flat(Tail(w))
<1> DEFINE v == Tail(w)
           n == Len(v)
<1>1. /\ v \in Seq(Seq(S)) /\ Len(w) = n + 1 /\ n \in Nat
      /\ Head(w) = w[1] /\ w[1] \in Seq(S) /\ \A i \in 1 .. n : v[i] = w[i + 1] /\ v[i] \in Seq(S)
  OBVIOUS
<1> HIDE DEF v
<1>2. PICK h : Flat(w) = h[Len(w)] /\ Joins(w, h) /\ \A k \in 0 .. Len(w) : h[k] \in Seq(S)
  BY FlatJoins
<1>3. PICK g : Flat(v) = g[Len(v)] /\ Joins(v, g) /\ \A k \in 0 .. Len(v) : g[k] \in Seq(S)
  BY <1>1, FlatJoins
<1> DEFINE B == {k \in 0 .. n : h[k + 1] # w[1] \o g[k]}
<1>4. 0 \notin B
  <2>0. 1 \in 1 .. Len(w) /\ 1 - 1 = 0
    BY <1>1
  <2>1. h[1] = h[0] \o w[1] /\ h[0] = << >> /\ g[0] = << >>
    BY <1>2, <1>3, <2>0 DEF Joins
  <2>2. h[1] = w[1] \o g[0]
    BY <1>1, <2>1, ConcatEmptySeq
  <2>3. h[0 + 1] = w[1] \o g[0]
    <3>1. 0 + 1 = 1
      OBVIOUS
    <3>2. QED
      BY <2>2, <3>1, Zenon
  <2>4. QED
    BY <2>3
<1>5. \A k \in 1 .. n : k - 1 \notin B => k \notin B
  <2> SUFFICES ASSUME NEW k \in 1 .. n, k - 1 \notin B PROVE k \notin B
    OBVIOUS
  <2>1. k - 1 \in 0 .. n /\ k - 1 + 1 = k /\ k + 1 - 1 = k /\ k + 1 \in 1 .. n + 1
    BY <1>1
  <2>2. h[k] = w[1] \o g[k - 1]
    BY <2>1
  <2>3. h[k + 1] = h[k] \o w[k + 1] /\ g[k] = g[k - 1] \o v[k]
    <3>1. k + 1 \in 1 .. Len(w) /\ k \in 1 .. Len(v)
      BY <1>1
    <3>2. PICK j \in 1 .. Len(w) : j = k + 1
      BY <3>1
    <3>3. j - 1 = k
      BY <3>2
    <3>4. h[j] = h[j - 1] \o w[j] /\ g[k] = g[k - 1] \o v[k]
      BY <1>2, <1>3, <3>1 DEF Joins
    <3>5. QED
      BY <3>2, <3>3, <3>4
  <2>4. g[k - 1] \in Seq(S) /\ v[k] \in Seq(S) /\ v[k] = w[k + 1]
    BY <1>1, <1>3, <2>1
  <2>5. h[k + 1] = w[1] \o g[k]
    <3>1. (w[1] \o g[k - 1]) \o v[k] = w[1] \o (g[k - 1] \o v[k])
      <4>1. w[1] \in Seq(S) /\ g[k - 1] \in Seq(S) /\ v[k] \in Seq(S)
        BY <1>1, <2>4
      <4>2. \A x, y, z \in Seq(S) : (x \o y) \o z = x \o (y \o z)
        BY ONLY ConcatAssociative
      <4>3. QED
        BY <4>1, <4>2, Zenon
    <3>2. QED
      BY ONLY <2>2, <2>3, <2>4, <3>1
  <2>6. QED
    BY <2>5
<1>6. B \in SUBSET (0 .. n)
  OBVIOUS
<1> HIDE DEF B
<1>7. B = {}
  BY <1>1, <1>4, <1>5, <1>6, StepByStep
<1> USE DEF B
<1>8. n \in 0 .. n
  BY <1>1
<1>9. h[n + 1] = w[1] \o g[n]
  BY <1>7, <1>8
<1>10. QED
  BY <1>1, <1>2, <1>3, <1>9 DEF v

LEMMA DueTyped == ASSUME WatchedTypes PROVE Due \in Dues
<1>1. ASSUME NEW m \in Monitors PROVE Flat(wire[m]) \o (sender[m].batch \o buf[m]) \in Seq(Messages)
  <2>1. Flat(wire[m]) \in Seq(Messages)
    BY Holdings, FlatTyping
  <2>2. sender[m].batch \in Seq(Messages) /\ buf[m] \in Seq(Messages)
    BY Holdings
  <2>3. QED
    BY <2>1, <2>2
<1>2. Seq(Messages) \subseteq Seq(Tells)
  <2>1. Messages \subseteq Tells
    BY DEF Messages, Tells
  <2>2. QED
    BY <2>1
<1>3. QED
  BY <1>1, <1>2 DEF Due, Dues

LEMMA DueTypedNext == WatchedTypes' => (Due \in Dues)'
<1>1. WatchedTypes => Due \in Dues
  BY DueTyped
<1>2. QED
  BY <1>1, PTL

\* Sequences that flatten to nothing have nothing due.
LEMMA NoneDue ==
  ASSUME NEW S, NEW w \in Seq(Seq(S)), Load(w) = 0
  PROVE  Flat(w) = << >>
<1>1. Flat(w) \in Seq(S)
  BY FlatTyping
<1>2. Len(Flat(w)) = 0
  BY DEF Load, Flat
<1>3. QED
  BY <1>1, <1>2

\* A monitor told of one more has it due, its last.
LEMMA EmitAdds ==
  ASSUME WatchedTypes, WatchedTypes', NEW m \in Monitors, NEW e \in Messages, UNCHANGED <<lean, wire, sender>>,
         buf' = [buf EXCEPT ![m] = Append(buf[m], e)]
  PROVE  Adds(Due, Due', m, e)
<1> DEFINE w == Flat(wire[m])
           b == sender[m].batch
           c == buf[m]
<1>1. w \in Seq(Messages) /\ b \in Seq(Messages) /\ c \in Seq(Messages)
  BY Holdings, FlatTyping
<1>2. buf \in [Monitors -> Seq(Messages)]
  BY DEF WatchedTypes
<1>3. Due \in Dues /\ Due' \in Dues
  <2>1. Due \in Dues
    BY DueTyped
  <2>2. Due' \in Dues
    BY DueTypedNext
  <2>3. QED
    BY <2>1, <2>2
<1>4. \A x \in Monitors : x # m => Due'[x] = Due[x]
  BY <1>2 DEF Due, Flat
<1>5. Due[m] = w \o (b \o c) /\ Due'[m] = w \o (b \o Append(c, e))
  BY <1>2 DEF Due, Flat
<1> HIDE DEF w, b, c
<1>6. w \o (b \o Append(c, e)) = Append(w \o (b \o c), e)
  <2>1. b \o Append(c, e) = Append(b \o c, e) /\ b \o c \in Seq(Messages)
    BY <1>1
  <2>2. w \o Append(b \o c, e) = Append(w \o (b \o c), e)
    BY <1>1, <2>1
  <2>3. QED
    BY <2>1, <2>2
<1>7. w \o (b \o c) \in Seq(Messages)
  BY <1>1
<1>8. QED
  BY <1>3, <1>4, <1>5, <1>6, <1>7 DEF Adds

\* What is lost only adds up.
Losses == lost \in [Monitors -> Nat]
Lossless == \A m \in Monitors : lost[m] = 0

\* What concerns one monitor leaves what is due of the others.
LEMMA DueStays ==
  ASSUME NEW m \in Monitors,
         \A x \in Monitors : x # m =>
           wire'[x] = wire[x] /\ sender'[x].batch = sender[x].batch /\ buf'[x] = buf[x]
  PROVE  /\ \A x \in Monitors : x # m => Due'[x] = Due[x]
         /\ Due'[m] = Due[m] => Due' = Due
<1>1. \A x \in Monitors : x # m => Due'[x] = Due[x]
  BY DEF Due, Flat
<1>2. Due = [x \in Monitors |-> Due[x]] /\ Due' = [x \in Monitors |-> Due'[x]]
  BY DEF Due, Flat
<1>3. ASSUME Due'[m] = Due[m] PROVE Due' = Due
  <2>1. \A x \in Monitors : Due'[x] = Due[x]
    BY <1>1, <1>3
  <2> HIDE DEF Due
  <2>2. QED
    BY <1>2, <2>1, Zenon
<1>4. QED
  BY <1>1, <1>3

LEMMA DrainsDue ==
  ASSUME WInv, NEW m \in Monitors, Drain(m)
  PROVE  Due' = Due
<1>1. /\ wire' = wire /\ buf' = [buf EXCEPT ![m] = << >>]
      /\ sender' = [sender EXCEPT ![m] = [pc |-> IF buf[m] = << >> THEN After(closing) ELSE "send",
                                          batch |-> buf[m], final |-> closing]]
      /\ sender[m].pc = "top"
  BY DEF Drain, Ticks
<1>2. /\ buf \in [Monitors -> Seq(Messages)] /\ buf[m] \in Seq(Messages)
      /\ DOMAIN sender = Monitors
  BY DEF WInv, WatchedTypes
<1>3. sender[m].batch = << >>
  BY <1>1 DEF WInv, Sending
<1>4. \A x \in Monitors : x # m =>
        wire'[x] = wire[x] /\ sender'[x].batch = sender[x].batch /\ buf'[x] = buf[x]
  BY <1>1, <1>2
<1>5. wire'[m] = wire[m] /\ sender'[m].batch = buf[m] /\ buf'[m] = << >>
  BY <1>1, <1>2
<1>6. buf[m] \o << >> = << >> \o buf[m]
  BY <1>2, ConcatEmptySeq
<1>7. Due'[m] = Due[m]
  BY <1>3, <1>5, <1>6 DEF Due, Flat
<1>8. QED
  BY <1>4, <1>7, DueStays

\* A sender that is done with its batch.
LEMMA SentSenders ==
  ASSUME WInv, NEW m \in Monitors, NEW there, SenderGoes(m, there, << >>)
  PROVE  /\ sender'[m].batch = << >>
         /\ \A x \in Monitors : x # m => sender'[x].batch = sender[x].batch
<1>1. sender \in [Monitors ->
                    [pc : {"top", "send", "exited"}, batch : Seq(Messages), final : BOOLEAN]]
  BY DEF WInv, WatchedTypes
<1>2. sender' = [sender EXCEPT ![m] = [sender[m] EXCEPT !.pc = there, !.batch = << >>]]
  BY <1>1 DEF SenderGoes
<1>3. sender[m] \in [pc : {"top", "send", "exited"}, batch : Seq(Messages), final : BOOLEAN]
  BY <1>1
<1>4. [sender[m] EXCEPT !.pc = there, !.batch = << >>].batch = << >>
  BY <1>3
<1>5. QED
  BY <1>1, <1>2, <1>4

\* A batch that is dropped without a loss was empty.
LEMMA DropsNone ==
  ASSUME WInv, NEW m \in Monitors, NEW there, SenderGoes(m, there, << >>),
         Len(sender[m].batch) = 0, UNCHANGED <<wire, buf>>
  PROVE  Due' = Due
<1>1. sender[m].batch = << >>
  BY Holdings DEF WInv
<1>2. /\ sender'[m].batch = << >>
      /\ \A x \in Monitors : x # m => sender'[x].batch = sender[x].batch
  BY SentSenders
<1>3. Due'[m] = Due[m]
  BY <1>1, <1>2 DEF Due, Flat
<1>4. QED
  BY <1>2, <1>3, DueStays

LEMMA SendsDue ==
  ASSUME WInv, Losses, NEW m \in Monitors, Send(m)
  PROVE  Losses' /\ (Lossless' => Lossless /\ Due' = Due)
<1>1. /\ SenderGoes(m, After(sender[m].final), << >>) /\ buf' = buf
      /\ \/ /\ wire' = [wire EXCEPT ![m] = Append(@, sender[m].batch)] /\ lost' = lost
         \/ lost' = [lost EXCEPT ![m] = @ + Len(sender[m].batch)] /\ wire' = wire
  BY DEF Send
<1>2. /\ wire[m] \in Seq(Seq(Messages)) /\ sender[m].batch \in Seq(Messages)
      /\ buf[m] \in Seq(Messages) /\ Len(sender[m].batch) \in Nat
  BY Holdings DEF WInv
<1>3. /\ sender'[m].batch = << >>
      /\ \A x \in Monitors : x # m => sender'[x].batch = sender[x].batch
  BY <1>1, SentSenders
<1>4. CASE wire' = [wire EXCEPT ![m] = Append(@, sender[m].batch)] /\ lost' = lost
  <2>1. Flat(wire'[m]) = Flat(wire[m]) \o sender[m].batch
    <3>1. wire'[m] = Append(wire[m], sender[m].batch)
      BY <1>4 DEF WInv, WatchedTypes
    <3>2. QED
      BY <1>2, <3>1, FlatMore
  <2>2. Flat(wire[m]) \in Seq(Messages)
    BY <1>2, FlatTyping
  <2>3. (Flat(wire[m]) \o sender[m].batch) \o (<< >> \o buf[m])
          = Flat(wire[m]) \o (sender[m].batch \o buf[m])
    <3>1. \A x, y, z \in Seq(Messages) : (x \o y) \o z = x \o (y \o z)
      BY ConcatAssociative
    <3>2. << >> \o buf[m] = buf[m]
      BY <1>2, ConcatEmptySeq
    <3>3. (Flat(wire[m]) \o sender[m].batch) \o buf[m] = Flat(wire[m]) \o (sender[m].batch \o buf[m])
      BY <1>2, <2>2, <3>1
    <3>4. QED
      BY <3>2, <3>3, Zenon
  <2>4. Due'[m] = Due[m]
    BY <1>1, <1>3, <2>1, <2>3 DEF Due, Flat
  <2>5. \A x \in Monitors : x # m =>
          wire'[x] = wire[x] /\ sender'[x].batch = sender[x].batch /\ buf'[x] = buf[x]
    BY <1>1, <1>3, <1>4
  <2>6. Due' = Due
    BY <2>4, <2>5, DueStays
  <2>7. QED
    BY <1>4, <2>6 DEF Losses, Lossless
<1>5. CASE lost' = [lost EXCEPT ![m] = @ + Len(sender[m].batch)] /\ wire' = wire
  <2>1. Losses'
    BY <1>2, <1>5 DEF Losses
  <2>2. ASSUME Lossless' PROVE Lossless /\ Due' = Due
    <3>1. lost[m] + Len(sender[m].batch) = 0 /\ lost[m] \in Nat
      BY <1>5, <2>2 DEF Losses, Lossless
    <3>2. lost[m] = 0 /\ Len(sender[m].batch) = 0
      BY <1>2, <3>1
    <3>3. Lossless
      BY <1>5, <2>2, <3>2 DEF Losses, Lossless
    <3>4. Due' = Due
      BY <1>1, <1>5, <3>2, DropsNone
    <3>5. QED
      BY <3>3, <3>4
  <2>3. QED
    BY <2>1, <2>2
<1>6. QED
  BY <1>1, <1>4, <1>5

\* What loses nothing was of nothing.
LEMMA LosesNone ==
  ASSUME Losses, NEW m \in Monitors, NEW n \in Nat, lost' = [lost EXCEPT ![m] = @ + n]
  PROVE  Losses' /\ (Lossless' => Lossless /\ n = 0)
<1>1. Losses'
  BY DEF Losses
<1>2. ASSUME Lossless' PROVE Lossless /\ n = 0
  <2>1. lost[m] + n = 0 /\ lost[m] \in Nat
    BY <1>2 DEF Losses, Lossless
  <2>2. lost[m] = 0 /\ n = 0
    BY <2>1
  <2>3. QED
    BY <1>2, <2>2 DEF Losses, Lossless
<1>3. QED
  BY <1>1, <1>2

LEMMA BreaksDue ==
  ASSUME WInv, Losses, NEW m \in Monitors, SendFails(m) \/ ConnectFails(m) \/ Break(m)
  PROVE  Losses' /\ (Lossless' => Lossless /\ Due' = Due)
<1>1. /\ wire[m] \in Seq(Seq(Messages)) /\ sender[m].batch \in Seq(Messages)
      /\ buf[m] \in Seq(Messages) /\ Len(sender[m].batch) \in Nat /\ Len(buf[m]) \in Nat
      /\ Load(wire[m]) \in Nat
  BY Holdings DEF WInv
<1>2. CASE SendFails(m)
  <2>1. /\ SenderGoes(m, After(sender[m].final), << >>) /\ buf' = buf /\ wire' = wire
        /\ lost' = [lost EXCEPT ![m] = @ + Len(sender[m].batch)]
    BY <1>2 DEF SendFails
  <2>2. QED
    BY <1>1, <2>1, LosesNone, DropsNone
<1>3. CASE ConnectFails(m)
  <2>1. buf[m] # << >> /\ lost' = [lost EXCEPT ![m] = @ + Len(buf[m])]
    BY <1>3 DEF ConnectFails
  <2>2. Len(buf[m]) # 0
    BY <1>1, <2>1
  <2>3. QED
    BY <1>1, <2>1, <2>2, LosesNone
<1>4. CASE Break(m)
  <2>1. /\ wire' = [wire EXCEPT ![m] = << >>] /\ buf' = buf /\ sender' = sender
        /\ lost' = [lost EXCEPT ![m] = @ + Load(wire[m])]
    BY <1>4 DEF Break, Carried, Load
  <2>2. ASSUME Load(wire[m]) = 0 PROVE Due' = Due
    <3>1. Flat(wire[m]) = << >>
      BY <1>1, <2>2, NoneDue
    <3>2. wire'[m] = << >> /\ \A x \in Monitors : x # m => wire'[x] = wire[x]
      BY <2>1 DEF WInv, WatchedTypes
    <3>3. Flat(wire'[m]) = << >>
      BY <3>2, FlatNone
    <3>4. Due'[m] = Flat(wire'[m]) \o (sender[m].batch \o buf[m])
      BY <2>1 DEF Due
    <3>5. Due[m] = Flat(wire[m]) \o (sender[m].batch \o buf[m])
      BY DEF Due
    <3>6. Due'[m] = Due[m]
      BY <3>1, <3>3, <3>4, <3>5, Zenon
    <3>7. QED
      BY <2>1, <3>2, <3>6, DueStays
  <2>3. QED
    BY <1>1, <2>1, <2>2, LosesNone
<1>5. QED
  BY <1>2, <1>3, <1>4

\* A frame that is taken in was due first.
LEMMA IngestsDue ==
  ASSUME WInv, NEW m \in Monitors, Ingest(m)
  PROVE  /\ Due[m] = Head(wire[m]) \o Due'[m] /\ Head(wire[m]) \in Seq(Messages)
         /\ \A x \in Monitors : x # m => Due'[x] = Due[x]
         /\ Due \in Dues /\ Due'[m] \in Seq(Messages)
         /\ server' = TakenIn(server, Head(wire[m]), lean)
<1>1. /\ wire[m] # << >> /\ wire' = [wire EXCEPT ![m] = Tail(@)] /\ UNCHANGED <<sender, buf, lean>>
      /\ server' = TakenIn(server, Head(wire[m]), lean)
  <2>1. server' = TakenIn(server, Head(wire[m]), lean)
    BY Zenon DEF Ingest, TakenIn
  <2>2. QED
    BY <2>1 DEF Ingest, run
<1>2. wire[m] \in Seq(Seq(Messages)) /\ sender[m].batch \in Seq(Messages) /\ buf[m] \in Seq(Messages)
  BY Holdings DEF WInv
<1>3. /\ Head(wire[m]) \in Seq(Messages) /\ Tail(wire[m]) \in Seq(Seq(Messages))
      /\ wire'[m] = Tail(wire[m]) /\ \A x \in Monitors : x # m => wire'[x] = wire[x]
  BY <1>1, <1>2 DEF WInv, WatchedTypes
<1>4. Flat(wire[m]) = Head(wire[m]) \o Flat(wire'[m]) /\ Flat(wire'[m]) \in Seq(Messages)
  BY <1>1, <1>2, <1>3, FlatLess, FlatTyping
<1>5. Due'[m] = Flat(wire'[m]) \o (sender[m].batch \o buf[m])
  BY <1>1 DEF Due, Flat
<1>6. sender[m].batch \o buf[m] \in Seq(Messages)
  BY <1>2
<1>7. Due[m] = Head(wire[m]) \o Due'[m] /\ Due'[m] \in Seq(Messages)
  <2>1. \A x, y, z \in Seq(Messages) : (x \o y) \o z = x \o (y \o z) /\ y \o z \in Seq(Messages)
    BY ConcatAssociative
  <2>2. Due[m] = (Head(wire[m]) \o Flat(wire'[m])) \o (sender[m].batch \o buf[m])
    BY <1>4 DEF Due
  <2>3. (Head(wire[m]) \o Flat(wire'[m])) \o (sender[m].batch \o buf[m])
          = Head(wire[m]) \o (Flat(wire'[m]) \o (sender[m].batch \o buf[m]))
    BY <1>3, <1>4, <1>6, <2>1
  <2>4. Flat(wire'[m]) \o (sender[m].batch \o buf[m]) \in Seq(Messages)
    BY <1>4, <1>6
  <2>5. QED
    BY <1>5, <2>2, <2>3, <2>4, Zenon
<1>8. \A x \in Monitors : x # m => Due'[x] = Due[x]
  BY <1>1, <1>3, DueStays
<1>9. QED
  BY <1>1, <1>3, <1>7, <1>8, DueTyped DEF WInv

(***************************************************************************)
(* What the server makes of one event, field by field.                     *)
(***************************************************************************)
Cells == [state : {"none"} \union Phases, label : Nat]
Rows == [phase : {"none"} \union Phases, label : Nat]

Fields(s) ==
  [life |-> s.life, label |-> s.label, rows |-> s.rows, stats |-> s.stats,
   inflight |-> s.inflight, open |-> s.open, seen |-> s.seen, records |-> s.records,
   unlabelled |-> s.unlabelled]

IsServer(s) ==
  /\ s = Fields(s)
  /\ s.life \in [Keys -> SUBSET {0, 1, 2}] /\ s.label \in [Keys -> Nat]
  /\ s.rows \in [Keys -> Rows] /\ s.stats \in [Phases -> Int] /\ s.open \subseteq Keys
  /\ s.records \in [Workers -> [Keys -> Cells]] /\ s.unlabelled \subseteq Workers \X Keys

\* A worker tells of what it does, the driver of what it submits.
Ofs(e) ==
  /\ e \in Tells
  /\ IF e.phase = "submitted" THEN e.worker = Driver ELSE e.worker \in Workers

Records(s, e) ==
  IF e.phase = "submitted"
  THEN [w \in Workers |-> [k \in Keys |->
          IF k = e.key /\ <<w, k>> \in s.unlabelled
          THEN [s.records[w][k] EXCEPT !.label = e.label] ELSE s.records[w][k]]]
  ELSE [s.records EXCEPT ![e.worker] = [s.records[e.worker] EXCEPT ![e.key] = Record(s, e)]]

Unlabelled(s, e) ==
  IF e.phase = "submitted" THEN {u \in s.unlabelled : u[2] # e.key}
  ELSE IF Record(s, e).label = NoLabel THEN s.unlabelled \union {<<e.worker, e.key>>}
  ELSE s.unlabelled

MadeOf(s, e, a) ==
  [life |-> [s.life EXCEPT ![e.key] = Life(s, e) \union {ClassOf[e.phase]}],
   label |-> IF e.phase = "submitted" THEN [s.label EXCEPT ![e.key] = e.label] ELSE s.label,
   rows |-> [s.rows EXCEPT ![e.key] = Row(s, e)],
   stats |-> Stats(s, e, a), inflight |-> InFlight(s, e, a),
   open |-> Opened(s, e), seen |-> Seen(s, e),
   records |-> Records(s, e), unlabelled |-> Unlabelled(s, e)]

LEMMA ClassesAre ==
  ASSUME NEW p \in Phases
  PROVE  /\ ClassOf[p] \in {0, 1, 2} /\ (ClassOf[p] = 0 <=> p = "submitted")
         /\ (ClassOf[p] = 1 <=> p = "started") /\ (ClassOf[p] = 2 <=> p \in {"finished", "errored"})
BY DEF Phases, ClassOf

LEMMA IngestMakes ==
  ASSUME NEW s, IsServer(s), NEW e, Ofs(e), NEW a \in BOOLEAN
  PROVE  IngestTask(s, e, a) = MadeOf(s, e, a)
<1>1. s = Fields(s) /\ e.phase \in Phases
  BY DEF IsServer, Ofs, Tells
<1>2. CASE e.phase = "submitted"
  <2> DEFINE t == IngestSubmitted(s, e)
  <2>1. t = [Fields(s) EXCEPT !.label = [s.label EXCEPT ![e.key] = e.label],
                              !.records = Records(s, e), !.unlabelled = Unlabelled(s, e)]
    BY <1>1, <1>2 DEF IngestSubmitted, Records, Unlabelled, Fields
  <2>2. t = [life |-> s.life, label |-> [s.label EXCEPT ![e.key] = e.label], rows |-> s.rows,
             stats |-> s.stats, inflight |-> s.inflight, open |-> s.open, seen |-> s.seen,
             records |-> Records(s, e), unlabelled |-> Unlabelled(s, e)]
    BY <2>1 DEF Fields
  <2>3. IngestTask(s, e, a) =
          [t EXCEPT !.life[e.key] = Life(s, e) \union {ClassOf[e.phase]},
                    !.rows[e.key] = Row(s, e), !.stats = Stats(s, e, a),
                    !.inflight = InFlight(s, e, a), !.open = Opened(s, e), !.seen = Seen(s, e)]
    BY <1>1, <1>2, ClassesAre DEF IngestTask
  <2> HIDE DEF t
  <2>4. QED
    BY <1>2, <2>2, <2>3 DEF MadeOf
<1>3. CASE e.phase # "submitted"
  <2> DEFINE t == IngestWorker(s, e)
  <2>1. t = [Fields(s) EXCEPT !.records = Records(s, e), !.unlabelled = Unlabelled(s, e)]
    BY <1>1, <1>3 DEF IngestWorker, Records, Unlabelled, Fields
  <2>2. t = [life |-> s.life, label |-> s.label, rows |-> s.rows,
             stats |-> s.stats, inflight |-> s.inflight, open |-> s.open, seen |-> s.seen,
             records |-> Records(s, e), unlabelled |-> Unlabelled(s, e)]
    BY <2>1 DEF Fields
  <2>3. IngestTask(s, e, a) =
          [t EXCEPT !.life[e.key] = Life(s, e) \union {ClassOf[e.phase]},
                    !.rows[e.key] = Row(s, e), !.stats = Stats(s, e, a),
                    !.inflight = InFlight(s, e, a), !.open = Opened(s, e), !.seen = Seen(s, e)]
    BY <1>1, <1>3, ClassesAre DEF IngestTask
  <2> HIDE DEF t
  <2>4. QED
    BY <1>3, <2>2, <2>3 DEF MadeOf
<1>4. QED
  BY <1>2, <1>3

LEMMA RecordTyped ==
  ASSUME NEW s, IsServer(s), NEW e, Ofs(e), e.phase # "submitted"
  PROVE  Record(s, e) \in Cells /\ s.records[e.worker] \in [Keys -> Cells]
BY DEF IsServer, Ofs, Tells, Record, Cells, NoLabel

LEMMA MadeTyped ==
  ASSUME NEW s, IsServer(s), NEW e, Ofs(e), NEW a \in BOOLEAN
  PROVE  IsServer(MadeOf(s, e, a))
<1> DEFINE r == MadeOf(s, e, a)
<1>1. e.key \in Keys /\ e.phase \in Phases /\ e.label \in Nat /\ ClassOf[e.phase] \in {0, 1, 2}
  BY ClassesAre DEF Ofs, Tells
<1>2. r = Fields(r)
  BY DEF MadeOf, Fields
<1>3. r.life \in [Keys -> SUBSET {0, 1, 2}]
  <2>1. Life(s, e) \in SUBSET {0, 1, 2}
    BY <1>1 DEF Life, IsServer
  <2>2. QED
    BY <1>1, <2>1 DEF MadeOf, IsServer
<1>4. r.label \in [Keys -> Nat]
  BY <1>1 DEF MadeOf, IsServer
<1>5. r.rows \in [Keys -> Rows]
  <2>1. Row(s, e) \in Rows
    BY <1>1 DEF Row, Rows, IsServer
  <2>2. QED
    BY <1>1, <2>1 DEF MadeOf, IsServer
<1>6. r.stats \in [Phases -> Int]
  BY DEF MadeOf, IsServer, Stats
<1>7. r.open \subseteq Keys
  BY <1>1 DEF MadeOf, IsServer, Opened
<1>8. r.records \in [Workers -> [Keys -> Cells]]
  <2>1. CASE e.phase = "submitted"
    <3>1. ASSUME NEW w \in Workers, NEW k \in Keys
          PROVE  /\ s.records[w][k] \in Cells
                 /\ [s.records[w][k] EXCEPT !.label = e.label] \in Cells
      BY <1>1 DEF IsServer, Cells
    <3>2. QED
      BY <2>1, <3>1 DEF MadeOf, Records
  <2>2. CASE e.phase # "submitted"
    <3>1. Record(s, e) \in Cells /\ s.records[e.worker] \in [Keys -> Cells]
      BY <2>2, RecordTyped
    <3>2. [s.records[e.worker] EXCEPT ![e.key] = Record(s, e)] \in [Keys -> Cells]
      BY <1>1, <3>1
    <3>3. QED
      BY <2>2, <3>2 DEF MadeOf, Records, IsServer
  <2>3. QED
    BY <2>1, <2>2
<1>9. r.unlabelled \subseteq Workers \X Keys
  <2>1. CASE e.phase = "submitted"
    BY <2>1 DEF MadeOf, Unlabelled, IsServer
  <2>2. CASE e.phase # "submitted"
    <3>1. <<e.worker, e.key>> \in Workers \X Keys
      BY <1>1, <2>2 DEF Ofs
    <3>2. QED
      BY <2>2, <3>1 DEF MadeOf, Unlabelled, IsServer
  <2>3. QED
    BY <2>1, <2>2
<1>10. QED
  BY <1>2, <1>3, <1>4, <1>5, <1>6, <1>7, <1>8, <1>9 DEF IsServer

(***************************************************************************)
(* What holds while nothing was lost.  Of a world y (the run, and what     *)
(* monitors were told), a server's state s and what is due q.              *)
(***************************************************************************)
World == [task |-> task, plan |-> plan, begun |-> begun, retries |-> retries, lean |-> lean,
          emitted |-> emitted]

Ends == {"finished", "errored"}

\* Worker w is at task k.
OnTask(y, k, w) == y.task[k].at = "started" /\ y.task[k].worker = w
AtWork(y, w) == \E k \in Keys : OnTask(y, k, w)

IsWorld(y) ==
  /\ y.lean \in BOOLEAN /\ y.begun \in Nat /\ y.retries \in Nat /\ y.emitted \in [Phases -> Int]
  /\ y.task \in [Keys -> [at : Places, worker : Monitors, told : Places]]

\* What was told of a task last, by where it is.
TaskTold(y, k) ==
  LET t == y.task[k]
  IN  /\ t.told \in {"none"} \union Phases
      /\ t.at \in {"none", "waiting"} <=> t.told = "none"
      /\ t.at \in {"submitted", "left"} => t.told = "submitted"
      /\ t.at \in Ends => t.told = t.at
      /\ t.at = "retried" => t.told = "errored" /\ y.retries # 0
      /\ t.at = "started" => IF y.lean THEN \/ t.told = "submitted"
                                            \/ t.told = "errored" /\ y.retries # 0
                             ELSE t.told = "started"
      /\ t.told = "started" => t.at = "started"
      /\ t.at \in {"started", "retried"} \union Ends => t.worker \in Workers
      /\ y.begun = 0 \/ k \notin y.plan => t.at = "none"
      /\ y.begun # 0 /\ k \in y.plan => t.at # "none"

Tasked(y) ==
  /\ \A k \in Keys : TaskTold(y, k)
  /\ \A k, l \in Keys : \A w \in Workers : OnTask(y, k, w) /\ OnTask(y, l, w) => k = l

\* A worker's events: a lean one's are ends, another's are in turns the start of a task and
\* its end, up to what the worker is at.
InTurn(y, w, b) ==
  \A i \in 1 .. Len(b) :
    /\ b[i].phase = "started" /\ i # Len(b) => b[i + 1].phase # "started" /\ b[i + 1].key = b[i].key
    /\ b[i].phase = "started" /\ i = Len(b) => OnTask(y, b[i].key, w)
    /\ b[i].phase # "started" /\ i # Len(b) => b[i + 1].phase = "started"
    /\ b[i].phase # "started" /\ i = Len(b) => ~AtWork(y, w)

Turns(y, q) ==
  /\ \A i \in 1 .. Len(q[Driver]) : q[Driver][i].phase = "submitted" /\ q[Driver][i].worker = Driver
  /\ \A w \in Workers : \A i \in 1 .. Len(q[w]) :
       /\ q[w][i].phase # "submitted" /\ q[w][i].worker = w
       /\ y.lean => q[w][i].phase # "started"
  /\ \A w \in Workers : ~y.lean => InTurn(y, w, q[w])

\* The events of a phase that are due: whose, and the how manieth.
Coming(q, p) ==
  {x \in Monitors \X Nat : x[2] \in 1 .. Len(q[x[1]]) /\ q[x[1]][x[2]].phase = p}

\* Each event that a monitor was told of is due or counted.
Tallies(y, s, q) ==
  /\ \A p \in Phases : /\ IsFiniteSet(Coming(q, p))
                       /\ \/ y.lean /\ p = "started"
                          \/ s.stats[p] + Cardinality(Coming(q, p)) = y.emitted[p]
  /\ y.lean => /\ s.stats["started"] = s.stats["finished"] + s.stats["errored"]
               /\ \A k \in Keys : 1 \notin s.life[k]

\* The server has heard worker w start a task and not end it.
OpenOn(y, w, q) == IF Len(q[w]) = 0 THEN AtWork(y, w) ELSE q[w][1].phase # "started"

OpenFlights(y, q) == {w \in Workers : OpenOn(y, w, q)}

Flights(y, s, q) ==
  s.inflight = IF y.lean THEN Least(Cardinality(s.seen), Cardinality(s.open))
               ELSE Cardinality(OpenFlights(y, q))

\* The server has yet to hear of this run's submission of k.
SubDue(y, k, q) ==
  \/ y.task[k].told = "none"
  \/ \E i \in 1 .. Len(q[Driver]) : q[Driver][i].key = k

\* A worker's first event of an attempt.
Opens(y, e) == y.lean \/ e.phase = "started"

\* What is due is of the run under way.
FromDriver(y, b) ==
  \A i \in 1 .. Len(b) :
    /\ b[i].label = y.begun /\ y.task[b[i].key].told # "none"
    /\ \A j \in 1 .. Len(b) : b[i].key = b[j].key => i = j

FromWorker(y, w, b) ==
  \A i \in 1 .. Len(b) :
    /\ y.task[b[i].key].worker = w /\ y.task[b[i].key].told \notin {"none", "submitted"}
    /\ ~y.lean => b[i].label = y.begun
    /\ y.lean => b[i].label = NoLabel
    /\ \/ b[i].phase = y.task[b[i].key].told
       \/ \E j \in 1 .. Len(b) : i < j /\ b[j].key = b[i].key
    /\ y.retries = 0 /\ Opens(y, b[i]) => \A j \in 1 .. Len(b) : j < i => b[j].key # b[i].key

OfRun(y, q) ==
  /\ FromDriver(y, q[Driver])
  /\ \A w \in Workers : FromWorker(y, w, q[w])

\* h has, of each task, what the server heard last from a worker in this run.
HeardIs(y, q, h) ==
  /\ h \in [Keys -> {"none", "started"} \union Ends]
  /\ \A k \in Keys :
       /\ y.lean => h[k] # "started"
       /\ y.task[k].told \in {"none", "submitted"} => h[k] = "none"
       /\ \/ y.task[k].told \in {"none", "submitted"}
          \/ h[k] = y.task[k].told
          \/ \E i \in 1 .. Len(q[y.task[k].worker]) : q[y.task[k].worker][i].key = k
  /\ \A w \in Workers : \A i \in 1 .. Len(q[w]) :
       /\ y.retries = 0 /\ Opens(y, q[w][i]) => h[q[w][i].key] = "none"
       /\ i = 1 /\ ~Opens(y, q[w][i]) => h[q[w][i].key] = "started"

\* A lifecycle a run ends with, and one of this run's.
Full(y) == IF y.lean THEN {0, 2} ELSE {0, 1, 2}

LifeIs(y, life, due, heard) ==
  IF heard = "none"
  THEN IF due THEN life = {} \/ (y.begun > 1 /\ life = Full(y)) ELSE life = {0}
  ELSE /\ 1 \in life <=> ~y.lean
       /\ 2 \in life <=> heard # "started"
       /\ due => 0 \notin life
       /\ y.retries = 0 /\ ~due => 0 \in life

RowIs(y, row, due, heard) ==
  /\ ~due \/ (~y.lean /\ heard # "none") => row.label = y.begun
  /\ heard # "none" => row.phase = heard
  /\ heard = "none" /\ ~due => row.phase = "submitted"

CellIs(y, cell, heard) ==
  /\ heard \in Ends => cell.state = heard
  /\ ~y.lean /\ heard # "none" => cell.label = y.begun

Rowed(y, s, q, h) ==
  \A k \in Keys :
    /\ LifeIs(y, s.life[k], SubDue(y, k, q), h[k])
    /\ RowIs(y, s.rows[k], SubDue(y, k, q), h[k])
    /\ h[k] # "none" => CellIs(y, s.records[y.task[k].worker][k], h[k])

\* A lean worker's cells wait for the label of the first run.
Labelled(y, s, q, h) ==
  y.lean /\ y.begun <= 1 =>
    \A k \in Keys :
      /\ s.label[k] = IF SubDue(y, k, q) THEN NoLabel ELSE 1
      /\ \A w \in Workers : /\ s.records[w][k].label \in {NoLabel, 1}
                            /\ <<w, k>> \in s.unlabelled => SubDue(y, k, q)
      /\ h[k] # "none" => \/ s.records[y.task[k].worker][k].label = 1
                          \/ <<y.task[k].worker, k>> \in s.unlabelled

OpenIs(y, s, q, h) ==
  y.lean => s.open = {k \in Keys : ~SubDue(y, k, q) /\ h[k] = "none"}

Page(y, s, q, h) ==
  HeardIs(y, q, h) /\ Rowed(y, s, q, h) /\ Labelled(y, s, q, h) /\ OpenIs(y, s, q, h)

(***************************************************************************)
(* One event is taken in: what was due first.                              *)
(***************************************************************************)
Firsts(q, r, m, e) ==
  /\ e \in Tells /\ \A x \in Monitors : q[x] \in Seq(Tells) /\ r[x] \in Seq(Tells)
  /\ 1 \in 1 .. Len(q[m]) /\ q[m][1] = e /\ Len(r[m]) \in Nat /\ Len(q[m]) = Len(r[m]) + 1
  /\ \A i \in 1 .. Len(r[m]) : i + 1 \in 1 .. Len(q[m]) /\ q[m][i + 1] = r[m][i]
  /\ \A i \in 1 .. Len(q[m]) : i # 1 => i - 1 \in 1 .. Len(r[m]) /\ r[m][i - 1] = q[m][i]

LEMMA TakenFirst ==
  ASSUME NEW q, NEW r, NEW m \in Monitors, NEW e, Takes(q, r, m, e)
  PROVE  Firsts(q, r, m, e)
<1>1. \A x \in Monitors : q[x] \in Seq(Tells) /\ r[x] \in Seq(Tells)
  BY DEF Takes, Dues
<1>2. /\ Len(q[m]) = Len(r[m]) + 1 /\ q[m][1] = e /\ Len(r[m]) \in Nat
      /\ \A i \in 1 .. Len(r[m]) : q[m][i + 1] = r[m][i]
  BY <1>1 DEF Takes
<1>3. \A i \in 1 .. Len(q[m]) : i # 1 => i - 1 \in 1 .. Len(r[m]) /\ r[m][i - 1] = q[m][i]
  <2> TAKE i \in 1 .. Len(q[m])
  <2> HAVE i # 1
  <2>1. PICK j \in 1 .. Len(r[m]) : j + 1 = i
    BY <1>2
  <2>2. j = i - 1
    BY <2>1
  <2>3. QED
    BY <1>2, <2>1, <2>2
<1>4. e \in Tells
  BY <1>1, <1>2
<1>5. QED
  BY <1>1, <1>2, <1>3, <1>4 DEF Firsts

TurnIs(y, r, m, e) ==
  /\ Turns(y, r) /\ Ofs(e) /\ e.worker = m
  /\ (e.phase = "submitted" <=> m = Driver) /\ (y.lean => e.phase # "started")

LEMMA TakenTurns ==
  ASSUME NEW y, NEW q, NEW r, NEW m \in Monitors, NEW e, Takes(q, r, m, e), Turns(y, q)
  PROVE  TurnIs(y, r, m, e)
<1>1. /\ e \in Tells
      /\ 1 \in 1 .. Len(q[m]) /\ q[m][1] = e /\ Len(r[m]) \in Nat /\ Len(q[m]) = Len(r[m]) + 1
      /\ \A i \in 1 .. Len(r[m]) : i + 1 \in 1 .. Len(q[m]) /\ q[m][i + 1] = r[m][i]
  <2>1. Firsts(q, r, m, e)
    BY TakenFirst
  <2>2. QED
    BY ONLY <2>1 DEF Firsts
<1>2. \A x \in Monitors : x # m => r[x] = q[x]
  BY DEF Takes
<1>3. Driver \in Monitors /\ Workers \subseteq Monitors /\ (m \in Workers \/ m = Driver)
  BY DEF Monitors
<1>4. \A i \in 1 .. Len(r[Driver]) : r[Driver][i].phase = "submitted" /\ r[Driver][i].worker = Driver
  <2>1. \A i \in 1 .. Len(q[Driver]) : q[Driver][i].phase = "submitted" /\ q[Driver][i].worker = Driver
    BY DEF Turns
  <2>2. CASE m = Driver
    <3> SUFFICES ASSUME NEW i \in 1 .. Len(r[m])
                 PROVE  r[m][i].phase = "submitted" /\ r[m][i].worker = Driver
      BY <2>2
    <3>1. PICK j \in 1 .. Len(q[m]) : q[m][j] = r[m][i]
      BY <1>1
    <3>2. QED
      BY <2>1, <2>2, <3>1
  <2>3. CASE m # Driver
    BY <1>2, <1>3, <2>1, <2>3
  <2>4. QED
    BY <2>2, <2>3
<1>5. \A w \in Workers : \A i \in 1 .. Len(r[w]) :
        r[w][i].phase # "submitted" /\ r[w][i].worker = w /\ (y.lean => r[w][i].phase # "started")
  <2> TAKE w \in Workers
  <2>0. \A i \in 1 .. Len(q[w]) :
          q[w][i].phase # "submitted" /\ q[w][i].worker = w /\ (y.lean => q[w][i].phase # "started")
    BY DEF Turns
  <2>1. CASE w = m
    <3> SUFFICES ASSUME NEW i \in 1 .. Len(r[m])
                 PROVE  /\ r[m][i].phase # "submitted" /\ r[m][i].worker = w
                        /\ y.lean => r[m][i].phase # "started"
      BY <2>1
    <3>1. PICK j \in 1 .. Len(q[m]) : q[m][j] = r[m][i]
      BY <1>1
    <3>2. QED
      BY <2>0, <2>1, <3>1
  <2>2. CASE w # m
    BY <1>2, <1>3, <2>0, <2>2
  <2>3. QED
    BY <2>1, <2>2
<1>6. ASSUME NEW w \in Workers, ~y.lean PROVE InTurn(y, w, r[w])
  <2>1. InTurn(y, w, q[w])
    BY <1>6 DEF Turns
  <2>2. CASE w # m
    BY <1>2, <1>3, <2>1, <2>2
  <2>3. CASE w = m
    <3> SUFFICES ASSUME NEW i \in 1 .. Len(r[m])
                 PROVE  /\ r[m][i].phase = "started" /\ i # Len(r[m]) =>
                             r[m][i + 1].phase # "started" /\ r[m][i + 1].key = r[m][i].key
                        /\ r[m][i].phase = "started" /\ i = Len(r[m]) => OnTask(y, r[m][i].key, m)
                        /\ r[m][i].phase # "started" /\ i # Len(r[m]) => r[m][i + 1].phase = "started"
                        /\ r[m][i].phase # "started" /\ i = Len(r[m]) => ~AtWork(y, m)
      BY <2>3 DEF InTurn
    <3>1. PICK j \in 1 .. Len(q[m]) : j = i + 1
      BY <1>1
    <3>2. q[m][j] = r[m][i] /\ (j = Len(q[m]) <=> i = Len(r[m]))
      BY <1>1, <3>1
    <3>3. i # Len(r[m]) => q[m][j + 1] = r[m][i + 1]
      <4> HAVE i # Len(r[m])
      <4>1. PICK l \in 1 .. Len(r[m]) : l = i + 1
        BY <1>1
      <4>2. QED
        BY <1>1, <3>1, <4>1
    <3>4. /\ q[m][j].phase = "started" /\ j # Len(q[m]) =>
               q[m][j + 1].phase # "started" /\ q[m][j + 1].key = q[m][j].key
          /\ q[m][j].phase = "started" /\ j = Len(q[m]) => OnTask(y, q[m][j].key, m)
          /\ q[m][j].phase # "started" /\ j # Len(q[m]) => q[m][j + 1].phase = "started"
          /\ q[m][j].phase # "started" /\ j = Len(q[m]) => ~AtWork(y, m)
      BY <2>1, <2>3 DEF InTurn
    <3>5. QED
      BY <3>2, <3>3, <3>4
  <2>4. QED
    BY <2>2, <2>3
<1>7. Turns(y, r)
  BY <1>4, <1>5, <1>6 DEF Turns
<1>8. CASE m = Driver
  <2>1. e.phase = "submitted" /\ e.worker = m
    BY <1>1, <1>8 DEF Turns
  <2>2. QED
    BY <1>1, <1>7, <1>8, <2>1 DEF Ofs, TurnIs
<1>9. CASE m # Driver
  <2>1. m \in Workers
    BY <1>3, <1>9
  <2>2. e.phase # "submitted" /\ e.worker = m /\ (y.lean => e.phase # "started")
    BY <1>1, <2>1 DEF Turns
  <2>3. QED
    BY <1>1, <1>7, <1>9, <2>1, <2>2 DEF Ofs, TurnIs
<1>10. QED
  BY <1>8, <1>9

\* Of its phase one less is coming.
LEMMA TakenComing ==
  ASSUME NEW q, NEW r, NEW m \in Monitors, NEW e, Takes(q, r, m, e), NEW p,
         IsFiniteSet(Coming(q, p))
  PROVE  /\ IsFiniteSet(Coming(r, p))
         /\ Cardinality(Coming(q, p)) = Cardinality(Coming(r, p)) + (IF e.phase = p THEN 1 ELSE 0)
         /\ Cardinality(Coming(r, p)) \in Nat
<1> DEFINE A == Coming(q, p) \ {<<m, 1>>}
           C == Coming(r, p)
           f == [x \in A |-> IF x[1] = m THEN <<m, x[2] - 1>> ELSE x]
<1>1. /\ 1 \in 1 .. Len(q[m]) /\ q[m][1] = e /\ Len(r[m]) \in Nat /\ Len(q[m]) = Len(r[m]) + 1
      /\ \A i \in 1 .. Len(r[m]) : i + 1 \in 1 .. Len(q[m]) /\ q[m][i + 1] = r[m][i]
      /\ \A i \in 1 .. Len(q[m]) : i # 1 => i - 1 \in 1 .. Len(r[m]) /\ r[m][i - 1] = q[m][i]
  <2>1. Firsts(q, r, m, e)
    BY TakenFirst
  <2>2. QED
    BY ONLY <2>1 DEF Firsts
<1>2. \A x \in Monitors : x # m => r[x] = q[x]
  BY DEF Takes
<1>3. \A x \in A : /\ x = <<x[1], x[2]>> /\ x[1] \in Monitors /\ x[2] \in Nat
                   /\ x[2] \in 1 .. Len(q[x[1]]) /\ q[x[1]][x[2]].phase = p
                   /\ x[1] = m => x[2] # 1
  BY DEF Coming
<1>4. \A x \in C : /\ x = <<x[1], x[2]>> /\ x[1] \in Monitors /\ x[2] \in Nat
                   /\ x[2] \in 1 .. Len(r[x[1]]) /\ r[x[1]][x[2]].phase = p
  BY DEF Coming
<1>5. \A x \in Monitors : \A i \in Nat :
        /\ i \in 1 .. Len(q[x]) /\ q[x][i].phase = p /\ (x = m => i # 1) => <<x, i>> \in A
        /\ i \in 1 .. Len(r[x]) /\ r[x][i].phase = p => <<x, i>> \in C
  BY DEF Coming
<1>6. IsFiniteSet(A) /\ Cardinality(A) = (IF <<m, 1>> \in Coming(q, p) THEN Cardinality(Coming(q, p)) - 1
                                          ELSE Cardinality(Coming(q, p)))
  BY FS_RemoveElement
<1>7. <<m, 1>> \in Coming(q, p) <=> e.phase = p
  BY <1>1 DEF Coming
<1> HIDE DEF A, C
<1>8. \A x \in A : f[x] \in C
  <2> TAKE x \in A
  <2>1. CASE x[1] = m
    <3>1. f[x] = <<m, x[2] - 1>>
      BY <2>1
    <3>2. x[2] - 1 \in 1 .. Len(r[m]) /\ x[2] - 1 \in Nat /\ r[m][x[2] - 1].phase = p
      BY <1>1, <1>3, <2>1
    <3>3. QED
      BY <1>5, <3>1, <3>2
  <2>2. CASE x[1] # m
    <3>1. f[x] = <<x[1], x[2]>>
      BY <1>3, <2>2
    <3>2. x[2] \in 1 .. Len(r[x[1]]) /\ r[x[1]][x[2]].phase = p
      BY <1>2, <1>3, <2>2
    <3>3. QED
      BY <1>3, <1>5, <3>1, <3>2
  <2>3. QED
    BY <2>1, <2>2
<1>9. \A c \in C : \E x \in A : f[x] = c
  <2> TAKE c \in C
  <2>1. CASE c[1] = m
    <3>1. PICK i \in 1 .. Len(q[m]) : i = c[2] + 1 /\ i # 1 /\ i \in Nat
      BY <1>1, <1>4, <2>1
    <3>2. <<m, i>> \in A
      <4>1. i - 1 = c[2]
        BY <1>4, <3>1
      <4>2. q[m][i].phase = p
        BY <1>1, <1>4, <2>1, <3>1, <4>1
      <4>3. QED
        BY <1>5, <3>1, <4>2
    <3>3. f[<<m, i>>] = <<m, i - 1>> /\ i - 1 = c[2]
      BY <1>4, <3>1, <3>2
    <3>4. QED
      BY <1>4, <2>1, <3>2, <3>3
  <2>2. CASE c[1] # m
    <3>1. <<c[1], c[2]>> \in A
      BY <1>2, <1>4, <1>5, <2>2
    <3>2. c \in A
      BY <1>4, <3>1
    <3>3. f[c] = c
      BY <2>2, <3>2
    <3>4. QED
      BY <3>2, <3>3
  <2>3. QED
    BY <2>1, <2>2
<1>10. \A x, z \in A : f[x] = f[z] => x = z
  <2> TAKE x, z \in A
  <2> HAVE f[x] = f[z]
  <2>1. /\ f[x] = <<x[1], IF x[1] = m THEN x[2] - 1 ELSE x[2]>>
        /\ f[z] = <<z[1], IF z[1] = m THEN z[2] - 1 ELSE z[2]>>
    BY <1>3
  <2>2. x[1] = z[1] /\ (IF x[1] = m THEN x[2] - 1 ELSE x[2]) = (IF z[1] = m THEN z[2] - 1 ELSE z[2])
    BY <2>1
  <2>3. x[2] = z[2]
    BY <1>3, <2>2
  <2>4. QED
    BY <1>3, <2>2, <2>3
<1>11. ExistsBijection(A, C)
  <2>1. f \in [A -> C]
    BY <1>8
  <2> HIDE DEF f
  <2>2. f \in Bijection(A, C)
    BY <1>9, <1>10, <2>1 DEF Bijection, Injection, Surjection, IsInjective
  <2>3. QED
    BY <2>2 DEF ExistsBijection
<1>12. IsFiniteSet(C) /\ Cardinality(C) = Cardinality(A)
  BY <1>6, <1>11, FS_Bijection
<1>13. Cardinality(C) \in Nat /\ Cardinality(Coming(q, p)) \in Nat
  BY <1>12, FS_CardinalityType
<1>14. QED
  BY <1>6, <1>7, <1>12, <1>13 DEF C

LEMMA TakenTallies ==
  ASSUME NEW y, IsWorld(y), NEW s, IsServer(s), NEW q, NEW r, NEW m \in Monitors, NEW e,
         Takes(q, r, m, e), Turns(y, q), Tallies(y, s, q)
  PROVE  Tallies(y, MadeOf(s, e, y.lean), r)
<1> DEFINE s2 == MadeOf(s, e, y.lean)
<1>1. e.phase \in Phases /\ e.key \in Keys /\ (y.lean => e.phase # "started")
  <2>1. Ofs(e) /\ (y.lean => e.phase # "started")
    <3>1. TurnIs(y, r, m, e)
      BY TakenTurns
    <3>2. QED
      BY ONLY <3>1 DEF TurnIs
  <2>2. QED
    BY <2>1 DEF Ofs, Tells
<1>2. s2.stats = Stats(s, e, y.lean) /\ s2.life = [s.life EXCEPT ![e.key] = Life(s, e) \union {ClassOf[e.phase]}]
  BY DEF MadeOf
<1>3. s.stats \in [Phases -> Int] /\ s.life \in [Keys -> SUBSET {0, 1, 2}]
  BY DEF IsServer
<1>4. y.lean \in BOOLEAN /\ y.emitted \in [Phases -> Int]
  BY DEF IsWorld
<1>5. y.lean => 1 \notin Life(s, e)
  BY <1>1 DEF Tallies, Life
<1>6. ASSUME NEW p \in Phases
      PROVE  /\ IsFiniteSet(Coming(r, p))
             /\ \/ y.lean /\ p = "started"
                \/ s2.stats[p] + Cardinality(Coming(r, p)) = y.emitted[p]
  <2>1. IsFiniteSet(Coming(q, p)) /\ \/ y.lean /\ p = "started"
                                     \/ s.stats[p] + Cardinality(Coming(q, p)) = y.emitted[p]
    BY DEF Tallies
  <2>2. /\ IsFiniteSet(Coming(r, p))
        /\ Cardinality(Coming(q, p)) = Cardinality(Coming(r, p)) + (IF e.phase = p THEN 1 ELSE 0)
        /\ Cardinality(Coming(r, p)) \in Nat
    BY <2>1, TakenComing
  <2>3. ~(y.lean /\ p = "started") => s2.stats[p] = s.stats[p] + (IF e.phase = p THEN 1 ELSE 0)
    BY <1>2, <1>3, <1>4 DEF Stats, Derived
  <2>4. s.stats[p] \in Int
    BY <1>3
  <2>5. QED
    BY <2>1, <2>2, <2>3, <2>4
<1>7. ASSUME y.lean
      PROVE  /\ s2.stats["started"] = s2.stats["finished"] + s2.stats["errored"]
             /\ \A k \in Keys : 1 \notin s2.life[k]
  <2>1. s.stats["started"] = s.stats["finished"] + s.stats["errored"] /\ \A k \in Keys : 1 \notin s.life[k]
    BY <1>7 DEF Tallies
  <2>2. /\ s2.stats["finished"] = s.stats["finished"] + (IF e.phase = "finished" THEN 1 ELSE 0)
        /\ s2.stats["errored"] = s.stats["errored"] + (IF e.phase = "errored" THEN 1 ELSE 0)
        /\ s2.stats["started"] = s.stats["started"] + (IF e.phase \in {"finished", "errored"} THEN 1 ELSE 0)
    BY <1>1, <1>2, <1>3, <1>5, <1>7, ClassesAre DEF Stats, Derived, Phases
  <2>3. s.stats["started"] \in Int /\ s.stats["finished"] \in Int /\ s.stats["errored"] \in Int
    BY <1>3 DEF Phases
  <2>4. s2.stats["started"] = s2.stats["finished"] + s2.stats["errored"]
    BY <2>1, <2>2, <2>3
  <2>5. \A k \in Keys : 1 \notin s2.life[k]
    BY <1>1, <1>2, <1>3, <1>5, <1>7, <2>1, ClassesAre
  <2>6. QED
    BY <2>4, <2>5
<1>8. QED
  BY <1>4, <1>6, <1>7 DEF Tallies

LEMMA TakenFlights ==
  ASSUME DashboardAssumption,
         NEW y, IsWorld(y), NEW s, IsServer(s), NEW q, NEW r, NEW m \in Monitors, NEW e,
         Takes(q, r, m, e), Turns(y, q), Flights(y, s, q)
  PROVE  Flights(y, MadeOf(s, e, y.lean), r)
<1> DEFINE s2 == MadeOf(s, e, y.lean)
<1>0. /\ e \in Tells
      /\ 1 \in 1 .. Len(q[m]) /\ q[m][1] = e /\ Len(r[m]) \in Nat /\ Len(q[m]) = Len(r[m]) + 1
      /\ \A i \in 1 .. Len(r[m]) : i + 1 \in 1 .. Len(q[m]) /\ q[m][i + 1] = r[m][i]
  <2>1. Firsts(q, r, m, e)
    BY TakenFirst
  <2>2. QED
    BY ONLY <2>1 DEF Firsts
<1>1. /\ Turns(y, r) /\ Ofs(e) /\ e.worker = m
      /\ (e.phase = "submitted" <=> m = Driver) /\ (y.lean => e.phase # "started")
  <2>1. TurnIs(y, r, m, e)
    BY TakenTurns
  <2>2. QED
    BY ONLY <2>1 DEF TurnIs
<1>2. e.phase \in Phases /\ y.lean \in BOOLEAN
  BY <1>1 DEF Ofs, Tells, IsWorld
<1>3. s2.inflight = InFlight(s, e, y.lean) /\ s2.seen = Seen(s, e) /\ s2.open = Opened(s, e)
  BY DEF MadeOf
<1>4. CASE y.lean
  BY <1>3, <1>4 DEF InFlight, Flights
<1>5. CASE ~y.lean
  <2> DEFINE O == OpenFlights(y, q)
             P == OpenFlights(y, r)
  <2>1. \A x \in Monitors : x # m => r[x] = q[x]
    BY DEF Takes
  <2>2. \A w \in Workers : w \in Monitors /\ (w # m => (w \in P <=> w \in O))
    BY <2>1 DEF OpenFlights, OpenOn, Monitors
  <2>3. /\ O \subseteq Workers /\ P \subseteq Workers
        /\ IsFiniteSet(O) /\ IsFiniteSet(P) /\ Cardinality(O) \in Nat /\ Cardinality(P) \in Nat
    <3>1. O \subseteq Workers /\ P \subseteq Workers /\ IsFiniteSet(Workers)
      BY DEF OpenFlights, DashboardAssumption
    <3>2. IsFiniteSet(O) /\ IsFiniteSet(P)
      BY <3>1, FS_Subset
    <3>3. QED
      BY <3>1, <3>2, FS_CardinalityType
  <2>4. s.inflight = Cardinality(O)
    BY <1>5 DEF Flights
  <2>5. s2.inflight = CASE e.phase = "started" -> s.inflight + 1
                        [] ClassOf[e.phase] = 2 -> Larger(0, s.inflight - 1)
                        [] OTHER -> s.inflight
    BY <1>3, <1>5 DEF InFlight
  <2>6. CASE m = Driver
    <3>1. O = P
      <4>1. m \notin Workers
        BY <2>6 DEF DashboardAssumption
      <4>2. QED
        BY <2>2, <2>3, <4>1
    <3>2. s2.inflight = s.inflight
      <4>1. e.phase = "submitted" /\ e.phase # "started" /\ ClassOf[e.phase] # 2
        BY <1>1, <1>2, <2>6, ClassesAre
      <4>2. QED
        BY <2>5, <4>1
    <3>3. QED
      BY <1>5, <2>4, <3>1, <3>2 DEF Flights
  <2>7. CASE m # Driver
    <3>1. m \in Workers
      BY <2>7 DEF Monitors
    <3>2. /\ 1 \in 1 .. Len(q[m]) /\ q[m][1] = e /\ Len(r[m]) \in Nat /\ Len(q[m]) = Len(r[m]) + 1
          /\ \A i \in 1 .. Len(r[m]) : q[m][i + 1] = r[m][i]
      BY <1>0
    <3>3. m \in O <=> e.phase # "started"
      BY <3>1, <3>2 DEF OpenFlights, OpenOn
    <3>4. m \in P <=> e.phase = "started"
      <4>1. InTurn(y, m, q[m])
        BY <1>5, <3>1 DEF Turns
      <4>2. CASE Len(r[m]) = 0
        <5>1. 1 = Len(q[m])
          BY <3>2, <4>2
        <5>2. e.phase = "started" => OnTask(y, e.key, m)
          BY <3>2, <4>1, <5>1 DEF InTurn
        <5>3. e.phase # "started" => ~AtWork(y, m)
          BY <3>2, <4>1, <5>1 DEF InTurn
        <5>4. e.phase = "started" => AtWork(y, m)
          BY <1>1, <5>2 DEF AtWork, Ofs, Tells
        <5>5. m \in P <=> AtWork(y, m)
          BY <3>1, <4>2 DEF OpenFlights, OpenOn
        <5>6. QED
          BY <5>3, <5>4, <5>5
      <4>3. CASE Len(r[m]) # 0
        <5>1. 1 # Len(q[m]) /\ 1 \in 1 .. Len(r[m])
          BY <3>2, <4>3
        <5>2. q[m][1 + 1] = r[m][1]
          BY <3>2, <5>1
        <5>3. (e.phase = "started" => r[m][1].phase # "started") /\ (e.phase # "started" => r[m][1].phase = "started")
          BY <3>2, <4>1, <5>1, <5>2 DEF InTurn
        <5>4. m \in P <=> r[m][1].phase # "started"
          BY <3>1, <4>3 DEF OpenFlights, OpenOn
        <5>5. QED
          BY <5>3, <5>4
      <4>4. QED
        BY <4>2, <4>3
    <3>5. CASE e.phase = "started"
      <4>1. P = O \union {m} /\ m \notin O
        BY <2>2, <2>3, <3>1, <3>3, <3>4, <3>5
      <4>2. Cardinality(P) = Cardinality(O) + 1
        BY <2>3, <4>1, FS_AddElement
      <4>3. ClassOf[e.phase] # 2
        BY <1>2, <3>5, ClassesAre
      <4>4. s2.inflight = s.inflight + 1
        BY <2>5, <3>5, <4>3
      <4>5. QED
        BY <1>5, <2>4, <4>2, <4>4 DEF Flights
    <3>6. CASE e.phase # "started"
      <4>1. P = O \ {m} /\ m \in O
        BY <2>2, <2>3, <3>1, <3>3, <3>4, <3>6
      <4>2. Cardinality(P) = Cardinality(O) - 1
        BY <2>3, <4>1, FS_RemoveElement
      <4>3. ClassOf[e.phase] = 2
        BY <1>1, <1>2, <2>7, <3>6, ClassesAre DEF Phases
      <4>4. s2.inflight = Larger(0, s.inflight - 1)
        BY <2>5, <3>6, <4>3
      <4>5. Larger(0, s.inflight - 1) = Cardinality(P)
        BY <2>3, <2>4, <4>2 DEF Larger
      <4>6. QED
        BY <1>5, <4>4, <4>5 DEF Flights
    <3>7. QED
      BY <3>5, <3>6
  <2>8. QED
    BY <2>6, <2>7
<1>6. QED
  BY <1>2, <1>4, <1>5

LEMMA TakenOfRun ==
  ASSUME NEW y, NEW q, NEW r, NEW m \in Monitors, NEW e, Takes(q, r, m, e), OfRun(y, q)
  PROVE  OfRun(y, r)
<1>1. /\ Len(r[m]) \in Nat /\ Len(q[m]) = Len(r[m]) + 1
      /\ \A i \in 1 .. Len(r[m]) : i + 1 \in 1 .. Len(q[m]) /\ q[m][i + 1] = r[m][i]
      /\ \A i \in 1 .. Len(q[m]) : i # 1 => i - 1 \in 1 .. Len(r[m]) /\ r[m][i - 1] = q[m][i]
  <2>1. Firsts(q, r, m, e)
    BY TakenFirst
  <2>2. QED
    BY ONLY <2>1 DEF Firsts
<1>2. \A x \in Monitors : x # m => r[x] = q[x]
  BY DEF Takes
<1>3. Driver \in Monitors /\ Workers \subseteq Monitors
  BY DEF Monitors
<1>4. FromDriver(y, r[Driver])
  <2>1. CASE Driver # m
    BY <1>2, <1>3, <2>1 DEF OfRun
  <2>2. CASE Driver = m
    <3> SUFFICES ASSUME NEW i \in 1 .. Len(r[m])
                 PROVE  /\ r[m][i].label = y.begun /\ y.task[r[m][i].key].told # "none"
                        /\ \A j \in 1 .. Len(r[m]) : r[m][i].key = r[m][j].key => i = j
      BY <2>2 DEF FromDriver
    <3>1. FromDriver(y, q[m])
      BY <2>2 DEF OfRun
    <3>2. i + 1 \in 1 .. Len(q[m]) /\ q[m][i + 1] = r[m][i]
      BY <1>1
    <3>3. r[m][i].label = y.begun /\ y.task[r[m][i].key].told # "none"
      BY <3>1, <3>2 DEF FromDriver
    <3>4. ASSUME NEW j \in 1 .. Len(r[m]), r[m][i].key = r[m][j].key PROVE i = j
      <4>1. j + 1 \in 1 .. Len(q[m]) /\ q[m][j + 1] = r[m][j]
        BY <1>1
      <4>2. i + 1 = j + 1
        BY <3>1, <3>2, <3>4, <4>1 DEF FromDriver
      <4>3. QED
        BY <4>2
    <3>5. QED
      BY <3>3, <3>4
  <2>3. QED
    BY <2>1, <2>2
<1>5. ASSUME NEW w \in Workers PROVE FromWorker(y, w, r[w])
  <2>0. FromWorker(y, w, q[w])
    BY DEF OfRun
  <2>1. CASE w # m
    BY <1>2, <1>3, <2>0, <2>1
  <2>2. CASE w = m
    <3> SUFFICES ASSUME NEW i \in 1 .. Len(r[w])
                 PROVE  /\ y.task[r[w][i].key].worker = w
                        /\ y.task[r[w][i].key].told \notin {"none", "submitted"}
                        /\ ~y.lean => r[w][i].label = y.begun
                        /\ y.lean => r[w][i].label = NoLabel
                        /\ \/ r[w][i].phase = y.task[r[w][i].key].told
                           \/ \E j \in 1 .. Len(r[w]) : i < j /\ r[w][j].key = r[w][i].key
                        /\ y.retries = 0 /\ Opens(y, r[w][i]) =>
                             \A j \in 1 .. Len(r[w]) : j < i => r[w][j].key # r[w][i].key
      BY DEF FromWorker
    <3>1. PICK n \in 1 .. Len(q[w]) : n = i + 1 /\ q[w][n] = r[w][i]
      BY <1>1, <2>2
    <3>2. /\ y.task[q[w][n].key].worker = w
          /\ y.task[q[w][n].key].told \notin {"none", "submitted"}
          /\ ~y.lean => q[w][n].label = y.begun
          /\ y.lean => q[w][n].label = NoLabel
          /\ \/ q[w][n].phase = y.task[q[w][n].key].told
             \/ \E j \in 1 .. Len(q[w]) : n < j /\ q[w][j].key = q[w][n].key
          /\ y.retries = 0 /\ Opens(y, q[w][n]) =>
               \A j \in 1 .. Len(q[w]) : j < n => q[w][j].key # q[w][n].key
      BY <2>0 DEF FromWorker
    <3>3. ASSUME NEW j \in 1 .. Len(q[w]), n < j, q[w][j].key = q[w][n].key
          PROVE  \E l \in 1 .. Len(r[w]) : i < l /\ r[w][l].key = r[w][i].key
      <4>1. j - 1 \in 1 .. Len(r[w]) /\ r[w][j - 1] = q[w][j]
        BY <1>1, <2>2, <3>1, <3>3
      <4>2. i < j - 1
        BY <3>1, <3>3
      <4>3. QED
        BY <3>1, <3>3, <4>1, <4>2
    <3>4. ASSUME y.retries = 0, Opens(y, r[w][i]), NEW j \in 1 .. Len(r[w]), j < i
          PROVE  r[w][j].key # r[w][i].key
      <4>1. PICK l \in 1 .. Len(q[w]) : l = j + 1 /\ q[w][l] = r[w][j]
        BY <1>1, <2>2
      <4>2. l < n
        BY <3>1, <3>4, <4>1
      <4>3. QED
        BY <3>1, <3>2, <3>4, <4>1, <4>2
    <3>5. QED
      BY <3>1, <3>2, <3>3, <3>4
  <2>3. QED
    BY <2>1, <2>2
<1>6. QED
  BY <1>4, <1>5 DEF OfRun

\* Of a task that a worker told of.
LEMMA TaskToldOf ==
  ASSUME NEW y, IsWorld(y), NEW k \in Keys, TaskTold(y, k)
  PROVE  /\ y.task[k].told \notin {"none", "submitted"} => y.task[k].worker \in Workers
         /\ y.task[k].told # "none" => y.begun # 0
         /\ y.task[k].told \in {"none"} \union Phases
<1>1. y.task[k].at \in Places /\ y.task[k].told \in {"none"} \union Phases
  BY DEF IsWorld, TaskTold
<1>2. y.task[k].told # "none" => y.begun # 0
  BY DEF TaskTold
<1>3. y.task[k].told \notin {"none", "submitted"} => y.task[k].worker \in Workers
  BY <1>1 DEF TaskTold, Places, Ends
<1>4. QED
  BY <1>1, <1>2, <1>3

\* What is heard once e is taken in.
NowHeard(h, e) == IF e.phase = "submitted" THEN h ELSE [h EXCEPT ![e.key] = e.phase]

\* What is known of the event that is due first.
EventIs(y, r, m, e) ==
  /\ e \in Tells /\ e.key \in Keys /\ e.phase \in Phases /\ y.begun # 0
  /\ y.task[e.key].told # "none"
  /\ m = Driver => e.phase = "submitted" /\ e.label = y.begun
  /\ m # Driver => /\ m \in Workers /\ e.worker = m /\ e.phase \in {"started"} \union Ends
                   /\ y.lean => e.phase \in Ends /\ e.label = NoLabel
                   /\ ~y.lean => e.label = y.begun
                   /\ y.task[e.key].worker = m
                   /\ y.task[e.key].told \notin {"none", "submitted"}
                   /\ \/ e.phase = y.task[e.key].told
                      \/ \E i \in 1 .. Len(r[m]) : r[m][i].key = e.key
                   /\ y.retries = 0 => \A i \in 1 .. Len(r[m]) : Opens(y, r[m][i]) => r[m][i].key # e.key

LEMMA TakenIs ==
  ASSUME NEW y, IsWorld(y), Tasked(y), NEW q, NEW r, NEW m \in Monitors, NEW e,
         Takes(q, r, m, e), Turns(y, q), OfRun(y, q)
  PROVE  EventIs(y, r, m, e)
<1>1. /\ Len(r[m]) \in Nat /\ Len(q[m]) = Len(r[m]) + 1 /\ 1 \in 1 .. Len(q[m]) /\ q[m][1] = e
      /\ \A i \in 1 .. Len(r[m]) : i + 1 \in 1 .. Len(q[m]) /\ q[m][i + 1] = r[m][i]
      /\ \A i \in 1 .. Len(q[m]) : i # 1 => i - 1 \in 1 .. Len(r[m]) /\ r[m][i - 1] = q[m][i]
  <2>1. Firsts(q, r, m, e)
    BY TakenFirst
  <2>2. QED
    BY ONLY <2>1 DEF Firsts
<1>2. /\ Ofs(e) /\ e.worker = m
      /\ (e.phase = "submitted" <=> m = Driver) /\ (y.lean => e.phase # "started")
  <2>1. TurnIs(y, r, m, e)
    BY TakenTurns
  <2>2. QED
    BY ONLY <2>1 DEF TurnIs
<1>3. e \in Tells /\ e.key \in Keys /\ e.phase \in Phases
  BY <1>2 DEF Ofs, Tells
<1>4. y.lean \in BOOLEAN
  BY DEF IsWorld
<1>5. CASE m = Driver
  <2>1. e.label = y.begun /\ y.task[e.key].told # "none"
    BY <1>1, <1>5 DEF OfRun, FromDriver
  <2>2. y.begun # 0
    BY <1>3, <2>1, TaskToldOf DEF Tasked
  <2>3. QED
    BY <1>2, <1>3, <1>5, <2>1, <2>2 DEF EventIs
<1>6. CASE m # Driver
  <2>1. m \in Workers
    BY <1>6 DEF Monitors
  <2>2. FromWorker(y, m, q[m])
    BY <2>1 DEF OfRun
  <2>3. /\ y.task[e.key].worker = m
        /\ y.task[e.key].told \notin {"none", "submitted"}
        /\ ~y.lean => e.label = y.begun
        /\ y.lean => e.label = NoLabel
        /\ \/ e.phase = y.task[e.key].told
           \/ \E j \in 1 .. Len(q[m]) : 1 < j /\ q[m][j].key = e.key
    BY <1>1, <2>2 DEF FromWorker
  <2>4. \/ e.phase = y.task[e.key].told
        \/ \E i \in 1 .. Len(r[m]) : r[m][i].key = e.key
    <3>1. ASSUME NEW j \in 1 .. Len(q[m]), 1 < j, q[m][j].key = e.key
          PROVE  \E i \in 1 .. Len(r[m]) : r[m][i].key = e.key
      <4>1. j - 1 \in 1 .. Len(r[m]) /\ r[m][j - 1] = q[m][j]
        BY <1>1, <3>1
      <4>2. QED
        BY <3>1, <4>1
    <3>2. QED
      BY <2>3, <3>1
  <2>5. ASSUME y.retries = 0, NEW i \in 1 .. Len(r[m]), Opens(y, r[m][i]) PROVE r[m][i].key # e.key
    <3>1. PICK n \in 1 .. Len(q[m]) : n = i + 1 /\ q[m][n] = r[m][i]
      BY <1>1
    <3>2. 1 < n
      BY <3>1
    <3>3. QED
      BY <1>1, <2>2, <2>5, <3>1, <3>2 DEF FromWorker
  <2>6. e.phase \in {"started"} \union Ends /\ (y.lean => e.phase \in Ends)
    BY <1>2, <1>3, <1>6 DEF Phases, Ends
  <2>7. y.begun # 0
    BY <1>3, <2>3, TaskToldOf DEF Tasked
  <2>8. QED
    BY <1>2, <1>3, <1>6, <2>1, <2>3, <2>4, <2>5, <2>6, <2>7 DEF EventIs
<1>7. QED
  BY <1>5, <1>6

LEMMA TakenHeard ==
  ASSUME DashboardAssumption,
         NEW y, IsWorld(y), Tasked(y), NEW q, NEW r, NEW m \in Monitors, NEW e,
         Takes(q, r, m, e), Turns(y, q), OfRun(y, q), NEW h, HeardIs(y, q, h)
  PROVE  HeardIs(y, r, NowHeard(h, e))
<1> DEFINE g == NowHeard(h, e)
<1>1. /\ Len(r[m]) \in Nat /\ Len(q[m]) = Len(r[m]) + 1 /\ 1 \in 1 .. Len(q[m]) /\ q[m][1] = e
      /\ \A i \in 1 .. Len(r[m]) : i + 1 \in 1 .. Len(q[m]) /\ q[m][i + 1] = r[m][i]
      /\ \A i \in 1 .. Len(q[m]) : i # 1 => i - 1 \in 1 .. Len(r[m]) /\ r[m][i - 1] = q[m][i]
  <2>1. Firsts(q, r, m, e)
    BY TakenFirst
  <2>2. QED
    BY ONLY <2>1 DEF Firsts
<1>2. /\ e \in Tells /\ e.key \in Keys /\ e.phase \in Phases /\ y.begun # 0
      /\ y.task[e.key].told # "none"
      /\ m = Driver => e.phase = "submitted" /\ e.label = y.begun
      /\ m # Driver => /\ m \in Workers /\ e.worker = m /\ e.phase \in {"started"} \union Ends
                       /\ y.lean => e.phase \in Ends /\ e.label = NoLabel
                       /\ ~y.lean => e.label = y.begun
                       /\ y.task[e.key].worker = m
                       /\ y.task[e.key].told \notin {"none", "submitted"}
                       /\ \/ e.phase = y.task[e.key].told
                          \/ \E i \in 1 .. Len(r[m]) : r[m][i].key = e.key
                       /\ y.retries = 0 => \A i \in 1 .. Len(r[m]) : Opens(y, r[m][i]) => r[m][i].key # e.key
  <2>1. EventIs(y, r, m, e)
    BY TakenIs
  <2>2. QED
    BY ONLY <2>1 DEF EventIs
<1>3. \A x \in Monitors : x # m => r[x] = q[x]
  BY DEF Takes
<1>4. y.lean \in BOOLEAN /\ Workers \subseteq Monitors
  BY DEF IsWorld, Monitors
<1>5. h \in [Keys -> {"none", "started"} \union Ends]
  BY DEF HeardIs
<1>6. \A k \in Keys : g[k] = IF m # Driver /\ k = e.key THEN e.phase ELSE h[k]
  BY <1>2, <1>5 DEF NowHeard, Ends
<1>7. g \in [Keys -> {"none", "started"} \union Ends]
  BY <1>2, <1>5 DEF NowHeard
<1> HIDE DEF g
<1>8. ASSUME NEW k \in Keys
      PROVE  /\ y.lean => g[k] # "started"
             /\ y.task[k].told \in {"none", "submitted"} => g[k] = "none"
             /\ \/ y.task[k].told \in {"none", "submitted"}
                \/ g[k] = y.task[k].told
                \/ \E i \in 1 .. Len(r[y.task[k].worker]) : r[y.task[k].worker][i].key = k
  <2>1. /\ y.lean => h[k] # "started"
        /\ y.task[k].told \in {"none", "submitted"} => h[k] = "none"
        /\ \/ y.task[k].told \in {"none", "submitted"}
           \/ h[k] = y.task[k].told
           \/ \E i \in 1 .. Len(q[y.task[k].worker]) : q[y.task[k].worker][i].key = k
    BY DEF HeardIs
  <2>2. CASE m # Driver /\ k = e.key
    BY <1>2, <1>6, <2>2 DEF Ends
  <2>3. CASE ~(m # Driver /\ k = e.key)
    <3>1. g[k] = h[k]
      BY <1>6, <2>3
    <3>2. ASSUME y.task[k].told \notin {"none", "submitted"},
                 NEW i \in 1 .. Len(q[y.task[k].worker]), q[y.task[k].worker][i].key = k
          PROVE  \E j \in 1 .. Len(r[y.task[k].worker]) : r[y.task[k].worker][j].key = k
      <4>1. y.task[k].worker \in Workers
        BY <3>2, TaskToldOf DEF Tasked
      <4>2. CASE y.task[k].worker # m
        <5>1. r[y.task[k].worker] = q[y.task[k].worker]
          BY <1>3, <1>4, <4>1, <4>2
        <5>2. QED
          BY <3>2, <5>1
      <4>3. CASE y.task[k].worker = m
        <5>1. m # Driver
          BY <4>1, <4>3 DEF DashboardAssumption
        <5>2. i # 1
          BY <1>1, <2>3, <3>2, <4>3, <5>1
        <5>3. QED
          BY <1>1, <3>2, <4>3, <5>2
      <4>4. QED
        BY <4>2, <4>3
    <3>3. QED
      BY <2>1, <3>1, <3>2
  <2>4. QED
    BY <2>2, <2>3
<1>9. ASSUME NEW w \in Workers, NEW i \in 1 .. Len(r[w])
      PROVE  /\ y.retries = 0 /\ Opens(y, r[w][i]) => g[r[w][i].key] = "none"
             /\ i = 1 /\ ~Opens(y, r[w][i]) => g[r[w][i].key] = "started"
  <2>1. CASE w # m
    <3>1. r[w] = q[w] /\ i \in 1 .. Len(q[w])
      BY <1>3, <1>4, <2>1
    <3>2. /\ y.retries = 0 /\ Opens(y, q[w][i]) => h[q[w][i].key] = "none"
          /\ i = 1 /\ ~Opens(y, q[w][i]) => h[q[w][i].key] = "started"
      BY <3>1 DEF HeardIs
    <3>3. y.task[q[w][i].key].worker = w
      BY <3>1 DEF OfRun, FromWorker
    <3>4. q[w][i].key \in Keys
      <4>1. q[w] \in Seq(Tells)
        BY <1>4 DEF Takes, Dues
      <4>2. q[w][i] \in Tells
        BY <3>1, <4>1
      <4>3. QED
        BY <4>2 DEF Tells
    <3>5. g[q[w][i].key] = h[q[w][i].key]
      BY <1>2, <1>6, <2>1, <3>3, <3>4
    <3>6. QED
      BY <3>1, <3>2, <3>5
  <2>2. CASE w = m
    <3>1. m # Driver
      BY <2>2 DEF DashboardAssumption
    <3>2. PICK n \in 1 .. Len(q[m]) : n = i + 1 /\ q[m][n] = r[m][i]
      BY <1>1, <2>2
    <3>3. r[m][i].key \in Keys
      <4>1. r[m] \in Seq(Tells)
        BY DEF Takes, Dues
      <4>2. r[m][i] \in Tells
        BY <2>2, <4>1
      <4>3. QED
        BY <4>2 DEF Tells
    <3>4. ASSUME y.retries = 0, Opens(y, r[m][i]) PROVE g[r[m][i].key] = "none"
      <4>1. h[q[m][n].key] = "none"
        BY <2>2, <3>2, <3>4 DEF HeardIs
      <4>2. r[m][i].key # e.key
        BY <1>2, <2>2, <3>1, <3>4
      <4>3. QED
        BY <1>6, <3>2, <3>3, <4>1, <4>2
    <3>5. ASSUME i = 1, ~Opens(y, r[m][i]) PROVE g[r[m][i].key] = "started"
      <4>1. ~y.lean /\ r[m][1].phase # "started"
        BY <3>5 DEF Opens
      <4>2. InTurn(y, m, q[m])
        BY <2>2, <4>1 DEF Turns
      <4>3. 1 # Len(q[m]) /\ q[m][1 + 1] = r[m][1]
        BY <1>1, <2>2, <3>5
      <4>4. e.phase = "started" /\ r[m][1].key = e.key
        BY <1>1, <4>1, <4>2, <4>3 DEF InTurn
      <4>5. QED
        BY <1>2, <1>6, <3>1, <3>5, <4>4
    <3>6. QED
      BY <2>2, <3>4, <3>5
  <2>3. QED
    BY <2>1, <2>2
<1>10. QED
  BY <1>7, <1>8, <1>9 DEF HeardIs, g

\* What is made of one event of a task, by what was heard of the task before.
LEMMA OnSubmission ==
  ASSUME NEW y, IsWorld(y), y.begun # 0, NEW s, IsServer(s),
         NEW e \in Tells, e.phase = "submitted", e.label = y.begun,
         NEW v \in {"none", "started"} \union Ends, y.lean => v # "started",
         LifeIs(y, s.life[e.key], TRUE, v), RowIs(y, s.rows[e.key], TRUE, v)
  PROVE  /\ LifeIs(y, Life(s, e) \union {0}, FALSE, v) /\ RowIs(y, Row(s, e), FALSE, v)
         /\ 2 \in Life(s, e) <=> v \in Ends
<1>1. ClassOf[e.phase] = 0 /\ e.label # NoLabel /\ y.lean \in BOOLEAN
  BY ClassesAre DEF Tells, IsWorld, NoLabel
<1>2. Life(s, e) = IF 0 \in s.life[e.key] THEN {} ELSE s.life[e.key]
  BY <1>1 DEF Life
<1>3. s.life[e.key] \subseteq {0, 1, 2}
  BY DEF IsServer, Tells
<1>4. CASE v = "none"
  <2>1. Life(s, e) = {}
    BY <1>2, <1>4 DEF LifeIs, Full
  <2>2. LifeIs(y, Life(s, e) \union {0}, FALSE, v)
    BY <1>4, <2>1 DEF LifeIs
  <2>3. Row(s, e) = [phase |-> "submitted", label |-> y.begun]
    BY <1>1, <2>1 DEF Row, Late
  <2>4. RowIs(y, Row(s, e), FALSE, v)
    BY <1>4, <2>3 DEF RowIs
  <2>5. 2 \notin Life(s, e) /\ v \notin Ends
    BY <1>4, <2>1 DEF Ends
  <2>6. QED
    BY <2>2, <2>4, <2>5
<1>5. CASE v # "none"
  <2>1. /\ 1 \in s.life[e.key] <=> ~y.lean
        /\ 2 \in s.life[e.key] <=> v # "started"
        /\ 0 \notin s.life[e.key]
    BY <1>5 DEF LifeIs
  <2>2. Life(s, e) = s.life[e.key] /\ (2 \in Life(s, e) <=> v \in Ends)
    BY <1>2, <1>5, <2>1 DEF Ends
  <2>3. LifeIs(y, Life(s, e) \union {0}, FALSE, v)
    BY <1>5, <2>1, <2>2 DEF LifeIs
  <2>4. Late(s, e)
    <3>1. \E c \in Life(s, e) : c > 0
      BY <1>1, <2>1, <2>2
    <3>2. QED
      BY <1>1, <3>1 DEF Late
  <2>5. Row(s, e) = [phase |-> s.rows[e.key].phase, label |-> y.begun]
    BY <1>1, <2>4 DEF Row
  <2>6. RowIs(y, Row(s, e), FALSE, v)
    BY <1>5, <2>5 DEF RowIs
  <2>7. QED
    BY <2>2, <2>3, <2>6
<1>6. QED
  BY <1>4, <1>5

LEMMA OnStarting ==
  ASSUME NEW y, IsWorld(y), y.begun # 0, NEW s, IsServer(s),
         NEW e \in Tells, e.phase = "started", e.label = y.begun, ~y.lean,
         NEW v \in {"none", "started"} \union Ends, y.retries = 0 => v = "none", NEW d \in BOOLEAN,
         LifeIs(y, s.life[e.key], d, v)
  PROVE  /\ LifeIs(y, Life(s, e) \union {1}, d, "started") /\ RowIs(y, Row(s, e), d, "started")
         /\ CellIs(y, Record(s, e), "started")
<1>1. ClassOf[e.phase] = 1 /\ e.label # NoLabel
  BY ClassesAre DEF Tells, IsWorld, NoLabel
<1>2. Life(s, e) = IF 1 \in s.life[e.key] THEN {} ELSE s.life[e.key]
  BY <1>1 DEF Life
<1>3. Life(s, e) = {} \/ (~d /\ Life(s, e) = {0})
  BY <1>2 DEF LifeIs, Full
<1>4. y.retries = 0 /\ ~d => Life(s, e) = {0}
  BY <1>2 DEF LifeIs
<1>5. LifeIs(y, Life(s, e) \union {1}, d, "started")
  BY <1>3, <1>4 DEF LifeIs
<1>6. ~Late(s, e)
  BY <1>1, <1>3 DEF Late
<1>7. Row(s, e) = [phase |-> "started", label |-> y.begun]
  BY <1>1, <1>6 DEF Row
<1>8. Record(s, e).label = y.begun
  BY <1>1 DEF Record
<1>9. QED
  BY <1>5, <1>7, <1>8 DEF RowIs, CellIs, Ends

LEMMA OnEnding ==
  ASSUME NEW y, IsWorld(y), y.begun # 0, NEW s, IsServer(s),
         NEW e \in Tells, e.phase \in Ends, IF y.lean THEN e.label = NoLabel ELSE e.label = y.begun,
         NEW v \in {"none", "started"} \union Ends, (v = "started") <=> ~y.lean,
         y.lean /\ y.retries = 0 => v = "none", NEW d \in BOOLEAN,
         LifeIs(y, s.life[e.key], d, v), RowIs(y, s.rows[e.key], d, v),
         ~y.lean => CellIs(y, s.records[e.worker][e.key], v)
  PROVE  /\ LifeIs(y, Life(s, e) \union {2}, d, e.phase) /\ RowIs(y, Row(s, e), d, e.phase)
         /\ CellIs(y, Record(s, e), e.phase)
<1>1. /\ ClassOf[e.phase] = 2 /\ e.phase # "started" /\ e.phase # "none" /\ e.phase # "submitted"
      /\ y.lean \in BOOLEAN /\ e.key \in Keys
  BY ClassesAre DEF Tells, IsWorld, Ends
<1>2. Life(s, e) = IF 2 \in s.life[e.key] THEN {} ELSE s.life[e.key]
  BY <1>1 DEF Life
<1>3. s.life[e.key] \subseteq {0, 1, 2}
  BY DEF IsServer, Tells
<1>4. ~Late(s, e)
  BY <1>1, <1>2, <1>3 DEF Late
<1>5. Row(s, e) = [phase |-> e.phase, label |-> IF y.lean THEN s.rows[e.key].label ELSE y.begun]
  BY <1>1, <1>4 DEF Row, NoLabel
<1>6. Record(s, e).state = e.phase
  BY <1>1 DEF Record
<1>7. CASE y.lean
  <2>1. /\ d => Life(s, e) = {}
        /\ ~d => 1 \notin Life(s, e) /\ (y.retries = 0 => Life(s, e) = {0})
    BY <1>2, <1>3, <1>7 DEF LifeIs, Full
  <2>2. LifeIs(y, Life(s, e) \union {2}, d, e.phase)
    BY <1>1, <1>7, <2>1 DEF LifeIs
  <2>3. RowIs(y, Row(s, e), d, e.phase)
    BY <1>1, <1>5, <1>7 DEF RowIs
  <2>4. QED
    BY <1>6, <1>7, <2>2, <2>3 DEF CellIs
<1>8. CASE ~y.lean
  <2>1. /\ 1 \in s.life[e.key] /\ 2 \notin s.life[e.key] /\ (d => 0 \notin s.life[e.key])
        /\ y.retries = 0 /\ ~d => 0 \in s.life[e.key]
    BY <1>8 DEF LifeIs
  <2>2. LifeIs(y, Life(s, e) \union {2}, d, e.phase)
    BY <1>1, <1>2, <1>8, <2>1 DEF LifeIs
  <2>3. RowIs(y, Row(s, e), d, e.phase)
    BY <1>1, <1>5, <1>8 DEF RowIs
  <2>4. Record(s, e).label = y.begun
    <3>1. s.records[e.worker][e.key].label = y.begun
      BY <1>8 DEF CellIs
    <3>2. QED
      BY <1>1, <3>1 DEF Record, NoLabel
  <2>5. QED
    BY <1>6, <2>2, <2>3, <2>4 DEF CellIs
<1>9. QED
  BY <1>1, <1>7, <1>8

\* Whether a submission is due changes of the event's task only.
LEMMA TakenDue ==
  ASSUME DashboardAssumption,
         NEW y, IsWorld(y), Tasked(y), NEW q, NEW r, NEW m \in Monitors, NEW e,
         Takes(q, r, m, e), Turns(y, q), OfRun(y, q)
  PROVE  /\ \A k \in Keys : k # e.key \/ m # Driver => (SubDue(y, k, r) <=> SubDue(y, k, q))
         /\ m = Driver => SubDue(y, e.key, q) /\ ~SubDue(y, e.key, r)
<1>1. /\ Len(r[m]) \in Nat /\ Len(q[m]) = Len(r[m]) + 1 /\ 1 \in 1 .. Len(q[m]) /\ q[m][1] = e
      /\ \A i \in 1 .. Len(r[m]) : i + 1 \in 1 .. Len(q[m]) /\ q[m][i + 1] = r[m][i]
      /\ \A i \in 1 .. Len(q[m]) : i # 1 => i - 1 \in 1 .. Len(r[m]) /\ r[m][i - 1] = q[m][i]
  <2>1. Firsts(q, r, m, e)
    BY TakenFirst
  <2>2. QED
    BY ONLY <2>1 DEF Firsts
<1>2. \A x \in Monitors : x # m => r[x] = q[x]
  BY DEF Takes
<1>3. Driver \in Monitors
  BY DEF Monitors
<1>4. CASE m # Driver
  <2>1. r[Driver] = q[Driver]
    BY <1>2, <1>3, <1>4
  <2>2. QED
    BY <1>4, <2>1 DEF SubDue
<1>5. CASE m = Driver
  <2>1. FromDriver(y, q[m])
    BY <1>5 DEF OfRun
  <2>2. SubDue(y, e.key, q)
    BY <1>1, <1>5 DEF SubDue
  <2>3. ~SubDue(y, e.key, r)
    <3>1. y.task[e.key].told # "none"
      BY <1>1, <2>1 DEF FromDriver
    <3>2. ASSUME NEW i \in 1 .. Len(r[m]), r[m][i].key = e.key PROVE FALSE
      <4>1. PICK n \in 1 .. Len(q[m]) : n = i + 1 /\ q[m][n] = r[m][i]
        BY <1>1
      <4>2. n # 1
        BY <4>1
      <4>3. q[m][1].key = q[m][n].key
        BY <1>1, <3>2, <4>1
      <4>4. QED
        BY <1>1, <2>1, <4>2, <4>3 DEF FromDriver
    <3>3. QED
      BY <1>5, <3>1, <3>2 DEF SubDue
  <2>4. ASSUME NEW k \in Keys, k # e.key PROVE SubDue(y, k, r) <=> SubDue(y, k, q)
    <3>1. ASSUME NEW i \in 1 .. Len(q[m]), q[m][i].key = k
          PROVE  \E j \in 1 .. Len(r[m]) : r[m][j].key = k
      <4>1. i # 1
        BY <1>1, <2>4, <3>1
      <4>2. i - 1 \in 1 .. Len(r[m]) /\ r[m][i - 1] = q[m][i]
        BY <1>1, <4>1
      <4>3. QED
        BY <3>1, <4>2
    <3>2. ASSUME NEW i \in 1 .. Len(r[m]), r[m][i].key = k
          PROVE  \E j \in 1 .. Len(q[m]) : q[m][j].key = k
      <4>1. i + 1 \in 1 .. Len(q[m]) /\ q[m][i + 1] = r[m][i]
        BY <1>1
      <4>2. QED
        BY <3>2, <4>1
    <3>3. QED
      BY <1>5, <3>1, <3>2 DEF SubDue
  <2>5. QED
    BY <1>5, <2>2, <2>3, <2>4
<1>6. QED
  BY <1>4, <1>5

\* What of the page is of task k.
Shows(y, s, q, h, k) ==
  /\ LifeIs(y, s.life[k], SubDue(y, k, q), h[k])
  /\ RowIs(y, s.rows[k], SubDue(y, k, q), h[k])
  /\ h[k] # "none" => CellIs(y, s.records[y.task[k].worker][k], h[k])

LEMMA TakenShows ==
  ASSUME DashboardAssumption,
         NEW y, IsWorld(y), Tasked(y), NEW s, IsServer(s), NEW q, NEW r, NEW m \in Monitors, NEW e,
         Takes(q, r, m, e), Turns(y, q), OfRun(y, q), NEW h, HeardIs(y, q, h),
         Rowed(y, s, q, h)
  PROVE  Rowed(y, MadeOf(s, e, y.lean), r, NowHeard(h, e))
<1> DEFINE s2 == MadeOf(s, e, y.lean)
           g == NowHeard(h, e)
<1>1. EventIs(y, r, m, e)
  BY TakenIs
<1>2. /\ \A k \in Keys : k # e.key \/ m # Driver => (SubDue(y, k, r) <=> SubDue(y, k, q))
      /\ m = Driver => SubDue(y, e.key, q) /\ ~SubDue(y, e.key, r)
  BY TakenDue
<1>3. h \in [Keys -> {"none", "started"} \union Ends] /\ \A k \in Keys : y.lean => h[k] # "started"
  BY DEF HeardIs
<1>4. e \in Tells /\ e.key \in Keys /\ e.phase \in Phases /\ y.begun # 0 /\ y.lean \in BOOLEAN
  BY <1>1 DEF EventIs, IsWorld
<1>5. m = Driver => e.phase = "submitted" /\ e.label = y.begun
  BY <1>1 DEF EventIs
<1>6. m # Driver => /\ m \in Workers /\ e.worker = m /\ e.phase \in {"started"} \union Ends
                    /\ y.lean => e.phase \in Ends /\ e.label = NoLabel
                    /\ ~y.lean => e.label = y.begun
                    /\ y.task[e.key].worker = m
                    /\ y.task[e.key].told \notin {"none", "submitted"}
  BY <1>1 DEF EventIs
<1>7. \A k \in Keys : g[k] = IF m # Driver /\ k = e.key THEN e.phase ELSE h[k]
  BY <1>3, <1>4, <1>5, <1>6 DEF NowHeard, Ends
<1>8. \A k \in Keys : Shows(y, s, q, h, k)
  BY DEF Rowed, Shows
<1>9. \A k \in Keys : /\ s2.life[k] = IF k = e.key THEN Life(s, e) \union {ClassOf[e.phase]} ELSE s.life[k]
                      /\ s2.rows[k] = IF k = e.key THEN Row(s, e) ELSE s.rows[k]
  BY <1>4 DEF MadeOf, IsServer
<1>10. s2.records = Records(s, e)
  BY DEF MadeOf
<1>11. s.records \in [Workers -> [Keys -> Cells]]
  BY DEF IsServer
<1>12. \A k \in Keys : h[k] # "none" => y.task[k].worker \in Workers
  <2> TAKE k \in Keys
  <2> HAVE h[k] # "none"
  <2>1. y.task[k].told \notin {"none", "submitted"}
    BY DEF HeardIs
  <2>2. QED
    BY <2>1, TaskToldOf DEF Tasked
<1> HIDE DEF s2, g
<1>13. ASSUME NEW k \in Keys, k # e.key PROVE Shows(y, s2, r, g, k)
  <2>1. /\ s2.life[k] = s.life[k] /\ s2.rows[k] = s.rows[k] /\ g[k] = h[k]
        /\ SubDue(y, k, r) <=> SubDue(y, k, q)
    BY <1>2, <1>7, <1>9, <1>13
  <2>2. h[k] # "none" => s2.records[y.task[k].worker][k] = s.records[y.task[k].worker][k]
    <3> HAVE h[k] # "none"
    <3>1. y.task[k].worker \in Workers
      BY <1>12
    <3>2. QED
      BY <1>4, <1>5, <1>6, <1>10, <1>11, <1>13, <3>1 DEF Records, Ends
  <2>3. Shows(y, s, q, h, k)
    BY <1>8
  <2>4. SubDue(y, k, r) \in BOOLEAN /\ SubDue(y, k, q) \in BOOLEAN
    BY DEF SubDue
  <2>5. SubDue(y, k, r) = SubDue(y, k, q)
    BY <2>1, <2>4
  <2>6. QED
    BY ONLY <2>1, <2>2, <2>3, <2>5 DEF Shows
<1>14. Shows(y, s, q, h, e.key)
  BY <1>4, <1>8
<1>15. h[e.key] \in {"none", "started"} \union Ends /\ (y.lean => h[e.key] # "started")
  BY <1>3, <1>4
<1>16. CASE m = Driver
  <2>1. e.phase = "submitted" /\ e.label = y.begun /\ g[e.key] = h[e.key] /\ ClassOf[e.phase] = 0
    BY <1>4, <1>5, <1>7, <1>16, ClassesAre
  <2>2. SubDue(y, e.key, q) = TRUE /\ SubDue(y, e.key, r) = FALSE
    BY <1>2, <1>16 DEF SubDue
  <2>3. LifeIs(y, s.life[e.key], TRUE, h[e.key]) /\ RowIs(y, s.rows[e.key], TRUE, h[e.key])
    BY ONLY <1>14, <2>2 DEF Shows
  <2>4. LifeIs(y, Life(s, e) \union {0}, FALSE, h[e.key]) /\ RowIs(y, Row(s, e), FALSE, h[e.key])
    BY <1>4, <1>15, <2>1, <2>3, OnSubmission
  <2>5. ASSUME h[e.key] # "none" PROVE CellIs(y, s2.records[y.task[e.key].worker][e.key], h[e.key])
    <3> DEFINE c == s.records[y.task[e.key].worker][e.key]
               d == s2.records[y.task[e.key].worker][e.key]
    <3>1. y.task[e.key].worker \in Workers
      BY <1>4, <1>12, <2>5
    <3>2. c \in Cells
      BY <1>4, <1>11, <3>1
    <3>3. d = c \/ d = [c EXCEPT !.label = y.begun]
      <4>1. PICK w \in Workers : w = y.task[e.key].worker
        BY <3>1
      <4>2. Records(s, e)[w][e.key] = IF <<w, e.key>> \in s.unlabelled
                                      THEN [s.records[w][e.key] EXCEPT !.label = e.label]
                                      ELSE s.records[w][e.key]
        BY <1>4, <2>1 DEF Records
      <4>3. QED
        BY <1>10, <2>1, <4>1, <4>2
    <3>4. CellIs(y, c, h[e.key])
      BY <1>14, <2>5 DEF Shows
    <3> HIDE DEF c, d
    <3>5. d.state = c.state /\ (d.label = c.label \/ d.label = y.begun)
      BY <3>2, <3>3 DEF Cells
    <3>6. CellIs(y, d, h[e.key])
      BY <3>4, <3>5 DEF CellIs
    <3>7. QED
      BY <3>6 DEF d
  <2>6. Shows(y, s2, r, g, e.key)
    <3>1. s2.life[e.key] = Life(s, e) \union {0} /\ s2.rows[e.key] = Row(s, e)
      BY <1>4, <1>9, <2>1
    <3>2. QED
      BY ONLY <2>1, <2>2, <2>4, <2>5, <3>1 DEF Shows
  <2>7. QED
    BY <1>13, <2>6 DEF Rowed, Shows, s2, g
<1>17. CASE m # Driver
  <2> DEFINE d == SubDue(y, e.key, q)
             v == h[e.key]
  <2>1. /\ SubDue(y, e.key, r) = d /\ d \in BOOLEAN /\ g[e.key] = e.phase
        /\ s2.life[e.key] = Life(s, e) \union {ClassOf[e.phase]} /\ s2.rows[e.key] = Row(s, e)
    BY <1>2, <1>4, <1>7, <1>9, <1>17 DEF SubDue
  <2>2. s2.records[y.task[e.key].worker][e.key] = Record(s, e)
    <3>1. e.phase # "submitted" /\ y.task[e.key].worker = e.worker /\ e.worker \in Workers
      BY <1>6, <1>17 DEF Ends
    <3>2. Records(s, e) = [s.records EXCEPT ![e.worker] =
                             [s.records[e.worker] EXCEPT ![e.key] = Record(s, e)]]
      BY <3>1 DEF Records
    <3>3. s.records[e.worker] \in [Keys -> Cells]
      BY <1>11, <3>1
    <3>4. Records(s, e)[e.worker] = [s.records[e.worker] EXCEPT ![e.key] = Record(s, e)]
      BY <1>11, <3>1, <3>2
    <3>5. Records(s, e)[e.worker][e.key] = Record(s, e)
      BY <1>4, <3>3, <3>4
    <3>6. QED
      BY <1>10, <3>1, <3>5
  <2>3. /\ LifeIs(y, s.life[e.key], d, v) /\ RowIs(y, s.rows[e.key], d, v)
        /\ v # "none" => CellIs(y, s.records[e.worker][e.key], v)
    <3>1. y.task[e.key].worker = e.worker
      BY <1>6, <1>17
    <3>2. QED
      BY <1>14, <3>1 DEF Shows
  <2>4. 1 \in 1 .. Len(q[m]) /\ q[m][1] = e
    <3>1. Firsts(q, r, m, e)
      BY TakenFirst
    <3>2. QED
      BY ONLY <3>1 DEF Firsts
  <2>5. /\ y.retries = 0 /\ Opens(y, e) => v = "none"
        /\ ~Opens(y, e) => v = "started"
    BY <1>6, <1>17, <2>4 DEF HeardIs
  <2>6. v \in {"none", "started"} \union Ends /\ (y.lean => v # "started")
    BY <1>15
  <2>7. LifeIs(y, Life(s, e) \union {ClassOf[e.phase]}, d, e.phase) /\ RowIs(y, Row(s, e), d, e.phase)
          /\ CellIs(y, Record(s, e), e.phase)
    <3> HIDE DEF d, v
    <3>1. CASE e.phase = "started"
      <4>1. ~y.lean /\ e.label = y.begun
        BY <1>6, <1>17, <3>1 DEF Ends
      <4>2. y.retries = 0 => v = "none"
        BY <2>5, <3>1 DEF Opens
      <4>3. ClassOf[e.phase] = 1
        BY <1>4, <3>1, ClassesAre
      <4>4. /\ LifeIs(y, Life(s, e) \union {1}, d, "started") /\ RowIs(y, Row(s, e), d, "started")
            /\ CellIs(y, Record(s, e), "started")
        BY <1>4, <2>1, <2>3, <2>6, <3>1, <4>1, <4>2, OnStarting
      <4>5. QED
        BY <3>1, <4>3, <4>4
    <3>2. CASE e.phase # "started"
      <4>1. e.phase \in Ends /\ IF y.lean THEN e.label = NoLabel ELSE e.label = y.begun
        BY <1>4, <1>6, <1>17, <3>2
      <4>2. (v = "started") <=> ~y.lean
        BY <1>4, <2>5, <2>6, <3>2 DEF Opens
      <4>3. y.lean /\ y.retries = 0 => v = "none"
        BY <2>5 DEF Opens
      <4>4. ~y.lean => CellIs(y, s.records[e.worker][e.key], v)
        BY <2>3, <4>2
      <4>5. ClassOf[e.phase] = 2
        BY <1>4, <4>1, ClassesAre DEF Ends
      <4>6. /\ LifeIs(y, Life(s, e) \union {2}, d, e.phase) /\ RowIs(y, Row(s, e), d, e.phase)
            /\ CellIs(y, Record(s, e), e.phase)
        BY <1>4, <2>1, <2>3, <2>6, <4>1, <4>2, <4>3, <4>4, OnEnding
      <4>7. QED
        BY <4>5, <4>6
    <3>3. QED
      BY <3>1, <3>2
  <2>8. Shows(y, s2, r, g, e.key)
    <3> HIDE DEF d
    <3>1. QED
      BY ONLY <2>1, <2>2, <2>7 DEF Shows
  <2>9. QED
    BY <1>13, <2>8 DEF Rowed, Shows, s2, g
<1>18. QED
  BY <1>16, <1>17

LEMMA TakenLabelled ==
  ASSUME DashboardAssumption,
         NEW y, IsWorld(y), Tasked(y), NEW s, IsServer(s), NEW q, NEW r, NEW m \in Monitors, NEW e,
         Takes(q, r, m, e), Turns(y, q), OfRun(y, q), NEW h, HeardIs(y, q, h),
         Labelled(y, s, q, h)
  PROVE  Labelled(y, MadeOf(s, e, y.lean), r, NowHeard(h, e))
<1> DEFINE s2 == MadeOf(s, e, y.lean)
           g == NowHeard(h, e)
<1> SUFFICES ASSUME y.lean, y.begun <= 1
             PROVE  \A k \in Keys :
               /\ s2.label[k] = IF SubDue(y, k, r) THEN NoLabel ELSE 1
               /\ \A w \in Workers : /\ s2.records[w][k].label \in {NoLabel, 1}
                                     /\ <<w, k>> \in s2.unlabelled => SubDue(y, k, r)
               /\ g[k] # "none" => \/ s2.records[y.task[k].worker][k].label = 1
                                   \/ <<y.task[k].worker, k>> \in s2.unlabelled
  BY DEF Labelled
<1>1. EventIs(y, r, m, e)
  BY TakenIs
<1>2. /\ \A k \in Keys : k # e.key \/ m # Driver => (SubDue(y, k, r) <=> SubDue(y, k, q))
      /\ m = Driver => SubDue(y, e.key, q) /\ ~SubDue(y, e.key, r)
  BY TakenDue
<1>3. h \in [Keys -> {"none", "started"} \union Ends]
  BY DEF HeardIs
<1>4. e \in Tells /\ e.key \in Keys /\ y.begun = 1
  BY <1>1 DEF EventIs, IsWorld
<1>5. m = Driver => e.phase = "submitted" /\ e.label = 1
  BY <1>1, <1>4 DEF EventIs
<1>6. m # Driver => /\ m \in Workers /\ e.worker = m /\ e.phase \in Ends /\ e.label = NoLabel
                    /\ y.task[e.key].worker = m
  BY <1>1 DEF EventIs
<1>7. \A k \in Keys : g[k] = IF m # Driver /\ k = e.key THEN e.phase ELSE h[k]
  BY <1>3, <1>4, <1>5, <1>6 DEF NowHeard, Ends
<1>8. \A k \in Keys :
        /\ s.label[k] = IF SubDue(y, k, q) THEN NoLabel ELSE 1
        /\ \A w \in Workers : /\ s.records[w][k].label \in {NoLabel, 1}
                              /\ <<w, k>> \in s.unlabelled => SubDue(y, k, q)
        /\ h[k] # "none" => \/ s.records[y.task[k].worker][k].label = 1
                            \/ <<y.task[k].worker, k>> \in s.unlabelled
  BY <1>4 DEF Labelled
<1>9. /\ s2.records = Records(s, e) /\ s2.unlabelled = Unlabelled(s, e)
      /\ s2.label = IF e.phase = "submitted" THEN [s.label EXCEPT ![e.key] = e.label] ELSE s.label
  BY DEF MadeOf
<1>10. s.records \in [Workers -> [Keys -> Cells]] /\ s.label \in [Keys -> Nat]
  BY DEF IsServer
<1>11. \A k \in Keys : h[k] # "none" => y.task[k].worker \in Workers
  <2> TAKE k \in Keys
  <2> HAVE h[k] # "none"
  <2>1. y.task[k].told \notin {"none", "submitted"}
    BY DEF HeardIs
  <2>2. QED
    BY <2>1, TaskToldOf DEF Tasked
<1> HIDE DEF s2, g
<1>12. CASE m = Driver
  <2>0. e.phase = "submitted" /\ e.label = 1
    BY <1>5, <1>12
  <2>1. \A w \in Workers, k \in Keys : <<w, k>> \in s2.unlabelled <=> <<w, k>> \in s.unlabelled /\ k # e.key
    BY <1>9, <2>0 DEF Unlabelled
  <2>2. \A w \in Workers, k \in Keys :
          s2.records[w][k].label = IF k = e.key /\ <<w, k>> \in s.unlabelled THEN 1
                                   ELSE s.records[w][k].label
    <3> TAKE w \in Workers, k \in Keys
    <3>1. s.records[w][k] \in Cells
      BY <1>10
    <3>2. s2.records[w][k] = IF k = e.key /\ <<w, k>> \in s.unlabelled
                             THEN [s.records[w][k] EXCEPT !.label = 1] ELSE s.records[w][k]
      <4>1. Records(s, e)[w][k] = IF k = e.key /\ <<w, k>> \in s.unlabelled
                                  THEN [s.records[w][k] EXCEPT !.label = e.label] ELSE s.records[w][k]
        BY <2>0 DEF Records
      <4>2. QED
        BY <1>9, <2>0, <4>1
    <3>3. [s.records[w][k] EXCEPT !.label = 1].label = 1
      BY <3>1 DEF Cells
    <3>4. QED
      BY <3>2, <3>3
  <2>3. \A k \in Keys : s2.label[k] = IF k = e.key THEN 1 ELSE s.label[k]
    BY <1>4, <1>5, <1>9, <1>10, <1>12
  <2> TAKE k \in Keys
  <2>4. g[k] = h[k]
    BY <1>7, <1>12
  <2>5. s2.label[k] = IF SubDue(y, k, r) THEN NoLabel ELSE 1
    BY <1>2, <1>8, <1>12, <2>3
  <2>6. ASSUME NEW w \in Workers
        PROVE  /\ s2.records[w][k].label \in {NoLabel, 1}
               /\ <<w, k>> \in s2.unlabelled => SubDue(y, k, r)
    <3>1. s2.records[w][k].label \in {NoLabel, 1}
      BY <1>8, <2>2
    <3>2. <<w, k>> \in s2.unlabelled => SubDue(y, k, r)
      BY <1>2, <1>8, <2>1
    <3>3. QED
      BY <3>1, <3>2
  <2>7. ASSUME h[k] # "none"
        PROVE  \/ s2.records[y.task[k].worker][k].label = 1
               \/ <<y.task[k].worker, k>> \in s2.unlabelled
    <3>1. PICK w \in Workers : w = y.task[k].worker
      BY <1>11, <2>7
    <3>2. s.records[w][k].label = 1 \/ <<w, k>> \in s.unlabelled
      BY <1>8, <2>7, <3>1
    <3>3. s2.records[w][k].label = 1 \/ <<w, k>> \in s2.unlabelled
      BY <2>1, <2>2, <3>2
    <3>4. QED
      BY <3>1, <3>3
  <2>8. QED
    BY <2>4, <2>5, <2>6, <2>7
<1>13. CASE m # Driver
  <2>1. e.worker \in Workers /\ e.phase # "submitted" /\ e.phase # "started" /\ y.task[e.key].worker = e.worker
    BY <1>6, <1>13 DEF Ends
  <2>2. Record(s, e) \in Cells /\ s.records[e.worker] \in [Keys -> Cells]
    BY <1>4, <1>10, <2>1, RecordTyped DEF Ofs
  <2>3. \A w \in Workers, k \in Keys :
          s2.records[w][k] = IF w = e.worker /\ k = e.key THEN Record(s, e) ELSE s.records[w][k]
    BY <1>4, <1>9, <1>10, <2>1, <2>2 DEF Records
  <2>4. Record(s, e).label = IF s.records[e.worker][e.key].label = NoLabel THEN s.label[e.key]
                             ELSE s.records[e.worker][e.key].label
    BY <2>1 DEF Record
  <2>5. \A w \in Workers, k \in Keys :
          <<w, k>> \in s2.unlabelled <=>
            \/ <<w, k>> \in s.unlabelled
            \/ w = e.worker /\ k = e.key /\ Record(s, e).label = NoLabel
    BY <1>9, <2>1 DEF Unlabelled
  <2>6. s2.label = s.label
    BY <1>9, <2>1
  <2>7. Record(s, e).label \in {NoLabel, 1} /\ (Record(s, e).label = NoLabel => SubDue(y, e.key, q))
    <3>1. s.records[e.worker][e.key].label \in {NoLabel, 1}
      BY <1>4, <1>8, <2>1
    <3>2. s.label[e.key] = IF SubDue(y, e.key, q) THEN NoLabel ELSE 1
      BY <1>4, <1>8
    <3>3. NoLabel # 1
      BY DEF NoLabel
    <3>4. QED
      BY <2>4, <3>1, <3>2, <3>3
  <2> TAKE k \in Keys
  <2>8. SubDue(y, k, r) <=> SubDue(y, k, q)
    BY <1>2, <1>13
  <2>9. s2.label[k] = IF SubDue(y, k, r) THEN NoLabel ELSE 1
    BY <1>8, <2>6, <2>8
  <2>10. ASSUME NEW w \in Workers
         PROVE  /\ s2.records[w][k].label \in {NoLabel, 1}
                /\ <<w, k>> \in s2.unlabelled => SubDue(y, k, r)
    <3>1. s2.records[w][k].label \in {NoLabel, 1}
      BY <1>8, <2>3, <2>7
    <3>2. <<w, k>> \in s2.unlabelled => SubDue(y, k, r)
      BY <1>8, <2>5, <2>7, <2>8
    <3>3. QED
      BY <3>1, <3>2
  <2>11. ASSUME g[k] # "none"
         PROVE  \/ s2.records[y.task[k].worker][k].label = 1
                \/ <<y.task[k].worker, k>> \in s2.unlabelled
    <3>1. CASE k = e.key
      <4>1. s2.records[e.worker][e.key] = Record(s, e)
        BY <1>4, <2>1, <2>3
      <4>2. Record(s, e).label = NoLabel => <<e.worker, e.key>> \in s2.unlabelled
        BY <1>4, <2>1, <2>5
      <4>3. QED
        BY <2>1, <2>7, <3>1, <4>1, <4>2
    <3>2. CASE k # e.key
      <4>1. h[k] # "none"
        BY <1>7, <2>11, <3>2
      <4>2. PICK w \in Workers : w = y.task[k].worker
        BY <1>11, <4>1
      <4>3. s.records[w][k].label = 1 \/ <<w, k>> \in s.unlabelled
        BY <1>8, <4>1, <4>2
      <4>4. s2.records[w][k].label = 1 \/ <<w, k>> \in s2.unlabelled
        BY <2>3, <2>5, <3>2, <4>3
      <4>5. QED
        BY <4>2, <4>4
    <3>3. QED
      BY <3>1, <3>2
  <2>12. QED
    BY <2>9, <2>10, <2>11
<1>14. QED
  BY <1>12, <1>13

LEMMA TakenOpen ==
  ASSUME DashboardAssumption,
         NEW y, IsWorld(y), Tasked(y), NEW s, IsServer(s), NEW q, NEW r, NEW m \in Monitors, NEW e,
         Takes(q, r, m, e), Turns(y, q), OfRun(y, q), NEW h, HeardIs(y, q, h),
         Rowed(y, s, q, h), OpenIs(y, s, q, h)
  PROVE  OpenIs(y, MadeOf(s, e, y.lean), r, NowHeard(h, e))
<1> DEFINE s2 == MadeOf(s, e, y.lean)
           g == NowHeard(h, e)
<1> SUFFICES ASSUME y.lean PROVE s2.open = {k \in Keys : ~SubDue(y, k, r) /\ g[k] = "none"}
  BY DEF OpenIs
<1>1. EventIs(y, r, m, e)
  BY TakenIs
<1>2. /\ \A k \in Keys : k # e.key \/ m # Driver => (SubDue(y, k, r) <=> SubDue(y, k, q))
      /\ m = Driver => SubDue(y, e.key, q) /\ ~SubDue(y, e.key, r)
  BY TakenDue
<1>3. h \in [Keys -> {"none", "started"} \union Ends] /\ \A k \in Keys : h[k] # "started"
  BY DEF HeardIs
<1>4. e \in Tells /\ e.key \in Keys /\ e.phase \in Phases /\ y.begun # 0
  BY <1>1 DEF EventIs
<1>5. m = Driver => e.phase = "submitted" /\ e.label = y.begun
  BY <1>1 DEF EventIs
<1>6. m # Driver => e.phase \in Ends
  BY <1>1 DEF EventIs
<1>7. \A k \in Keys : g[k] = IF m # Driver /\ k = e.key THEN e.phase ELSE h[k]
  BY <1>3, <1>4, <1>5, <1>6 DEF NowHeard, Ends
<1>8. s.open = {k \in Keys : ~SubDue(y, k, q) /\ h[k] = "none"} /\ s2.open = Opened(s, e)
  BY DEF OpenIs, MadeOf
<1> HIDE DEF s2, g
<1>9. CASE m = Driver
  <2>1. ClassOf[e.phase] = 0 /\ e.phase = "submitted" /\ e.label = y.begun
    BY <1>4, <1>5, <1>9, ClassesAre
  <2>2. LifeIs(y, s.life[e.key], SubDue(y, e.key, q), h[e.key]) /\ RowIs(y, s.rows[e.key], SubDue(y, e.key, q), h[e.key])
    BY <1>4 DEF Rowed
  <2>3. SubDue(y, e.key, q) = TRUE
    BY <1>2, <1>9 DEF SubDue
  <2>4. LifeIs(y, s.life[e.key], TRUE, h[e.key]) /\ RowIs(y, s.rows[e.key], TRUE, h[e.key])
    BY <2>2, <2>3
  <2>5. h[e.key] \in {"none", "started"} \union Ends /\ h[e.key] # "started"
    BY <1>3, <1>4
  <2>6. 2 \in Life(s, e) <=> h[e.key] \in Ends
    BY <1>4, <2>1, <2>4, <2>5, OnSubmission
  <2>7. 2 \notin Life(s, e) <=> h[e.key] = "none"
    BY <2>5, <2>6 DEF Ends
  <2>8. s2.open = IF h[e.key] = "none" THEN s.open \union {e.key} ELSE s.open
    BY <1>8, <2>1, <2>7 DEF Opened
  <2>9. \A k \in Keys : k \in s2.open <=> ~SubDue(y, k, r) /\ g[k] = "none"
    BY <1>2, <1>7, <1>8, <1>9, <2>8
  <2>10. QED
    BY <1>4, <1>8, <2>8, <2>9
<1>10. CASE m # Driver
  <2>1. ClassOf[e.phase] = 2 /\ e.phase # "none"
    BY <1>4, <1>6, <1>10, ClassesAre DEF Ends
  <2>2. s2.open = s.open \ {e.key}
    BY <1>8, <2>1 DEF Opened
  <2>3. QED
    BY <1>2, <1>7, <1>8, <1>10, <2>1, <2>2
<1>11. QED
  BY <1>9, <1>10

\* What holds while nothing was lost; the rows of a run that is clear (c).
Shown(y, c, s, q) ==
  /\ Turns(y, q) /\ Tallies(y, s, q) /\ Flights(y, s, q)
  /\ c => OfRun(y, q) /\ \E h : Page(y, s, q, h)

LEMMA TakenShown ==
  ASSUME DashboardAssumption,
         NEW y, IsWorld(y), Tasked(y), NEW c, NEW s, IsServer(s), NEW q, NEW r, NEW m \in Monitors, NEW e,
         Takes(q, r, m, e), Shown(y, c, s, q)
  PROVE  IsServer(IngestTask(s, e, y.lean)) /\ Shown(y, c, IngestTask(s, e, y.lean), r)
<1>1. Turns(y, q) /\ Tallies(y, s, q) /\ Flights(y, s, q)
  BY DEF Shown
<1>2. TurnIs(y, r, m, e)
  BY <1>1, TakenTurns
<1>3. Ofs(e) /\ Turns(y, r) /\ y.lean \in BOOLEAN
  BY <1>2 DEF TurnIs, IsWorld
<1>4. IngestTask(s, e, y.lean) = MadeOf(s, e, y.lean) /\ IsServer(MadeOf(s, e, y.lean))
  BY <1>3, IngestMakes, MadeTyped
<1>5. Tallies(y, MadeOf(s, e, y.lean), r)
  BY <1>1, TakenTallies
<1>6. Flights(y, MadeOf(s, e, y.lean), r)
  BY <1>1, TakenFlights
<1>7. ASSUME c PROVE OfRun(y, r) /\ \E h : Page(y, MadeOf(s, e, y.lean), r, h)
  <2>1. OfRun(y, q) /\ \E h : Page(y, s, q, h)
    BY <1>7 DEF Shown
  <2>2. OfRun(y, r)
    BY <2>1, TakenOfRun
  <2>3. PICK h : Page(y, s, q, h)
    BY <2>1
  <2>4. HeardIs(y, q, h) /\ Rowed(y, s, q, h) /\ Labelled(y, s, q, h) /\ OpenIs(y, s, q, h)
    BY <2>3 DEF Page
  <2>5. HeardIs(y, r, NowHeard(h, e))
    BY <1>1, <2>1, <2>4, TakenHeard
  <2>6. Rowed(y, MadeOf(s, e, y.lean), r, NowHeard(h, e))
    BY <1>1, <2>1, <2>4, TakenShows
  <2>7. Labelled(y, MadeOf(s, e, y.lean), r, NowHeard(h, e))
    BY <1>1, <2>1, <2>4, TakenLabelled
  <2>8. OpenIs(y, MadeOf(s, e, y.lean), r, NowHeard(h, e))
    BY <1>1, <2>1, <2>4, TakenOpen
  <2>9. Page(y, MadeOf(s, e, y.lean), r, NowHeard(h, e))
    BY <2>5, <2>6, <2>7, <2>8 DEF Page
  <2>10. QED
    BY <2>2, <2>9
<1>8. QED
  BY <1>3, <1>4, <1>5, <1>6, <1>7 DEF Shown

(***************************************************************************)
(* A frame is taken in: one event after the other.                         *)
(***************************************************************************)

\* A sequence without its first i.
Beyond(b, i) == [j \in 1 .. Len(b) - i |-> b[j + i]]

LEMMA BehindIs ==
  ASSUME NEW S, NEW b \in Seq(S), NEW i \in 0 .. Len(b)
  PROVE  /\ Beyond(b, i) \in Seq(S) /\ Len(Beyond(b, i)) = Len(b) - i
         /\ \A j \in 1 .. Len(b) - i : Beyond(b, i)[j] = b[j + i]
<1>1. Len(b) - i \in Nat
  OBVIOUS
<1>2. PICK n \in Nat : n = Len(b) - i
  BY <1>1
<1>3. \A j \in 1 .. n : j + i \in 1 .. Len(b)
  BY <1>2
<1>4. \A j \in 1 .. n : b[j + i] \in S
  BY <1>3
<1>5. Beyond(b, i) = [j \in 1 .. n |-> b[j + i]]
  BY <1>2 DEF Beyond
<1>6. Beyond(b, i) \in Seq(S) /\ Len(Beyond(b, i)) = n
  BY <1>4, <1>5
<1>7. \A j \in 1 .. n : Beyond(b, i)[j] = b[j + i]
  BY <1>5
<1>8. QED
  BY <1>2, <1>6, <1>7

LEMMA FrameShown ==
  ASSUME DashboardAssumption,
         NEW y, IsWorld(y), Tasked(y), NEW c, NEW s, IsServer(s), NEW q \in Dues, NEW r \in Dues,
         NEW m \in Monitors, NEW frame \in Seq(Tells), q[m] = frame \o r[m],
         \A x \in Monitors : x # m => r[x] = q[x], Shown(y, c, s, q)
  PROVE  /\ IsServer(TakenIn(s, frame, y.lean))
         /\ Shown(y, c, TakenIn(s, frame, y.lean), r)
<1> DEFINE n == Len(frame)
           At(i) == [x \in Monitors |-> IF x = m THEN Beyond(q[m], i) ELSE q[x]]
<1>1. PICK g : /\ TakenIn(s, frame, y.lean) = g[n] /\ g[0] = s
               /\ \A k \in 1 .. n : g[k] = IngestTask(g[k - 1], frame[k], y.lean)
  BY ONLY frame \in Seq(Tells), FrameFold
<1>2. /\ n \in Nat /\ q[m] \in Seq(Tells) /\ r[m] \in Seq(Tells) /\ Len(r[m]) \in Nat
      /\ Len(q[m]) = n + Len(r[m]) /\ \A k \in 1 .. n : q[m][k] = frame[k]
      /\ \A j \in 1 .. Len(r[m]) : q[m][j + n] = r[m][j]
  <2>1. q[m] \in Seq(Tells) /\ r[m] \in Seq(Tells)
    BY DEF Dues
  <2>2. /\ Len(frame \o r[m]) = n + Len(r[m]) /\ n \in Nat /\ Len(r[m]) \in Nat
        /\ \A k \in 1 .. n + Len(r[m]) : (frame \o r[m])[k] = IF k <= n THEN frame[k] ELSE r[m][k - n]
    BY <2>1
  <2>3. \A k \in 1 .. n : q[m][k] = frame[k]
    BY <2>2
  <2>4. ASSUME NEW j \in 1 .. Len(r[m]) PROVE q[m][j + n] = r[m][j]
    <3>1. PICK k \in 1 .. n + Len(r[m]) : k = j + n
      BY <2>2
    <3>2. ~(k <= n) /\ k - n = j
      BY <2>2, <3>1
    <3>3. QED
      BY <2>2, <3>1, <3>2
  <2>5. QED
    BY <2>1, <2>2, <2>3, <2>4
<1>3. \A i \in 0 .. n : /\ i \in 0 .. Len(q[m])
                        /\ Beyond(q[m], i) \in Seq(Tells) /\ Len(Beyond(q[m], i)) = Len(q[m]) - i
                        /\ \A j \in 1 .. Len(q[m]) - i : Beyond(q[m], i)[j] = q[m][j + i]
  <2> TAKE i \in 0 .. n
  <2>1. i \in 0 .. Len(q[m])
    BY <1>2
  <2>2. QED
    BY <1>2, <2>1, BehindIs
<1>4. \A i \in 0 .. n : At(i) \in Dues
  BY <1>3 DEF Dues
<1>5. At(0) = q
  <2>1. Beyond(q[m], 0) = q[m]
    <3>1. Beyond(q[m], 0) \in Seq(Tells) /\ Len(Beyond(q[m], 0)) = Len(q[m])
          /\ \A j \in 1 .. Len(q[m]) : Beyond(q[m], 0)[j] = q[m][j]
      BY <1>2, <1>3
    <3>2. QED
      BY <1>2, <3>1, SeqEqual
  <2>2. q = [x \in Monitors |-> q[x]]
    BY DEF Dues
  <2>3. QED
    BY <2>1, <2>2
<1>6. At(n) = r
  <2>1. Beyond(q[m], n) = r[m]
    <3>1. n \in 0 .. n
      BY <1>2
    <3>2. Len(q[m]) - n = Len(r[m])
      BY <1>2
    <3>3. Beyond(q[m], n) \in Seq(Tells) /\ Len(Beyond(q[m], n)) = Len(r[m])
          /\ \A j \in 1 .. Len(r[m]) : Beyond(q[m], n)[j] = q[m][j + n]
      BY ONLY <1>3, <3>1, <3>2
    <3>4. \A j \in 1 .. Len(r[m]) : Beyond(q[m], n)[j] = r[m][j]
      BY <1>2, <3>3
    <3>5. QED
      BY <1>2, <3>3, <3>4, SeqEqual
  <2>2. r = [x \in Monitors |-> r[x]]
    BY DEF Dues
  <2>3. QED
    BY <2>1, <2>2
<1>7. ASSUME NEW i \in 1 .. n PROVE Takes(At(i - 1), At(i), m, frame[i])
  <2>1. i - 1 \in 0 .. n /\ i \in 0 .. n
    BY <1>2
  <2>2. PICK l \in 0 .. n : l = i - 1
    BY <2>1
  <2>3. At(l)[m] = Beyond(q[m], l) /\ At(i)[m] = Beyond(q[m], i)
    OBVIOUS
  <2>4. /\ Len(At(l)[m]) = Len(q[m]) - l /\ Len(At(i)[m]) = Len(q[m]) - i
        /\ \A j \in 1 .. Len(q[m]) - l : At(l)[m][j] = q[m][j + l]
        /\ \A j \in 1 .. Len(q[m]) - i : At(i)[m][j] = q[m][j + i]
    BY <1>3, <2>1, <2>3
  <2>5. Len(At(l)[m]) = Len(At(i)[m]) + 1
    BY <1>2, <2>2, <2>4
  <2>6. At(l)[m][1] = frame[i]
    <3>1. PICK j \in 1 .. Len(q[m]) - l : j = 1
      BY <1>2, <2>2
    <3>2. j + l = i
      BY <2>2, <3>1
    <3>3. QED
      BY <1>2, <2>4, <3>1, <3>2
  <2>7. ASSUME NEW j \in 1 .. Len(At(i)[m]) PROVE At(l)[m][j + 1] = At(i)[m][j]
    <3>1. PICK k \in 1 .. Len(q[m]) - l : k = j + 1
      BY <1>2, <2>2, <2>4
    <3>2. k + l = j + i /\ j \in 1 .. Len(q[m]) - i
      BY <1>2, <2>2, <2>4, <3>1
    <3>3. QED
      BY <2>4, <3>1, <3>2
  <2>8. \A x \in Monitors : x # m => At(i)[x] = At(l)[x]
    OBVIOUS
  <2>9. At(l) \in Dues /\ At(i) \in Dues
    BY <1>4, <2>1
  <2> HIDE DEF At
  <2>10. Takes(At(l), At(i), m, frame[i])
    BY <2>5, <2>6, <2>7, <2>8, <2>9 DEF Takes
  <2>11. QED
    BY <2>2, <2>10
<1> HIDE DEF At
<1> DEFINE B == {i \in 0 .. n : ~(IsServer(g[i]) /\ Shown(y, c, g[i], At(i)))}
<1>8. 0 \notin B
  BY <1>1, <1>5
<1>9. ASSUME NEW k \in 1 .. n, k - 1 \notin B PROVE k \notin B
  <2>1. k - 1 \in 0 .. n
    BY <1>2
  <2>2. IsServer(g[k - 1]) /\ Shown(y, c, g[k - 1], At(k - 1))
    BY <1>9, <2>1
  <2>3. Takes(At(k - 1), At(k), m, frame[k])
    BY <1>7
  <2>4. /\ IsServer(IngestTask(g[k - 1], frame[k], y.lean))
        /\ Shown(y, c, IngestTask(g[k - 1], frame[k], y.lean), At(k))
    BY <2>2, <2>3, TakenShown
  <2>5. g[k] = IngestTask(g[k - 1], frame[k], y.lean)
    BY <1>1
  <2>6. QED
    BY <2>4, <2>5
<1>10. B \in SUBSET (0 .. n)
  OBVIOUS
<1> HIDE DEF B
<1>11. B = {}
  BY <1>2, <1>8, <1>9, <1>10, StepByStep
<1> USE DEF B
<1>12. n \in 0 .. n
  BY <1>2
<1>13. IsServer(g[n]) /\ Shown(y, c, g[n], At(n))
  BY <1>11, <1>12
<1>14. QED
  BY <1>1, <1>6, <1>13

(***************************************************************************)
(* What the run does.  First, one more event is due.                       *)
(***************************************************************************)
Adding(q, r, m, e) ==
  /\ e \in Tells /\ \A x \in Monitors : q[x] \in Seq(Tells) /\ r[x] \in Seq(Tells)
  /\ Len(q[m]) \in Nat /\ Len(r[m]) = Len(q[m]) + 1 /\ Len(r[m]) \in 1 .. Len(r[m])
  /\ r[m][Len(r[m])] = e
  /\ \A i \in 1 .. Len(q[m]) : i \in 1 .. Len(r[m]) /\ i # Len(r[m]) /\ r[m][i] = q[m][i]
  /\ \A i \in 1 .. Len(r[m]) : i # Len(r[m]) => i \in 1 .. Len(q[m])
  /\ \A x \in Monitors : x # m => r[x] = q[x]

LEMMA AddedLast ==
  ASSUME NEW q, NEW r, NEW m \in Monitors, NEW e, Adds(q, r, m, e)
  PROVE  Adding(q, r, m, e)
<1>1. \A x \in Monitors : q[x] \in Seq(Tells) /\ r[x] \in Seq(Tells)
  BY DEF Adds, Dues
<1>2. PICK n \in Nat : n = Len(q[m])
  BY <1>1
<1>3. /\ Len(r[m]) = n + 1 /\ r[m][n + 1] = e
      /\ \A i \in 1 .. n : r[m][i] = q[m][i]
      /\ \A x \in Monitors : x # m => r[x] = q[x]
  BY <1>2 DEF Adds
<1>4. e \in Tells
  <2>1. n + 1 \in 1 .. Len(r[m])
    BY <1>3
  <2>2. QED
    BY <1>1, <1>3, <2>1
<1>5. r[m][Len(r[m])] = e
  BY <1>3
<1>6. QED
  BY <1>1, <1>2, <1>3, <1>4, <1>5 DEF Adding

LEMMA AddedComing ==
  ASSUME NEW q, NEW r, NEW m \in Monitors, NEW e, Adds(q, r, m, e), NEW p,
         IsFiniteSet(Coming(q, p))
  PROVE  /\ IsFiniteSet(Coming(r, p)) /\ Cardinality(Coming(q, p)) \in Nat
         /\ Cardinality(Coming(r, p)) = Cardinality(Coming(q, p)) + (IF e.phase = p THEN 1 ELSE 0)
<1>1. /\ Len(q[m]) \in Nat /\ Len(r[m]) = Len(q[m]) + 1 /\ Len(r[m]) \in 1 .. Len(r[m])
      /\ r[m][Len(r[m])] = e
      /\ \A i \in 1 .. Len(q[m]) : i \in 1 .. Len(r[m]) /\ i # Len(r[m]) /\ r[m][i] = q[m][i]
      /\ \A i \in 1 .. Len(r[m]) : i # Len(r[m]) => i \in 1 .. Len(q[m])
      /\ \A x \in Monitors : x # m => r[x] = q[x]
  <2>1. Adding(q, r, m, e)
    BY AddedLast
  <2>2. QED
    BY ONLY <2>1 DEF Adding
<1> DEFINE last == <<m, Len(r[m])>>
<1>2. last \notin Coming(q, p)
  BY <1>1 DEF Coming
<1>3. Coming(r, p) = IF e.phase = p THEN Coming(q, p) \union {last} ELSE Coming(q, p)
  <2>1. ASSUME NEW x \in Monitors, NEW i \in Nat
        PROVE  <<x, i>> \in Coming(r, p) <=> \/ <<x, i>> \in Coming(q, p)
                                             \/ e.phase = p /\ <<x, i>> = last
    <3>1. CASE x # m
      BY <1>1, <3>1 DEF Coming
    <3>2. CASE x = m
      <4>1. <<x, i>> \in Coming(r, p) <=> i \in 1 .. Len(r[m]) /\ r[m][i].phase = p
        BY <3>2 DEF Coming
      <4>2. <<x, i>> \in Coming(q, p) <=> i \in 1 .. Len(q[m]) /\ q[m][i].phase = p
        BY <3>2 DEF Coming
      <4>3. <<x, i>> = last <=> i = Len(r[m])
        BY <3>2
      <4>4. QED
        BY <1>1, <4>1, <4>2, <4>3
    <3>3. QED
      BY <3>1, <3>2
  <2>2. Coming(r, p) \subseteq Monitors \X Nat /\ Coming(q, p) \subseteq Monitors \X Nat
    BY DEF Coming
  <2>3. last \in Monitors \X Nat
    BY <1>1
  <2> HIDE DEF last
  <2>4. ASSUME NEW c \in Monitors \X Nat
        PROVE  c \in Coming(r, p) <=> c \in Coming(q, p) \/ (e.phase = p /\ c = last)
    BY <2>1
  <2>5. QED
    BY <2>2, <2>3, <2>4
<1> HIDE DEF last
<1>4. QED
  BY <1>2, <1>3, FS_AddElement, FS_CardinalityType

LEMMA AddedTallies ==
  ASSUME NEW y, IsWorld(y), NEW z, z.lean = y.lean, NEW s, NEW q, NEW r, NEW m \in Monitors, NEW e,
         Adds(q, r, m, e), z.emitted = [y.emitted EXCEPT ![e.phase] = @ + 1],
         IsServer(s), Tallies(y, s, q)
  PROVE  Tallies(z, s, r)
<1>1. e.phase \in Phases
  <2>1. Adding(q, r, m, e)
    BY AddedLast
  <2>2. QED
    BY <2>1 DEF Adding, Tells
<1>2. y.emitted \in [Phases -> Int] /\ s.stats \in [Phases -> Int]
  BY DEF IsWorld, IsServer
<1>3. ASSUME NEW p \in Phases
      PROVE  /\ IsFiniteSet(Coming(r, p))
             /\ \/ z.lean /\ p = "started"
                \/ s.stats[p] + Cardinality(Coming(r, p)) = z.emitted[p]
  <2>1. IsFiniteSet(Coming(q, p)) /\ \/ y.lean /\ p = "started"
                                     \/ s.stats[p] + Cardinality(Coming(q, p)) = y.emitted[p]
    BY DEF Tallies
  <2>2. /\ IsFiniteSet(Coming(r, p)) /\ Cardinality(Coming(q, p)) \in Nat
        /\ Cardinality(Coming(r, p)) = Cardinality(Coming(q, p)) + (IF e.phase = p THEN 1 ELSE 0)
    BY <2>1, AddedComing
  <2>3. z.emitted[p] = y.emitted[p] + (IF e.phase = p THEN 1 ELSE 0)
    BY <1>1, <1>2
  <2>4. QED
    BY <1>2, <2>1, <2>2, <2>3
<1>4. z.lean => /\ s.stats["started"] = s.stats["finished"] + s.stats["errored"]
                /\ \A k \in Keys : 1 \notin s.life[k]
  BY DEF Tallies
<1>5. QED
  BY <1>3, <1>4 DEF Tallies

\* Monitor m is told of task k, which moves; the other tasks stay.
ToldOne(y, z, k, m, e) ==
  /\ z.lean = y.lean /\ z.begun = y.begun /\ z.retries = y.retries
  /\ \A l \in Keys : l # k => z.task[l] = y.task[l]
  /\ e.key = k
  /\ y.task[k].told \notin {"none", "submitted"} => z.task[k].worker = y.task[k].worker
  /\ IF m = Driver
     THEN y.task[k].told = "none" /\ z.task[k].told = "submitted" /\ e.label = y.begun
     ELSE /\ m \in Workers /\ z.task[k].worker = m /\ z.task[k].told = e.phase
          /\ y.task[k].told # "none" /\ z.task[k].told \notin {"none", "submitted"}
          /\ e.label = IF y.lean THEN NoLabel ELSE y.begun
          /\ y.retries = 0 /\ Opens(y, e) => y.task[k].told = "submitted"
          /\ ~Opens(y, e) => y.task[k].told = "started"

LEMMA AddedOfRun ==
  ASSUME DashboardAssumption, NEW y, IsWorld(y), NEW z, NEW k \in Keys, NEW q, NEW r,
         NEW m \in Monitors, NEW e, Adds(q, r, m, e), ToldOne(y, z, k, m, e), OfRun(y, q)
  PROVE  OfRun(z, r)
<1>1. /\ e \in Tells /\ \A x \in Monitors : q[x] \in Seq(Tells) /\ r[x] \in Seq(Tells)
      /\ Len(q[m]) \in Nat /\ Len(r[m]) = Len(q[m]) + 1 /\ Len(r[m]) \in 1 .. Len(r[m])
      /\ r[m][Len(r[m])] = e
      /\ \A i \in 1 .. Len(q[m]) : i \in 1 .. Len(r[m]) /\ i # Len(r[m]) /\ r[m][i] = q[m][i]
      /\ \A i \in 1 .. Len(r[m]) : i # Len(r[m]) => i \in 1 .. Len(q[m])
      /\ \A x \in Monitors : x # m => r[x] = q[x]
  <2>1. Adding(q, r, m, e)
    BY AddedLast
  <2>2. QED
    BY ONLY <2>1 DEF Adding
<1>2. /\ z.lean = y.lean /\ z.begun = y.begun /\ z.retries = y.retries
      /\ \A l \in Keys : l # k => z.task[l] = y.task[l]
      /\ e.key = k /\ y.lean \in BOOLEAN
      /\ y.task[k].told \notin {"none", "submitted"} => z.task[k].worker = y.task[k].worker
  BY DEF ToldOne, IsWorld
<1>3. Driver \in Monitors /\ Workers \subseteq Monitors
  BY DEF Monitors
<1>4. \A x \in Monitors : \A i \in 1 .. Len(q[x]) : q[x][i].key \in Keys
  <2> TAKE x \in Monitors
  <2> TAKE i \in 1 .. Len(q[x])
  <2>1. q[x][i] \in Tells
    BY <1>1
  <2>2. QED
    BY <2>1 DEF Tells
<1>5. z.task[k].told # "none"
  BY DEF ToldOne
<1>6. FromDriver(y, q[Driver])
  BY DEF OfRun
<1>7. \A i \in 1 .. Len(q[Driver]) :
        q[Driver][i].label = z.begun /\ z.task[q[Driver][i].key].told # "none"
  BY <1>2, <1>3, <1>4, <1>5, <1>6 DEF FromDriver
<1>8. FromDriver(z, r[Driver])
  <2>1. CASE m # Driver
    <3>1. r[Driver] = q[Driver]
      BY <1>1, <1>3, <2>1
    <3>2. QED
      BY <1>6, <1>7, <3>1 DEF FromDriver
  <2>2. CASE m = Driver
    <3>1. y.task[k].told = "none" /\ e.label = y.begun
      BY <2>2 DEF ToldOne
    <3>2. \A i \in 1 .. Len(q[m]) : q[m][i].key # k
      BY <1>6, <2>2, <3>1 DEF FromDriver
    <3>3. \A i \in 1 .. Len(r[m]) : r[m][i].label = z.begun /\ z.task[r[m][i].key].told # "none"
      BY <1>1, <1>2, <1>5, <1>7, <2>2, <3>1
    <3>4. ASSUME NEW i \in 1 .. Len(r[m]), NEW j \in 1 .. Len(r[m]), r[m][i].key = r[m][j].key
          PROVE  i = j
      <4>1. CASE i = Len(r[m]) \/ j = Len(r[m])
        <5>1. r[m][i].key = k /\ r[m][j].key = k
          BY <1>1, <1>2, <3>4, <4>1
        <5>2. \A o \in 1 .. Len(r[m]) : o # Len(r[m]) => r[m][o].key # k
          <6> TAKE o \in 1 .. Len(r[m])
          <6> HAVE o # Len(r[m])
          <6>1. o \in 1 .. Len(q[m]) /\ r[m][o] = q[m][o]
            BY <1>1
          <6>2. QED
            BY <3>2, <6>1
        <5>3. i = Len(r[m]) /\ j = Len(r[m])
          BY <5>1, <5>2
        <5>4. QED
          BY <5>3
      <4>2. CASE i # Len(r[m]) /\ j # Len(r[m])
        <5>1. i \in 1 .. Len(q[m]) /\ j \in 1 .. Len(q[m]) /\ q[m][i].key = q[m][j].key
          BY <1>1, <3>4, <4>2
        <5>2. QED
          BY <1>6, <2>2, <5>1 DEF FromDriver
      <4>3. QED
        BY <4>1, <4>2
    <3>5. QED
      BY <2>2, <3>3, <3>4 DEF FromDriver
  <2>3. QED
    BY <2>1, <2>2
<1>9. ASSUME NEW w \in Workers PROVE FromWorker(z, w, r[w])
  <2>0. FromWorker(y, w, q[w])
    BY DEF OfRun
  <2>1. CASE w # m
    <3>1. r[w] = q[w]
      BY <1>1, <1>3, <2>1
    <3>2. ASSUME NEW i \in 1 .. Len(q[w]), q[w][i].key = k PROVE FALSE
      <4>1. y.task[k].worker = w /\ y.task[k].told \notin {"none", "submitted"}
        BY <2>0, <3>2 DEF FromWorker
      <4>2. QED
        BY <1>2, <2>1, <4>1 DEF ToldOne
    <3>3. \A i \in 1 .. Len(q[w]) : z.task[q[w][i].key] = y.task[q[w][i].key]
      BY <1>2, <1>3, <1>4, <3>2
    <3>4. QED
      BY <1>2, <2>0, <3>1, <3>3 DEF FromWorker, Opens
  <2>2. CASE w = m
    <3>1. /\ m # Driver /\ m \in Workers /\ z.task[k].worker = m /\ z.task[k].told = e.phase
          /\ y.task[k].told # "none" /\ z.task[k].told \notin {"none", "submitted"}
          /\ e.label = IF y.lean THEN NoLabel ELSE y.begun
          /\ y.retries = 0 /\ Opens(y, e) => y.task[k].told = "submitted"
      BY <2>2 DEF ToldOne, DashboardAssumption
    <3>2. ASSUME NEW i \in 1 .. Len(r[m])
          PROVE  /\ z.task[r[m][i].key].worker = m
                 /\ z.task[r[m][i].key].told \notin {"none", "submitted"}
                 /\ ~z.lean => r[m][i].label = z.begun
                 /\ z.lean => r[m][i].label = NoLabel
                 /\ \/ r[m][i].phase = z.task[r[m][i].key].told
                    \/ \E j \in 1 .. Len(r[m]) : i < j /\ r[m][j].key = r[m][i].key
                 /\ z.retries = 0 /\ Opens(z, r[m][i]) =>
                      \A j \in 1 .. Len(r[m]) : j < i => r[m][j].key # r[m][i].key
      <4>1. CASE i = Len(r[m])
        <5>1. r[m][i] = e
          BY <1>1, <4>1
        <5>2. ASSUME y.retries = 0, Opens(y, e), NEW j \in 1 .. Len(r[m]), j < i PROVE r[m][j].key # k
          <6>1. j \in 1 .. Len(q[m]) /\ r[m][j] = q[m][j]
            BY <1>1, <4>1, <5>2
          <6>2. y.task[q[m][j].key].told \notin {"none", "submitted"}
            BY <2>0, <2>2, <6>1 DEF FromWorker
          <6>3. QED
            BY <3>1, <5>2, <6>1, <6>2
        <5>3. QED
          BY <1>2, <3>1, <5>1, <5>2 DEF Opens
      <4>2. CASE i # Len(r[m])
        <5>1. i \in 1 .. Len(q[m]) /\ r[m][i] = q[m][i] /\ q[m][i].key \in Keys
          BY <1>1, <1>4, <4>2
        <5>2. /\ y.task[q[m][i].key].worker = m
              /\ y.task[q[m][i].key].told \notin {"none", "submitted"}
              /\ ~y.lean => q[m][i].label = y.begun
              /\ y.lean => q[m][i].label = NoLabel
              /\ \/ q[m][i].phase = y.task[q[m][i].key].told
                 \/ \E j \in 1 .. Len(q[m]) : i < j /\ q[m][j].key = q[m][i].key
              /\ y.retries = 0 /\ Opens(y, q[m][i]) =>
                   \A j \in 1 .. Len(q[m]) : j < i => q[m][j].key # q[m][i].key
          BY <2>0, <2>2, <5>1 DEF FromWorker
        <5>3. /\ z.task[q[m][i].key].worker = m
              /\ z.task[q[m][i].key].told \notin {"none", "submitted"}
          BY <1>2, <3>1, <5>1, <5>2
        <5>4. i < Len(r[m])
          BY <1>1, <4>2
        <5>5. \/ q[m][i].phase = z.task[q[m][i].key].told
              \/ \E j \in 1 .. Len(r[m]) : i < j /\ r[m][j].key = q[m][i].key
          <6>1. CASE q[m][i].key = k
            BY <1>1, <1>2, <5>4, <6>1
          <6>2. CASE q[m][i].key # k
            <7>1. z.task[q[m][i].key] = y.task[q[m][i].key]
              BY <1>2, <5>1, <6>2
            <7>2. ASSUME NEW j \in 1 .. Len(q[m]), i < j, q[m][j].key = q[m][i].key
                  PROVE  \E o \in 1 .. Len(r[m]) : i < o /\ r[m][o].key = q[m][i].key
              <8>1. j \in 1 .. Len(r[m]) /\ r[m][j] = q[m][j]
                BY <1>1
              <8>2. QED
                BY <7>2, <8>1
            <7>3. QED
              BY ONLY <5>2, <7>1, <7>2
          <6>3. QED
            BY <6>1, <6>2
        <5>6. ASSUME y.retries = 0, Opens(y, q[m][i]), NEW j \in 1 .. Len(r[m]), j < i
              PROVE  r[m][j].key # q[m][i].key
          <6>1. j \in 1 .. Len(q[m]) /\ r[m][j] = q[m][j]
            BY <1>1, <5>4, <5>6
          <6>2. QED
            BY <5>2, <5>6, <6>1
        <5>7. QED
          BY <1>2, <5>1, <5>2, <5>3, <5>5, <5>6 DEF Opens
      <4>3. QED
        BY <4>1, <4>2
    <3>3. QED
      BY <2>2, <3>2 DEF FromWorker
  <2>3. QED
    BY <2>1, <2>2
<1>10. QED
  BY <1>8, <1>9 DEF OfRun

LEMMA AddedPage ==
  ASSUME DashboardAssumption, NEW y, IsWorld(y), Tasked(y), NEW z, NEW k \in Keys, NEW s, NEW q, NEW r,
         NEW m \in Monitors, NEW e, Adds(q, r, m, e), ToldOne(y, z, k, m, e), OfRun(y, q),
         NEW h, Page(y, s, q, h)
  PROVE  Page(z, s, r, h)
<1>1. /\ e \in Tells /\ \A x \in Monitors : q[x] \in Seq(Tells) /\ r[x] \in Seq(Tells)
      /\ Len(q[m]) \in Nat /\ Len(r[m]) = Len(q[m]) + 1 /\ Len(r[m]) \in 1 .. Len(r[m])
      /\ r[m][Len(r[m])] = e
      /\ \A i \in 1 .. Len(q[m]) : i \in 1 .. Len(r[m]) /\ i # Len(r[m]) /\ r[m][i] = q[m][i]
      /\ \A i \in 1 .. Len(r[m]) : i # Len(r[m]) => i \in 1 .. Len(q[m])
      /\ \A x \in Monitors : x # m => r[x] = q[x]
  <2>1. Adding(q, r, m, e)
    BY AddedLast
  <2>2. QED
    BY ONLY <2>1 DEF Adding
<1>2. /\ z.lean = y.lean /\ z.begun = y.begun /\ z.retries = y.retries
      /\ \A l \in Keys : l # k => z.task[l] = y.task[l]
      /\ e.key = k /\ y.lean \in BOOLEAN
      /\ y.task[k].told \notin {"none", "submitted"} => z.task[k].worker = y.task[k].worker
  BY DEF ToldOne, IsWorld
<1>3. Driver \in Monitors /\ Workers \subseteq Monitors
  BY DEF Monitors
<1>4. HeardIs(y, q, h) /\ Rowed(y, s, q, h) /\ Labelled(y, s, q, h) /\ OpenIs(y, s, q, h)
  BY DEF Page
<1>5. h \in [Keys -> {"none", "started"} \union Ends]
  BY <1>4 DEF HeardIs
<1>6. \A x \in Monitors : \A i \in 1 .. Len(q[x]) :
        \E j \in 1 .. Len(r[x]) : r[x][j] = q[x][i]
  BY <1>1
<1>7. \A l \in Keys : h[l] # "none" =>
        /\ y.task[l].told \notin {"none", "submitted"} /\ y.task[l].worker \in Workers
        /\ z.task[l].worker = y.task[l].worker
  <2> TAKE l \in Keys
  <2> HAVE h[l] # "none"
  <2>1. y.task[l].told \notin {"none", "submitted"}
    BY <1>4 DEF HeardIs
  <2>2. y.task[l].worker \in Workers
    BY <2>1, TaskToldOf DEF Tasked
  <2>3. z.task[l].worker = y.task[l].worker
    BY <1>2, <2>1
  <2>4. QED
    BY <2>1, <2>2, <2>3
<1>8. \A l \in Keys : SubDue(z, l, r) = SubDue(y, l, q)
  <2> TAKE l \in Keys
  <2>1. CASE m # Driver
    <3>1. r[Driver] = q[Driver]
      BY <1>1, <1>3, <2>1
    <3>2. z.task[l].told = "none" <=> y.task[l].told = "none"
      <4>1. CASE l = k
        BY <2>1, <4>1 DEF ToldOne
      <4>2. CASE l # k
        BY <1>2, <4>2
      <4>3. QED
        BY <4>1, <4>2
    <3>3. QED
      BY <3>1, <3>2 DEF SubDue
  <2>2. CASE m = Driver
    <3>1. y.task[k].told = "none"
      BY <2>2 DEF ToldOne
    <3>2. CASE l = k
      <4>1. SubDue(y, l, q)
        BY <3>1, <3>2 DEF SubDue
      <4>2. SubDue(z, l, r)
        BY <1>1, <1>2, <2>2, <3>2 DEF SubDue
      <4>3. QED
        BY <4>1, <4>2 DEF SubDue
    <3>3. CASE l # k
      <4>1. z.task[l] = y.task[l]
        BY <1>2, <3>3
      <4>2. (\E i \in 1 .. Len(q[Driver]) : q[Driver][i].key = l)
              <=> \E i \in 1 .. Len(r[Driver]) : r[Driver][i].key = l
        BY <1>1, <1>2, <2>2, <3>3
      <4>3. QED
        BY <4>1, <4>2 DEF SubDue
    <3>4. QED
      BY <3>2, <3>3
  <2>3. QED
    BY <2>1, <2>2
<1>9. ASSUME NEW l \in Keys
      PROVE  /\ z.lean => h[l] # "started"
             /\ z.task[l].told \in {"none", "submitted"} => h[l] = "none"
             /\ \/ z.task[l].told \in {"none", "submitted"}
                \/ h[l] = z.task[l].told
                \/ \E i \in 1 .. Len(r[z.task[l].worker]) : r[z.task[l].worker][i].key = l
  <2>1. /\ y.lean => h[l] # "started"
        /\ y.task[l].told \in {"none", "submitted"} => h[l] = "none"
        /\ \/ y.task[l].told \in {"none", "submitted"}
           \/ h[l] = y.task[l].told
           \/ \E i \in 1 .. Len(q[y.task[l].worker]) : q[y.task[l].worker][i].key = l
    BY <1>4 DEF HeardIs
  <2>2. CASE l # k
    <3>1. z.task[l] = y.task[l] /\ y.task[l].worker \in Monitors /\ z.lean = y.lean
      BY <1>2, <2>2 DEF IsWorld
    <3>2. ASSUME NEW x \in Monitors, \E i \in 1 .. Len(q[x]) : q[x][i].key = l
          PROVE  \E i \in 1 .. Len(r[x]) : r[x][i].key = l
      <4>1. PICK i \in 1 .. Len(q[x]) : q[x][i].key = l
        BY <3>2
      <4>2. PICK j \in 1 .. Len(r[x]) : r[x][j] = q[x][i]
        BY <1>6
      <4>3. QED
        BY <4>1, <4>2
    <3>3. QED
      BY ONLY <2>1, <3>1, <3>2
  <2>3. CASE l = k
    <3>1. CASE m = Driver
      BY <1>2, <2>1, <2>3, <3>1 DEF ToldOne
    <3>2. CASE m # Driver
      <4>1. z.task[k].worker = m /\ z.task[k].told \notin {"none", "submitted"}
        BY <3>2 DEF ToldOne
      <4>2. r[m][Len(r[m])].key = k /\ Len(r[m]) \in 1 .. Len(r[m])
        BY <1>1, <1>2
      <4>3. QED
        BY <1>2, <2>1, <2>3, <4>1, <4>2
    <3>3. QED
      BY <3>1, <3>2
  <2>4. QED
    BY <2>2, <2>3
<1>10. ASSUME NEW w \in Workers, NEW i \in 1 .. Len(r[w])
       PROVE  /\ z.retries = 0 /\ Opens(z, r[w][i]) => h[r[w][i].key] = "none"
              /\ i = 1 /\ ~Opens(z, r[w][i]) => h[r[w][i].key] = "started"
  <2>1. \A j \in 1 .. Len(q[w]) :
          /\ y.retries = 0 /\ Opens(y, q[w][j]) => h[q[w][j].key] = "none"
          /\ j = 1 /\ ~Opens(y, q[w][j]) => h[q[w][j].key] = "started"
    BY <1>4 DEF HeardIs
  <2>2. CASE w # m
    <3>1. r[w] = q[w]
      BY <1>1, <1>3, <2>2
    <3>2. QED
      BY <1>2, <2>1, <3>1 DEF Opens
  <2>3. CASE w = m /\ i # Len(r[m])
    <3>1. i \in 1 .. Len(q[w]) /\ r[w][i] = q[w][i]
      BY <1>1, <2>3
    <3>2. QED
      BY <1>2, <2>1, <3>1 DEF Opens
  <2>4. CASE w = m /\ i = Len(r[m])
    <3>1. r[w][i] = e /\ m # Driver
      BY <1>1, <2>4 DEF DashboardAssumption
    <3>2. ASSUME y.retries = 0, Opens(y, e) PROVE h[k] = "none"
      <4>1. y.task[k].told = "submitted"
        BY <3>1, <3>2 DEF ToldOne
      <4>2. QED
        BY <1>4, <4>1 DEF HeardIs
    <3>3. ASSUME i = 1, ~Opens(y, e) PROVE h[k] = "started"
      <4>1. y.task[k].told = "started" /\ z.task[k].worker = m
        BY <3>1, <3>3 DEF ToldOne
      <4>2. y.task[k].worker = m
        BY <1>2, <4>1
      <4>3. Len(q[m]) = 0
        BY <1>1, <2>4, <3>3
      <4>4. ~\E j \in 1 .. Len(q[y.task[k].worker]) : q[y.task[k].worker][j].key = k
        BY <4>2, <4>3
      <4>5. QED
        BY <1>4, <4>1, <4>4 DEF HeardIs
    <3>4. QED
      BY <1>2, <3>1, <3>2, <3>3 DEF Opens
  <2>5. QED
    BY <2>2, <2>3, <2>4
<1>11. HeardIs(z, r, h)
  BY <1>5, <1>9, <1>10 DEF HeardIs
<1>12. Rowed(z, s, r, h)
  <2> SUFFICES ASSUME NEW l \in Keys
               PROVE  /\ LifeIs(z, s.life[l], SubDue(z, l, r), h[l])
                      /\ RowIs(z, s.rows[l], SubDue(z, l, r), h[l])
                      /\ h[l] # "none" => CellIs(z, s.records[z.task[l].worker][l], h[l])
    BY DEF Rowed
  <2>1. /\ LifeIs(y, s.life[l], SubDue(y, l, q), h[l])
        /\ RowIs(y, s.rows[l], SubDue(y, l, q), h[l])
        /\ h[l] # "none" => CellIs(y, s.records[y.task[l].worker][l], h[l])
    BY <1>4 DEF Rowed
  <2>2. SubDue(z, l, r) = SubDue(y, l, q) /\ (h[l] # "none" => z.task[l].worker = y.task[l].worker)
    BY <1>7, <1>8
  <2>3. QED
    BY <1>2, <2>1, <2>2 DEF LifeIs, RowIs, CellIs, Full
<1>13. Labelled(z, s, r, h)
  BY <1>2, <1>4, <1>7, <1>8 DEF Labelled
<1>14. OpenIs(z, s, r, h)
  BY <1>2, <1>4, <1>8 DEF OpenIs
<1>15. QED
  BY <1>11, <1>12, <1>13, <1>14 DEF Page

\* Worker w is at the same.
SameAt(y, z, w) == \A l \in Keys : OnTask(z, l, w) <=> OnTask(y, l, w)

LEMMA SameTurns ==
  ASSUME NEW y, NEW z, NEW w, SameAt(y, z, w), NEW b \in Seq(Tells)
  PROVE  /\ AtWork(z, w) = AtWork(y, w)
         /\ InTurn(y, w, b) => InTurn(z, w, b)
<1>1. AtWork(z, w) = AtWork(y, w)
  BY DEF SameAt, AtWork
<1>2. \A i \in 1 .. Len(b) : OnTask(z, b[i].key, w) <=> OnTask(y, b[i].key, w)
  <2> TAKE i \in 1 .. Len(b)
  <2>1. b[i] \in Tells
    OBVIOUS
  <2>2. QED
    BY <2>1 DEF Tells, SameAt
<1>3. QED
  BY <1>1, <1>2 DEF InTurn

\* Worker m starts task k, or ends it; the others go on.
Moves(y, z, k, m, e) ==
  \A w \in Workers :
    /\ w # m => SameAt(y, z, w)
    /\ w = m => IF e.phase = "started" THEN ~AtWork(y, w) /\ OnTask(z, k, w)
                ELSE OnTask(y, k, w) /\ ~AtWork(z, w) /\ \A l \in Keys : OnTask(y, l, w) => l = k

LEMMA AddedInTurn ==
  ASSUME NEW y, NEW z, NEW k \in Keys, NEW q, NEW r, NEW m \in Monitors, NEW e, Adds(q, r, m, e),
         e.key = k, Moves(y, z, k, m, e), NEW w \in Workers, InTurn(y, w, q[w])
  PROVE  InTurn(z, w, r[w]) /\ OpenOn(z, w, r) = OpenOn(y, w, q)
<1>1. /\ e \in Tells /\ \A x \in Monitors : q[x] \in Seq(Tells) /\ r[x] \in Seq(Tells)
      /\ Len(q[m]) \in Nat /\ Len(r[m]) = Len(q[m]) + 1 /\ Len(r[m]) \in 1 .. Len(r[m])
      /\ r[m][Len(r[m])] = e
      /\ \A i \in 1 .. Len(q[m]) : i \in 1 .. Len(r[m]) /\ i # Len(r[m]) /\ r[m][i] = q[m][i]
      /\ \A i \in 1 .. Len(r[m]) : i # Len(r[m]) => i \in 1 .. Len(q[m])
      /\ \A x \in Monitors : x # m => r[x] = q[x]
  <2>1. Adding(q, r, m, e)
    BY AddedLast
  <2>2. QED
    BY ONLY <2>1 DEF Adding
<1>2. w \in Monitors
  BY DEF Monitors
<1>3. CASE w # m
  <2>1. SameAt(y, z, w) /\ r[w] = q[w] /\ q[w] \in Seq(Tells)
    BY <1>1, <1>2, <1>3 DEF Moves
  <2>2. AtWork(z, w) = AtWork(y, w) /\ InTurn(z, w, q[w])
    BY <2>1, SameTurns
  <2>3. QED
    BY <2>1, <2>2 DEF OpenOn
<1>4. CASE w = m
  <2>1. IF e.phase = "started" THEN ~AtWork(y, m) /\ OnTask(z, k, m)
        ELSE OnTask(y, k, m) /\ ~AtWork(z, m) /\ \A l \in Keys : OnTask(y, l, m) => l = k
    BY <1>4 DEF Moves
  <2>2. \A i \in 1 .. Len(q[m]) :
          /\ q[m][i].phase = "started" /\ i # Len(q[m]) =>
               q[m][i + 1].phase # "started" /\ q[m][i + 1].key = q[m][i].key
          /\ q[m][i].phase = "started" /\ i = Len(q[m]) => OnTask(y, q[m][i].key, m)
          /\ q[m][i].phase # "started" /\ i # Len(q[m]) => q[m][i + 1].phase = "started"
          /\ q[m][i].phase # "started" /\ i = Len(q[m]) => ~AtWork(y, m)
    BY <1>4 DEF InTurn
  <2>3. ASSUME NEW i \in 1 .. Len(r[m])
        PROVE  /\ r[m][i].phase = "started" /\ i # Len(r[m]) =>
                    r[m][i + 1].phase # "started" /\ r[m][i + 1].key = r[m][i].key
               /\ r[m][i].phase = "started" /\ i = Len(r[m]) => OnTask(z, r[m][i].key, m)
               /\ r[m][i].phase # "started" /\ i # Len(r[m]) => r[m][i + 1].phase = "started"
               /\ r[m][i].phase # "started" /\ i = Len(r[m]) => ~AtWork(z, m)
    <3>1. CASE i = Len(r[m])
      BY <1>1, <2>1, <3>1
    <3>2. CASE i # Len(r[m]) /\ i # Len(q[m])
      <4>1. i \in 1 .. Len(q[m]) /\ r[m][i] = q[m][i]
        BY <1>1, <3>2
      <4>2. PICK j \in 1 .. Len(q[m]) : j = i + 1
        BY <1>1, <3>2, <4>1
      <4>3. r[m][j] = q[m][j]
        BY <1>1
      <4>4. QED
        BY <2>2, <3>2, <4>1, <4>2, <4>3
    <3>3. CASE i # Len(r[m]) /\ i = Len(q[m])
      <4>1. i \in 1 .. Len(q[m]) /\ r[m][i] = q[m][i] /\ q[m][i].key \in Keys
        <5>1. i \in 1 .. Len(q[m]) /\ r[m][i] = q[m][i]
          BY <1>1, <3>3
        <5>2. q[m][i] \in Tells
          BY <1>1, <5>1
        <5>3. QED
          BY <5>1, <5>2 DEF Tells
      <4>2. i + 1 = Len(r[m])
        BY <1>1, <3>3
      <4>3. r[m][i + 1] = e
        BY <1>1, <4>2
      <4>4. CASE e.phase = "started"
        <5>1. q[m][i].phase # "started"
          BY <2>1, <2>2, <3>3, <4>1, <4>4 DEF AtWork
        <5>2. QED
          BY <3>3, <4>1, <4>3, <4>4, <5>1
      <4>5. CASE e.phase # "started"
        <5>1. AtWork(y, m)
          BY <2>1, <4>5 DEF AtWork
        <5>2. q[m][i].phase = "started" /\ q[m][i].key = k
          BY <2>1, <2>2, <3>3, <4>1, <4>5, <5>1
        <5>3. QED
          BY <3>3, <4>1, <4>3, <4>5, <5>2
      <4>6. QED
        BY <4>4, <4>5
    <3>4. QED
      BY <3>1, <3>2, <3>3
  <2>4. OpenOn(z, m, r) <=> OpenOn(y, m, q)
    <3>1. Len(r[m]) # 0
      BY <1>1
    <3>2. CASE Len(q[m]) = 0
      <4>1. r[m][1] = e
        BY <1>1, <3>2
      <4>2. AtWork(y, m) <=> e.phase # "started"
        BY <2>1 DEF AtWork
      <4>3. QED
        BY <3>1, <3>2, <4>1, <4>2 DEF OpenOn
    <3>3. CASE Len(q[m]) # 0
      <4>1. 1 \in 1 .. Len(q[m])
        BY <1>1, <3>3
      <4>2. r[m][1] = q[m][1]
        BY <1>1, <4>1
      <4>3. QED
        BY <3>1, <3>3, <4>2 DEF OpenOn
    <3>4. QED
      BY <3>2, <3>3
  <2>5. OpenOn(z, m, r) = OpenOn(y, m, q)
    BY <2>4 DEF OpenOn, AtWork
  <2>6. QED
    BY <1>4, <2>3, <2>5 DEF InTurn
<1>5. QED
  BY <1>3, <1>4

LEMMA AddedShown ==
  ASSUME DashboardAssumption, NEW y, IsWorld(y), Tasked(y), NEW z, NEW k \in Keys, NEW c,
         NEW s, IsServer(s), NEW q, NEW r,
         NEW m \in Monitors, NEW e, Adds(q, r, m, e), ToldOne(y, z, k, m, e), Shown(y, c, s, q),
         z.emitted = [y.emitted EXCEPT ![e.phase] = @ + 1],
         e.worker = m, (e.phase = "submitted") <=> (m = Driver), y.lean => e.phase # "started",
         ~y.lean => Moves(y, z, k, m, e)
  PROVE  Shown(z, c, s, r)
<1>1. /\ e \in Tells /\ \A x \in Monitors : q[x] \in Seq(Tells) /\ r[x] \in Seq(Tells)
      /\ Len(q[m]) \in Nat /\ Len(r[m]) = Len(q[m]) + 1 /\ Len(r[m]) \in 1 .. Len(r[m])
      /\ r[m][Len(r[m])] = e
      /\ \A i \in 1 .. Len(q[m]) : i \in 1 .. Len(r[m]) /\ i # Len(r[m]) /\ r[m][i] = q[m][i]
      /\ \A i \in 1 .. Len(r[m]) : i # Len(r[m]) => i \in 1 .. Len(q[m])
      /\ \A x \in Monitors : x # m => r[x] = q[x]
  <2>1. Adding(q, r, m, e)
    BY AddedLast
  <2>2. QED
    BY ONLY <2>1 DEF Adding
<1>2. z.lean = y.lean /\ y.lean \in BOOLEAN /\ e.key = k
  BY DEF ToldOne, IsWorld
<1>3. Driver \in Monitors /\ Workers \subseteq Monitors /\ Driver \notin Workers
  BY DEF Monitors, DashboardAssumption
<1>4. Turns(y, q) /\ Tallies(y, s, q) /\ Flights(y, s, q)
  BY DEF Shown
<1>5. Tallies(z, s, r)
  BY <1>2, <1>4, AddedTallies
<1>6. ASSUME ~y.lean, NEW w \in Workers
      PROVE  InTurn(z, w, r[w]) /\ OpenOn(z, w, r) = OpenOn(y, w, q)
  <2>1. InTurn(y, w, q[w])
    BY <1>4, <1>6 DEF Turns
  <2>2. Moves(y, z, k, m, e)
    BY <1>6
  <2>3. QED
    BY <1>2, <2>1, <2>2, AddedInTurn
<1>7. \A i \in 1 .. Len(r[Driver]) : r[Driver][i].phase = "submitted" /\ r[Driver][i].worker = Driver
  <2>1. \A i \in 1 .. Len(q[Driver]) : q[Driver][i].phase = "submitted" /\ q[Driver][i].worker = Driver
    BY <1>4 DEF Turns
  <2>2. QED
    BY <1>1, <1>3, <2>1
<1>8. ASSUME NEW w \in Workers, NEW i \in 1 .. Len(r[w])
      PROVE  r[w][i].phase # "submitted" /\ r[w][i].worker = w /\ (z.lean => r[w][i].phase # "started")
  <2>1. \A j \in 1 .. Len(q[w]) :
          q[w][j].phase # "submitted" /\ q[w][j].worker = w /\ (y.lean => q[w][j].phase # "started")
    BY <1>4 DEF Turns
  <2>2. QED
    BY <1>1, <1>2, <1>3, <2>1
<1>9. Turns(z, r)
  BY <1>2, <1>6, <1>7, <1>8 DEF Turns
<1>10. Flights(z, s, r)
  <2>1. CASE y.lean
    BY <1>2, <1>4, <2>1 DEF Flights
  <2>2. CASE ~y.lean
    <3>1. OpenFlights(z, r) = OpenFlights(y, q)
      BY <1>6, <2>2 DEF OpenFlights
    <3>2. QED
      BY <1>2, <1>4, <2>2, <3>1 DEF Flights
  <2>3. QED
    BY <2>1, <2>2
<1>11. ASSUME c PROVE OfRun(z, r) /\ \E h : Page(z, s, r, h)
  <2>1. OfRun(y, q) /\ \E h : Page(y, s, q, h)
    BY <1>11 DEF Shown
  <2>2. PICK h : Page(y, s, q, h)
    BY <2>1
  <2>3. OfRun(z, r)
    BY <2>1, AddedOfRun
  <2>4. Page(z, s, r, h)
    BY <2>1, <2>2, AddedPage
  <2>5. QED
    BY <2>3, <2>4
<1>12. QED
  BY <1>5, <1>9, <1>10, <1>11 DEF Shown

\* A step of the run that no monitor is told of.
Silent(y, z) ==
  /\ z.lean = y.lean /\ z.begun = y.begun /\ z.emitted = y.emitted
  /\ z.retries = 0 => y.retries = 0
  /\ \A k \in Keys : /\ z.task[k].told = y.task[k].told
                     /\ y.task[k].told \notin {"none", "submitted"} => z.task[k].worker = y.task[k].worker
  /\ ~y.lean => \A w \in Workers : SameAt(y, z, w)

\* What does not depend on which run it is.
LEMMA SameCounts ==
  ASSUME NEW y, IsWorld(y), NEW z, z.lean = y.lean, z.emitted = y.emitted,
         ~y.lean => \A w \in Workers : SameAt(y, z, w), NEW s, NEW q \in Dues,
         Turns(y, q), Tallies(y, s, q), Flights(y, s, q)
  PROVE  Turns(z, q) /\ Tallies(z, s, q) /\ Flights(z, s, q)
<1>1. y.lean \in BOOLEAN /\ \A w \in Workers : q[w] \in Seq(Tells)
  BY DEF IsWorld, Dues, Monitors
<1>2. ASSUME ~y.lean, NEW w \in Workers
      PROVE  AtWork(z, w) = AtWork(y, w) /\ InTurn(z, w, q[w])
  <2>1. InTurn(y, w, q[w]) /\ SameAt(y, z, w) /\ q[w] \in Seq(Tells)
    BY <1>1, <1>2 DEF Turns
  <2>2. QED
    BY <2>1, SameTurns
<1>3. Turns(z, q)
  BY <1>2 DEF Turns
<1>4. Tallies(z, s, q)
  BY DEF Tallies
<1>5. Flights(z, s, q)
  <2>1. CASE y.lean
    BY <2>1 DEF Flights
  <2>2. CASE ~y.lean
    <3>1. \A w \in Workers : OpenOn(z, w, q) = OpenOn(y, w, q)
      BY <1>2, <2>2 DEF OpenOn
    <3>2. OpenFlights(z, q) = OpenFlights(y, q)
      BY <3>1 DEF OpenFlights
    <3>3. QED
      BY <2>2, <3>2 DEF Flights
  <2>3. QED
    BY <2>1, <2>2
<1>6. QED
  BY <1>3, <1>4, <1>5

LEMMA SilentPage ==
  ASSUME NEW y, IsWorld(y), Tasked(y), NEW z, Silent(y, z), NEW s, NEW q \in Dues,
         OfRun(y, q), NEW h, Page(y, s, q, h)
  PROVE  OfRun(z, q) /\ Page(z, s, q, h)
<1>1. /\ z.lean = y.lean /\ z.begun = y.begun /\ (z.retries = 0 => y.retries = 0)
      /\ \A k \in Keys : /\ z.task[k].told = y.task[k].told
                         /\ y.task[k].told \notin {"none", "submitted"} => z.task[k].worker = y.task[k].worker
  BY DEF Silent
<1>2. \A x \in Monitors : \A i \in 1 .. Len(q[x]) : q[x][i].key \in Keys
  <2> TAKE x \in Monitors
  <2> TAKE i \in 1 .. Len(q[x])
  <2>1. q[x] \in Seq(Tells)
    BY DEF Dues
  <2>2. q[x][i] \in Tells
    BY <2>1
  <2>3. QED
    BY <2>2 DEF Tells
<1>3. Driver \in Monitors /\ Workers \subseteq Monitors
  BY DEF Monitors
<1>4. FromDriver(z, q[Driver])
  <2>1. FromDriver(y, q[Driver])
    BY DEF OfRun
  <2>2. \A i \in 1 .. Len(q[Driver]) : z.task[q[Driver][i].key].told = y.task[q[Driver][i].key].told
    BY <1>1, <1>2, <1>3
  <2>3. QED
    BY <1>1, <2>1, <2>2 DEF FromDriver
<1>5. ASSUME NEW w \in Workers PROVE FromWorker(z, w, q[w])
  <2>1. FromWorker(y, w, q[w])
    BY DEF OfRun
  <2>2. \A i \in 1 .. Len(q[w]) :
          /\ y.task[q[w][i].key].told \notin {"none", "submitted"}
          /\ z.task[q[w][i].key].told = y.task[q[w][i].key].told
          /\ z.task[q[w][i].key].worker = y.task[q[w][i].key].worker
    BY <1>1, <1>2, <1>3, <2>1 DEF FromWorker
  <2>3. QED
    BY <1>1, <2>1, <2>2 DEF FromWorker, Opens
<1>6. HeardIs(y, q, h) /\ Rowed(y, s, q, h) /\ Labelled(y, s, q, h) /\ OpenIs(y, s, q, h)
  BY DEF Page
<1>7. \A k \in Keys : h[k] # "none" => z.task[k].worker = y.task[k].worker
  BY <1>1, <1>6 DEF HeardIs
<1>8. \A k \in Keys : SubDue(z, k, q) = SubDue(y, k, q)
  BY <1>1 DEF SubDue
<1>9. HeardIs(z, q, h)
  <2>1. \A k \in Keys :
          /\ z.lean => h[k] # "started"
          /\ z.task[k].told \in {"none", "submitted"} => h[k] = "none"
          /\ \/ z.task[k].told \in {"none", "submitted"}
             \/ h[k] = z.task[k].told
             \/ \E i \in 1 .. Len(q[z.task[k].worker]) : q[z.task[k].worker][i].key = k
    <3> TAKE k \in Keys
    <3>1. /\ y.lean => h[k] # "started"
          /\ y.task[k].told \in {"none", "submitted"} => h[k] = "none"
          /\ \/ y.task[k].told \in {"none", "submitted"}
             \/ h[k] = y.task[k].told
             \/ \E i \in 1 .. Len(q[y.task[k].worker]) : q[y.task[k].worker][i].key = k
      BY <1>6 DEF HeardIs
    <3>2. QED
      BY <1>1, <3>1
  <2>2. \A w \in Workers : \A i \in 1 .. Len(q[w]) :
          /\ z.retries = 0 /\ Opens(z, q[w][i]) => h[q[w][i].key] = "none"
          /\ i = 1 /\ ~Opens(z, q[w][i]) => h[q[w][i].key] = "started"
    BY <1>1, <1>6 DEF HeardIs, Opens
  <2>3. h \in [Keys -> {"none", "started"} \union Ends]
    BY <1>6 DEF HeardIs
  <2>4. QED
    BY <2>1, <2>2, <2>3 DEF HeardIs
<1>10. Rowed(z, s, q, h)
  <2> SUFFICES ASSUME NEW l \in Keys
               PROVE  /\ LifeIs(z, s.life[l], SubDue(z, l, q), h[l])
                      /\ RowIs(z, s.rows[l], SubDue(z, l, q), h[l])
                      /\ h[l] # "none" => CellIs(z, s.records[z.task[l].worker][l], h[l])
    BY DEF Rowed
  <2>1. /\ LifeIs(y, s.life[l], SubDue(y, l, q), h[l])
        /\ RowIs(y, s.rows[l], SubDue(y, l, q), h[l])
        /\ h[l] # "none" => CellIs(y, s.records[y.task[l].worker][l], h[l])
    BY <1>6 DEF Rowed
  <2>2. SubDue(z, l, q) = SubDue(y, l, q) /\ (h[l] # "none" => z.task[l].worker = y.task[l].worker)
    BY <1>7, <1>8
  <2>3. QED
    BY <1>1, <2>1, <2>2 DEF LifeIs, RowIs, CellIs, Full
<1>11. Labelled(z, s, q, h)
  BY <1>1, <1>6, <1>7, <1>8 DEF Labelled
<1>12. OpenIs(z, s, q, h)
  BY <1>1, <1>6, <1>8 DEF OpenIs
<1>13. QED
  BY <1>4, <1>5, <1>9, <1>10, <1>11, <1>12 DEF Page, OfRun

LEMMA SilentShown ==
  ASSUME NEW y, IsWorld(y), Tasked(y), NEW z, Silent(y, z), NEW s, NEW q \in Dues,
         NEW c, NEW d, d => c, Shown(y, c, s, q)
  PROVE  Shown(z, d, s, q)
<1>1. Turns(z, q) /\ Tallies(z, s, q) /\ Flights(z, s, q)
  BY SameCounts DEF Silent, Shown
<1>2. ASSUME d PROVE OfRun(z, q) /\ \E h : Page(z, s, q, h)
  <2>1. OfRun(y, q) /\ \E h : Page(y, s, q, h)
    BY <1>2 DEF Shown
  <2>2. PICK h : Page(y, s, q, h)
    BY <2>1
  <2>3. QED
    BY <2>1, <2>2, SilentPage
<1>3. QED
  BY <1>1, <1>2 DEF Shown

\* A run begins.
Begins(y, z) ==
  /\ z.lean = y.lean /\ z.begun = y.begun + 1 /\ z.emitted = y.emitted
  /\ z.retries = y.retries /\ z.plan = y.plan
  /\ \A k \in Keys : y.task[k].at \in {"none", "finished", "errored", "left"}
  /\ \A k \in Keys : z.task[k] = IF k \in y.plan THEN Unborn ELSE y.task[k]

LEMMA BeginShown ==
  ASSUME NEW y, IsWorld(y), Tasked(y), NEW z, Begins(y, z), NEW s, IsServer(s), NEW q \in Dues,
         NEW c, NEW d,
         d => /\ c /\ \A x \in Monitors : q[x] = << >>
              /\ \A k \in Keys : y.task[k].at # "left"
              /\ y.begun # 0 => y.retries = 0,
         Shown(y, c, s, q)
  PROVE  Shown(z, d, s, q)
<1>1. /\ z.lean = y.lean /\ z.begun = y.begun + 1 /\ z.emitted = y.emitted /\ z.retries = y.retries
      /\ \A k \in Keys : y.task[k].at \in {"none", "finished", "errored", "left"}
      /\ \A k \in Keys : z.task[k] = IF k \in y.plan THEN Unborn ELSE y.task[k]
      /\ y.begun \in Nat
  BY DEF Begins, IsWorld
<1>2. \A w \in Workers : SameAt(y, z, w)
  BY <1>1 DEF SameAt, OnTask, Unborn
<1>3. Turns(z, q) /\ Tallies(z, s, q) /\ Flights(z, s, q)
  BY <1>1, <1>2, SameCounts DEF Shown
<1>4. ASSUME d PROVE OfRun(z, q) /\ \E h : Page(z, s, q, h)
  <2> DEFINE g == [k \in Keys |-> "none"]
  <2>1. /\ \A k \in Keys : y.task[k].at # "left"
        /\ y.begun # 0 => y.retries = 0
        /\ \E h : Page(y, s, q, h)
    BY <1>4 DEF Shown
  <2>2. \A x \in Monitors : Len(q[x]) = 0
    <3>1. \A x \in Monitors : q[x] = << >>
      BY <1>4
    <3>2. QED
      BY <3>1
  <2>3. Driver \in Monitors /\ Workers \subseteq Monitors
    BY DEF Monitors
  <2>4. PICK h : Page(y, s, q, h)
    BY <2>1
  <2>5. HeardIs(y, q, h) /\ Rowed(y, s, q, h) /\ Labelled(y, s, q, h) /\ OpenIs(y, s, q, h)
    BY <2>4 DEF Page
  <2>6. OfRun(z, q)
    BY <2>2, <2>3 DEF OfRun, FromDriver, FromWorker
  <2>7. \A k \in Keys : z.task[k].told = "none"
    BY <1>1 DEF Tasked, TaskTold, Unborn
  <2>8. \A k \in Keys : SubDue(z, k, q) = TRUE
    BY <2>7 DEF SubDue
  <2>9. \A k \in Keys : SubDue(y, k, q) = (y.task[k].told = "none")
    <3>1. 1 .. Len(q[Driver]) = {}
      <4>1. Len(q[Driver]) = 0
        BY <2>2, <2>3
      <4>2. QED
        BY <4>1
    <3>2. QED
      BY <3>1 DEF SubDue
  \* Of a task the last run told of, its end was heard.
  <2>10. ASSUME NEW k \in Keys, y.task[k].told # "none"
         PROVE  h[k] \in Ends /\ y.begun # 0 /\ y.retries = 0
    <3>1. y.task[k].at \in Ends /\ y.task[k].told = y.task[k].at /\ y.begun # 0
      BY <1>1, <2>1, <2>10 DEF Tasked, TaskTold, Ends
    <3>2. y.task[k].worker \in Monitors
      BY DEF IsWorld
    <3>3. h[k] = y.task[k].told
      BY <2>2, <2>5, <3>1, <3>2 DEF HeardIs, Ends
    <3>4. QED
      BY <2>1, <3>1, <3>3
  <2>11. HeardIs(z, q, g)
    BY <2>2, <2>3, <2>7 DEF HeardIs
  <2>12. Rowed(z, s, q, g)
    <3> SUFFICES ASSUME NEW k \in Keys
                 PROVE  LifeIs(z, s.life[k], TRUE, "none") /\ RowIs(z, s.rows[k], TRUE, "none")
      BY <2>8 DEF Rowed
    <3>1. LifeIs(y, s.life[k], SubDue(y, k, q), h[k])
      BY <2>5 DEF Rowed
    <3>2. CASE y.task[k].told = "none"
      <4>1. h[k] = "none" /\ SubDue(y, k, q) = TRUE
        BY <2>5, <2>9, <3>2 DEF HeardIs
      <4>2. s.life[k] = {} \/ (y.begun > 1 /\ s.life[k] = Full(y))
        BY <3>1, <4>1 DEF LifeIs
      <4>3. s.life[k] = {} \/ (z.begun > 1 /\ s.life[k] = Full(z))
        BY <1>1, <4>2 DEF Full
      <4>4. QED
        BY <4>3 DEF LifeIs, RowIs
    <3>3. CASE y.task[k].told # "none"
      <4>1. h[k] \in Ends /\ y.begun # 0 /\ y.retries = 0 /\ SubDue(y, k, q) = FALSE
        BY <2>9, <2>10, <3>3
      <4>2. /\ 1 \in s.life[k] <=> ~y.lean
            /\ 2 \in s.life[k] /\ 0 \in s.life[k]
        BY <3>1, <4>1 DEF LifeIs, Ends
      <4>3. s.life[k] \subseteq {0, 1, 2}
        BY DEF IsServer
      <4>4. s.life[k] = Full(z) /\ z.begun > 1
        <5>1. z.begun > 1
          BY <1>1, <4>1
        <5>2. y.lean => s.life[k] = {0, 2}
          BY <4>2, <4>3
        <5>3. ~y.lean => s.life[k] = {0, 1, 2}
          BY <4>2, <4>3
        <5>4. QED
          BY <1>1, <5>1, <5>2, <5>3 DEF Full
      <4>5. QED
        BY <4>4 DEF LifeIs, RowIs
    <3>4. QED
      BY <3>2, <3>3
  <2>13. Labelled(z, s, q, g)
    <3> SUFFICES ASSUME z.lean, z.begun <= 1, NEW k \in Keys
                 PROVE  /\ s.label[k] = NoLabel
                        /\ \A w \in Workers : s.records[w][k].label \in {NoLabel, 1}
      BY <2>8 DEF Labelled
    <3>1. y.begun = 0 /\ y.lean
      BY <1>1
    <3>2. y.task[k].told = "none"
      BY <2>10, <3>1
    <3>3. SubDue(y, k, q)
      BY <3>2 DEF SubDue
    <3>4. y.begun <= 1
      BY <3>1
    <3>5. QED
      BY <2>5, <3>1, <3>3, <3>4 DEF Labelled
  <2>14. OpenIs(z, s, q, g)
    <3> SUFFICES ASSUME z.lean PROVE s.open = {}
      BY <2>8 DEF OpenIs
    <3>1. s.open = {k \in Keys : ~SubDue(y, k, q) /\ h[k] = "none"}
      BY <1>1, <2>5 DEF OpenIs
    <3>2. \A k \in Keys : SubDue(y, k, q) \/ h[k] # "none"
      BY <2>9, <2>10 DEF Ends
    <3>3. QED
      BY <3>1, <3>2
  <2>15. QED
    BY <2>6, <2>11, <2>12, <2>13, <2>14 DEF Page
<1>5. QED
  BY <1>3, <1>4 DEF Shown

(***************************************************************************)
(* The run's steps.                                                        *)
(***************************************************************************)
Clear == ~blurred /\ ~AfterRetry

PInv ==
  /\ WInv /\ Losses /\ IsWorld(World) /\ Tasked(World)
  /\ Lossless => IsServer(server) /\ Shown(World, Clear, server, Due)

LEMMA WorldHas ==
  /\ World.task = task /\ World.plan = plan /\ World.begun = begun /\ World.retries = retries
  /\ World.lean = lean /\ World.emitted = emitted
BY DEF World

LEMMA WorldHasNext ==
  /\ World'.task = task' /\ World'.plan = plan' /\ World'.begun = begun' /\ World'.retries = retries'
  /\ World'.lean = lean' /\ World'.emitted = emitted'
BY DEF World

LEMMA WorldTyped == WInv /\ retries \in Nat => IsWorld(World)
BY WorldHas DEF IsWorld, WInv, WatchedTypes, Counts

LEMMA WorldTypedNext == WInv' /\ retries' \in Nat => IsWorld(World')
<1>1. (WInv /\ retries \in Nat)' => IsWorld(World)'
  BY WorldTyped, PTL
<1>2. QED
  BY <1>1

LEMMA OnTaskIs ==
  ASSUME NEW k \in Keys, NEW w \in Workers
  PROVE  /\ OnTask(World, k, w) <=> task[k].at = "started" /\ task[k].worker = w
         /\ OnTask(World', k, w) <=> task'[k].at = "started" /\ task'[k].worker = w
BY WorldHas, WorldHasNext DEF OnTask

\* What holds next.
LEMMA PInvNext ==
  ASSUME WInv', Losses', IsWorld(World'), Tasked(World'),
         Lossless' => IsServer(server') /\ Shown(World', Clear', server', Due')
  PROVE  PInv'
BY DEF PInv

\* A monitor is told of an event: it is due, or an event was lost for it.
LEMMA EmitDue ==
  ASSUME DashboardAssumption, WInv, WInv', Losses, NEW m \in Monitors, NEW p \in Phases,
         lean => p # "started", NEW k \in Keys, NEW label \in Nat,
         Emit(m, p, k, label), UNCHANGED <<lean, sender, wire>>
  PROVE  /\ Losses' /\ emitted' = [emitted EXCEPT ![p] = @ + 1]
         /\ Lossless' => Lossless /\ Adds(Due, Due', m, Event(p, k, m, label))
<1> DEFINE e == Event(p, k, m, label)
           full == Len(buf[m]) = QueueSize
<1>1. e \in Messages
  BY DEF Messages, Event, WInv, WatchedTypes
<1>2. /\ buf' = [buf EXCEPT ![m] = Append(IF full THEN Tail(buf[m]) ELSE buf[m], e)]
      /\ lost' = IF full THEN [lost EXCEPT ![m] = @ + 1] ELSE lost
      /\ emitted' = [emitted EXCEPT ![p] = @ + 1]
  BY DEF Emit
<1> HIDE DEF e, full
<1>3. CASE full
  <2>1. lost' = [lost EXCEPT ![m] = @ + 1]
    BY <1>2, <1>3
  <2>2. Losses' /\ (Lossless' => Lossless /\ 1 = 0)
    BY <2>1, LosesNone
  <2>3. QED
    BY <1>2, <2>2
<1>4. CASE ~full
  <2>1. buf' = [buf EXCEPT ![m] = Append(buf[m], e)] /\ lost' = lost
    BY <1>2, <1>4
  <2>2. WatchedTypes /\ WatchedTypes'
    BY DEF WInv
  <2>3. Adds(Due, Due', m, e)
    BY <1>1, <2>1, <2>2, EmitAdds
  <2>4. QED
    BY <1>2, <2>1, <2>3 DEF Losses, Lossless, e
<1>5. QED
  BY <1>3, <1>4

\* A task that stays.
LEMMA SameTold ==
  ASSUME NEW k \in Keys, Tasked(World), UNCHANGED <<lean, plan, begun>>,
         retries' = 0 => retries = 0, \A l \in Keys : l # k => task'[l] = task[l]
  PROVE  \A l \in Keys : l # k => TaskTold(World', l)
<1> TAKE l \in Keys
<1> HAVE l # k
<1>1. TaskTold(World, l) /\ task'[l] = task[l]
  BY DEF Tasked
<1>2. QED
  BY <1>1, WorldHas, WorldHasNext DEF TaskTold

LEMMA Submits ==
  ASSUME DashboardAssumption, PInv, WInv', NEW k \in Keys, SubmitTask(k)
  PROVE  PInv'
<1> DEFINE e == Event("submitted", k, Driver, begun)
<1>1. /\ WInv /\ Losses /\ IsWorld(World) /\ Tasked(World)
      /\ Lossless => IsServer(server) /\ Shown(World, Clear, server, Due)
  BY DEF PInv
<1>2. /\ task[k].at = "waiting"
      /\ task' = [task EXCEPT ![k].at = "submitted", ![k].told = "submitted"]
      /\ Emit(Driver, "submitted", k, begun)
      /\ UNCHANGED <<lean, plan, begun, retries, sender, wire, server, blurred>>
  BY DEF SubmitTask
<1>3. /\ begun \in Nat /\ retries \in Nat
      /\ task \in [Keys -> [at : Places, worker : Monitors, told : Places]]
  BY <1>1, WorldHas DEF WInv, WatchedTypes, IsWorld
<1>4. /\ \A l \in Keys : l # k => task'[l] = task[l]
      /\ task'[k].at = "submitted" /\ task'[k].told = "submitted" /\ task'[k].worker = task[k].worker
  BY <1>2, <1>3
<1>5. Losses' /\ emitted' = [emitted EXCEPT !["submitted"] = @ + 1]
      /\ (Lossless' => Lossless /\ Adds(Due, Due', Driver, e))
  <2>1. Driver \in Monitors /\ "submitted" \in Phases
    BY DEF Monitors, Phases
  <2>2. QED
    BY <1>1, <1>2, <1>3, <2>1, EmitDue
<1>6. IsWorld(World')
  BY <1>2, <1>3, WorldTypedNext
<1>7. TaskTold(World, k) /\ task[k].told = "none" /\ begun # 0 /\ k \in plan
  BY <1>1, <1>2, WorldHas DEF Tasked, TaskTold
<1>8. \A l \in Keys, w \in Workers : OnTask(World', l, w) <=> OnTask(World, l, w)
  <2> TAKE l \in Keys, w \in Workers
  <2>1. task[l].at = "started" /\ task[l].worker = w <=> task'[l].at = "started" /\ task'[l].worker = w
    BY <1>2, <1>4
  <2>2. QED
    BY <2>1, OnTaskIs
<1>9. Tasked(World')
  <2>1. TaskTold(World', k)
    BY <1>2, <1>4, <1>7, WorldHasNext DEF TaskTold, Ends, Phases
  <2>2. \A l \in Keys : l # k => TaskTold(World', l)
    BY <1>1, <1>2, <1>4, SameTold
  <2>3. \A l, j \in Keys : \A w \in Workers : OnTask(World', l, w) /\ OnTask(World', j, w) => l = j
    BY <1>1, <1>8 DEF Tasked
  <2>4. QED
    BY <2>1, <2>2, <2>3 DEF Tasked
<1>10. ASSUME Lossless' PROVE IsServer(server') /\ Shown(World', Clear', server', Due')
  <2>1. e.phase = "submitted" /\ e.worker = Driver /\ e.key = k /\ e.label = begun
    BY DEF Event
  <2>2. ToldOne(World, World', k, Driver, e)
    BY <1>2, <1>4, <1>7, <2>1, WorldHas, WorldHasNext DEF ToldOne
  <2>3. Moves(World, World', k, Driver, e)
    BY <1>8 DEF Moves, SameAt, DashboardAssumption
  <2>4. Clear' = Clear /\ server' = server
    BY <1>2 DEF Clear, AfterRetry
  <2>5. World'.emitted = [World.emitted EXCEPT ![e.phase] = @ + 1]
    BY <1>5, <2>1, WorldHas, WorldHasNext
  <2>6. IsServer(server) /\ Shown(World, Clear, server, Due) /\ Adds(Due, Due', Driver, e)
    BY <1>1, <1>5, <1>10
  <2>7. Driver \in Monitors
    BY DEF Monitors
  <2> HIDE DEF e
  <2>8. Shown(World', Clear, server, Due')
    BY <1>1, <2>1, <2>2, <2>3, <2>5, <2>6, <2>7, AddedShown
  <2>9. QED
    BY <2>4, <2>6, <2>8
<1>11. QED
  BY <1>5, <1>6, <1>9, <1>10, PInvNext

\* Who is idle may start a task.
LEMMA StartTold ==
  ASSUME IsWorld(World), Tasked(World), NEW k \in Keys, NEW w \in Workers,
         task[k].at \in {"submitted", "retried"}, ~Busy(w), task[k].at = "retried" => task[k].worker = w,
         UNCHANGED <<lean, plan, begun, retries>>,
         \A l \in Keys : l # k => task'[l] = task[l],
         task'[k].at = "started", task'[k].worker = w,
         task'[k].told = IF lean THEN task[k].told ELSE "started"
  PROVE  /\ Tasked(World') /\ ~AtWork(World, w) /\ OnTask(World', k, w)
         /\ task[k].told \in {"submitted", "errored"} /\ (task[k].told = "submitted" \/ retries # 0)
         /\ task[k].told # "submitted" => task[k].worker = w
         /\ \A x \in Workers : x # w => SameAt(World, World', x)
<1>1. TaskTold(World, k) /\ task[k].at \in Places
  BY WorldHas DEF Tasked, IsWorld
<1>2. /\ task[k].told \in {"submitted", "errored"} /\ (task[k].told = "submitted" \/ retries # 0)
      /\ task[k].told # "submitted" => task[k].worker = w
      /\ begun # 0 /\ k \in plan
  BY <1>1, WorldHas DEF TaskTold
<1>3. \A l \in Keys, x \in Workers : OnTask(World, l, x) <=> task[l].at = "started" /\ task[l].worker = x
  BY OnTaskIs
<1>4. \A l \in Keys, x \in Workers : OnTask(World', l, x) <=> task'[l].at = "started" /\ task'[l].worker = x
  BY OnTaskIs
<1>5. ~AtWork(World, w)
  BY <1>3 DEF AtWork, Busy
<1>6. OnTask(World', k, w)
  BY <1>4
<1>7. \A x \in Workers : x # w => SameAt(World, World', x)
  BY <1>3, <1>4 DEF SameAt
<1>8. TaskTold(World', k)
  BY <1>2, WorldHas, WorldHasNext DEF TaskTold, Ends, Phases
<1>9. \A l \in Keys : l # k => TaskTold(World', l)
  BY SameTold
<1>10. \A l, j \in Keys : \A x \in Workers : OnTask(World', l, x) /\ OnTask(World', j, x) => l = j
  <2> TAKE l, j \in Keys
  <2> TAKE x \in Workers
  <2> HAVE OnTask(World', l, x) /\ OnTask(World', j, x)
  <2>1. CASE x = w
    BY <1>3, <1>4, <1>5, <2>1 DEF AtWork
  <2>2. CASE x # w
    <3>1. OnTask(World, l, x) /\ OnTask(World, j, x)
      BY <1>7, <2>2 DEF SameAt
    <3>2. QED
      BY <3>1 DEF Tasked
  <2>3. QED
    BY <2>1, <2>2
<1>11. Tasked(World')
  BY <1>8, <1>9, <1>10 DEF Tasked
<1>12. QED
  BY <1>2, <1>5, <1>6, <1>7, <1>11

LEMMA Starts ==
  ASSUME DashboardAssumption, PInv, WInv', NEW k \in Keys, NEW w \in Workers, StartOn(k, w)
  PROVE  PInv'
<1> DEFINE e == Event("started", k, w, begun)
<1>1. /\ WInv /\ Losses /\ IsWorld(World) /\ Tasked(World)
      /\ Lossless => IsServer(server) /\ Shown(World, Clear, server, Due)
  BY DEF PInv
<1>2. /\ task[k].at \in {"submitted", "retried"} /\ ~Busy(w)
      /\ task[k].at = "retried" => task[k].worker = w
      /\ UNCHANGED <<lean, plan, begun, retries, sender, wire, server, blurred>>
  BY DEF StartOn
<1>3. /\ begun \in Nat /\ retries \in Nat /\ lean \in BOOLEAN
      /\ task \in [Keys -> [at : Places, worker : Monitors, told : Places]]
  BY <1>1, WorldHas DEF WInv, WatchedTypes, IsWorld
<1>4. IsWorld(World') /\ Clear' = Clear /\ server' = server
  BY <1>1, <1>2, <1>3, WorldTypedNext DEF Clear, AfterRetry
<1>5. CASE lean
  <2>1. task' = [task EXCEPT ![k].at = "started", ![k].worker = w] /\ UNCHANGED <<buf, lost, emitted>>
    BY <1>5 DEF StartOn
  <2>2. /\ \A l \in Keys : l # k => task'[l] = task[l]
        /\ task'[k].at = "started" /\ task'[k].worker = w /\ task'[k].told = task[k].told
    BY <1>3, <2>1
  <2>3. /\ Tasked(World') /\ ~AtWork(World, w) /\ OnTask(World', k, w)
        /\ task[k].told \in {"submitted", "errored"} /\ (task[k].told = "submitted" \/ retries # 0)
        /\ task[k].told # "submitted" => task[k].worker = w
        /\ \A x \in Workers : x # w => SameAt(World, World', x)
    BY <1>1, <1>2, <1>5, <2>2, StartTold
  <2>4. Due' = Due /\ Losses' /\ Lossless' = Lossless
    BY <1>1, <1>2, <2>1 DEF Due, Flat, Losses, Lossless
  <2>5. ASSUME Lossless PROVE IsServer(server) /\ Shown(World', Clear, server, Due)
    <3>1. Silent(World, World')
      <4>1. /\ World'.lean = World.lean /\ World'.begun = World.begun
            /\ World'.emitted = World.emitted /\ World'.retries = World.retries /\ World.lean
        BY <1>2, <1>5, <2>1, WorldHas, WorldHasNext
      <4>2. ASSUME NEW l \in Keys
            PROVE  /\ task'[l].told = task[l].told
                   /\ task[l].told \notin {"none", "submitted"} => task'[l].worker = task[l].worker
        <5>1. CASE l = k
          BY <2>2, <2>3, <5>1
        <5>2. CASE l # k
          BY <2>2, <5>2
        <5>3. QED
          BY <5>1, <5>2
      <4>3. \A l \in Keys :
              /\ World'.task[l].told = World.task[l].told
              /\ World.task[l].told \notin {"none", "submitted"} => World'.task[l].worker = World.task[l].worker
        BY <4>2, WorldHas, WorldHasNext
      <4>4. QED
        BY ONLY <4>1, <4>3 DEF Silent
    <3>2. Due \in Dues
      BY <1>1, DueTyped DEF WInv
    <3>3. IsServer(server) /\ Shown(World, Clear, server, Due)
      BY <1>1, <2>5
    <3>4. QED
      BY <1>1, <3>1, <3>2, <3>3, SilentShown
  <2>6. QED
    BY <1>4, <2>3, <2>4, <2>5, PInvNext
<1>6. CASE ~lean
  <2>1. /\ task' = [task EXCEPT ![k] = [at |-> "started", worker |-> w, told |-> "started"]]
        /\ Emit(w, "started", k, begun)
    BY <1>6 DEF StartOn
  <2>2. /\ \A l \in Keys : l # k => task'[l] = task[l]
        /\ task'[k].at = "started" /\ task'[k].worker = w /\ task'[k].told = "started"
    BY <1>3, <2>1
  <2>3. /\ Tasked(World') /\ ~AtWork(World, w) /\ OnTask(World', k, w)
        /\ task[k].told \in {"submitted", "errored"} /\ (task[k].told = "submitted" \/ retries # 0)
        /\ task[k].told # "submitted" => task[k].worker = w
        /\ \A x \in Workers : x # w => SameAt(World, World', x)
    BY <1>1, <1>2, <1>6, <2>2, StartTold
  <2>4. w \in Monitors /\ "started" \in Phases /\ w # Driver
    BY DEF Monitors, Phases, DashboardAssumption
  <2>5. Losses' /\ emitted' = [emitted EXCEPT !["started"] = @ + 1]
        /\ (Lossless' => Lossless /\ Adds(Due, Due', w, e))
    BY <1>1, <1>2, <1>3, <1>6, <2>1, <2>4, EmitDue
  <2>6. ASSUME Lossless' PROVE IsServer(server') /\ Shown(World', Clear', server', Due')
    <3>1. e.phase = "started" /\ e.worker = w /\ e.key = k /\ e.label = begun
      BY DEF Event
    <3>2. ToldOne(World, World', k, w, e)
      <4>1. /\ World'.lean = World.lean /\ World'.begun = World.begun /\ World'.retries = World.retries
            /\ \A l \in Keys : l # k => World'.task[l] = World.task[l]
            /\ World'.task[k].worker = w /\ World'.task[k].told = "started"
            /\ World.task[k].told = task[k].told /\ World.task[k].worker = task[k].worker
            /\ ~World.lean /\ World.retries = retries /\ World.begun = begun
        BY <1>2, <1>6, <2>2, WorldHas, WorldHasNext
      <4>2. e.key = k /\ e.phase = "started" /\ e.label = World.begun /\ Opens(World, e)
        BY <3>1, <4>1 DEF Opens
      <4>3. /\ World.task[k].told \in {"submitted", "errored"}
            /\ World.task[k].told = "submitted" \/ World.retries # 0
            /\ World.task[k].told # "submitted" => World.task[k].worker = w
        BY <2>3, <4>1
      <4>4. w \in Workers
        OBVIOUS
      <4>5. QED
        BY ONLY <2>4, <4>1, <4>2, <4>3, <4>4 DEF ToldOne
    <3>3. Moves(World, World', k, w, e)
      BY <2>3, <3>1 DEF Moves
    <3>4. World'.emitted = [World.emitted EXCEPT ![e.phase] = @ + 1] /\ ~World.lean
      BY <1>6, <2>5, <3>1, WorldHas, WorldHasNext
    <3>5. IsServer(server) /\ Shown(World, Clear, server, Due) /\ Adds(Due, Due', w, e)
      BY <1>1, <2>5, <2>6
    <3> HIDE DEF e
    <3>6. (e.phase = "submitted") <=> (w = Driver)
      BY <2>4, <3>1
    <3>7. Shown(World', Clear, server, Due')
      BY <1>1, <2>4, <3>1, <3>2, <3>3, <3>4, <3>5, <3>6, AddedShown
    <3>8. QED
      BY <1>4, <3>5, <3>7
  <2>7. QED
    BY <1>4, <2>3, <2>5, <2>6, PInvNext
<1>7. QED
  BY <1>5, <1>6

\* Who ends a task is idle.
LEMMA EndTold ==
  ASSUME IsWorld(World), Tasked(World), NEW k \in Keys, NEW p \in Ends, task[k].at = "started",
         UNCHANGED <<lean, plan, begun, retries>>,
         \A l \in Keys : l # k => task'[l] = task[l],
         task'[k].at = p, task'[k].worker = task[k].worker, task'[k].told = p
  PROVE  /\ Tasked(World') /\ task[k].worker \in Workers
         /\ OnTask(World, k, task[k].worker) /\ ~AtWork(World', task[k].worker)
         /\ IF lean THEN task[k].told = "submitted" \/ retries # 0 ELSE task[k].told = "started"
         /\ task[k].told # "none"
         /\ \A l \in Keys : OnTask(World, l, task[k].worker) => l = k
         /\ \A x \in Workers : x # task[k].worker => SameAt(World, World', x)
<1> DEFINE w == task[k].worker
<1>1. TaskTold(World, k)
  BY DEF Tasked
<1>2. /\ w \in Workers /\ task[k].told # "none" /\ begun # 0 /\ k \in plan
      /\ IF lean THEN task[k].told = "submitted" \/ retries # 0 ELSE task[k].told = "started"
  BY <1>1, WorldHas DEF TaskTold
<1>3. \A l \in Keys, x \in Workers : OnTask(World, l, x) <=> task[l].at = "started" /\ task[l].worker = x
  BY OnTaskIs
<1>4. \A l \in Keys, x \in Workers : OnTask(World', l, x) <=> task'[l].at = "started" /\ task'[l].worker = x
  BY OnTaskIs
<1>5. p # "started" /\ p \in {"finished", "errored"}
  BY DEF Ends
<1>6. OnTask(World, k, w)
  BY <1>2, <1>3
<1>7. \A l \in Keys : OnTask(World, l, w) => l = k
  BY <1>2, <1>6 DEF Tasked
<1>8. ~AtWork(World', w)
  BY <1>2, <1>3, <1>4, <1>5, <1>7 DEF AtWork
<1>9. \A x \in Workers : x # w => SameAt(World, World', x)
  BY <1>3, <1>4, <1>5 DEF SameAt
<1>10. TaskTold(World', k)
  BY <1>2, <1>5, WorldHas, WorldHasNext DEF TaskTold, Ends, Phases
<1>11. \A l \in Keys : l # k => TaskTold(World', l)
  BY SameTold
<1>12. \A l, j \in Keys : \A x \in Workers : OnTask(World', l, x) /\ OnTask(World', j, x) => l = j
  <2> TAKE l, j \in Keys
  <2> TAKE x \in Workers
  <2> HAVE OnTask(World', l, x) /\ OnTask(World', j, x)
  <2>1. CASE x = w
    BY <1>8, <2>1 DEF AtWork
  <2>2. CASE x # w
    <3>1. OnTask(World, l, x) /\ OnTask(World, j, x)
      BY <1>9, <2>2 DEF SameAt
    <3>2. QED
      BY <3>1 DEF Tasked
  <2>3. QED
    BY <2>1, <2>2
<1>13. Tasked(World')
  BY <1>10, <1>11, <1>12 DEF Tasked
<1>14. QED
  BY <1>2, <1>6, <1>7, <1>8, <1>9, <1>13

LEMMA EndsTask ==
  ASSUME DashboardAssumption, PInv, WInv', NEW k \in Keys, NEW p \in {"finished", "errored"}, End(k, p)
  PROVE  PInv'
<1> DEFINE w == task[k].worker
           n == IF lean THEN NoLabel ELSE begun
           e == Event(p, k, w, n)
<1>1. /\ WInv /\ Losses /\ IsWorld(World) /\ Tasked(World)
      /\ Lossless => IsServer(server) /\ Shown(World, Clear, server, Due)
  BY DEF PInv
<1>2. /\ task[k].at = "started"
      /\ task' = [task EXCEPT ![k].at = p, ![k].told = p]
      /\ Emit(w, p, k, n)
      /\ UNCHANGED <<lean, plan, begun, retries, sender, wire, server, blurred>>
  BY DEF End
<1>3. /\ begun \in Nat /\ retries \in Nat /\ lean \in BOOLEAN
      /\ task \in [Keys -> [at : Places, worker : Monitors, told : Places]]
  BY <1>1, WorldHas DEF WInv, WatchedTypes, IsWorld
<1>4. IsWorld(World') /\ Clear' = Clear /\ server' = server
  BY <1>1, <1>2, <1>3, WorldTypedNext DEF Clear, AfterRetry
<1>5. /\ \A l \in Keys : l # k => task'[l] = task[l]
      /\ task'[k].at = p /\ task'[k].worker = w /\ task'[k].told = p
  BY <1>2, <1>3
<1>6. p \in Ends /\ p \in Phases /\ p # "started" /\ p # "submitted" /\ p # "none"
  BY DEF Ends, Phases
<1>7. /\ Tasked(World') /\ w \in Workers
      /\ OnTask(World, k, w) /\ ~AtWork(World', w)
      /\ IF lean THEN task[k].told = "submitted" \/ retries # 0 ELSE task[k].told = "started"
      /\ task[k].told # "none"
      /\ \A l \in Keys : OnTask(World, l, w) => l = k
      /\ \A x \in Workers : x # w => SameAt(World, World', x)
  BY <1>1, <1>2, <1>5, <1>6, EndTold
<1>8. w \in Monitors /\ w # Driver /\ n \in Nat
  BY <1>3, <1>7 DEF Monitors, DashboardAssumption, NoLabel
<1> HIDE DEF w, n
<1>9. Losses' /\ emitted' = [emitted EXCEPT ![p] = @ + 1]
      /\ (Lossless' => Lossless /\ Adds(Due, Due', w, e))
  BY <1>1, <1>2, <1>6, <1>8, EmitDue
<1>10. ASSUME Lossless' PROVE IsServer(server') /\ Shown(World', Clear', server', Due')
  <2>1. e.phase = p /\ e.worker = w /\ e.key = k /\ e.label = n
    BY DEF Event
  <2> HIDE DEF e
  <2>2. ToldOne(World, World', k, w, e)
    <3>1. /\ World'.lean = World.lean /\ World'.begun = World.begun /\ World'.retries = World.retries
          /\ \A l \in Keys : l # k => World'.task[l] = World.task[l]
          /\ World'.task[k].worker = w /\ World'.task[k].told = p
          /\ World.task[k].told = task[k].told /\ World.task[k].worker = w
          /\ World.lean = lean /\ World.retries = retries /\ World.begun = begun
      BY <1>2, <1>5, WorldHas, WorldHasNext DEF w
    <3>2. e.label = IF World.lean THEN NoLabel ELSE World.begun
      BY <2>1, <3>1 DEF n
    <3>3. Opens(World, e) <=> lean
      BY <1>6, <2>1, <3>1 DEF Opens
    <3>4. /\ World.retries = 0 /\ Opens(World, e) => World.task[k].told = "submitted"
          /\ ~Opens(World, e) => World.task[k].told = "started"
      BY <1>7, <3>1, <3>3
    <3>5. e.key = k /\ e.phase = p /\ p \notin {"none", "submitted"} /\ World.task[k].told # "none"
      BY <1>6, <1>7, <2>1, <3>1
    <3>6. QED
      BY ONLY <1>7, <1>8, <3>1, <3>2, <3>4, <3>5 DEF ToldOne
  <2>3. Moves(World, World', k, w, e)
    BY <1>6, <1>7, <2>1 DEF Moves
  <2>4. World'.emitted = [World.emitted EXCEPT ![e.phase] = @ + 1]
    BY <1>9, <2>1, WorldHas, WorldHasNext
  <2>5. IsServer(server) /\ Shown(World, Clear, server, Due) /\ Adds(Due, Due', w, e)
    BY <1>1, <1>9, <1>10
  <2>6. ((e.phase = "submitted") <=> (w = Driver)) /\ e.phase # "started"
    BY <1>6, <1>8, <2>1
  <2>7. Shown(World', Clear, server, Due')
    BY <1>1, <1>8, <2>1, <2>2, <2>3, <2>4, <2>5, <2>6, AddedShown
  <2>8. QED
    BY <1>4, <2>5, <2>7
<1>11. QED
  BY <1>4, <1>7, <1>9, <1>10, PInvNext

\* What the monitors hold and the server has is as it was.
LEMMA StillDue ==
  ASSUME WInv, Losses, UNCHANGED <<lean, buf, sender, wire, lost>>
  PROVE  Due' = Due /\ Losses' /\ Lossless' = Lossless /\ Due \in Dues
BY DueTyped DEF Due, Flat, Losses, Lossless, WInv

\* Nothing is due once everything was heard.
LEMMA HeardAll ==
  ASSUME Heard, NEW m \in Monitors
  PROVE  Due[m] = << >>
<1>1. buf[m] = << >> /\ sender[m].batch = << >> /\ wire[m] = << >>
  BY DEF Heard
<1>2. Flat(wire[m]) = << >>
  BY <1>1, FlatNone
<1>3. << >> \o (<< >> \o << >>) = << >>
  OBVIOUS
<1>4. QED
  BY <1>1, <1>2, <1>3 DEF Due

LEMMA BeginsRun ==
  ASSUME DashboardAssumption, PInv, WInv', Begin
  PROVE  PInv'
<1>1. /\ WInv /\ Losses /\ IsWorld(World) /\ Tasked(World)
      /\ Lossless => IsServer(server) /\ Shown(World, Clear, server, Due)
  BY DEF PInv
<1>2. /\ \A k \in Keys : Ended(k)
      /\ begun' = begun + 1
      /\ task' = [k \in Keys |-> IF k \in plan THEN Unborn ELSE task[k]]
      /\ blurred' = (blurred \/ ~Heard \/ \E k \in Keys : task[k].at = "left")
      /\ UNCHANGED <<lean, plan, retries, buf, sender, wire, server, emitted, lost>>
  BY DEF Begin
<1>3. begun \in Nat /\ retries \in Nat
  BY <1>1, WorldHas DEF IsWorld
<1>4. IsWorld(World')
  BY <1>1, <1>2, <1>3, WorldTypedNext
<1>5. Due' = Due /\ Losses' /\ Lossless' = Lossless /\ Due \in Dues
  BY <1>1, <1>2, StillDue
<1>6. \A k \in Keys : task[k].at \in {"none", "finished", "errored", "left"}
  BY <1>2 DEF Ended
<1>7. Begins(World, World')
  BY <1>2, <1>6, WorldHas, WorldHasNext DEF Begins
<1>8. \A l \in Keys, x \in Workers : ~OnTask(World', l, x)
  BY <1>2, <1>6, WorldHasNext DEF OnTask, Unborn
<1>9. ASSUME NEW k \in Keys PROVE TaskTold(World', k)
  <2>1. TaskTold(World, k)
    BY <1>1 DEF Tasked
  <2>2. CASE k \in plan
    <3>1. task'[k] = Unborn /\ begun' # 0
      BY <1>2, <1>3, <2>2
    <3>2. QED
      BY <1>2, <2>2, <3>1, WorldHasNext DEF TaskTold, Unborn, Ends, Phases
  <2>3. CASE k \notin plan
    <3>1. task'[k] = task[k] /\ begun' # 0
      BY <1>2, <1>3, <2>3
    <3>2. task[k].at = "none" /\ task[k].told = "none"
      BY <2>1, <2>3, WorldHas DEF TaskTold
    <3>3. QED
      BY <1>2, <2>3, <3>1, <3>2, WorldHasNext DEF TaskTold, Ends, Phases
  <2>4. QED
    BY <2>2, <2>3
<1>10. Tasked(World')
  BY <1>8, <1>9 DEF Tasked
<1>11. ASSUME Clear'
       PROVE  /\ Clear /\ \A x \in Monitors : Due[x] = << >>
              /\ \A k \in Keys : World.task[k].at # "left"
              /\ World.begun # 0 => World.retries = 0
  <2>1. ~blurred' /\ ~AfterRetry'
    BY <1>11 DEF Clear
  <2>2. ~blurred /\ Heard /\ \A k \in Keys : task[k].at # "left"
    BY <1>2, <2>1
  <2>3. begun # 0 => retries = 0
    BY <1>2, <1>3, <2>1 DEF AfterRetry
  <2>4. ~AfterRetry
    BY <1>3, <2>3 DEF AfterRetry
  <2>5. QED
    BY <2>2, <2>3, <2>4, HeardAll, WorldHas DEF Clear
<1>12. ASSUME Lossless' PROVE IsServer(server') /\ Shown(World', Clear', server', Due')
  <2>1. IsServer(server) /\ Shown(World, Clear, server, Due)
    BY <1>1, <1>5, <1>12
  <2>2. Shown(World', Clear', server, Due)
    BY <1>1, <1>5, <1>7, <1>11, <2>1, BeginShown
  <2>3. QED
    BY <1>2, <1>5, <2>1, <2>2
<1>13. QED
  BY <1>4, <1>5, <1>10, <1>12, PInvNext

LEMMA Retries ==
  ASSUME DashboardAssumption, PInv, WInv', NEW k \in Keys, Retry(k)
  PROVE  PInv'
<1>1. /\ WInv /\ Losses /\ IsWorld(World) /\ Tasked(World)
      /\ Lossless => IsServer(server) /\ Shown(World, Clear, server, Due)
  BY DEF PInv
<1>2. /\ task[k].at = "errored" /\ retries' = retries + 1
      /\ task' = [task EXCEPT ![k].at = "retried"]
      /\ UNCHANGED <<lean, plan, begun, buf, sender, wire, server, emitted, lost, blurred>>
  BY DEF Retry
<1>3. /\ begun \in Nat /\ retries \in Nat
      /\ task \in [Keys -> [at : Places, worker : Monitors, told : Places]]
  BY <1>1, WorldHas DEF IsWorld
<1>4. retries' # 0 /\ retries' \in Nat
  BY <1>2, <1>3
<1>5. IsWorld(World')
  BY <1>1, <1>2, <1>4, WorldTypedNext
<1>6. Due' = Due /\ Losses' /\ Lossless' = Lossless /\ Due \in Dues
  BY <1>1, <1>2, StillDue
<1>7. /\ \A l \in Keys : l # k => task'[l] = task[l]
      /\ task'[k].at = "retried" /\ task'[k].told = task[k].told /\ task'[k].worker = task[k].worker
  BY <1>2, <1>3
<1>8. TaskTold(World, k)
  BY <1>1 DEF Tasked
<1>9. TaskTold(World', k)
  BY <1>2, <1>4, <1>7, <1>8, WorldHas, WorldHasNext DEF TaskTold, Ends, Phases
<1>10. \A l \in Keys : l # k => TaskTold(World', l)
  BY <1>1, <1>2, <1>4, <1>7, SameTold
<1>11. \A l \in Keys, x \in Workers : OnTask(World', l, x) <=> OnTask(World, l, x)
  BY <1>2, <1>7, OnTaskIs
<1>12. Tasked(World')
  BY <1>1, <1>9, <1>10, <1>11 DEF Tasked
<1>13. Silent(World, World')
  <2>1. \A l \in Keys : task'[l].told = task[l].told /\ task'[l].worker = task[l].worker
    BY <1>7
  <2>2. \A x \in Workers : SameAt(World, World', x)
    BY <1>11 DEF SameAt
  <2>3. QED
    BY <1>2, <1>4, <2>1, <2>2, WorldHas, WorldHasNext DEF Silent
<1>14. Clear' => Clear
  BY <1>2, <1>3, <1>4 DEF Clear, AfterRetry
<1>15. ASSUME Lossless' PROVE IsServer(server') /\ Shown(World', Clear', server', Due')
  <2>1. IsServer(server) /\ Shown(World, Clear, server, Due)
    BY <1>1, <1>6, <1>15
  <2>2. Shown(World', Clear', server, Due)
    BY <1>1, <1>6, <1>13, <1>14, <2>1, SilentShown
  <2>3. QED
    BY <1>2, <1>6, <2>1, <2>2
<1>16. QED
  BY <1>5, <1>6, <1>12, <1>15, PInvNext

LEMMA Interrupts ==
  ASSUME DashboardAssumption, PInv, WInv', Interrupt
  PROVE  PInv'
<1>1. /\ WInv /\ Losses /\ IsWorld(World) /\ Tasked(World)
      /\ Lossless => IsServer(server) /\ Shown(World, Clear, server, Due)
  BY DEF PInv
<1>2. /\ task' = [k \in Keys |-> IF task[k].at = "submitted" THEN [task[k] EXCEPT !.at = "left"]
                                                           ELSE task[k]]
      /\ UNCHANGED <<lean, plan, begun, retries, buf, sender, wire, server, emitted, lost, blurred>>
  BY DEF Interrupt
<1>3. /\ begun \in Nat /\ retries \in Nat
      /\ task \in [Keys -> [at : Places, worker : Monitors, told : Places]]
  BY <1>1, WorldHas DEF IsWorld
<1>4. IsWorld(World') /\ Clear' = Clear
  BY <1>1, <1>2, <1>3, WorldTypedNext DEF Clear, AfterRetry
<1>5. Due' = Due /\ Losses' /\ Lossless' = Lossless /\ Due \in Dues
  BY <1>1, <1>2, StillDue
<1>6. \A k \in Keys :
        /\ task'[k].told = task[k].told /\ task'[k].worker = task[k].worker
        /\ task'[k].at = IF task[k].at = "submitted" THEN "left" ELSE task[k].at
  BY <1>2, <1>3
<1>7. ASSUME NEW k \in Keys PROVE TaskTold(World', k)
  <2>1. TaskTold(World, k)
    BY <1>1 DEF Tasked
  <2>2. /\ task'[k].told = task[k].told /\ task'[k].worker = task[k].worker
        /\ task'[k].at = IF task[k].at = "submitted" THEN "left" ELSE task[k].at
    BY <1>6
  <2>3. QED
    BY <1>2, <2>1, <2>2, WorldHas, WorldHasNext DEF TaskTold, Ends, Phases
<1>8. \A l \in Keys, x \in Workers : OnTask(World', l, x) <=> OnTask(World, l, x)
  BY <1>6, OnTaskIs
<1>9. Tasked(World')
  BY <1>1, <1>7, <1>8 DEF Tasked
<1>10. Silent(World, World')
  <2>1. \A x \in Workers : SameAt(World, World', x)
    BY <1>8 DEF SameAt
  <2>2. QED
    BY <1>2, <1>6, <2>1, WorldHas, WorldHasNext DEF Silent
<1>11. ASSUME Lossless' PROVE IsServer(server') /\ Shown(World', Clear', server', Due')
  <2>1. IsServer(server) /\ Shown(World, Clear, server, Due)
    BY <1>1, <1>5, <1>11
  <2>2. Shown(World', Clear, server, Due)
    BY <1>1, <1>5, <1>10, <2>1, SilentShown
  <2>3. QED
    BY <1>2, <1>4, <1>5, <2>1, <2>2
<1>12. QED
  BY <1>4, <1>5, <1>9, <1>11, PInvNext

\* A step the run has no part in.
Unmoved == UNCHANGED <<lean, plan, task, begun, retries, emitted, blurred>>

LEMMA UnmovedWorld ==
  ASSUME Unmoved
  PROVE  World' = World /\ Clear' = Clear
BY DEF Unmoved, World, Clear, AfterRetry

\* It keeps what holds when all that was due still is.
LEMMA KeepsPage ==
  ASSUME PInv, WInv', Unmoved, UNCHANGED server, Losses', Lossless' => Lossless /\ Due' = Due
  PROVE  PInv'
<1>1. /\ Losses /\ IsWorld(World) /\ Tasked(World)
      /\ Lossless => IsServer(server) /\ Shown(World, Clear, server, Due)
  BY DEF PInv
<1>2. World' = World /\ Clear' = Clear /\ server' = server
  BY UnmovedWorld
<1>3. IsWorld(World') /\ Tasked(World')
  BY <1>1, <1>2
<1>4. ASSUME Lossless' PROVE IsServer(server') /\ Shown(World', Clear', server', Due')
  <2>1. IsServer(server) /\ Shown(World, Clear, server, Due) /\ Due' = Due
    BY <1>1, <1>4
  <2>2. QED
    BY <1>2, <2>1
<1>5. QED
  BY <1>3, <1>4, PInvNext

LEMMA SendersKeep ==
  ASSUME DashboardAssumption, PInv, WInv', NEW m \in Monitors,
         SenderStep(m) \/ ConnectFails(m) \/ Break(m)
  PROVE  PInv'
<1>1. WInv /\ Losses
  BY DEF PInv
<1>2. Unmoved /\ UNCHANGED server
  BY DEF SenderStep, Drain, Send, SendFails, ConnectFails, Break, Unmoved, run
<1>3. CASE Drain(m)
  <2>1. Due' = Due
    BY <1>1, <1>3, DrainsDue
  <2>2. lost' = lost
    BY <1>3 DEF Drain
  <2>3. Losses' /\ Lossless' = Lossless
    BY <1>1, <2>2 DEF Losses, Lossless
  <2>4. QED
    BY <1>2, <2>1, <2>3, KeepsPage
<1>4. CASE Send(m)
  <2>1. Losses' /\ (Lossless' => Lossless /\ Due' = Due)
    BY <1>1, <1>4, SendsDue
  <2>2. QED
    BY <1>2, <2>1, KeepsPage
<1>5. CASE SendFails(m) \/ ConnectFails(m) \/ Break(m)
  <2>1. Losses' /\ (Lossless' => Lossless /\ Due' = Due)
    BY <1>1, <1>5, BreaksDue
  <2>2. QED
    BY <1>2, <2>1, KeepsPage
<1>6. QED
  BY <1>3, <1>4, <1>5 DEF SenderStep

LEMMA StaysShown ==
  ASSUME PInv, WInv', CloseMonitors \/ UNCHANGED dashboardVars
  PROVE  PInv'
<1>1. WInv /\ Losses
  BY DEF PInv
<1>2. Unmoved /\ UNCHANGED server /\ UNCHANGED <<lean, buf, sender, wire, lost>>
  BY DEF CloseMonitors, dashboardVars, run, Unmoved
<1>3. Due' = Due /\ Losses' /\ Lossless' = Lossless
  BY <1>1, <1>2, StillDue
<1>4. QED
  BY <1>2, <1>3, KeepsPage

LEMMA TakesFrame ==
  ASSUME DashboardAssumption, PInv, WInv', NEW m \in Monitors, Ingest(m)
  PROVE  PInv'
<1> DEFINE frame == Head(wire[m])
<1>1. /\ WInv /\ Losses /\ IsWorld(World) /\ Tasked(World)
      /\ Lossless => IsServer(server) /\ Shown(World, Clear, server, Due)
  BY DEF PInv
<1>2. Unmoved /\ lost' = lost
  BY DEF Ingest, Unmoved, run
<1>3. World' = World /\ Clear' = Clear
  BY <1>2, UnmovedWorld
<1>4. Losses' /\ Lossless' = Lossless
  BY <1>1, <1>2 DEF Losses, Lossless
<1>5. /\ Due[m] = frame \o Due'[m] /\ frame \in Seq(Messages)
      /\ \A x \in Monitors : x # m => Due'[x] = Due[x]
      /\ Due \in Dues
      /\ server' = TakenIn(server, frame, World.lean)
  BY <1>1, IngestsDue, WorldHas
<1>6. Due' \in Dues
  <2>1. WatchedTypes'
    BY DEF WInv
  <2>2. QED
    BY <2>1, DueTypedNext
<1>7. frame \in Seq(Tells)
  <2>1. Messages \subseteq Tells
    BY DEF Messages, Tells
  <2>2. QED
    BY <1>5, <2>1
<1> HIDE DEF frame
<1>8. ASSUME Lossless' PROVE IsServer(server') /\ Shown(World', Clear', server', Due')
  <2>1. IsServer(server) /\ Shown(World, Clear, server, Due)
    BY <1>1, <1>4, <1>8
  <2>2. /\ IsServer(TakenIn(server, frame, World.lean))
        /\ Shown(World, Clear, TakenIn(server, frame, World.lean), Due')
    BY <1>1, <1>5, <1>6, <1>7, <2>1, FrameShown
  <2>3. QED
    BY <1>3, <1>5, <2>2
<1>9. QED
  BY <1>1, <1>3, <1>4, <1>8, PInvNext

(***************************************************************************)
(* It starts so, and comes to what the page must show.                     *)
(***************************************************************************)
LEMMA NewIsServer == IsServer(NewServer)
<1>1. NoRow \in Rows /\ NoRecord \in Cells /\ NoLabel \in Nat
  BY DEF NoRow, NoRecord, NoLabel, Rows, Cells
<1>2. /\ NewServer.life = [k \in Keys |-> {}] /\ NewServer.label = [k \in Keys |-> NoLabel]
      /\ NewServer.rows = [k \in Keys |-> NoRow] /\ NewServer.stats = [p \in Phases |-> 0]
      /\ NewServer.open = {} /\ NewServer.seen = {} /\ NewServer.unlabelled = {}
      /\ NewServer.records = [w \in Workers |-> [k \in Keys |-> NoRecord]]
  BY DEF NewServer
<1>3. NewServer = Fields(NewServer)
  BY DEF NewServer, Fields
<1>4. QED
  BY <1>1, <1>2, <1>3 DEF IsServer

LEMMA NothingComing ==
  ASSUME NEW q, \A m \in Monitors : q[m] = << >>, NEW p
  PROVE  Coming(q, p) = {} /\ IsFiniteSet(Coming(q, p)) /\ Cardinality(Coming(q, p)) = 0
<1>1. \A m \in Monitors : 1 .. Len(q[m]) = {}
  <2> TAKE m \in Monitors
  <2>1. Len(q[m]) = 0
    OBVIOUS
  <2>2. QED
    BY <2>1
<1>2. Coming(q, p) = {}
  BY <1>1 DEF Coming
<1>3. QED
  BY <1>2, FS_EmptySet

LEMMA PageStarts ==
  ASSUME DashboardAssumption, DashboardInit
  PROVE  PInv
<1> DEFINE h == [k \in Keys |-> "none"]
<1>1. WInv
  BY WatchingStarts
<1>2. /\ lean \in BOOLEAN /\ begun = 0 /\ retries = 0 /\ server = NewServer
      /\ task = [k \in Keys |-> [Unborn EXCEPT !.at = "none"]]
      /\ emitted = [p \in Phases |-> 0] /\ lost = [m \in Monitors |-> 0]
      /\ buf = [m \in Monitors |-> << >>] /\ wire = [m \in Monitors |-> << >>]
      /\ sender = [m \in Monitors |-> [pc |-> "top", batch |-> << >>, final |-> FALSE]]
  BY DEF DashboardInit
<1>3. IsWorld(World)
  BY <1>1, <1>2, WorldTyped
<1>4. \A k \in Keys : task[k].at = "none" /\ task[k].told = "none"
  BY <1>2 DEF Unborn
<1>5. Tasked(World)
  BY <1>2, <1>4, WorldHas DEF Tasked, TaskTold, OnTask, Ends, Phases
<1>6. \A m \in Monitors : Due[m] = << >>
  <2>1. Heard
    BY <1>2 DEF Heard
  <2>2. QED
    BY <2>1, HeardAll
<1>7. \A m \in Monitors : Len(Due[m]) = 0
  BY <1>6
<1>8. Driver \in Monitors /\ Workers \subseteq Monitors
  BY DEF Monitors
<1>9. \A k \in Keys : SubDue(World, k, Due) = TRUE
  BY <1>4, WorldHas DEF SubDue
<1>10. /\ server.life = [k \in Keys |-> {}] /\ server.label = [k \in Keys |-> NoLabel]
       /\ server.stats = [p \in Phases |-> 0] /\ server.inflight = 0
       /\ server.open = {} /\ server.seen = {} /\ server.unlabelled = {}
       /\ server.records = [w \in Workers |-> [k \in Keys |-> NoRecord]]
  BY <1>2 DEF NewServer
<1>11. Turns(World, Due)
  BY <1>7, <1>8 DEF Turns, InTurn
<1>12. Tallies(World, server, Due)
  <2>1. \A p \in Phases : /\ IsFiniteSet(Coming(Due, p)) /\ Cardinality(Coming(Due, p)) = 0
                          /\ server.stats[p] = 0 /\ World.emitted[p] = 0
    <3> TAKE p \in Phases
    <3>1. IsFiniteSet(Coming(Due, p)) /\ Cardinality(Coming(Due, p)) = 0
      BY ONLY <1>6, NothingComing
    <3>2. server.stats[p] = 0 /\ World.emitted[p] = 0
      BY <1>2, <1>10, WorldHas
    <3>3. QED
      BY <3>1, <3>2
  <2>2. "started" \in Phases /\ "finished" \in Phases /\ "errored" \in Phases
    BY DEF Phases
  <2>3. \A k \in Keys : 1 \notin server.life[k]
    BY <1>10
  <2>4. QED
    BY <2>1, <2>2, <2>3 DEF Tallies
<1>13. Flights(World, server, Due)
  <2>1. OpenFlights(World, Due) = {}
    BY <1>4, <1>7, <1>8, WorldHas DEF OpenFlights, OpenOn, AtWork, OnTask
  <2>2. Cardinality({}) = 0
    BY FS_EmptySet
  <2>3. QED
    BY <1>10, <2>1, <2>2 DEF Flights, Least
<1>14. OfRun(World, Due)
  BY <1>7, <1>8 DEF OfRun, FromDriver, FromWorker
<1>15. Page(World, server, Due, h)
  <2>1. HeardIs(World, Due, h)
    BY <1>4, <1>7, <1>8, WorldHas DEF HeardIs
  <2>2. Rowed(World, server, Due, h)
    BY <1>9, <1>10 DEF Rowed, LifeIs, RowIs
  <2>3. Labelled(World, server, Due, h)
    BY <1>9, <1>10 DEF Labelled, NoRecord
  <2>4. OpenIs(World, server, Due, h)
    BY <1>9, <1>10 DEF OpenIs
  <2>5. QED
    BY <2>1, <2>2, <2>3, <2>4 DEF Page
<1>16. Shown(World, Clear, server, Due)
  BY <1>11, <1>12, <1>13, <1>14, <1>15 DEF Shown
<1>17. Losses
  BY <1>2 DEF Losses
<1>18. IsServer(server)
  BY <1>2, NewIsServer
<1>19. QED
  BY <1>1, <1>3, <1>5, <1>16, <1>17, <1>18 DEF PInv

\* As many workers are at a task as tasks are under way.
LEMMA AtWorkCount ==
  ASSUME DashboardAssumption, NEW y, Tasked(y)
  PROVE  Cardinality({k \in Keys : y.task[k].at = "started"}) = Cardinality({w \in Workers : AtWork(y, w)})
<1> DEFINE S == {w \in Workers : AtWork(y, w)}
           T == {k \in Keys : y.task[k].at = "started"}
           f == [w \in S |-> CHOOSE k \in Keys : OnTask(y, k, w)]
<1>1. IsFiniteSet(S)
  BY FS_Subset DEF DashboardAssumption
<1>2. \A w \in S : f[w] \in Keys /\ OnTask(y, f[w], w)
  BY DEF AtWork
<1>3. \A w \in S : f[w] \in T /\ y.task[f[w]].worker = w
  BY <1>2 DEF OnTask
<1>4. ASSUME NEW k \in T PROVE \E w \in S : f[w] = k
  <2>1. TaskTold(y, k) /\ y.task[k].at = "started"
    BY DEF Tasked
  <2>2. y.task[k].worker \in Workers
    BY <2>1 DEF TaskTold
  <2>3. OnTask(y, k, y.task[k].worker)
    BY <2>1 DEF OnTask
  <2>4. y.task[k].worker \in S
    BY <2>2, <2>3 DEF AtWork
  <2>5. f[y.task[k].worker] = k
    BY <1>2, <2>2, <2>3, <2>4 DEF Tasked
  <2>6. QED
    BY <2>4, <2>5
<1>5. f \in [S -> T]
  BY <1>3
<1>6. \A v, w \in S : f[v] = f[w] => v = w
  BY <1>3
<1>7. f \in Bijection(S, T)
  BY <1>4, <1>5, <1>6 DEF Bijection, Injection, Surjection, IsInjective
<1>8. ExistsBijection(S, T)
  BY <1>7 DEF ExistsBijection
<1>9. QED
  BY <1>1, <1>8, FS_Bijection

LEMMA PageCounts ==
  ASSUME DashboardAssumption, PInv, Quiet
  PROVE  CountsConverge
<1>1. /\ Losses /\ IsWorld(World) /\ Tasked(World)
      /\ Lossless => IsServer(server) /\ Shown(World, Clear, server, Due)
  BY DEF PInv
<1>2. IsServer(server) /\ Shown(World, Clear, server, Due)
  BY <1>1 DEF Quiet, Lossless
<1>3. \A m \in Monitors : Due[m] = << >>
  BY HeardAll DEF Quiet
<1>4. \A m \in Monitors : Len(Due[m]) = 0
  BY <1>3
<1>5. Driver \in Monitors /\ Workers \subseteq Monitors
  BY DEF Monitors
<1>6. /\ Turns(World, Due) /\ Tallies(World, server, Due) /\ Flights(World, server, Due)
      /\ Clear => \E h : Page(World, server, Due, h)
  BY <1>2 DEF Shown
<1>7. /\ lean \in BOOLEAN /\ server.stats \in [Phases -> Int] /\ emitted \in [Phases -> Int]
  BY <1>1, <1>2, WorldHas DEF IsWorld, IsServer
<1>8. ASSUME NEW p \in Phases, ~(lean /\ p = "started")
      PROVE  server.stats[p] = emitted[p]
  <2>1. Cardinality(Coming(Due, p)) = 0
    BY ONLY <1>3, NothingComing
  <2>2. server.stats[p] + Cardinality(Coming(Due, p)) = emitted[p]
    BY <1>6, <1>8, WorldHas DEF Tallies
  <2>3. QED
    BY <1>7, <2>1, <2>2
<1>9. \A p \in Phases \ {"started"} : server.stats[p] = emitted[p]
  BY <1>8
<1>10. server.stats["started"] = IF lean THEN emitted["finished"] + emitted["errored"] ELSE emitted["started"]
  <2>1. "started" \in Phases /\ "finished" \in Phases \ {"started"} /\ "errored" \in Phases \ {"started"}
    BY DEF Phases
  <2>2. CASE lean
    <3>1. server.stats["started"] = server.stats["finished"] + server.stats["errored"]
      BY <1>6, <2>2, WorldHas DEF Tallies
    <3>2. QED
      BY <1>9, <2>1, <2>2, <3>1
  <2>3. CASE ~lean
    BY <1>8, <2>1, <2>3
  <2>4. QED
    BY <2>2, <2>3
<1>11. ASSUME ~lean PROVE server.inflight = Cardinality({k \in Keys : task[k].at = "started"})
  <2>1. OpenFlights(World, Due) = {w \in Workers : AtWork(World, w)}
    BY <1>4, <1>5 DEF OpenFlights, OpenOn
  <2>2. server.inflight = Cardinality(OpenFlights(World, Due))
    BY <1>6, <1>11, WorldHas DEF Flights
  <2>3. Cardinality({k \in Keys : World.task[k].at = "started"})
          = Cardinality({w \in Workers : AtWork(World, w)})
    BY <1>1, AtWorkCount
  <2>4. QED
    BY <2>1, <2>2, <2>3, WorldHas
<1>12. ASSUME lean, ~blurred, ~AfterRetry PROVE LeanInFlight
  <2>1. PICK h : Page(World, server, Due, h)
    BY <1>6, <1>12 DEF Clear
  <2>2. HeardIs(World, Due, h) /\ OpenIs(World, server, Due, h)
    BY <2>1 DEF Page
  <2>3. server.open = {k \in Keys : ~SubDue(World, k, Due) /\ h[k] = "none"}
    BY <1>12, <2>2, WorldHas DEF OpenIs
  <2>4. ASSUME NEW k \in Keys
        PROVE  (~SubDue(World, k, Due) /\ h[k] = "none") <=> task[k].told = "submitted"
    <3>1. SubDue(World, k, Due) <=> task[k].told = "none"
      <4>1. 1 .. Len(Due[Driver]) = {}
        BY <1>4, <1>5
      <4>2. QED
        BY <4>1, WorldHas DEF SubDue
    <3>2. task[k].worker \in Monitors /\ Len(Due[task[k].worker]) = 0
      BY <1>1, <1>4, WorldHas DEF IsWorld
    <3>3. /\ task[k].told \in {"none", "submitted"} => h[k] = "none"
          /\ task[k].told \in {"none", "submitted"} \/ h[k] = task[k].told
      BY <2>2, <3>2, WorldHas DEF HeardIs
    <3>4. QED
      BY <3>1, <3>3
  <2>5. server.open = ToldOf({"submitted"})
    BY <2>3, <2>4 DEF ToldOf
  <2>6. server.inflight = Least(Cardinality(server.seen), Cardinality(server.open))
    BY <1>6, <1>12, WorldHas DEF Flights
  <2>7. QED
    BY <2>5, <2>6 DEF LeanInFlight
<1>13. QED
  BY <1>9, <1>10, <1>11, <1>12 DEF CountsConverge

LEMMA PageRows ==
  ASSUME DashboardAssumption, PInv, Quiet
  PROVE  RowsConverge
<1> SUFFICES ASSUME ~blurred, ~AfterRetry, NEW k \in ToldOf(Phases)
             PROVE  /\ server.rows[k] = [phase |-> task[k].told, label |-> begun]
                    /\ task[k].told \in {"finished", "errored"} /\ (lean => begun = 1) =>
                         server.records[task[k].worker][k] = [state |-> task[k].told, label |-> begun]
  BY DEF RowsConverge
<1>1. /\ Losses /\ IsWorld(World) /\ Tasked(World)
      /\ Lossless => IsServer(server) /\ Shown(World, Clear, server, Due)
  BY DEF PInv
<1>2. IsServer(server) /\ Shown(World, Clear, server, Due)
  BY <1>1 DEF Quiet, Lossless
<1>3. \A m \in Monitors : Len(Due[m]) = 0
  <2> TAKE m \in Monitors
  <2>1. Due[m] = << >>
    BY HeardAll DEF Quiet
  <2>2. QED
    BY <2>1
<1>4. Driver \in Monitors /\ Workers \subseteq Monitors
  BY DEF Monitors
<1>5. PICK h : Page(World, server, Due, h)
  BY <1>2 DEF Shown, Clear
<1>6. HeardIs(World, Due, h) /\ Rowed(World, server, Due, h) /\ Labelled(World, server, Due, h)
  BY <1>5 DEF Page
<1>7. k \in Keys /\ task[k].told \in Phases /\ task[k].told # "none"
  BY DEF ToldOf, Phases
<1>8. SubDue(World, k, Due) = FALSE
  <2>1. 1 .. Len(Due[Driver]) = {}
    BY <1>3, <1>4
  <2>2. QED
    BY <1>7, <2>1, WorldHas DEF SubDue
<1>9. task[k].worker \in Monitors /\ Len(Due[task[k].worker]) = 0
  BY <1>1, <1>3, <1>7, WorldHas DEF IsWorld
<1>10. /\ task[k].told = "submitted" => h[k] = "none"
       /\ task[k].told # "submitted" => h[k] = task[k].told
  BY <1>6, <1>7, <1>9, WorldHas DEF HeardIs
<1>11. /\ RowIs(World, server.rows[k], FALSE, h[k])
       /\ h[k] # "none" => CellIs(World, server.records[task[k].worker][k], h[k])
  BY <1>6, <1>7, <1>8, WorldHas DEF Rowed
<1>12. server.rows[k] = [phase |-> task[k].told, label |-> begun]
  <2>1. server.rows[k] \in Rows
    BY <1>2, <1>7 DEF IsServer
  <2>2. server.rows[k].label = begun /\ server.rows[k].phase = task[k].told
    BY <1>7, <1>10, <1>11, WorldHas DEF RowIs
  <2>3. QED
    BY <2>1, <2>2 DEF Rows
<1>13. ASSUME task[k].told \in {"finished", "errored"}, lean => begun = 1
       PROVE  server.records[task[k].worker][k] = [state |-> task[k].told, label |-> begun]
  <2> DEFINE cell == server.records[task[k].worker][k]
  <2>1. task[k].worker \in Workers
    <3>1. TaskTold(World, k) /\ task[k].at \in Places
      BY <1>1, <1>7, WorldHas DEF Tasked, IsWorld
    <3>2. QED
      BY <1>13, <3>1, WorldHas DEF TaskTold, Places, Ends
  <2>2. cell \in Cells
    BY <1>2, <1>7, <2>1 DEF IsServer
  <2>3. h[k] = task[k].told /\ h[k] # "none"
    BY <1>10, <1>13
  <2>4. CellIs(World, cell, h[k])
    BY <1>11, <2>3
  <2>5. cell.state = task[k].told
    BY <1>13, <2>3, <2>4 DEF CellIs, Ends
  <2>6. cell.label = begun
    <3>1. CASE ~lean
      BY <2>3, <2>4, <3>1, WorldHas DEF CellIs
    <3>2. CASE lean
      <4>1. World.lean /\ World.begun <= 1 /\ begun = 1
        BY <1>13, <3>2, WorldHas
      <4>2. /\ <<task[k].worker, k>> \in server.unlabelled => SubDue(World, k, Due)
            /\ \/ server.records[task[k].worker][k].label = 1
               \/ <<task[k].worker, k>> \in server.unlabelled
        BY <1>6, <1>7, <2>1, <2>3, <4>1, WorldHas DEF Labelled
      <4>3. QED
        BY <1>8, <4>1, <4>2
    <3>3. QED
      BY <3>1, <3>2
  <2> HIDE DEF cell
  <2>7. cell = [state |-> task[k].told, label |-> begun]
    BY <2>2, <2>5, <2>6 DEF Cells
  <2>8. QED
    BY <2>7 DEF cell
<1>14. QED
  BY <1>12, <1>13

\* Once the server has heard of every event the monitors were told and none was lost, the
\* page is what happened: each counter _server._ingest_task keeps is the number of events of
\* its phase, in flight are the tasks that run, and each row and each worker's cell stands at
\* the last phase of its task under its run's label, in whatever order the connections of the
\* monitors (_client.NetworkMonitor) brought their frames.
THEOREM Converges == DashboardSpec => []PageConverges
<1> USE DashboardAssumption
<1>1. DashboardInit => PInv
  BY PageStarts
<1>2. PInv /\ [DashboardNext]_(dashboardVars) => PInv'
  <2> SUFFICES ASSUME PInv, [DashboardNext]_(dashboardVars) PROVE PInv'
    OBVIOUS
  <2>1. WInv'
    BY Watches DEF PInv
  <2>2. CASE RunStep
    BY <2>1, <2>2, BeginsRun, Interrupts, Submits, Retries, Starts, EndsTask DEF RunStep
  <2>3. ASSUME NEW m \in Monitors,
               \/ SenderStep(m) \/ ConnectFails(m)
               \/ Break(m) \/ Ingest(m)
        PROVE  PInv'
    BY <2>1, <2>3, SendersKeep, TakesFrame
  <2>4. CASE CloseMonitors \/ UNCHANGED dashboardVars
    BY <2>1, <2>4, StaysShown
  <2>5. QED
    BY <2>2, <2>3, <2>4 DEF DashboardNext
<1>3. PInv => PageConverges
  BY PageCounts, PageRows DEF PageConverges
<1>4. QED
  BY <1>1, <1>2, <1>3, PTL DEF DashboardSpec
=============================================================================
