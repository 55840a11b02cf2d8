----------------------------- MODULE Partitions -----------------------------
(***************************************************************************)
(* A file's entries cut into partitions: in ranges known when the plan is  *)
(* made, or blind, as a step of so many that the reader resolves; which    *)
(* output part a partition writes; and the smaller partitions of one that  *)
(* failed.  Files are numbered, and a file is the number of its entries.   *)
(***************************************************************************)
EXTENDS Integers, Sequences, SequencesExt, FiniteSets

NotBlind == [step |-> -1, of |-> 0]

Ranged(file, start, stop) == [file |-> file, start |-> start, stop |-> stop, blind |-> NotBlind]

BlindStep(file, step, of) ==
  [file |-> file, start |-> 0, stop |-> 0, blind |-> [step |-> step, of |-> of]]

n_entries(p) == IF p.stop > p.start THEN p.stop - p.start ELSE 0

\* Step s of n even steps over a file, as a half-open range.
even(s, n, entries) == <<(s * entries) \div n, ((s + 1) * entries) \div n>>

\* A blind partition, once its file has been opened.
resolve(p, files) ==
  IF p.blind = NotBlind THEN p
  ELSE LET r == even(p.blind.step, p.blind.of, files[p.file])
       IN  Ranged(p.file, r[1], r[2])

-----------------------------------------------------------------------------
\* Those of some ranges that have entries.
filled(ranges) ==
  FoldLeft(LAMBDA kept, r : IF r[2] > r[1] THEN Append(kept, r) ELSE kept, << >>, ranges)

\* The partitions of a plan: make_partitions and partition_dataset.

\* even steps that keep the empty ones
eager_ranges_All(entries, n) ==
  LET range(s) == even(s, n, entries) IN [i \in 1 .. n |-> range(i - 1)]

eager_ranges(entries, n) ==
  LET ranges == [i \in 1 .. n |-> even(i - 1, n, entries)]
  IN  IF filled(ranges) = << >> THEN <<ranges[1]>> ELSE filled(ranges)

partition_dataset(file, entries, size) ==
  [i \in 1 .. (entries + size - 1) \div size |->
     Ranged(file, (i - 1) * size, IF i * size < entries THEN i * size ELSE entries)]

make_partitions(how, n, files) ==
  FlattenSeq([f \in DOMAIN files |->
    CASE how = "blind"  -> [i \in 1 .. n |-> BlindStep(f, i - 1, n)]
      [] how = "eager"  -> LET ranges == eager_ranges(files[f], n)
                           IN  [i \in DOMAIN ranges |-> Ranged(f, ranges[i][1], ranges[i][2])]
      [] how = "chunks" -> partition_dataset(f, files[f], n)])

-----------------------------------------------------------------------------
\* The part a partition writes: its file's first part and the step it is.

file_base(file, n) == (file - 1) * n

steps_matching(p, n, entries) ==
  {s \in 0 .. n - 1 : even(s, n, entries) = <<p.start, p.stop>>}

\* the first step with the partition's range
step_of(p, n, entries) ==
  CHOOSE s \in steps_matching(p, n, entries) :
    \A o \in steps_matching(p, n, entries) : s <= o

derive_part_index(p, n, files) ==
  file_base(p.file, n) +
    (IF p.blind # NotBlind THEN p.blind.step ELSE step_of(p, n, files[p.file]))

-----------------------------------------------------------------------------
\* Contiguous sub-ranges of a failed partition, the last one with the rest.

\* sub-ranges of one size, without the remainder
split_Even(p, n) ==
  LET m == IF n < 2 THEN 2 ELSE IF n < n_entries(p) THEN n ELSE n_entries(p)
      size == n_entries(p) \div m
  IN  IF n_entries(p) <= 1 THEN <<p>>
      ELSE [i \in 1 .. m |-> Ranged(p.file, p.start + (i - 1) * size, p.start + i * size)]

split(p, n) ==
  LET least == IF n < n_entries(p) THEN n ELSE n_entries(p)
      m     == IF least < 2 THEN 2 ELSE least
      size  == n_entries(p) \div m
      bound(i) == IF i = m THEN p.stop ELSE p.start + i * size
      subs  == filled([i \in 1 .. m |-> <<bound(i - 1), bound(i)>>])
  IN  IF n_entries(p) <= 1 THEN <<p>>
      ELSE [i \in DOMAIN subs |-> Ranged(p.file, subs[i][1], subs[i][2])]
=============================================================================
