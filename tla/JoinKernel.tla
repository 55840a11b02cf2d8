----------------------------- MODULE JoinKernel -----------------------------
(***************************************************************************)
(* JoinKernel (python/graphed/shuffle.py, awkward/shuffle.py, join.py,     *)
(* numpy/shuffle.py): the relational join of two blocks of rows, and how a *)
(* block's rows are routed to destinations.  A row is a number, its `on'   *)
(* fields the key in it; a joined row holds both sides' numbers.           *)
(***************************************************************************)
EXTENDS Integers, Sequences, SequencesExt, FiniteSets

Keyed == {"inner", "left", "right", "outer"}
Joins == Keyed \union {"positional"}

\* The fields a join is on.
on_fields(row) == row % 3

\* pack_key with route=True: a value too wide for its 20 bits shares its
\* packed key with another.
pack_key(row) == on_fields(row) % 2

\* The pinned hash of a key.
route(key, parts) == (key % parts) + 1

Miss == 0   \* the index -1

----------------------------------------------------------------------------
(* Routing.                                                                *)

key_field(row, field) == IF field = "__joinkey__" THEN pack_key(row) ELSE on_fields(row)

\* The rows of each destination, in order.
partition(rows, field, parts) ==
  [d \in 1..parts |-> SelectSeq(rows, LAMBDA row : route(key_field(row, field), parts) = d)]

----------------------------------------------------------------------------
(* The join of two blocks, the first the build side.                       *)

\* Compared by the packed key alone.
Same_Packed(b, p) == pack_key(b) = pack_key(p)

Same(b, p) == on_fields(b) = on_fields(p) /\ pack_key(b) = pack_key(p)

Positions(rows, Test(_)) ==
  SelectSeq([k \in DOMAIN rows |-> k], LAMBDA k : Test(rows[k]))

\* Build row by build row, its matches in probe order; then the probe rows
\* that matched none.
match_indices(build, probe, how) ==
  LET of(i) == Positions(probe, LAMBDA p : Same(build[i], p))
      pairs(i) == IF of(i) # << >> THEN [k \in DOMAIN of(i) |-> << i, of(i)[k] >>]
                  ELSE IF how \in {"left", "outer"} THEN << << i, Miss >> >> ELSE << >>
      alone == IF how \notin {"right", "outer"} THEN << >>
               ELSE Positions(probe, LAMBDA p : \A b \in Range(build) : ~ Same(b, p))
  IN FlattenSeq([i \in DOMAIN build |-> pairs(i)])
       \o [k \in DOMAIN alone |-> << Miss, alone[k] >>]

\* numpy's: probe row by probe row, then each side's rows without a match.
match_sorted(build, probe, how) ==
  LET of(j) == Positions(build, LAMBDA b : Same(b, probe[j]))
      ub == IF how \notin {"left", "outer"} THEN << >>
            ELSE Positions(build, LAMBDA b : \A p \in Range(probe) : ~ Same(b, p))
      up == IF how \notin {"right", "outer"} THEN << >>
            ELSE SelectSeq([j \in DOMAIN probe |-> j], LAMBDA j : of(j) = << >>)
  IN FlattenSeq([j \in DOMAIN probe |-> [k \in DOMAIN of(j) |-> << of(j)[k], j >>]])
       \o [k \in DOMAIN ub |-> << ub[k], Miss >>] \o [k \in DOMAIN up |-> << Miss, up[k] >>]

\* A miss is a null row, never the last one.
take(rows, index) == IF index = Miss THEN << >> ELSE << rows[index] >>

\* Both sides' fields, the key that of the side that is there.
merge_records(left, right) ==
  CASE left = << >>  -> right[1]
    [] right = << >> -> 30 * left[1] + on_fields(left[1])
    [] OTHER         -> 30 * left[1] + right[1]

\* Of two blocks; a positional join takes as many rows of each.
Joinable(left, right, how) == how = "positional" => Len(left) = Len(right)

join_blocks(left, right, how) ==
  LET pairs == IF how = "positional" THEN [k \in DOMAIN left |-> << k, k >>]
               ELSE match_indices(left, right, how)
  IN FoldLeft(LAMBDA rows, ij :
                Append(rows, merge_records(take(left, ij[1]), take(right, ij[2]))), << >>, pairs)

\* The reference: which rows a relational join pairs.
Relational(build, probe, how) ==
  LET matched == {ij \in (DOMAIN build) \X (DOMAIN probe) :
                    on_fields(build[ij[1]]) = on_fields(probe[ij[2]])}
  IN matched
     \union {<< i, Miss >> : i \in {i \in DOMAIN build : how \in {"left", "outer"}
                                     /\ \A ij \in matched : ij[1] # i}}
     \union {<< Miss, j >> : j \in {j \in DOMAIN probe : how \in {"right", "outer"}
                                     /\ \A ij \in matched : ij[2] # j}}
=============================================================================
