------------------------ MODULE AmbientComposition -------------------------
(***************************************************************************)
(* The composition of an ambient weight: at every label, the product of    *)
(* what each registered factor answers there, with the products the labels *)
(* share built once. A node is the number it evaluates to, modulo Modulus, *)
(* so two different products are two different numbers.                    *)
(***************************************************************************)
EXTENDS VariationRegistry

Modulus == 30011
Times(x, y) == (x * y) % Modulus

\* the product of a sequence's values over a set of its indices
ProductOver(values, indices) ==
  LET f[S \in SUBSET indices] ==
        IF S = {} THEN 1
        ELSE LET i == CHOOSE i \in S : TRUE IN Times(values[i], f[S \ {i}])
  IN  f[indices]

-----------------------------------------------------------------------------
(* A run of factors lo .. hi - 1, split at its midpoint. *)
Spans(n) == {s \in (1 .. n) \X (2 .. n + 1) : s[1] < s[2]}
Leaf(s) == s[2] - s[1] = 1
LeftOf(s) == <<s[1], (s[1] + s[2]) \div 2>>
RightOf(s) == <<(s[1] + s[2]) \div 2, s[2]>>
Holds(s, i) == s[1] <= i /\ i < s[2]

product_tree(centrals) ==
  LET tree[s \in Spans(Len(centrals))] ==
        IF Leaf(s) THEN centrals[s[1]] ELSE Times(tree[LeftOf(s)], tree[RightOf(s)])
  IN  tree

\* at each index, the product of all the others, handed down the tree
complements(tree, n) ==
  LET push[s \in Spans(n)] ==
        IF Leaf(s) THEN [i \in {s[1]} |-> 1]
        ELSE [i \in s[1] .. s[2] - 1 |->
                IF Holds(LeftOf(s), i) THEN Times(tree[RightOf(s)], push[LeftOf(s)][i])
                ELSE Times(tree[LeftOf(s)], push[RightOf(s)][i])]
  IN  push[<<1, n + 1>>]

\* the maximal subtrees that hold no varying index
outside(tree, n, varying) ==
  LET walk[s \in Spans(n)] ==
        IF \A i \in varying : ~Holds(s, i) THEN tree[s]
        ELSE IF Leaf(s) THEN 1
        ELSE Times(walk[LeftOf(s)], walk[RightOf(s)])
  IN  walk[<<1, n + 1>>]

(* The composition over labels, where applied[l][i] is the i-th factor's
   member at label l. An index varies where its member is not its nominal. *)
product_over(applied, labels) ==
  LET centrals == applied[Nominal]
      n        == Len(centrals)
      tree     == product_tree(centrals)
      others   == complements(tree, n)
  IN  [l \in labels |->
         LET varying == {i \in 1 .. n : applied[l][i] # centrals[i]}
             rest    == IF Cardinality(varying) = 1
                        THEN others[CHOOSE i \in varying : TRUE]
                        ELSE outside(tree, n, varying)
         IN  Times(rest, ProductOver(applied[l], varying))]

-----------------------------------------------------------------------------
(* Whether a composed container can answer labels the registry has just got:
   its axes are every factor's, so a point that reaches two of them matches
   no label of its own, where each factor alone would answer it.           *)
answers(members, l, r) ==
  \/ l \in DOMAIN members
  \/ l \notin DOMAIN r.points
  \/ r.points[l] \cap axes(DOMAIN members, r) = {}
  \/ key_for(DOMAIN members, l, r) # Nominal

\* the fold that never asks
resolvable_Always(operands, labels, r) == TRUE

\* every operand of the fold can answer every label
resolvable(operands, labels, r) ==
  \A i \in DOMAIN operands : \A l \in labels : answers(operands[i], l, r)
=============================================================================
