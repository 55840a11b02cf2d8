------------------------- MODULE VariationRegistry -------------------------
(***************************************************************************)
(* The registry of one Session's systematic variations: which universes    *)
(* exist, which point of nuisance space each stands at, and how a label is *)
(* resolved on a container that does not carry it.                         *)
(*                                                                         *)
(* Every family has one tag, so a coordinate is its nuisance's name, a     *)
(* point is a set of names, and a label is the sequence of family names it *)
(* spells: <<"a">> for `a_up`, <<"a", "jes">> for `a_up__jes_up`.          *)
(***************************************************************************)
EXTENDS Integers, Sequences, FiniteSets

CONSTANT MaxUniverses     \* the budget of one call's default grid

ASSUME BudgetAssumption == MaxUniverses \in Nat \ {0}

Nominal == << >>
DefaultLabel(n) == <<n>>
JointLabel(n, foreign) == <<n>> \o foreign

\* a map of one binding, and a map with the bindings of another put in
Only(l, v) == [k \in {l} |-> v]
Updated(f, g) == [x \in DOMAIN f \cup DOMAIN g |-> IF x \in DOMAIN g THEN g[x] ELSE f[x]]

NewRegistry == [points |-> << >>, owners |-> << >>, epoch |-> 0]

-----------------------------------------------------------------------------
(* Writing: what a label may be bound to, and the binding. *)

\* the check without its second half: a point may wear two labels
check_unique_LabelsOnly(minted, r) ==
  \A l \in DOMAIN minted : l \in DOMAIN r.points => r.points[l] = minted[l]

\* a label names one point, a point wears one label
check_unique(minted, r) ==
  \A l \in DOMAIN minted :
    /\ l \in DOMAIN r.points => r.points[l] = minted[l]
    /\ minted[l] \in DOMAIN r.owners => r.owners[minted[l]] = l
    /\ \A k \in DOMAIN minted : minted[k] = minted[l] => k = l

\* the map's inverse
Wearers(minted) ==
  [p \in {minted[l] : l \in DOMAIN minted} |-> CHOOSE l \in DOMAIN minted : minted[l] = p]

bind(r, minted) ==
  [points |-> Updated(r.points, minted),
   owners |-> Updated(r.owners, Wearers(minted)),
   epoch  |-> r.epoch + 1]

-----------------------------------------------------------------------------
(* Resolving a label on a container of which only the labels matter. *)

registered(labels, r) == labels \cap DOMAIN r.points
axes(labels, r) == UNION {r.points[l] : l \in registered(labels, r)}

\* the resolution with the whole point, not its restriction
at_restricted_Whole(labels, l, r) == {k \in registered(labels, r) : r.points[k] = r.points[l]}

\* the own label whose point is the label's point restricted to the container's axes
at_restricted(labels, l, r) ==
  {k \in registered(labels, r) : r.points[k] = r.points[l] \cap axes(labels, r)}

key_for(labels, l, r) ==
  IF l \in labels THEN l
  ELSE IF l \notin DOMAIN r.points THEN Nominal
  ELSE LET found == {k \in at_restricted(labels, l, r) : r.points[k] # {}}
       IN  IF found = {} THEN Nominal ELSE CHOOSE k \in found : TRUE

\* a container of the nominal universe alone is a plain array, which any label reads
fixed(labels, l, r) ==
  \/ labels = {Nominal}
  \/ l \in labels
  \/ l \in DOMAIN r.points /\ labels \ {Nominal} \subseteq DOMAIN r.points

(* A container maps a label to a member, and a member is again a container:
   a factor computed on shifted objects varies one level below its own.    *)
two_level(c, l, r) ==
  LET outer == key_for(DOMAIN c, l, r)
  IN  [outer |-> outer, inner |-> key_for(DOMAIN c[outer], l, r)]

\* no later mint can move the path of this label
settled(c, l, r) ==
  fixed(DOMAIN c, l, r) /\ fixed(DOMAIN c[key_for(DOMAIN c, l, r)], l, r)

at_path(c, path) == c[path.outer][path.inner]

\* what the container answers at a label, resolved afresh
resolved(c, l, r) == at_path(c, two_level(c, l, r))

-----------------------------------------------------------------------------
(* Gathering: the universes one call of vary mints. *)

\* the universes of other families the member depends on
foreign(n, member, carried, r) ==
  LET nuisances == axes(carried, r)
  IN  {l \in registered(member, r) :
         /\ n \notin r.points[l]
         /\ nuisances = {} \/ r.points[l] \subseteq nuisances}

joint_points(n, labels, r) ==
  [j \in {JointLabel(n, l) : l \in labels} |-> {n} \cup r.points[Tail(j)]]

within_guard(labels, r) == 2 ^ (Cardinality(axes(labels, r)) + 1) <= MaxUniverses

\* an explicit placement names universes this call can see
reachable(n, carried, r) == {n} \cup axes(carried, r)

(* What the call mints: the default label of the family, the joints of a
   dependent member, or the one universe a placement names; "refused" when
   the call raises before it binds anything. A placement is the set of the
   other nuisances its entry names, {} when there is none.                 *)
gather(call, member, carried, inherited, r) ==
  LET depends == foreign(call.name, member, carried, r)
      joints  == IF call.union THEN {}
                 ELSE IF call.placed = {} THEN depends
                 ELSE {l \in depends : r.points[l] = call.placed}
      moved   == call.placed # {} /\ depends = {}
      default == Only(DefaultLabel(call.name), IF moved THEN call.placed ELSE {call.name})
      refused == \/ call.name \in inherited
                 \/ call.union /\ call.placed # {}
                 \/ call.placed # {} /\ ~ call.placed \subseteq reachable(call.name, carried, r)
                 \/ call.placed # {} /\ depends # {} /\ joints = {}
                 \/ call.placed = {} /\ joints # {} /\ ~within_guard(joints, r)
  IN  [refused |-> refused, default |-> default, joints |-> joints]

(* The default labels are bound first, the joints second; either check may
   refuse, and a refusal of the second leaves the first one's binding to
   the transaction's rollback.                                             *)
mint(g, n, r) ==
  LET first == bind(r, g.default)
      more  == joint_points(n, g.joints, r)
  IN  IF g.refused \/ ~check_unique(g.default, r) THEN [ok |-> FALSE, registry |-> r]
      ELSE IF g.joints = {} THEN [ok |-> TRUE, registry |-> first]
      ELSE IF ~check_unique(more, first) THEN [ok |-> FALSE, registry |-> first]
      ELSE [ok |-> TRUE, registry |-> bind(first, more)]
=============================================================================
