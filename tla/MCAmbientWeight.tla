-------------------------- MODULE MCAmbientWeight --------------------------
EXTENDS AmbientWeight
CONSTANTS t1, t2

Call(form, name, over, placed, union, clash) ==
  [form |-> form, name |-> name, over |-> over, placed |-> placed, union |-> union, clash |-> clash]

Plain(form, name, over) == Call(form, name, over, {}, FALSE, FALSE)

\* flat and dependent weights over one shift, placed universes, a clash
OneShift ==
  {Plain("shift", "jes", "pt"), Plain("loose", "b", "pt"),
   Plain("weight", "a", "w"), Plain("weight", "a", "pt"), Plain("weight", "b", "w"),
   Plain("weight", "b", "pt"), Plain("weight", "jes", "pt"),
   Call("weight", "a", "pt", {}, TRUE, FALSE),
   Call("weight", "b", "w", {"a", "jes"}, FALSE, FALSE),
   Call("weight", "jes", "w", {"a", "b"}, FALSE, FALSE),
   Call("weight", "b", "w", {}, FALSE, TRUE)}

\* the longer programs among them: universes placed where others stand or will stand
Placed == OneShift \ {Plain("weight", "jes", "pt"), Call("weight", "a", "pt", {}, TRUE, FALSE),
                      Plain("weight", "b", "w")}

\* a second shift computed from the first, and a family over the grid of both
TwoShifts ==
  {Plain("shift", "jes", "pt"), Plain("shift", "b", "pt"), Plain("weight", "a", "pt"),
   Call("weight", "a", "pt", {}, TRUE, FALSE), Call("weight", "a", "pt", {"jes"}, FALSE, FALSE),
   Call("weight", "a", "w", {"b", "jes"}, FALSE, FALSE)}

\* registrations of two threads that meet in one registry
Shared ==
  {Plain("shift", "jes", "pt"), Plain("loose", "b", "pt"), Plain("weight", "a", "w"),
   Plain("weight", "b", "pt"), Call("weight", "b", "w", {}, FALSE, TRUE)}

\* a family weighed on its own before it shifts, so that what is folded onto varies with
\* two nuisances without the universe of both
WeighedThenShifted ==
  {Plain("shift", "b", "pt"), Plain("weight", "jes", "w"), Plain("shift", "jes", "pt"),
   Plain("weight", "a", "w")}

Shifts == [jes |-> 3, a |-> 1, b |-> 5]
Centrals == [jes |-> 7, a |-> 11, b |-> 13]
Weights == [jes |-> 17, a |-> 19, b |-> 23]

AllPrograms ==
  {[threads |-> {t1}, hand |-> TRUE, calls |-> OneShift, varies |-> 3],
   [threads |-> {t1}, hand |-> FALSE, calls |-> Placed, varies |-> 4],
   [threads |-> {t1}, hand |-> FALSE, calls |-> TwoShifts, varies |-> 4],
   [threads |-> {t1, t2}, hand |-> FALSE, calls |-> Shared, varies |-> 3]}
FoldPrograms ==
  {[threads |-> {t1}, hand |-> FALSE, calls |-> WeighedThenShifted, varies |-> 4]}
=============================================================================
