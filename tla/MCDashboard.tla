---------------------------- MODULE MCDashboard ----------------------------
(* An instance of Dashboard small enough for TLC. *)
EXTENDS Dashboard

Interchangeable == Permutations(Keys) \union Permutations(Workers)
=============================================================================
