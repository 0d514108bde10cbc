----------------------------- MODULE MCLookups -----------------------------
(* Model-checking instances of Lookups. *)
EXTENDS Lookups, TLC

Interchangeable ==
    Permutations(LookupIds) \cup Permutations(Handlers) \cup Permutations(Prices)
=============================================================================
