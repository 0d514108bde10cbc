--------------------------- MODULE MCPriceAlerts ---------------------------
(* Model-checking instances of PriceAlerts. *)
EXTENDS PriceAlerts, TLC

Interchangeable == Permutations(Tasks) \cup Permutations(Users) \cup Permutations(Products)
=============================================================================
