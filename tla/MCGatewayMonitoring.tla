------------------------ MODULE MCGatewayMonitoring ------------------------
(* Model-checking instance of GatewayMonitoring: two products, two users   *)
(* and two concurrent transactions.                                        *)
EXTENDS GatewayMonitoring, TLC

Interchangeable == Permutations(Txs) \cup Permutations(Users) \cup Permutations(URLs)
=============================================================================
