---------------------------- MODULE MCDispatcher ----------------------------
(* Model-checking instance of Dispatcher. *)
EXTENDS Dispatcher, FiniteSets, TLC

CONSTANTS c1, c2

(* A worker for each chat. *)
OwnWorkers == c1 :> 1 @@ c2 :> 2

(* The chats are interchangeable: c1 may begin.  One update has no chat. *)
AnyStream ==
    {s \in [1 .. 4 -> {c1, c2, NoChat}] :
        s[1] = c1 /\ Cardinality({u \in 1 .. 4 : s[u] = NoChat}) <= 1}
=============================================================================
