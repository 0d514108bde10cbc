------------------------- MODULE MonitoringService -------------------------
(***************************************************************************)
(* What monitoring promises, without transactions, locks or messages: the  *)
(* wish to monitor a product goes through a history, and the Scheduler is  *)
(* always at a point of that history and only ever moves to later ones.    *)
(* It may skip points, it never invents or repeats one, and it never stays *)
(* behind for good.                                                        *)
(***************************************************************************)
EXTENDS Naturals, Sequences

CONSTANT Products

VARIABLES
    wanted,      \* is somebody watching the product now?
    history,     \* every wish published for the product
    position,    \* how far into the history the Scheduler is
    monitored    \* does the Scheduler check the product?

vars == <<wanted, history, position, monitored>>

Init ==
    /\ wanted = [p \in Products |-> FALSE]
    /\ history = [p \in Products |-> <<>>]
    /\ position = [p \in Products |-> 0]
    /\ monitored = [p \in Products |-> FALSE]

(* Users or the reconciliation publish the wish for the products S. *)
Publish(S, wish) ==
    /\ \A p \in Products \ S : wish[p] = wanted[p]
    /\ wanted' = wish
    /\ history' = [p \in Products |->
                     IF p \in S THEN Append(history[p], wish[p]) ELSE history[p]]
    /\ UNCHANGED <<position, monitored>>

Follow(p, n) ==
    /\ n \in position[p] + 1 .. Len(history[p])
    /\ position' = [position EXCEPT ![p] = n]
    /\ monitored' = [monitored EXCEPT ![p] = history[p][n]]
    /\ UNCHANGED <<wanted, history>>

Advance(p) == \E n \in position[p] + 1 .. Len(history[p]) : Follow(p, n)

Next ==
    \/ \E S \in SUBSET Products, wish \in [Products -> BOOLEAN] : Publish(S, wish)
    \/ \E p \in Products : Advance(p)

Safety == Init /\ [][Next]_vars

Spec == Safety /\ \A p \in Products : WF_vars(Advance(p))

=============================================================================
