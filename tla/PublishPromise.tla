--------------------------- MODULE PublishPromise ---------------------------
(***************************************************************************)
(* What a call of Publish promises to the outbox workers, the Extractor    *)
(* and the Notifier: success means that the broker has taken the message.  *)
(* Failure means nothing; the message may have been taken, even twice, and *)
(* even after the call returned.                                           *)
(***************************************************************************)
EXTENDS Naturals

CONSTANTS Calls

VARIABLES
    outcome,   \* of each call: "none", "pending", "ok" or "failed"
    copies     \* how often the broker has taken its message

promiseVars == <<outcome, copies>>

Init ==
    /\ outcome = [c \in Calls |-> "none"]
    /\ copies = [c \in Calls |-> 0]

Begin(c) ==
    /\ outcome[c] = "none"
    /\ outcome' = [outcome EXCEPT ![c] = "pending"]
    /\ UNCHANGED copies

Take(c) ==
    /\ outcome[c] # "none" /\ copies[c] < 2
    /\ copies' = [copies EXCEPT ![c] = @ + 1]
    /\ UNCHANGED outcome

Succeed(c) ==
    /\ outcome[c] = "pending" /\ copies[c] > 0
    /\ outcome' = [outcome EXCEPT ![c] = "ok"]
    /\ UNCHANGED copies

Fail(c) ==
    /\ outcome[c] = "pending"
    /\ outcome' = [outcome EXCEPT ![c] = "failed"]
    /\ UNCHANGED copies

Next == \E c \in Calls : Begin(c) \/ Take(c) \/ Succeed(c) \/ Fail(c)

Spec == Init /\ [][Next]_promiseVars

=============================================================================
