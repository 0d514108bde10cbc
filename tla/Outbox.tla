------------------------------- MODULE Outbox -------------------------------
(***************************************************************************)
(* The transactional outbox: the worker of shared/pkg/outbox over the      *)
(* claim, mark and retry statements of the Gateway's and the Scheduler's   *)
(* stores, with any number of workers on one table and a broker that may   *)
(* take a message and lose the confirmation.                               *)
(*                                                                         *)
(* Time is discrete and relative: a lease and a delay are what is left of  *)
(* them.  A lease token is worth the worker that holds it: every claim     *)
(* draws a new one, and a worker holds one at most.                        *)
(***************************************************************************)
EXTENDS Integers

CONSTANTS
    Events,          \* rows of the outbox, ordered by created_at
    Broken,          \* those whose payload is not JSON
    Workers,
    NoWorker,        \* lease_token nobody holds
    NoEvent,
    Lease,           \* leaseDuration
    PublishTimeout,  \* publishTimeout
    Slack,           \* longest time from the claim to the call of Publish
    MaxBackoff,      \* maxBackoff, minBackoff being 1
    MaxShift         \* cap of the exponent in backoff

ASSUME OutboxAssumption ==
    /\ Events \subseteq Nat
    /\ Broken \subseteq Events
    /\ NoWorker \notin Workers
    /\ NoEvent \notin Events
    /\ Lease \in Nat /\ PublishTimeout \in Nat /\ Slack \in Nat
    /\ Slack + PublishTimeout < Lease
    /\ MaxBackoff \in Nat \ {0}
    /\ MaxShift \in Nat

VARIABLES
    stored,      \* rows inserted
    published,   \* rows with published_at set
    owner,       \* who holds the row's lease_token
    ttl,         \* time left until locked_until
    delay,       \* time left until available_at
    attempts,    \* attempts, as far as backoff tells them apart
    copies,      \* messages the broker took: 0, 1 or more than one
    step,        \* where each worker is in its loop
    event,       \* the event it works on
    age,         \* time it has spent in that step
    reached      \* has the broker taken the message being published?

rowVars == <<stored, published, owner, ttl, delay, attempts>>
workerVars == <<step, event, age, reached>>
vars == <<rowVars, copies, workerVars>>

Least(a, b) == IF a < b THEN a ELSE b

Init ==
    /\ stored = {} /\ published = {}
    /\ owner = [e \in Events |-> NoWorker]
    /\ ttl = [e \in Events |-> 0]
    /\ delay = [e \in Events |-> 0]
    /\ attempts = [e \in Events |-> 0]
    /\ copies = [e \in Events |-> 0]
    /\ step = [w \in Workers |-> "idle"]
    /\ event = [w \in Workers |-> NoEvent]
    /\ age = [w \in Workers |-> 0]
    /\ reached = [w \in Workers |-> FALSE]

(* A business transaction commits its row. *)
Enqueue(e) ==
    /\ e \notin stored
    /\ stored' = stored \cup {e}
    /\ UNCHANGED <<published, owner, ttl, delay, attempts, copies, workerVars>>

GoTo(w, s) ==
    /\ step' = [step EXCEPT ![w] = s]
    /\ age' = [age EXCEPT ![w] = 0]
    /\ reached' = [reached EXCEPT ![w] = FALSE]
    /\ UNCHANGED event

(* Back to the top of the loop; the lease, if it is left, is left alone. *)
Forget(w) ==
    /\ step' = [step EXCEPT ![w] = "idle"]
    /\ event' = [event EXCEPT ![w] = NoEvent]
    /\ age' = [age EXCEPT ![w] = 0]
    /\ reached' = [reached EXCEPT ![w] = FALSE]

Claimable(e) == e \in stored \ published /\ delay[e] = 0 /\ ttl[e] = 0

(* The oldest claimable event gets a new token and a full lease. *)
Claim(w, e) ==
    /\ step[w] = "idle"
    /\ Claimable(e)
    /\ \A f \in Events : Claimable(f) => e <= f
    /\ owner' = [owner EXCEPT ![e] = w]
    /\ ttl' = [ttl EXCEPT ![e] = Lease]
    /\ attempts' = [attempts EXCEPT ![e] = Least(@ + 1, MaxShift)]
    /\ step' = [step EXCEPT ![w] = "claimed"]
    /\ event' = [event EXCEPT ![w] = e]
    /\ UNCHANGED <<stored, published, delay, copies, age, reached>>

StartPublish(w) ==
    /\ step[w] = "claimed" /\ event[w] \notin Broken
    /\ GoTo(w, "publishing")
    /\ UNCHANGED <<rowVars, copies>>

RejectPayload(w) ==
    /\ step[w] = "claimed" /\ event[w] \in Broken
    /\ GoTo(w, "failed")
    /\ UNCHANGED <<rowVars, copies>>

(* Publish sends again when its connection died and was dialled anew. *)
BrokerTakes(w) ==
    /\ step[w] = "publishing"
    /\ reached' = [reached EXCEPT ![w] = TRUE]
    /\ copies' = [copies EXCEPT ![event[w]] = Least(@ + 1, 2)]
    /\ UNCHANGED <<rowVars, step, event, age>>

(* Fault: Publish returns without a confirmation. *)
FireAndForget(w) ==
    /\ step[w] = "publishing"
    /\ GoTo(w, "published")
    /\ UNCHANGED <<rowVars, copies>>

PublishConfirmed(w) ==
    /\ step[w] = "publishing" /\ reached[w]
    /\ GoTo(w, "published")
    /\ UNCHANGED <<rowVars, copies>>

(* An error, a lost confirmation or publishTimeout. *)
PublishFails(w) ==
    /\ step[w] = "publishing"
    /\ GoTo(w, "failed")
    /\ UNCHANGED <<rowVars, copies>>

Owns(w) == owner[event[w]] = w

(* WHERE lease_token = $2: without the lease the statement changes nothing. *)
MarkPublished(w) ==
    /\ step[w] = "published"
    /\ IF Owns(w)
         THEN /\ published' = published \cup {event[w]}
              /\ owner' = [owner EXCEPT ![event[w]] = NoWorker]
              /\ ttl' = [ttl EXCEPT ![event[w]] = 0]
         ELSE UNCHANGED <<published, owner, ttl>>
    /\ Forget(w)
    /\ UNCHANGED <<stored, delay, attempts, copies>>

(* Fault: a failed event can be claimed at once. *)
NoBackoff(n) == 0

(* backoff(): doubled with every attempt up to a cap. *)
Backoff(n) == Least(2 ^ n, MaxBackoff)

(* Fault: the statement ignores the lease token. *)
UnownedRetry(w) ==
    /\ step[w] = "failed"
    /\ IF event[w] \notin published
         THEN /\ delay' = [delay EXCEPT ![event[w]] = Backoff(attempts[event[w]])]
              /\ owner' = [owner EXCEPT ![event[w]] = NoWorker]
              /\ ttl' = [ttl EXCEPT ![event[w]] = 0]
         ELSE UNCHANGED <<delay, owner, ttl>>
    /\ Forget(w)
    /\ UNCHANGED <<stored, published, attempts, copies>>

Retry(w) ==
    /\ step[w] = "failed"
    /\ IF Owns(w)
         THEN /\ delay' = [delay EXCEPT ![event[w]] = Backoff(attempts[event[w]])]
              /\ owner' = [owner EXCEPT ![event[w]] = NoWorker]
              /\ ttl' = [ttl EXCEPT ![event[w]] = 0]
         ELSE UNCHANGED <<delay, owner, ttl>>
    /\ Forget(w)
    /\ UNCHANGED <<stored, published, attempts, copies>>

(* The statement fails and is only logged, or the process stops anywhere:  *)
(* the token is lost and the lease has to run out.                         *)
LoseLease(w) ==
    /\ step[w] # "idle"
    /\ owner' = [owner EXCEPT ![event[w]] = IF @ = w THEN NoWorker ELSE @]
    /\ Forget(w)
    /\ UNCHANGED <<stored, published, ttl, delay, attempts, copies>>

(* The publish context ends at publishTimeout, and the step before it is   *)
(* short; the other steps may take as long as the database takes.          *)
MayWait(w) ==
    /\ step[w] = "claimed" => age[w] < Slack
    /\ step[w] = "publishing" => age[w] < PublishTimeout

Timed(w) == step[w] \in {"claimed", "publishing"}

Less(n) == IF n = 0 THEN 0 ELSE n - 1

Tick ==
    /\ \A w \in Workers : MayWait(w)
    /\ ttl' = [e \in Events |-> Less(ttl[e])]
    /\ delay' = [e \in Events |-> Less(delay[e])]
    /\ age' = [w \in Workers |-> IF Timed(w) THEN age[w] + 1 ELSE age[w]]
    /\ UNCHANGED <<stored, published, owner, attempts, copies, step, event, reached>>

Next ==
    \/ \E e \in Events : Enqueue(e)
    \/ \E w \in Workers, e \in Events : Claim(w, e)
    \/ \E w \in Workers :
         \/ StartPublish(w) \/ RejectPayload(w)
         \/ BrokerTakes(w) \/ PublishConfirmed(w) \/ PublishFails(w)
         \/ MarkPublished(w) \/ Retry(w) \/ LoseLease(w)
    \/ Tick

Spec == Init /\ [][Next]_vars

WorkerStep(w) ==
    \/ StartPublish(w) \/ RejectPayload(w) \/ PublishConfirmed(w) \/ PublishFails(w)
    \/ MarkPublished(w) \/ Retry(w) \/ LoseLease(w)

On(w, e) == event[w] = e

(* Time passes and workers keep looping.  A free worker polls more often   *)
(* than any retry delay, so it does not miss for ever the moments at which *)
(* an event is the oldest claimable one.  For each event, with some worker *)
(* at least, the broker, the network and, within a lease, the database     *)
(* work again and again.                                                   *)
Fairness ==
    /\ WF_vars(Tick)
    /\ \A w \in Workers : WF_vars(WorkerStep(w))
    /\ \A e \in Events :
         /\ SF_vars(\E w \in Workers : Claim(w, e))
         /\ SF_vars(\E w \in Workers : On(w, e) /\ (StartPublish(w) \/ RejectPayload(w)))
    /\ \A e \in Broken :
         SF_vars(\E w \in Workers : On(w, e) /\ Owns(w) /\ Retry(w))
    /\ \A e \in Events \ Broken :
         /\ SF_vars(\E w \in Workers : On(w, e) /\ BrokerTakes(w))
         /\ SF_vars(\E w \in Workers : On(w, e) /\ PublishConfirmed(w))
         /\ SF_vars(\E w \in Workers : On(w, e) /\ Owns(w) /\ MarkPublished(w))

FairSpec == Spec /\ Fairness

-----------------------------------------------------------------------------

TypeOK ==
    /\ stored \subseteq Events
    /\ published \subseteq stored
    /\ owner \in [Events -> Workers \cup {NoWorker}]
    /\ ttl \in [Events -> 0 .. Lease]
    /\ delay \in [Events -> 0 .. MaxBackoff]
    /\ attempts \in [Events -> 0 .. MaxShift]
    /\ copies \in [Events -> 0 .. 2]
    /\ step \in [Workers -> {"idle", "claimed", "publishing", "published", "failed"}]
    /\ event \in [Workers -> Events \cup {NoEvent}]
    /\ age \in [Workers -> Nat]
    /\ reached \in [Workers -> BOOLEAN]
    /\ \A w \in Workers : step[w] = "idle" <=> event[w] = NoEvent
    /\ \A e \in Events : owner[e] # NoWorker => event[owner[e]] = e

(* No event is ever marked as published that the broker did not take, in   *)
(* spite of late workers, lost confirmations and expired leases.           *)
PublishedWasTaken == \A e \in published : copies[e] > 0

(* Two workers never publish one event at the same time: while one is in   *)
(* Publish its lease is alive and nobody can release it, a worker with an  *)
(* outlived lease included.                                                *)
OnePublisherAtATime ==
    \A v, w \in Workers :
        /\ step[v] = "publishing" /\ step[w] = "publishing"
        /\ event[v] = event[w]
        => v = w

(* Every event with a valid payload is published in the end, through       *)
(* crashes at any point and next to events that can never be published.    *)
EventuallyPublished ==
    \A e \in Events \ Broken : e \in stored ~> e \in published

=============================================================================
