---------------------------- MODULE OutboxProofs ----------------------------
(***************************************************************************)
(* Theorems about Outbox, for any events, workers and durations.           *)
(*                                                                         *)
(* A worker in Publish still holds a lease that has not run out            *)
(* (LeaseOutlasts): its lease was full at the claim, and Slack and         *)
(* PublishTimeout together are shorter.  So nobody can claim its event,    *)
(* and nobody else passes the check of the lease token.                    *)
(***************************************************************************)
EXTENDS Outbox, TLAPS

(* The part of the state's type the lease argument needs. *)
LeaseTypeOK ==
    /\ stored \subseteq Events
    /\ published \subseteq stored
    /\ owner \in [Events -> Workers \cup {NoWorker}]
    /\ ttl \in [Events -> Nat]
    /\ copies \in [Events -> Nat]
    /\ step \in [Workers -> {"idle", "claimed", "publishing", "published", "failed"}]
    /\ event \in [Workers -> Events \cup {NoEvent}]
    /\ age \in [Workers -> Nat]
    /\ reached \in [Workers -> BOOLEAN]
    /\ \A w \in Workers : step[w] # "idle" => event[w] \in stored

(* What is left of a lease covers what is left of the step. *)
LeaseOutlasts ==
    \A w \in Workers :
        /\ step[w] = "idle" => age[w] = 0
        /\ step[w] = "claimed" =>
             /\ owner[event[w]] = w
             /\ age[w] <= Slack /\ ttl[event[w]] + age[w] >= Lease
        /\ step[w] = "publishing" =>
             /\ owner[event[w]] = w
             /\ age[w] <= PublishTimeout /\ ttl[event[w]] + age[w] > PublishTimeout

(* Whoever is about to mark an event has its confirmation. *)
ConfirmedWasTaken ==
    \A w \in Workers :
        step[w] = "published" \/ (step[w] = "publishing" /\ reached[w])
          => copies[event[w]] > 0

IInv ==
    /\ LeaseTypeOK
    /\ LeaseOutlasts
    /\ ConfirmedWasTaken
    /\ PublishedWasTaken

-----------------------------------------------------------------------------

(* An empty table with idle workers satisfies the invariant. *)
LEMMA InitInv == Init => IInv
BY OutboxAssumption
   DEF Init, IInv, LeaseTypeOK, LeaseOutlasts, ConfirmedWasTaken, PublishedWasTaken

(* Only a lease that has run out can be claimed, so no worker is in        *)
(* Publish, or on its way there, with the claimed event.                   *)
LEMMA ClaimInv ==
    ASSUME IInv, NEW w \in Workers, NEW e \in Events, Claim(w, e)
    PROVE  IInv'
<1> USE OutboxAssumption
<1>1. LeaseTypeOK'
  BY DEF IInv, LeaseTypeOK, Claim, Claimable
<1>2. \A v \in Workers : v # w /\ step[v] \in {"claimed", "publishing"} => event[v] # e
  <2>1. ttl[e] = 0
    BY DEF Claim, Claimable
  <2> QED
    BY <2>1 DEF IInv, LeaseOutlasts, LeaseTypeOK
<1>3. LeaseOutlasts'
  <2> SUFFICES ASSUME NEW v \in Workers
               PROVE  LeaseOutlasts!(v)'
    BY DEF LeaseOutlasts
  <2>1. CASE v = w
    BY <2>1 DEF IInv, LeaseTypeOK, LeaseOutlasts, Claim
  <2>2. CASE v # w
    BY <1>2, <2>2 DEF IInv, LeaseTypeOK, LeaseOutlasts, Claim
  <2> QED
    BY <2>1, <2>2
<1>4. ConfirmedWasTaken'
  BY DEF IInv, LeaseTypeOK, ConfirmedWasTaken, Claim
<1>5. PublishedWasTaken'
  BY DEF IInv, PublishedWasTaken, Claim
<1> QED
  BY <1>1, <1>3, <1>4, <1>5 DEF IInv

(* The statements that end a lease need its token: they leave the leases   *)
(* of all workers in Publish alone.                                        *)
LEMMA OthersKeepTheirLeases ==
    ASSUME IInv, NEW w \in Workers, NEW v \in Workers, v # w,
           step[v] \in {"claimed", "publishing"}
    PROVE  owner[event[v]] = v /\ (owner[event[w]] = w => event[v] # event[w])
BY DEF IInv, LeaseOutlasts

(* A mark, a retry or a crash, with the lease or after it was lost.        *)
LEMMA ForgetInv ==
    ASSUME IInv, NEW w \in Workers, MarkPublished(w) \/ Retry(w) \/ LoseLease(w)
    PROVE  IInv'
<1> USE OutboxAssumption
<1>1. step[w] # "idle" /\ event[w] \in stored /\ event[w] \in Events
  BY DEF IInv, LeaseTypeOK, MarkPublished, Retry, LoseLease
<1>2. /\ step' = [step EXCEPT ![w] = "idle"]
      /\ event' = [event EXCEPT ![w] = NoEvent]
      /\ age' = [age EXCEPT ![w] = 0]
      /\ reached' = [reached EXCEPT ![w] = FALSE]
      /\ copies' = copies /\ stored' = stored
  BY DEF MarkPublished, Retry, LoseLease, Forget
<1>3. /\ published' \subseteq stored
      /\ owner' \in [Events -> Workers \cup {NoWorker}]
      /\ ttl' \in [Events -> Nat]
  <2>1. CASE MarkPublished(w)
    <3>1. published' \subseteq stored
      <4>1. published' = published \/ published' = published \cup {event[w]}
        BY <2>1 DEF MarkPublished
      <4> QED
        BY <1>1, <4>1 DEF IInv, LeaseTypeOK
    <3>2. owner' \in [Events -> Workers \cup {NoWorker}] /\ ttl' \in [Events -> Nat]
      BY <1>1, <2>1 DEF IInv, LeaseTypeOK, MarkPublished, Owns
    <3> QED
      BY <3>1, <3>2
  <2>2. CASE Retry(w)
    BY <1>1, <2>2 DEF IInv, LeaseTypeOK, Retry
  <2>3. CASE LoseLease(w)
    BY <1>1, <2>3 DEF IInv, LeaseTypeOK, LoseLease
  <2> QED
    BY <2>1, <2>2, <2>3
<1>4. ASSUME NEW v \in Workers, v # w, step[v] \in {"claimed", "publishing"}
      PROVE  owner'[event[v]] = v /\ ttl'[event[v]] = ttl[event[v]]
  <2>1. /\ owner[event[v]] = v /\ event[v] \in Events
        /\ owner[event[w]] = w => event[v] # event[w]
    BY <1>4, OthersKeepTheirLeases DEF IInv, LeaseTypeOK
  <2>2. CASE MarkPublished(w)
    BY <1>1, <1>4, <2>1, <2>2 DEF IInv, LeaseTypeOK, MarkPublished, Owns
  <2>3. CASE Retry(w)
    BY <1>1, <1>4, <2>1, <2>3 DEF IInv, LeaseTypeOK, Retry, Owns
  <2>4. CASE LoseLease(w)
    BY <1>1, <1>4, <2>1, <2>4 DEF IInv, LeaseTypeOK, LoseLease
  <2> QED
    BY <2>2, <2>3, <2>4
<1>5. LeaseTypeOK'
  BY <1>2, <1>3 DEF IInv, LeaseTypeOK
<1>6. LeaseOutlasts'
  BY <1>2, <1>4 DEF IInv, LeaseTypeOK, LeaseOutlasts
<1>7. ConfirmedWasTaken'
  BY <1>2 DEF IInv, LeaseTypeOK, ConfirmedWasTaken
<1>8. PublishedWasTaken'
  <2>1. CASE MarkPublished(w)
    <3>1. copies[event[w]] > 0
      BY <2>1 DEF IInv, ConfirmedWasTaken, MarkPublished
    <3> QED
      BY <1>2, <2>1, <3>1 DEF IInv, PublishedWasTaken, MarkPublished
  <2>2. CASE Retry(w) \/ LoseLease(w)
    BY <1>2, <2>2 DEF IInv, PublishedWasTaken, Retry, LoseLease
  <2> QED
    BY <2>1, <2>2
<1> QED
  BY <1>5, <1>6, <1>7, <1>8 DEF IInv

(* The step into Publish takes the lease along, and the time left of it is *)
(* more than Publish may take.                                             *)
LEMMA StartInv ==
    ASSUME IInv, NEW w \in Workers, StartPublish(w)
    PROVE  IInv'
<1> USE OutboxAssumption
<1>1. LeaseTypeOK'
  BY DEF IInv, LeaseTypeOK, StartPublish, GoTo, rowVars
<1>2. LeaseOutlasts'
  <2> SUFFICES ASSUME NEW v \in Workers
               PROVE  LeaseOutlasts!(v)'
    BY DEF LeaseOutlasts
  <2>1. CASE v = w
    <3>1. /\ owner[event[w]] = w /\ age[w] <= Slack /\ ttl[event[w]] + age[w] >= Lease
      BY DEF IInv, LeaseOutlasts, StartPublish
    <3>2. ttl[event[w]] \in Nat /\ age[w] \in Nat
      BY DEF IInv, LeaseTypeOK, StartPublish
    <3>3. ttl[event[w]] > PublishTimeout
      BY <3>1, <3>2
    <3> QED
      BY <2>1, <3>1, <3>2, <3>3 DEF IInv, LeaseTypeOK, StartPublish, GoTo, rowVars
  <2>2. CASE v # w
    BY <2>2 DEF IInv, LeaseTypeOK, LeaseOutlasts, StartPublish, GoTo, rowVars
  <2> QED
    BY <2>1, <2>2
<1>3. ConfirmedWasTaken'
  BY DEF IInv, LeaseTypeOK, ConfirmedWasTaken, StartPublish, GoTo
<1>4. PublishedWasTaken'
  BY DEF IInv, PublishedWasTaken, StartPublish, rowVars
<1> QED
  BY <1>1, <1>2, <1>3, <1>4 DEF IInv

(* A worker that leaves Publish, or never enters it: its lease matters no  *)
(* more, and a confirmation means that the broker has the message.         *)
LEMMA LeaveInv ==
    ASSUME IInv, NEW w \in Workers,
           RejectPayload(w) \/ PublishConfirmed(w) \/ PublishFails(w)
    PROVE  IInv'
<1> USE OutboxAssumption
<1>1. LeaseTypeOK'
  <2>1. /\ step[w] # "idle"
        /\ \/ step' = [step EXCEPT ![w] = "published"]
           \/ step' = [step EXCEPT ![w] = "failed"]
        /\ age' = [age EXCEPT ![w] = 0]
        /\ reached' = [reached EXCEPT ![w] = FALSE]
        /\ UNCHANGED <<event, stored, published, owner, ttl, copies>>
    BY DEF RejectPayload, PublishConfirmed, PublishFails, GoTo, rowVars
  <2> QED
    BY <2>1 DEF IInv, LeaseTypeOK
<1>2. LeaseOutlasts'
  BY DEF IInv, LeaseTypeOK, LeaseOutlasts,
         RejectPayload, PublishConfirmed, PublishFails, GoTo, rowVars
<1>3. ConfirmedWasTaken'
  BY DEF IInv, LeaseTypeOK, ConfirmedWasTaken,
         RejectPayload, PublishConfirmed, PublishFails, GoTo
<1>4. PublishedWasTaken'
  BY DEF IInv, PublishedWasTaken, RejectPayload, PublishConfirmed, PublishFails, rowVars
<1> QED
  BY <1>1, <1>2, <1>3, <1>4 DEF IInv

(* A message at the broker stays there. *)
LEMMA BrokerInv ==
    ASSUME IInv, NEW w \in Workers, BrokerTakes(w)
    PROVE  IInv'
<1> USE OutboxAssumption
<1>1. event[w] \in Events /\ copies' = [copies EXCEPT ![event[w]] = Least(@ + 1, 2)]
  BY DEF IInv, LeaseTypeOK, BrokerTakes
<1>2. /\ copies' \in [Events -> Nat] /\ copies'[event[w]] > 0
      /\ \A e \in Events : copies[e] > 0 => copies'[e] > 0
  <2>1. copies \in [Events -> Nat]
    BY DEF IInv, LeaseTypeOK
  <2>2. \A n \in Nat : Least(n + 1, 2) \in Nat /\ Least(n + 1, 2) > 0
    BY DEF Least
  <2>3. copies[event[w]] \in Nat
    BY <1>1, <2>1
  <2> QED
    BY <1>1, <2>1, <2>2, <2>3
<1>3. LeaseTypeOK'
  BY <1>2 DEF IInv, LeaseTypeOK, BrokerTakes, rowVars
<1>4. LeaseOutlasts'
  BY DEF IInv, LeaseOutlasts, BrokerTakes, rowVars
<1>5. ConfirmedWasTaken'
  BY <1>2 DEF IInv, LeaseTypeOK, ConfirmedWasTaken, BrokerTakes
<1>6. PublishedWasTaken'
  BY <1>2 DEF IInv, LeaseTypeOK, PublishedWasTaken, BrokerTakes, rowVars
<1> QED
  BY <1>3, <1>4, <1>5, <1>6 DEF IInv

(* Leases and steps grow old together. *)
LEMMA TickInv ==
    ASSUME IInv, Tick
    PROVE  IInv'
<1> USE OutboxAssumption
<1>1. LeaseTypeOK'
  BY DEF IInv, LeaseTypeOK, Tick, Less
<1>2. LeaseOutlasts'
  <2> SUFFICES ASSUME NEW w \in Workers
               PROVE  LeaseOutlasts!(w)'
    BY DEF LeaseOutlasts
  <2>1. CASE step[w] \in {"claimed", "publishing"}
    <3>1. event[w] \in Events /\ ttl[event[w]] \in Nat /\ age[w] \in Nat
      BY <2>1 DEF IInv, LeaseTypeOK
    <3>2. /\ age'[w] = age[w] + 1 /\ ttl'[event[w]] >= ttl[event[w]] - 1
          /\ step' = step /\ event' = event /\ owner' = owner
      BY <2>1, <3>1 DEF Tick, Timed, Less
    <3>3. step[w] = "claimed" => age[w] < Slack
      BY DEF Tick, MayWait
    <3>4. step[w] = "publishing" => age[w] < PublishTimeout
      BY DEF Tick, MayWait
    <3>5. ttl'[event[w]] \in Nat /\ age'[w] \in Nat
      BY <1>1, <2>1, <3>1, <3>2 DEF LeaseTypeOK
    <3>6. CASE step[w] = "claimed"
      <4>1. owner[event[w]] = w /\ ttl[event[w]] + age[w] >= Lease
        BY <3>6 DEF IInv, LeaseOutlasts
      <4> QED
        BY <3>1, <3>2, <3>3, <3>5, <3>6, <4>1
    <3>7. CASE step[w] = "publishing"
      <4>1. owner[event[w]] = w /\ ttl[event[w]] + age[w] > PublishTimeout
        BY <3>7 DEF IInv, LeaseOutlasts
      <4> QED
        BY <3>1, <3>2, <3>4, <3>5, <3>7, <4>1
    <3> QED
      BY <2>1, <3>6, <3>7
  <2>2. CASE step[w] \notin {"claimed", "publishing"}
    BY <2>2 DEF IInv, LeaseTypeOK, LeaseOutlasts, Tick, Timed
  <2> QED
    BY <2>1, <2>2
<1>3. ConfirmedWasTaken'
  BY DEF IInv, ConfirmedWasTaken, Tick
<1>4. PublishedWasTaken'
  BY DEF IInv, PublishedWasTaken, Tick
<1> QED
  BY <1>1, <1>2, <1>3, <1>4 DEF IInv

-----------------------------------------------------------------------------

(* Every step keeps the invariant. *)
LEMMA StepInv == IInv /\ [Next]_vars => IInv'
<1> SUFFICES ASSUME IInv, [Next]_vars
             PROVE  IInv'
  OBVIOUS
<1>1. ASSUME NEW e \in Events, Enqueue(e) PROVE IInv'
  BY <1>1, OutboxAssumption
     DEF Enqueue, workerVars, IInv, LeaseTypeOK, LeaseOutlasts, ConfirmedWasTaken, PublishedWasTaken
<1>2. ASSUME NEW w \in Workers, NEW e \in Events, Claim(w, e) PROVE IInv'
  BY <1>2, ClaimInv
<1>3. ASSUME NEW w \in Workers, StartPublish(w) PROVE IInv'
  BY <1>3, StartInv
<1>4. ASSUME NEW w \in Workers, RejectPayload(w) \/ PublishConfirmed(w) \/ PublishFails(w)
      PROVE  IInv'
  BY <1>4, LeaveInv
<1>5. ASSUME NEW w \in Workers, BrokerTakes(w) PROVE IInv'
  BY <1>5, BrokerInv
<1>6. ASSUME NEW w \in Workers, MarkPublished(w) \/ Retry(w) \/ LoseLease(w) PROVE IInv'
  BY <1>6, ForgetInv
<1>7. CASE Tick
  BY <1>7, TickInv
<1>8. CASE UNCHANGED vars
  BY <1>8 DEF vars, rowVars, workerVars,
              IInv, LeaseTypeOK, LeaseOutlasts, ConfirmedWasTaken, PublishedWasTaken
<1> QED
  BY <1>1, <1>2, <1>3, <1>4, <1>5, <1>6, <1>7, <1>8 DEF Next

(* Whoever is about to publish or publishing holds a lease that outlasts   *)
(* it, and whoever has a confirmation has published.                       *)
THEOREM LeaseInvariant == Spec => []IInv
<1>1. Init => IInv
  BY InitInv
<1>2. IInv /\ [Next]_vars => IInv'
  BY StepInv
<1> QED
  BY <1>1, <1>2, PTL DEF Spec

(* However many workers share the table, no two of them publish one event  *)
(* at a time: both would be its owner.                                     *)
THEOREM OnePublisher == Spec => []OnePublisherAtATime
<1>1. IInv => OnePublisherAtATime
  BY DEF IInv, LeaseOutlasts, OnePublisherAtATime
<1> QED
  BY <1>1, LeaseInvariant, PTL

(* No event is marked as published that the broker did not take. *)
THEOREM PublishedTaken == Spec => []PublishedWasTaken
<1>1. IInv => PublishedWasTaken
  BY DEF IInv
<1> QED
  BY <1>1, LeaseInvariant, PTL
=============================================================================
