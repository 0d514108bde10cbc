------------------------------- MODULE Lookups -------------------------------
(***************************************************************************)
(* One-time product lookups: the handlers that admit them, the row in      *)
(* lookup_requests, the Extractor that loads the page, the result that     *)
(* settles the row and the cleaner that removes it.                        *)
(*                                                                         *)
(* The outbox and lookup_tasks deliver a task at least once and the        *)
(* Extractor may die, or fail to acknowledge, at any point, so a task is   *)
(* loaded any number of times, with another outcome every time; all its    *)
(* results carry its one TaskID.                                           *)
(***************************************************************************)
EXTENDS Integers, FiniteSets

CONSTANTS
    LookupIds,
    Handlers,      \* POST /lookup requests that run at a time
    Extractors,
    Nothing,       \* what an idle Extractor works on
    Prices,        \* what a page may say
    Failure,       \* the page could not be loaded
    MaxPending,    \* maxPendingLookups
    PendingTtl,    \* 10 minutes
    DoneTtl        \* 1 hour

ASSUME LookupsAssumption ==
    /\ Failure \notin Prices
    /\ {"none", "pending", "deleted"} \cap (Prices \cup {Failure}) = {}
    /\ Nothing \notin LookupIds
    /\ IsFiniteSet(Handlers)
    /\ MaxPending \in Nat \ {0}
    /\ PendingTtl \in Nat \ {0} /\ DoneTtl \in Nat \ {0}

VARIABLES
    row,           \* lookup_requests: no row yet, pending, its outcome, or deleted
    left,          \* time until expires_at
    kept,          \* time since the row was set to done, not stored
    admitted,      \* handlers past the check of the pending count
    work,          \* the lookup an Extractor loads
    loaded,        \* what it found, Nothing before
    results,       \* messages in price_results
    processed      \* processed_price_results

lookupRow == <<row, left, kept>>
extractorVars == <<work, loaded, results>>
vars == <<lookupRow, admitted, extractorVars, processed>>

Outcomes == Prices \cup {Failure}
Pending == {l \in LookupIds : row[l] = "pending"}
Rows == {l \in LookupIds : row[l] \notin {"none", "deleted"}}

Init ==
    /\ row = [l \in LookupIds |-> "none"]
    /\ left = [l \in LookupIds |-> 0]
    /\ kept = [l \in LookupIds |-> 0]
    /\ admitted = {}
    /\ work = [x \in Extractors |-> Nothing]
    /\ loaded = [x \in Extractors |-> Nothing]
    /\ results = {}
    /\ processed = {}

-----------------------------------------------------------------------------

(* Fault: the limit itself is admitted. *)
OffByOneCount(h) ==
    /\ h \notin admitted
    /\ Cardinality(Pending) <= MaxPending
    /\ admitted' = admitted \cup {h}
    /\ UNCHANGED <<lookupRow, extractorVars, processed>>

(* postLookup counts the pending rows; at the limit it answers 429. *)
CountPending(h) ==
    /\ h \notin admitted
    /\ Cardinality(Pending) < MaxPending
    /\ admitted' = admitted \cup {h}
    /\ UNCHANGED <<lookupRow, extractorVars, processed>>

(* An address it does not know, an error or a crash. *)
RejectLookup(h) ==
    /\ h \in admitted
    /\ admitted' = admitted \ {h}
    /\ UNCHANGED <<lookupRow, extractorVars, processed>>

(* The row and the task in gateway_outbox, in one transaction. *)
CreateLookup(h, l) ==
    /\ h \in admitted
    /\ row[l] = "none"
    /\ row' = [row EXCEPT ![l] = "pending"]
    /\ left' = [left EXCEPT ![l] = PendingTtl]
    /\ admitted' = admitted \ {h}
    /\ UNCHANGED <<kept, extractorVars, processed>>

-----------------------------------------------------------------------------

Deliver(x, l) ==
    /\ work[x] = Nothing /\ row[l] # "none"
    /\ work' = [work EXCEPT ![x] = l]
    /\ UNCHANGED <<lookupRow, admitted, loaded, results, processed>>

Load(x, o) ==
    /\ work[x] # Nothing /\ loaded[x] = Nothing
    /\ loaded' = [loaded EXCEPT ![x] = o]
    /\ UNCHANGED <<lookupRow, admitted, work, results, processed>>

PublishResult(x) ==
    /\ loaded[x] # Nothing
    /\ results' = results \cup {[lookup |-> work[x], outcome |-> loaded[x]]}
    /\ UNCHANGED <<lookupRow, admitted, work, loaded, processed>>

(* Ack, Nack, a cancelled context or a crash: after any of them the task   *)
(* may come again.                                                         *)
Release(x) ==
    /\ work[x] # Nothing
    /\ work' = [work EXCEPT ![x] = Nothing]
    /\ loaded' = [loaded EXCEPT ![x] = Nothing]
    /\ UNCHANGED <<lookupRow, admitted, results, processed>>

-----------------------------------------------------------------------------

(* Fault: results are not marked as processed. *)
NeverSeen(r) == FALSE

Seen(r) == r.lookup \in processed

(* Fault: a result leaves expires_at alone. *)
UnextendedExpiry(l, o) == left[l]

(* A found product is kept for the time a user needs to name thresholds. *)
NewExpiry(l, o) == IF o = Failure THEN left[l] ELSE DoneTtl

(* The result marks its TaskID and updates the row, if there is one still. *)
ProcessLookupResult(r) ==
    /\ r \in results /\ ~Seen(r)
    /\ processed' = processed \cup {r.lookup}
    /\ IF r.lookup \in Rows
         THEN /\ row' = [row EXCEPT ![r.lookup] = r.outcome]
              /\ left' = [left EXCEPT ![r.lookup] = NewExpiry(r.lookup, r.outcome)]
         ELSE UNCHANGED <<row, left>>
    /\ UNCHANGED <<kept, admitted, extractorVars>>

(* Fault: the cleaner leaves pending rows. *)
SettledOnly(l) == l \in Rows \ Pending /\ left[l] = 0

Expired(l) == l \in Rows /\ left[l] = 0

(* The cleaner, every five minutes. *)
DeleteExpiredLookups ==
    /\ \E l \in LookupIds : Expired(l)
    /\ row' = [l \in LookupIds |-> IF Expired(l) THEN "deleted" ELSE row[l]]
    /\ UNCHANGED <<left, kept, admitted, extractorVars, processed>>

Tick ==
    /\ \E l \in Rows : left[l] > 0
    /\ left' = [l \in LookupIds |-> IF left[l] > 0 THEN left[l] - 1 ELSE 0]
    /\ kept' = [l \in LookupIds |->
                  IF row[l] \in Prices /\ kept[l] < DoneTtl THEN kept[l] + 1 ELSE kept[l]]
    /\ UNCHANGED <<row, admitted, extractorVars, processed>>

Next ==
    \/ \E h \in Handlers :
         \/ CountPending(h) \/ RejectLookup(h)
         \/ \E l \in LookupIds : CreateLookup(h, l)
    \/ \E x \in Extractors :
         \/ \E l \in LookupIds : Deliver(x, l)
         \/ \E o \in Outcomes : Load(x, o)
         \/ PublishResult(x) \/ Release(x)
    \/ \E r \in results : ProcessLookupResult(r)
    \/ DeleteExpiredLookups
    \/ Tick

Spec == Init /\ [][Next]_vars

(* Time passes and the cleaner's ticker fires; of an attempt that fails    *)
(* there is another one five minutes later.  Nothing is asked of handlers, *)
(* the Extractor and the queues.                                           *)
FairSpec == Spec /\ WF_vars(Tick) /\ WF_vars(DeleteExpiredLookups)

-----------------------------------------------------------------------------

TypeOK ==
    /\ row \in [LookupIds -> {"none", "pending", "deleted"} \cup Outcomes]
    /\ left \in [LookupIds -> 0 .. PendingTtl \cup 0 .. DoneTtl]
    /\ kept \in [LookupIds -> 0 .. DoneTtl]
    /\ admitted \subseteq Handlers
    /\ work \in [Extractors -> LookupIds \cup {Nothing}]
    /\ loaded \in [Extractors -> Outcomes \cup {Nothing}]
    /\ results \subseteq [lookup : LookupIds, outcome : Outcomes]
    /\ processed \subseteq {l \in LookupIds : row[l] \notin {"none", "pending"}}

(* What the comment on maxPendingLookups says of the queue of lookups. *)
PendingWithinLimit == Cardinality(Pending) <= MaxPending

(* What the check in postLookup gives: requests that have counted at the   *)
(* same time may all create their lookups, beyond the limit by at most     *)
(* the number of the others.                                               *)
PendingNearLimit == Cardinality(Pending) < MaxPending + Cardinality(Handlers)

(* An answer is final: whoever polls again, or subscribes from it, sees    *)
(* the same product and price although the page was loaded many times, and *)
(* a late answer does not bring a lookup back that has expired.            *)
AnswerIsFinal ==
    [][\A l \in LookupIds :
         row[l] \in Outcomes \cup {"deleted"} => row'[l] \in {row[l], "deleted"}]_vars

(* A product that was found can be subscribed to for DoneTtl, however late *)
(* in the life of the lookup it was found.                                 *)
FoundIsKept ==
    [][\A l \in LookupIds :
         row[l] \in Prices /\ row'[l] = "deleted" => kept[l] = DoneTtl]_vars

(* Lookups nobody answers do not keep new ones out for ever. *)
LimitClears == (Cardinality(Pending) >= MaxPending) ~> (Cardinality(Pending) < MaxPending)

=============================================================================
