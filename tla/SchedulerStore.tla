--------------------------- MODULE SchedulerStore ---------------------------
(***************************************************************************)
(* The Scheduler's tables: scheduled_urls, processed_force_commands and    *)
(* the scraper tasks in scheduler_outbox (store/dispatch.go), under the    *)
(* consumer of track requests and the tick loops of all replicas.          *)
(*                                                                         *)
(* A track request is one transaction under advisory locks on its product  *)
(* and its address, hence one action.  EnqueueDue is two: the rows it      *)
(* selects stay locked, and invisible to the other replicas' SKIP LOCKED,  *)
(* until it commits, fails or dies.                                        *)
(***************************************************************************)
EXTENDS Catalog, Integers, FiniteSets

CONSTANTS
    Replicas,    \* Scheduler processes that run the tick loop
    DueBatchSize,\* most rows one EnqueueDue takes
    MaxElapsed   \* bound on the check intervals that pass, for TLC

ASSUME SchedulerAssumption ==
    /\ DueBatchSize \in Nat \ {0}
    /\ MaxElapsed \in Nat

VARIABLES
    schedule,    \* scheduled_urls by product: url, monitor_version, active
    due,         \* products whose next_check_at has passed
    batch,       \* rows each replica's open EnqueueDue has locked
    elapsed,     \* number of times a product's next_check_at has passed
    periodic,    \* "periodic:<task>" rows in scheduler_outbox by product
    processed,   \* processed_force_commands
    forced       \* "force:<task>" rows in scheduler_outbox by TaskID

schedulerVars == <<schedule, due, batch, elapsed, periodic, processed, forced>>

Row == [url : URLs \cup {NoURL}, version : Nat, active : BOOLEAN]
NoRow == [url |-> NoURL, version |-> 0, active |-> FALSE]

Unlocked(p) == \A w \in Replicas : p \notin batch[w]

-----------------------------------------------------------------------------

SchedulerInit ==
    /\ schedule = [p \in Products |-> NoRow]
    /\ due = {}
    /\ batch = [w \in Replicas |-> {}]
    /\ elapsed = [p \in Products |-> 0]
    /\ periodic = [p \in Products |-> 0]
    /\ processed = {}
    /\ forced = [f \in ForceIds |-> 0]

(* Fault: commands are not compared with the rows. *)
AnyAddress(c) == TRUE

(* A product keeps its address and an address its product: commands that   *)
(* say otherwise are rejected as ErrInvalidRequest and dropped.            *)
SameIdentity(c) ==
    /\ schedule[c.product].url \in {NoURL, c.url}
    /\ \A q \in Products \ {c.product} : schedule[q].url # c.url

Accepted(c) == c.version > 0 /\ SameIdentity(c)

(* Fault: the upsert takes any version. *)
AnyOrder(c) == TRUE
(* Fault: the upsert inserts and never updates. *)
InsertOnly(c) == schedule[c.product].url = NoURL

(* The WHERE of the upsert: an existing row takes newer versions only. *)
Newer(c) == schedule[c.product].url = NoURL \/ schedule[c.product].version < c.version

(* A new row is due at once; an existing one keeps its next_check_at.  A   *)
(* command that is rejected or not newer leaves everything as it is.       *)
ApplySnapshot(c) ==
    /\ Accepted(c) /\ Newer(c)
    /\ Unlocked(c.product)
    /\ schedule' = [schedule EXCEPT ![c.product] =
                      [url |-> c.url, version |-> c.version, active |-> c.active]]
    /\ IF schedule[c.product].url = NoURL
         THEN /\ due' = due \cup {c.product}
              /\ elapsed' = [elapsed EXCEPT ![c.product] = @ + 1]
         ELSE UNCHANGED <<due, elapsed>>
    /\ UNCHANGED <<batch, periodic, processed, forced>>

(* Fault: a forced check needs an active row. *)
MonitoredForce(c) ==
    /\ SameIdentity(c)
    /\ Unlocked(c.product) /\ schedule[c.product].active
    /\ c.task \notin processed
    /\ processed' = processed \cup {c.task}
    /\ forced' = [forced EXCEPT ![c.task] = @ + 1]
    /\ UNCHANGED <<schedule, due, batch, elapsed, periodic>>

(* Needs no row of its own, only that no row contradicts it; the schedule  *)
(* is read under FOR SHARE and left alone.                                 *)
EnqueueForce(c) ==
    /\ SameIdentity(c)
    /\ Unlocked(c.product)
    /\ c.task \notin processed
    /\ processed' = processed \cup {c.task}
    /\ forced' = [forced EXCEPT ![c.task] = @ + 1]
    /\ UNCHANGED <<schedule, due, batch, elapsed, periodic>>

(* Fault: inactive rows are selected too. *)
EverythingDue == due
Checkable == {p \in due : schedule[p].active}

(* Fault: SELECT without FOR UPDATE SKIP LOCKED. *)
NoRowLocks(S) == TRUE
SkipLocked(S) == \A p \in S : Unlocked(p)

SelectDue(w, S) ==
    /\ batch[w] = {} /\ S # {}
    /\ S \subseteq Checkable
    /\ Cardinality(S) <= DueBatchSize
    /\ SkipLocked(S)
    /\ batch' = [batch EXCEPT ![w] = S]
    /\ UNCHANGED <<schedule, due, elapsed, periodic, processed, forced>>

(* One task per selected row, and the row's next check moves ahead. *)
CommitDue(w) ==
    /\ batch[w] # {}
    /\ periodic' = [p \in Products |->
                      IF p \in batch[w] THEN periodic[p] + 1 ELSE periodic[p]]
    /\ due' = due \ batch[w]
    /\ batch' = [batch EXCEPT ![w] = {}]
    /\ UNCHANGED <<schedule, elapsed, processed, forced>>

(* A failed statement or a crash before COMMIT. *)
AbortDue(w) ==
    /\ batch[w] # {}
    /\ batch' = [batch EXCEPT ![w] = {}]
    /\ UNCHANGED <<schedule, due, elapsed, periodic, processed, forced>>

(* The clock passes next_check_at, whether the product is active or not. *)
CheckInterval(p) ==
    /\ schedule[p].url # NoURL
    /\ p \notin due
    /\ elapsed[p] < MaxElapsed
    /\ due' = due \cup {p}
    /\ elapsed' = [elapsed EXCEPT ![p] = @ + 1]
    /\ UNCHANGED <<schedule, batch, periodic, processed, forced>>

(* The Scheduler's own steps; the commands come from a queue. *)
Tick ==
    \/ \E w \in Replicas, S \in SUBSET Products : SelectDue(w, S)
    \/ \E w \in Replicas : CommitDue(w) \/ AbortDue(w)
    \/ \E p \in Products : CheckInterval(p)

-----------------------------------------------------------------------------

SchedulerTypeOK ==
    /\ schedule \in [Products -> Row]
    /\ due \subseteq {p \in Products : schedule[p].url # NoURL}
    /\ batch \in [Replicas -> SUBSET due]
    /\ elapsed \in [Products -> Nat]
    /\ periodic \in [Products -> Nat]
    /\ processed \subseteq ForceIds
    /\ forced \in [ForceIds -> Nat]

(* Every time a product's next check came, it is either still due or got   *)
(* exactly one scraper task: replicas ticking at the same time, or dying   *)
(* half way, neither repeat nor skip a check.                              *)
OneTaskPerInterval ==
    \A p \in Products :
        elapsed[p] = periodic[p] + (IF p \in due THEN 1 ELSE 0)

(* Whatever the queue delivers and in whatever order, two rows never share *)
(* an address.                                                             *)
AddressesAreUnique ==
    \A p, q \in Products :
        p # q /\ schedule[p].url = schedule[q].url => schedule[p].url = NoURL

(* A row never changes its address and never goes back to an older state,  *)
(* and while its version stays, so does its activity.                      *)
ScheduleMovesForward ==
    [][\A p \in Products :
         LET old == schedule[p]
             new == schedule'[p]
         IN /\ old.url # NoURL => new.url = old.url
            /\ new.version >= old.version
            /\ new.version = old.version => new.active = old.active]_schedulerVars

=============================================================================
