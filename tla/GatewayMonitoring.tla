------------------------- MODULE GatewayMonitoring -------------------------
(***************************************************************************)
(* The Gateway's monitoring state: products, subscriptions and the         *)
(* versioned snapshots it leaves in gateway_outbox for the Scheduler.      *)
(*                                                                         *)
(* Every operation of store/monitoring.go is a database transaction.  The  *)
(* transactions run concurrently (HTTP handlers, the reconciliation loop,  *)
(* other replicas), serialised only by the row locks they take on          *)
(* products, so a transaction is three kinds of steps here: it begins with *)
(* its unlocked reads, it locks product rows one after another, and it     *)
(* commits all its writes at once or rolls back.                           *)
(***************************************************************************)
EXTENDS Catalog, Integers, FiniteSets

CONSTANTS
    Users,       \* rows of users
    NoUser,      \* who of a transaction that acts for nobody
    Txs,         \* transactions that may be open at a time
    MaxVersion   \* bound on monitor_version, for TLC

(* The ids are numbers, as ORDER BY id orders them. *)
ASSUME GatewayAssumption ==
    /\ Products \subseteq Nat
    /\ IsFiniteSet(Products)
    /\ NoUser \notin Users
    /\ MaxVersion \in Nat

VARIABLES
    url,         \* products.url by id
    subs,        \* <<user, product>> pairs with a row in subscriptions
    active,      \* those with active = true
    paused,      \* those with paused = true
    version,     \* products.monitor_version
    op,          \* operation each transaction runs, "idle" if none
    who,         \* user a transaction acts for
    want,        \* products a transaction must lock
    held,        \* products a transaction has locked
    seen,        \* monitor_version a transaction read under its lock
    snapshots,   \* "track:<product>:<version>" events in gateway_outbox
    forces       \* "force:<task>" events in gateway_outbox

rows == <<url, subs, active, paused>>
txs == <<op, who, want, held, seen>>
gatewayVars == <<rows, version, txs, snapshots, forces>>

Subs == Users \X Products
Mutations == {"pause", "resume", "thresholds", "delete"}
Ops == Mutations \cup {"idle", "create", "reconcile", "force"}

Snapshot == [product : Products, version : Nat, url : URLs, active : BOOLEAN]
ForceCommand == [task : ForceIds, product : Products, url : URLs, user : Users]

Existing == {p \in Products : url[p] # NoURL}

(* A product is to be monitored while somebody watches it unpaused. *)
Monitored(act, pau, p) == \E u \in Users : <<u, p>> \in act \ pau

-----------------------------------------------------------------------------

GatewayInit ==
    /\ url = [p \in Products |-> NoURL]
    /\ subs = {} /\ active = {} /\ paused = {}
    /\ version = [p \in Products |-> 0]
    /\ op = [t \in Txs |-> "idle"]
    /\ who = [t \in Txs |-> NoUser]
    /\ want = [t \in Txs |-> {}]
    /\ held = [t \in Txs |-> {}]
    /\ seen = [t \in Txs |-> [p \in Products |-> 0]]
    /\ snapshots = {}
    /\ forces = {}

(* Fault: a second id for an address that has one. *)
DuplicatingEnsureProduct(p, a) ==
    /\ url[p] = NoURL
    /\ url' = [url EXCEPT ![p] = a]
    /\ UNCHANGED <<subs, active, paused, version, txs, snapshots, forces>>

(* INSERT .. ON CONFLICT(url): an id is taken only by an address that has  *)
(* none; otherwise the existing id is returned and only the name changes.  *)
EnsureProduct(p, a) ==
    /\ url[p] = NoURL
    /\ \A q \in Products : url[q] # a
    /\ url' = [url EXCEPT ![p] = a]
    /\ UNCHANGED <<subs, active, paused, version, txs, snapshots, forces>>

Begin(t, o, u, P) ==
    /\ op[t] = "idle"
    /\ op' = [op EXCEPT ![t] = o]
    /\ who' = [who EXCEPT ![t] = u]
    /\ want' = [want EXCEPT ![t] = P]
    /\ UNCHANGED <<rows, version, held, seen, snapshots, forces>>

(* mutateSubscription reads the subscription before it holds any lock. *)
BeginMutation(t, o, u, p) ==
    /\ <<u, p>> \in (IF o = "delete" THEN subs ELSE active)
    /\ Begin(t, o, u, {p})

BeginCreate(t, u, p) ==
    /\ p \in Existing
    /\ Begin(t, "create", u, {p})

BeginReconcile(t) == Begin(t, "reconcile", NoUser, Existing)

(* QueueForce reads the subscription in the statement that then waits for  *)
(* the product row; a forced check is allowed while paused.                *)
BeginForce(t, u, p) ==
    /\ <<u, p>> \in active
    /\ Begin(t, "force", u, {p})

(* Fault: rows are locked in no particular order. *)
UnorderedNext(t, p) == p \in want[t] \ held[t]

(* The next row a transaction locks: SELECT .. ORDER BY id FOR UPDATE. *)
NextRow(t, p) ==
    /\ p \in want[t] \ held[t]
    /\ \A q \in want[t] \ held[t] : p <= q

(* Fault: the version is read without FOR UPDATE. *)
UnlockedProductRead(t, p) ==
    /\ op[t] # "idle"
    /\ NextRow(t, p)
    /\ held' = [held EXCEPT ![t] = @ \cup {p}]
    /\ seen' = [seen EXCEPT ![t][p] = version[p]]
    /\ UNCHANGED <<rows, version, op, who, want, snapshots, forces>>

(* lockProduct: wait for the row, then read the version it has by then. *)
LockProduct(t, p) ==
    /\ op[t] # "idle"
    /\ NextRow(t, p)
    /\ \A v \in Txs : p \notin held[v]
    /\ held' = [held EXCEPT ![t] = @ \cup {p}]
    /\ seen' = [seen EXCEPT ![t][p] = version[p]]
    /\ UNCHANGED <<rows, version, op, who, want, snapshots, forces>>

Holds(t, o) == op[t] = o /\ held[t] = want[t]

(* COMMIT or ROLLBACK releases every lock. *)
End(t) ==
    /\ op' = [op EXCEPT ![t] = "idle"]
    /\ who' = [who EXCEPT ![t] = NoUser]
    /\ want' = [want EXCEPT ![t] = {}]
    /\ held' = [held EXCEPT ![t] = {}]
    /\ seen' = [seen EXCEPT ![t] = [p \in Products |-> 0]]

SameKey(s, r) == s.product = r.product /\ s.version = r.version

(* INSERT .. ON CONFLICT(event_key) DO NOTHING. *)
Enqueued(S) ==
    snapshots \cup {s \in S : \A r \in snapshots : ~SameKey(s, r)}

NewSnapshots(t, act, pau) ==
    {[product |-> p, version |-> seen[t][p] + 1, url |-> url[p],
      active |-> Monitored(act, pau, p)] : p \in want[t]}

(* version++, UPDATE products and snapshot() for every locked product. *)
Publish(t, act, pau) ==
    /\ \A p \in want[t] : seen[t][p] < MaxVersion
    /\ version' = [p \in Products |->
                     IF p \in want[t] THEN seen[t][p] + 1 ELSE version[p]]
    /\ snapshots' = Enqueued(NewSnapshots(t, act, pau))

Sub(t, s) == s \in Subs /\ s[1] = who[t] /\ s[2] \in want[t]

CommitPause(t, s) ==
    /\ Holds(t, "pause") /\ Sub(t, s) /\ s \in active
    /\ paused' = paused \cup {s}
    /\ Publish(t, active, paused')
    /\ End(t)
    /\ UNCHANGED <<url, subs, active, forces>>

(* Fault: a resume publishes no version. *)
SilentResume(t, s) ==
    /\ Holds(t, "resume") /\ Sub(t, s) /\ s \in active
    /\ paused' = paused \ {s}
    /\ End(t)
    /\ UNCHANGED <<url, subs, active, version, snapshots, forces>>

CommitResume(t, s) ==
    /\ Holds(t, "resume") /\ Sub(t, s) /\ s \in active
    /\ paused' = paused \ {s}
    /\ Publish(t, active, paused')
    /\ End(t)
    /\ UNCHANGED <<url, subs, active, forces>>

(* New thresholds leave monitoring as it is and still publish a version. *)
CommitThresholds(t, s) ==
    /\ Holds(t, "thresholds") /\ Sub(t, s) /\ s \in active
    /\ Publish(t, active, paused)
    /\ End(t)
    /\ UNCHANGED <<rows, forces>>

(* Fault: the snapshot is computed before the delete. *)
UnpublishedDelete(t, s) ==
    /\ Holds(t, "delete") /\ Sub(t, s) /\ s \in active
    /\ active' = active \ {s}
    /\ Publish(t, active, paused)
    /\ End(t)
    /\ UNCHANGED <<url, subs, paused, forces>>

CommitDelete(t, s) ==
    /\ Holds(t, "delete") /\ Sub(t, s) /\ s \in active
    /\ active' = active \ {s}
    /\ Publish(t, active', paused)
    /\ End(t)
    /\ UNCHANGED <<url, subs, paused, forces>>

(* CreateSubscription: insert, or reactivate and unpause the user's row.   *)
(* differ says that the thresholds asked for are not the stored ones; a    *)
(* request that changes nothing publishes nothing.                         *)
CommitCreate(t, s, differ) ==
    /\ Holds(t, "create") /\ Sub(t, s)
    /\ subs' = subs \cup {s}
    /\ active' = active \cup {s}
    /\ paused' = paused \ {s}
    /\ IF s \notin active \/ differ \/ s \in paused
         THEN Publish(t, active', paused')
         ELSE UNCHANGED <<version, snapshots>>
    /\ End(t)
    /\ UNCHANGED <<url, forces>>

CommitReconcile(t) ==
    /\ Holds(t, "reconcile")
    /\ Publish(t, active, paused)
    /\ End(t)
    /\ UNCHANGED <<rows, forces>>

(* A failed statement, a cancelled request, a crash, a subscription found  *)
(* inactive under the lock, a delete that has nothing left to delete.      *)
Rollback(t) ==
    /\ op[t] # "idle"
    /\ End(t)
    /\ UNCHANGED <<rows, version, snapshots, forces>>

(* By then the subscription may have been deleted; it is not read again.   *)
CommitForce(t, f, p) ==
    /\ Holds(t, "force") /\ p \in want[t]
    /\ \A c \in forces : c.task # f
    /\ forces' = forces \cup
         {[task |-> f, product |-> p, url |-> url[p], user |-> who[t]]}
    /\ End(t)
    /\ UNCHANGED <<rows, version, snapshots>>

Transaction(t) ==
    \/ \E o \in Mutations, u \in Users, p \in Products : BeginMutation(t, o, u, p)
    \/ \E u \in Users, p \in Products : BeginCreate(t, u, p)
    \/ BeginReconcile(t)
    \/ \E u \in Users, p \in Products : BeginForce(t, u, p)
    \/ \E p \in Products : LockProduct(t, p)
    \/ \E s \in Subs : CommitPause(t, s)
    \/ \E s \in Subs : CommitResume(t, s)
    \/ \E s \in Subs : CommitThresholds(t, s)
    \/ \E s \in Subs : CommitDelete(t, s)
    \/ \E s \in Subs, differ \in BOOLEAN : CommitCreate(t, s, differ)
    \/ CommitReconcile(t)
    \/ \E f \in ForceIds, p \in Products : CommitForce(t, f, p)
    \/ Rollback(t)

GatewayNext ==
    \/ \E p \in Products, a \in URLs : EnsureProduct(p, a)
    \/ \E t \in Txs : Transaction(t)

GatewaySpec == GatewayInit /\ [][GatewayNext]_gatewayVars

-----------------------------------------------------------------------------

GatewayTypeOK ==
    /\ url \in [Products -> URLs \cup {NoURL}]
    /\ subs \subseteq Subs
    /\ active \subseteq subs
    /\ paused \subseteq subs
    /\ version \in [Products -> Nat]
    /\ op \in [Txs -> Ops]
    /\ who \in [Txs -> Users \cup {NoUser}]
    /\ want \in [Txs -> SUBSET Products]
    /\ held \in [Txs -> SUBSET Products]
    /\ seen \in [Txs -> [Products -> Nat]]
    /\ snapshots \subseteq Snapshot
    /\ forces \subseteq ForceCommand

(* Once a product has been published, the outbox holds the snapshot of its *)
(* current version and that snapshot says what the subscriptions say: a    *)
(* consumer that reaches the last version monitors exactly what is wanted. *)
CurrentSnapshotIsDesired ==
    \A p \in Products :
        /\ version[p] = 0 => ~Monitored(active, paused, p)
        /\ version[p] > 0 =>
             [product |-> p, version |-> version[p], url |-> url[p],
              active |-> Monitored(active, paused, p)] \in snapshots

(* Versions have no gaps and never branch: no snapshot was swallowed by    *)
(* the ON CONFLICT DO NOTHING of enqueue, and none is ahead of its product. *)
OneSnapshotPerVersion ==
    \A p \in Products :
        /\ {s.version : s \in {r \in snapshots : r.product = p}} = 1 .. version[p]
        /\ \A s, r \in snapshots :
             s.product = p /\ SameKey(s, r) => s = r

(* t waits for a row that v has locked. *)
Waits(t, v) == \E p \in held[v] : v # t /\ NextRow(t, p)

(* Transactions never wait for each other in a circle: single-product      *)
(* mutations and the reconciliation of all products lock in one order.     *)
NoWaitCycle ==
    \A T \in SUBSET Txs :
        T # {} => \E t \in T : \A v \in T : ~Waits(t, v)

(* What is to be monitored changes only in a commit that also moves the    *)
(* product's version, so the Scheduler can tell the change from its past.  *)
ActivityMovesVersion ==
    [][\A p \in Products :
         Monitored(active, paused, p)' # Monitored(active, paused, p)
           => version'[p] > version[p]]_gatewayVars

=============================================================================
