----------------------- MODULE MonitoringSystemProofs -----------------------
(***************************************************************************)
(* Theorems about GatewayMonitoring, SchedulerStore and MonitoringSystem,  *)
(* which is both: each component for itself, and the promise of            *)
(* MonitoringService for the two of them, for any users, products,         *)
(* transactions, addresses, replicas and TaskIDs.                          *)
(***************************************************************************)
EXTENDS MonitoringSystem, FiniteSetTheorems, SequenceTheorems, TLAPS

-----------------------------------------------------------------------------
(***************************************************************************)
(* The Gateway                                                             *)
(*                                                                         *)
(* The invariant rests on one argument.  A product row is locked by one    *)
(* transaction at a time, so the version that transaction has read is the  *)
(* version of the row until it commits (LocksHold).  The version it then   *)
(* publishes is new, so its snapshot is not swallowed, and it is computed  *)
(* from subscriptions that no other transaction can change meanwhile       *)
(* (PublishedInOrder).                                                     *)
(*                                                                         *)
(* Waiting cannot close a circle because a transaction waits only for rows *)
(* above all it holds (LocksInOrder): along a chain of waiting             *)
(* transactions the row waited for grows, and there are finitely many rows. *)
(***************************************************************************)

(* Only products with a row are subscribed to, locked or published. *)
RowsExist ==
    /\ \A s \in subs : url[s[2]] # NoURL
    /\ \A t \in Txs : want[t] \subseteq Existing
    /\ \A p \in Products : version[p] > 0 => url[p] # NoURL

LocksHold ==
    /\ \A t \in Txs : held[t] \subseteq want[t]
    /\ \A t \in Txs : op[t] = "idle" => held[t] = {}
    /\ \A t, v \in Txs : \A p \in held[t] \cap held[v] : t = v
    /\ \A t \in Txs : \A p \in held[t] : seen[t][p] = version[p]

PublishedInOrder ==
    /\ \A s \in snapshots : s.version \in 1 .. version[s.product]
    /\ \A s, r \in snapshots : SameKey(s, r) => s = r
    /\ \A p \in Products : \A v \in 1 .. version[p] :
         \E s \in snapshots : s.product = p /\ s.version = v

(* A forced check is asked for by a user. *)
ForcesHaveUsers == \A t \in Txs : op[t] = "force" => who[t] \in Users

IInv ==
    /\ GatewayTypeOK
    /\ ForcesHaveUsers
    /\ RowsExist
    /\ LocksHold
    /\ PublishedInOrder
    /\ CurrentSnapshotIsDesired

-----------------------------------------------------------------------------

(* An empty database satisfies the invariant. *)
LEMMA InitInv == GatewayInit => IInv
<1> SUFFICES ASSUME GatewayInit PROVE IInv
  OBVIOUS
<1> USE GatewayAssumption DEF GatewayInit
<1>1. GatewayTypeOK
  BY DEF GatewayTypeOK, Ops
<1>2. RowsExist
  BY DEF RowsExist
<1>3. LocksHold
  BY DEF LocksHold
<1>4. PublishedInOrder
  BY DEF PublishedInOrder
<1>5. CurrentSnapshotIsDesired
  <2>1. ASSUME NEW p \in Products
        PROVE  version[p] = 0 /\ ~(version[p] > 0) /\ ~Monitored(active, paused, p)
    BY DEF Monitored
  <2> QED
    BY <2>1 DEF CurrentSnapshotIsDesired
<1>6. ForcesHaveUsers
  BY DEF ForcesHaveUsers
<1> QED
  BY <1>1, <1>2, <1>3, <1>4, <1>5, <1>6 DEF IInv

(* Releasing all its locks, a transaction leaves the others' as they were. *)
LEMMA EndReleases ==
    ASSUME IInv, NEW t \in Txs, End(t)
    PROVE  /\ op' \in [Txs -> Ops]
           /\ who' \in [Txs -> Users \cup {NoUser}]
           /\ want' \in [Txs -> SUBSET Products]
           /\ held' \in [Txs -> SUBSET Products]
           /\ seen' \in [Txs -> [Products -> Nat]]
           /\ op'[t] = "idle" /\ want'[t] = {} /\ held'[t] = {}
           /\ \A v \in Txs \ {t} :
                /\ op'[v] = op[v] /\ who'[v] = who[v] /\ want'[v] = want[v]
                /\ held'[v] = held[v] /\ seen'[v] = seen[v]
  BY DEF IInv, GatewayTypeOK, End, Ops

(* A commit that publishes no version and changes no row. *)
LEMMA SilentEnd ==
    ASSUME IInv, NEW t \in Txs, End(t), UNCHANGED <<rows, version, snapshots>>,
           forces' \subseteq ForceCommand
    PROVE  IInv'
<1> USE DEF rows
<1>1. GatewayTypeOK'
  BY EndReleases DEF IInv, GatewayTypeOK
<1>2. RowsExist'
  BY EndReleases DEF IInv, RowsExist, Existing
<1>3. LocksHold'
  <2>1. \A v \in Txs : \/ v = t /\ held'[v] = {}
                       \/ v # t /\ held'[v] = held[v] /\ want'[v] = want[v]
                                /\ op'[v] = op[v] /\ seen'[v] = seen[v]
    BY EndReleases
  <2>2. \A v \in Txs : held'[v] \subseteq want'[v] /\ (op'[v] = "idle" => held'[v] = {})
    BY <2>1 DEF IInv, LocksHold
  <2>3. \A u, v \in Txs : \A p \in held'[u] \cap held'[v] : u = v
    BY <2>1 DEF IInv, LocksHold
  <2>4. \A v \in Txs : \A p \in held'[v] : seen'[v][p] = version'[p]
    BY <2>1 DEF IInv, LocksHold
  <2> QED
    BY <2>2, <2>3, <2>4 DEF LocksHold
<1>4. PublishedInOrder'
  BY DEF IInv, PublishedInOrder
<1>5. CurrentSnapshotIsDesired'
  BY DEF IInv, CurrentSnapshotIsDesired, Monitored
<1>6. ForcesHaveUsers'
  BY EndReleases DEF IInv, ForcesHaveUsers
<1> QED
  BY <1>1, <1>2, <1>3, <1>4, <1>5, <1>6 DEF IInv

(* The heart of the matter: publishing under the locks adds, for each      *)
(* locked product, the snapshot of its next version and nothing else.      *)
LEMMA PublishUnderLock ==
    ASSUME IInv, NEW t \in Txs, NEW act, NEW pau,
           held[t] = want[t], Publish(t, act, pau)
    PROVE  /\ version' = [p \in Products |->
                            IF p \in want[t] THEN version[p] + 1 ELSE version[p]]
           /\ snapshots' = snapshots \cup
                {[product |-> p, version |-> version[p] + 1, url |-> url[p],
                  active |-> Monitored(act, pau, p)] : p \in want[t]}
<1>1. want[t] \subseteq Products
  BY DEF IInv, GatewayTypeOK
<1>2. \A p \in want[t] : seen[t][p] = version[p]
  BY DEF IInv, LocksHold
<1>3. version \in [Products -> Nat]
  BY DEF IInv, GatewayTypeOK
<1>4. version' = [p \in Products |->
                    IF p \in want[t] THEN version[p] + 1 ELSE version[p]]
  BY <1>2 DEF Publish
<1> DEFINE New == {[product |-> p, version |-> version[p] + 1, url |-> url[p],
                    active |-> Monitored(act, pau, p)] : p \in want[t]}
<1>5. NewSnapshots(t, act, pau) = New
  BY <1>2 DEF NewSnapshots
<1>6. \A s \in New, r \in snapshots : ~SameKey(s, r)
  <2> SUFFICES ASSUME NEW p \in want[t], NEW r \in snapshots,
                      r.product = p, r.version = version[p] + 1
               PROVE  FALSE
    BY DEF SameKey
  <2> QED
    BY <1>1, <1>3 DEF IInv, PublishedInOrder
<1>7. Enqueued(New) = snapshots \cup New
  BY <1>6 DEF Enqueued
<1> QED
  BY <1>4, <1>5, <1>7 DEF Publish

(* A commit that changes rows of subscriptions to the products it has      *)
(* locked and publishes those products.                                    *)
LEMMA PublishingEnd ==
    ASSUME IInv, NEW t \in Txs,
           held[t] = want[t],
           Publish(t, active', paused'), End(t),
           UNCHANGED <<url, forces>>,
           subs' \subseteq Subs,
           active' \subseteq subs', paused' \subseteq subs',
           \A s \in subs' : s \in subs \/ s[2] \in want[t],
           \A p \in Products \ want[t] :
             Monitored(active', paused', p) = Monitored(active, paused, p)
    PROVE  IInv'
<1> DEFINE New == {[product |-> p, version |-> version[p] + 1, url |-> url[p],
                    active |-> Monitored(active', paused', p)] : p \in want[t]}
<1>1. version' = [p \in Products |->
                    IF p \in want[t] THEN version[p] + 1 ELSE version[p]]
  BY PublishUnderLock
<1>2. snapshots' = snapshots \cup New
  BY PublishUnderLock
<1>3. want[t] \subseteq Products /\ want[t] \subseteq Existing
  BY DEF IInv, GatewayTypeOK, RowsExist
<1>4. version \in [Products -> Nat] /\ version' \in [Products -> Nat]
  BY <1>1 DEF IInv, GatewayTypeOK
<1>5. New \subseteq Snapshot
  <2> SUFFICES ASSUME NEW p \in want[t]
               PROVE  [product |-> p, version |-> version[p] + 1, url |-> url[p],
                       active |-> Monitored(active', paused', p)] \in Snapshot
    OBVIOUS
  <2>1. Monitored(active', paused', p) \in BOOLEAN
    BY DEF Monitored
  <2>2. p \in Products /\ version[p] + 1 \in Nat
    BY <1>3, <1>4
  <2>3. url[p] \in URLs
    BY <1>3 DEF IInv, GatewayTypeOK, Existing
  <2> QED
    BY <2>1, <2>2, <2>3 DEF Snapshot
<1>6. GatewayTypeOK'
  BY <1>2, <1>4, <1>5, EndReleases DEF IInv, GatewayTypeOK
<1>7. RowsExist'
  <2>1. \A s \in subs' : url'[s[2]] # NoURL
    BY <1>3 DEF IInv, RowsExist, Existing
  <2>2. \A v \in Txs : want'[v] \subseteq Existing'
    BY EndReleases DEF IInv, RowsExist, Existing
  <2>3. \A p \in Products : version'[p] > 0 => url'[p] # NoURL
    BY <1>1, <1>3, <1>4 DEF IInv, RowsExist, Existing
  <2> QED
    BY <2>1, <2>2, <2>3 DEF RowsExist
<1>8. LocksHold'
  <2>1. \A v \in Txs : \/ v = t /\ held'[v] = {}
                       \/ v # t /\ held'[v] = held[v] /\ want'[v] = want[v]
                                /\ op'[v] = op[v] /\ seen'[v] = seen[v]
    BY EndReleases
  <2>2. \A v \in Txs : held'[v] \subseteq want'[v] /\ (op'[v] = "idle" => held'[v] = {})
    BY <2>1 DEF IInv, LocksHold
  <2>3. \A u, v \in Txs : \A p \in held'[u] \cap held'[v] : u = v
    BY <2>1 DEF IInv, LocksHold
  <2>4. \A v \in Txs : \A p \in held'[v] : seen'[v][p] = version'[p]
    <3> SUFFICES ASSUME NEW v \in Txs, NEW p \in held'[v]
                 PROVE  seen'[v][p] = version'[p]
      OBVIOUS
    <3>1. v # t /\ p \in held[v] /\ seen'[v][p] = seen[v][p]
      BY <2>1
    <3>2. p \notin held[t]
      BY <3>1 DEF IInv, LocksHold
    <3>3. p \in Products /\ seen[v][p] = version[p]
      BY <3>1 DEF IInv, LocksHold, GatewayTypeOK
    <3> QED
      BY <1>1, <3>1, <3>2, <3>3
  <2> QED
    BY <2>2, <2>3, <2>4 DEF LocksHold
<1>9. PublishedInOrder'
  <2>0. \A s \in snapshots : s.product \in Products /\ s.version \in Nat
    BY DEF IInv, GatewayTypeOK, Snapshot
  <2>1. \A s \in snapshots' : s.version \in 1 .. version'[s.product]
    <3>1. \A s \in snapshots : s.version \in 1 .. version'[s.product]
      BY <1>1, <1>4, <2>0 DEF IInv, PublishedInOrder
    <3>2. \A s \in New : s.version \in 1 .. version'[s.product]
      BY <1>1, <1>3, <1>4
    <3> QED
      BY <1>2, <3>1, <3>2
  <2>2. ASSUME NEW s \in snapshots', NEW r \in snapshots', SameKey(s, r)
        PROVE  s = r
    <3>1. \A n \in New, o \in snapshots : ~SameKey(n, o) /\ ~SameKey(o, n)
      BY <1>3, <1>4, <2>0 DEF SameKey, IInv, PublishedInOrder
    <3>2. CASE s \in New /\ r \in New
      BY <3>2, <2>2 DEF SameKey
    <3>3. CASE s \in snapshots /\ r \in snapshots
      BY <3>3, <2>2 DEF IInv, PublishedInOrder
    <3> QED
      BY <1>2, <2>2, <3>1, <3>2, <3>3
  <2>3. ASSUME NEW p \in Products, NEW v \in 1 .. version'[p]
        PROVE  \E s \in snapshots' : s.product = p /\ s.version = v
    <3>1. CASE v \in 1 .. version[p]
      BY <3>1, <1>2 DEF IInv, PublishedInOrder
    <3>2. CASE v \notin 1 .. version[p]
      <4>1. p \in want[t] /\ v = version[p] + 1
        BY <3>2, <1>1, <1>4
      <4>2. [product |-> p, version |-> version[p] + 1, url |-> url[p],
             active |-> Monitored(active', paused', p)] \in New
        BY <4>1
      <4> QED
        BY <4>1, <4>2, <1>2
    <3> QED
      BY <3>1, <3>2
  <2> QED
    BY <2>1, <2>2, <2>3 DEF PublishedInOrder
<1>10. CurrentSnapshotIsDesired'
  <2> SUFFICES ASSUME NEW p \in Products
               PROVE  /\ version'[p] = 0 => ~Monitored(active', paused', p)
                      /\ version'[p] > 0 =>
                           [product |-> p, version |-> version'[p], url |-> url[p],
                            active |-> Monitored(active', paused', p)] \in snapshots'
    BY DEF CurrentSnapshotIsDesired, Monitored
  <2>1. CASE p \in want[t]
    BY <2>1, <1>1, <1>2, <1>4
  <2>2. CASE p \notin want[t]
    <3>1. version'[p] = version[p]
      BY <2>2, <1>1
    <3>2. Monitored(active', paused', p) = Monitored(active, paused, p)
      BY <2>2
    <3> QED
      BY <3>1, <3>2, <1>2 DEF IInv, CurrentSnapshotIsDesired
  <2> QED
    BY <2>1, <2>2
<1>11. ForcesHaveUsers'
  BY EndReleases DEF IInv, ForcesHaveUsers
<1> QED
  BY <1>6, <1>7, <1>8, <1>9, <1>10, <1>11 DEF IInv

(* Adding s to the watchers of a locked product, or taking it from them,   *)
(* is not seen by the products that are not locked.                        *)
LEMMA OtherProducts ==
    ASSUME NEW t \in Txs, NEW s \in Subs, Sub(t, s), NEW act, NEW pau, NEW p,
           p \notin want[t],
           act \in {active, active \cup {s}, active \ {s}},
           pau \in {paused, paused \cup {s}, paused \ {s}}
    PROVE  Monitored(act, pau, p) = Monitored(active, paused, p)
<1>1. \A u \in Users : <<u, p>> # s
  BY DEF Sub
<1>2. \A u \in Users : <<u, p>> \in act \ pau <=> <<u, p>> \in active \ paused
  BY <1>1
<1> QED
  BY <1>2 DEF Monitored

(* A new product has no version, no subscriptions and no snapshots. *)
LEMMA EnsureProductInv ==
    ASSUME IInv, NEW p \in Products, NEW a \in URLs, EnsureProduct(p, a)
    PROVE  IInv'
<1> USE DEF EnsureProduct, txs
<1>1. url' \in [Products -> URLs \cup {NoURL}]
  BY DEF IInv, GatewayTypeOK
<1>2. \A q \in Products \ {p} : url'[q] = url[q]
  BY DEF IInv, GatewayTypeOK
<1>3. url'[p] # NoURL /\ url[p] = NoURL
  BY CatalogAssumption DEF IInv, GatewayTypeOK
<1>4. version[p] = 0
  BY <1>3 DEF IInv, RowsExist, GatewayTypeOK
<1>5. GatewayTypeOK'
  BY <1>1 DEF IInv, GatewayTypeOK
<1>6. RowsExist'
  <2>1. \A s \in subs' : url'[s[2]] # NoURL
    BY <1>2, <1>3 DEF IInv, RowsExist, GatewayTypeOK, Subs
  <2>2. \A v \in Txs : want'[v] \subseteq Existing'
    BY <1>2, <1>3 DEF IInv, RowsExist, Existing
  <2>3. \A q \in Products : version'[q] > 0 => url'[q] # NoURL
    BY <1>2, <1>3 DEF IInv, RowsExist
  <2> QED
    BY <2>1, <2>2, <2>3 DEF RowsExist
<1>7. LocksHold'
  BY DEF IInv, LocksHold
<1>8. PublishedInOrder'
  BY DEF IInv, PublishedInOrder
<1>9. CurrentSnapshotIsDesired'
  <2> SUFFICES ASSUME NEW q \in Products
               PROVE  /\ version[q] = 0 => ~Monitored(active, paused, q)
                      /\ version[q] > 0 =>
                           [product |-> q, version |-> version[q], url |-> url'[q],
                            active |-> Monitored(active, paused, q)] \in snapshots
    BY DEF CurrentSnapshotIsDesired, Monitored
  <2>1. version[q] > 0 => url'[q] = url[q]
    BY <1>2, <1>4
  <2> QED
    BY <2>1 DEF IInv, CurrentSnapshotIsDesired
<1>10. ForcesHaveUsers'
  BY DEF IInv, ForcesHaveUsers
<1> QED
  BY <1>5, <1>6, <1>7, <1>8, <1>9, <1>10 DEF IInv

(* A transaction that begins holds nothing. *)
LEMMA BeginInv ==
    ASSUME IInv, NEW t \in Txs, NEW o \in Ops, NEW u \in Users \cup {NoUser},
           NEW P \in SUBSET Existing, o = "force" => u \in Users,
           Begin(t, o, u, P)
    PROVE  IInv'
<1> USE DEF Begin, rows
<1>1. GatewayTypeOK'
  <2>1. P \in SUBSET Products
    BY DEF Existing
  <2> QED
    BY <2>1 DEF IInv, GatewayTypeOK
<1>2. RowsExist'
  BY DEF IInv, RowsExist, Existing, GatewayTypeOK
<1>3. LocksHold'
  BY DEF IInv, LocksHold, GatewayTypeOK
<1>4. PublishedInOrder'
  BY DEF IInv, PublishedInOrder
<1>5. CurrentSnapshotIsDesired'
  BY DEF IInv, CurrentSnapshotIsDesired, Monitored
<1>6. ForcesHaveUsers'
  BY DEF IInv, ForcesHaveUsers, GatewayTypeOK
<1> QED
  BY <1>1, <1>2, <1>3, <1>4, <1>5, <1>6 DEF IInv

(* A row is locked by nobody else, and the version read is the row's. *)
LEMMA LockProductInv ==
    ASSUME IInv, NEW t \in Txs, NEW p \in Products, LockProduct(t, p)
    PROVE  IInv'
<1> USE DEF LockProduct, NextRow, rows
<1>1. /\ held' \in [Txs -> SUBSET Products]
      /\ seen' \in [Txs -> [Products -> Nat]]
      /\ held'[t] = held[t] \cup {p}
      /\ seen'[t] = [seen[t] EXCEPT ![p] = version[p]]
      /\ \A v \in Txs \ {t} : held'[v] = held[v] /\ seen'[v] = seen[v]
  BY DEF IInv, GatewayTypeOK
<1>2. GatewayTypeOK'
  BY <1>1 DEF IInv, GatewayTypeOK
<1>3. RowsExist'
  BY DEF IInv, RowsExist, Existing
<1>4. LocksHold'
  <2>1. \A v \in Txs : held'[v] \subseteq want'[v] /\ (op'[v] = "idle" => held'[v] = {})
    BY <1>1 DEF IInv, LocksHold
  <2>2. \A u, v \in Txs : \A q \in held'[u] \cap held'[v] : u = v
    BY <1>1 DEF IInv, LocksHold
  <2>3. \A v \in Txs : \A q \in held'[v] : seen'[v][q] = version'[q]
    BY <1>1 DEF IInv, LocksHold, GatewayTypeOK
  <2> QED
    BY <2>1, <2>2, <2>3 DEF LocksHold
<1>5. PublishedInOrder'
  BY DEF IInv, PublishedInOrder
<1>6. CurrentSnapshotIsDesired'
  BY DEF IInv, CurrentSnapshotIsDesired, Monitored
<1>7. ForcesHaveUsers'
  BY DEF IInv, ForcesHaveUsers
<1> QED
  BY <1>2, <1>3, <1>4, <1>5, <1>6, <1>7 DEF IInv

(* Every step of every transaction keeps the invariant. *)
LEMMA TransactionInv ==
    ASSUME IInv, NEW t \in Txs, Transaction(t)
    PROVE  IInv'
<1> USE DEF rows
<1>0. /\ active \subseteq subs /\ paused \subseteq subs /\ subs \subseteq Subs
      /\ \A s \in subs : s[2] \in Existing
  BY DEF IInv, GatewayTypeOK, RowsExist, Existing, Subs
<1>1. ASSUME NEW o \in Mutations, NEW u \in Users, NEW p \in Products,
             BeginMutation(t, o, u, p)
      PROVE  IInv'
  <2>1. {p} \in SUBSET Existing
    BY <1>0, <1>1 DEF BeginMutation
  <2> QED
    BY <1>1, <2>1, BeginInv DEF BeginMutation, Ops
<1>2. ASSUME NEW u \in Users, NEW p \in Products, BeginCreate(t, u, p)
      PROVE  IInv'
  BY <1>2, BeginInv DEF BeginCreate, Ops
<1>3. CASE BeginReconcile(t)
  BY <1>3, BeginInv DEF BeginReconcile, Ops
<1>4. ASSUME NEW p \in Products, LockProduct(t, p)
      PROVE  IInv'
  BY <1>4, LockProductInv
<1>5. ASSUME NEW s \in Subs, CommitPause(t, s)
      PROVE  IInv'
  <2> USE <1>5 DEF CommitPause, Holds
  <2>1. \A p \in Products \ want[t] :
          Monitored(active', paused', p) = Monitored(active, paused, p)
    BY OtherProducts
  <2> QED
    BY <1>0, <2>1, PublishingEnd
<1>6. ASSUME NEW s \in Subs, CommitResume(t, s)
      PROVE  IInv'
  <2> USE <1>6 DEF CommitResume, Holds
  <2>1. \A p \in Products \ want[t] :
          Monitored(active', paused', p) = Monitored(active, paused, p)
    BY OtherProducts
  <2> QED
    BY <1>0, <2>1, PublishingEnd
<1>7. ASSUME NEW s \in Subs, CommitThresholds(t, s)
      PROVE  IInv'
  BY <1>0, <1>7, PublishingEnd DEF CommitThresholds, Holds
<1>8. ASSUME NEW s \in Subs, CommitDelete(t, s)
      PROVE  IInv'
  <2> USE <1>8 DEF CommitDelete, Holds
  <2>1. \A p \in Products \ want[t] :
          Monitored(active', paused', p) = Monitored(active, paused, p)
    BY OtherProducts
  <2> QED
    BY <1>0, <2>1, PublishingEnd
<1>9. ASSUME NEW s \in Subs, NEW differ \in BOOLEAN, CommitCreate(t, s, differ)
      PROVE  IInv'
  <2> USE <1>9 DEF CommitCreate, Holds
  <2>1. CASE s \notin active \/ differ \/ s \in paused
    <3>1. \A p \in Products \ want[t] :
            Monitored(active', paused', p) = Monitored(active, paused, p)
      BY OtherProducts
    <3>2. /\ subs' \subseteq Subs
          /\ active' \subseteq subs' /\ paused' \subseteq subs'
          /\ \A r \in subs' : r \in subs \/ r[2] \in want[t]
      BY <1>0 DEF Sub
    <3> QED
      BY <2>1, <3>1, <3>2, PublishingEnd
  <2>2. CASE ~(s \notin active \/ differ \/ s \in paused)
    <3>1. UNCHANGED <<rows, version, snapshots>> /\ forces' \subseteq ForceCommand
      BY <1>0, <2>2 DEF IInv, GatewayTypeOK
    <3> QED
      BY <3>1, SilentEnd
  <2> QED
    BY <2>1, <2>2
<1>10. CASE CommitReconcile(t)
  BY <1>0, <1>10, PublishingEnd DEF CommitReconcile, Holds
<1>11. CASE Rollback(t)
  <2>1. forces' \subseteq ForceCommand
    BY <1>11 DEF Rollback, IInv, GatewayTypeOK
  <2> QED
    BY <1>11, <2>1, SilentEnd DEF Rollback
<1>12. ASSUME NEW u \in Users, NEW p \in Products, BeginForce(t, u, p)
       PROVE  IInv'
  <2>1. {p} \in SUBSET Existing
    BY <1>0, <1>12 DEF BeginForce
  <2> QED
    BY <1>12, <2>1, BeginInv DEF BeginForce, Ops
<1>13. ASSUME NEW f \in ForceIds, NEW p \in Products, CommitForce(t, f, p)
       PROVE  IInv'
  <2> USE <1>13 DEF CommitForce, Holds
  <2>1. who[t] \in Users
    BY DEF IInv, ForcesHaveUsers
  <2>2. url[p] \in URLs
    BY DEF IInv, RowsExist, Existing, GatewayTypeOK
  <2>3. forces' \subseteq ForceCommand
    BY <2>1, <2>2 DEF IInv, GatewayTypeOK, ForceCommand
  <2> QED
    BY <2>3, SilentEnd
<1> QED
  BY <1>1, <1>2, <1>3, <1>4, <1>5, <1>6, <1>7, <1>8, <1>9, <1>10, <1>11, <1>12,
     <1>13 DEF Transaction

(* Every step of the Gateway keeps the invariant. *)
LEMMA StepInv == IInv /\ [GatewayNext]_gatewayVars => IInv'
<1> SUFFICES ASSUME IInv, [GatewayNext]_gatewayVars PROVE IInv'
  OBVIOUS
<1>1. ASSUME NEW p \in Products, NEW a \in URLs, EnsureProduct(p, a)
      PROVE  IInv'
  BY <1>1, EnsureProductInv
<1>2. ASSUME NEW t \in Txs, Transaction(t)
      PROVE  IInv'
  BY <1>2, TransactionInv
<1>3. CASE UNCHANGED gatewayVars
  <2> USE <1>3 DEF gatewayVars, rows, txs, IInv
  <2>1. GatewayTypeOK'
    BY DEF GatewayTypeOK
  <2>2. RowsExist' /\ LocksHold' /\ ForcesHaveUsers'
    BY DEF RowsExist, LocksHold, Existing, ForcesHaveUsers
  <2>3. PublishedInOrder' /\ CurrentSnapshotIsDesired'
    BY DEF PublishedInOrder, CurrentSnapshotIsDesired, Monitored
  <2> QED
    BY <2>1, <2>2, <2>3
<1> QED
  BY <1>1, <1>2, <1>3 DEF GatewayNext

(* The invariant holds in every reachable state: what a transaction holds  *)
(* it has read (lockProduct), and what it publishes is new (enqueue).      *)
THEOREM InductiveInvariant == GatewaySpec => []IInv
  BY InitInv, StepInv, PTL DEF GatewaySpec

-----------------------------------------------------------------------------

(* The state of the Gateway is well formed: subscriptions are unique per   *)
(* user and product, flags belong to rows, events carry complete data.     *)
THEOREM TypeCorrect == GatewaySpec => []GatewayTypeOK
<1>1. IInv => GatewayTypeOK
  BY DEF IInv
<1> QED
  BY <1>1, InductiveInvariant, PTL

(* Whatever transactions interleave, the snapshot of a product's current   *)
(* version says what its subscriptions say (mutateSubscription,            *)
(* CreateSubscription, ReconcileMonitoring).                               *)
THEOREM CurrentSnapshot == GatewaySpec => []CurrentSnapshotIsDesired
<1>1. IInv => CurrentSnapshotIsDesired
  BY DEF IInv
<1> QED
  BY <1>1, InductiveInvariant, PTL

(* No two commits publish one version of a product and none is skipped, so *)
(* the ON CONFLICT DO NOTHING of enqueue never loses a snapshot.           *)
THEOREM VersionsAreSound == GatewaySpec => []OneSnapshotPerVersion
<1>1. IInv => OneSnapshotPerVersion
  <2> SUFFICES ASSUME IInv, NEW p \in Products
               PROVE  /\ {s.version : s \in {r \in snapshots : r.product = p}}
                           = 1 .. version[p]
                      /\ \A s, r \in snapshots :
                           s.product = p /\ SameKey(s, r) => s = r
    BY DEF OneSnapshotPerVersion
  <2>1. \A v \in 1 .. version[p] : \E s \in snapshots : s.product = p /\ s.version = v
    BY DEF IInv, PublishedInOrder
  <2>2. \A s \in snapshots : s.version \in 1 .. version[s.product]
    BY DEF IInv, PublishedInOrder
  <2>3. \A s, r \in snapshots : SameKey(s, r) => s = r
    BY DEF IInv, PublishedInOrder
  <2> QED
    BY <2>1, <2>2, <2>3
<1> QED
  BY <1>1, InductiveInvariant, PTL

(* A commit under the locks moves the version of each product it has       *)
(* locked and changes what is monitored of no other.                       *)
LEMMA PublishMovesVersion ==
    ASSUME IInv, NEW t \in Txs, held[t] = want[t],
           Publish(t, active', paused'),
           \A p \in Products \ want[t] :
             Monitored(active', paused', p) = Monitored(active, paused, p),
           NEW p \in Products,
           Monitored(active', paused', p) # Monitored(active, paused, p)
    PROVE  version'[p] > version[p]
<1>1. version' = [q \in Products |->
                    IF q \in want[t] THEN version[q] + 1 ELSE version[q]]
  BY PublishUnderLock
<1>2. version[p] \in Nat
  BY DEF IInv, GatewayTypeOK
<1> QED
  BY <1>1, <1>2

(* Every step that changes whether a product is watched moves its version. *)
LEMMA StepMovesVersion ==
    ASSUME IInv, [GatewayNext]_gatewayVars, NEW p \in Products,
           Monitored(active', paused', p) # Monitored(active, paused, p)
    PROVE  version'[p] > version[p]
<1>1. \A t \in Txs, s \in Subs : \A q \in Products \ want[t] :
        Sub(t, s) =>
          /\ Monitored(active, paused \cup {s}, q) = Monitored(active, paused, q)
          /\ Monitored(active, paused \ {s}, q) = Monitored(active, paused, q)
          /\ Monitored(active \ {s}, paused, q) = Monitored(active, paused, q)
          /\ Monitored(active \cup {s}, paused \ {s}, q)
               = Monitored(active, paused, q)
  BY OtherProducts
<1>2. active' # active \/ paused' # paused
  BY DEF Monitored
<1>3. ASSUME NEW t \in Txs, NEW s \in Subs, CommitPause(t, s)
      PROVE  version'[p] > version[p]
  BY <1>1, <1>3, PublishMovesVersion DEF CommitPause, Holds
<1>4. ASSUME NEW t \in Txs, NEW s \in Subs, CommitResume(t, s)
      PROVE  version'[p] > version[p]
  BY <1>1, <1>4, PublishMovesVersion DEF CommitResume, Holds
<1>5. ASSUME NEW t \in Txs, NEW s \in Subs, CommitDelete(t, s)
      PROVE  version'[p] > version[p]
  BY <1>1, <1>5, PublishMovesVersion DEF CommitDelete, Holds
<1>6. ASSUME NEW t \in Txs, NEW s \in Subs, NEW differ \in BOOLEAN,
             CommitCreate(t, s, differ)
      PROVE  version'[p] > version[p]
  <2> USE <1>6 DEF CommitCreate, Holds
  <2>1. CASE s \notin active \/ differ \/ s \in paused
    BY <1>1, <2>1, PublishMovesVersion
  <2>2. CASE ~(s \notin active \/ differ \/ s \in paused)
    BY <1>2, <2>2
  <2> QED
    BY <2>1, <2>2
<1>7. ASSUME NEW t \in Txs, Transaction(t)
      PROVE  version'[p] > version[p]
  <2>1. CASE \E s \in Subs : CommitPause(t, s) \/ CommitResume(t, s) \/ CommitDelete(t, s)
    BY <2>1, <1>3, <1>4, <1>5
  <2>2. CASE \E s \in Subs, differ \in BOOLEAN : CommitCreate(t, s, differ)
    BY <2>2, <1>6
  <2>3. CASE \/ \E o \in Mutations, u \in Users, q \in Products :
                  BeginMutation(t, o, u, q)
             \/ \E u \in Users, q \in Products : BeginCreate(t, u, q)
             \/ BeginReconcile(t)
             \/ \E u \in Users, q \in Products : BeginForce(t, u, q)
    BY <2>3, <1>2
       DEF BeginMutation, BeginCreate, BeginReconcile, BeginForce, Begin, rows
  <2>4. CASE \E q \in Products : LockProduct(t, q)
    BY <2>4, <1>2 DEF LockProduct, rows
  <2>5. CASE \/ \E s \in Subs : CommitThresholds(t, s)
             \/ CommitReconcile(t) \/ Rollback(t)
             \/ \E f \in ForceIds, q \in Products : CommitForce(t, f, q)
    BY <2>5, <1>2
       DEF CommitThresholds, CommitReconcile, Rollback, CommitForce, rows
  <2> QED
    BY <1>7, <2>1, <2>2, <2>3, <2>4, <2>5 DEF Transaction
<1> QED
  BY <1>2, <1>7 DEF GatewayNext, gatewayVars, rows, EnsureProduct

(* No commit changes what is to be monitored under an old version, so a    *)
(* Scheduler that orders snapshots by version never misses the change.     *)
THEOREM ChangesAreVersioned == GatewaySpec => ActivityMovesVersion
<1>1. IInv /\ [GatewayNext]_gatewayVars =>
        [\A p \in Products :
           Monitored(active, paused, p)' # Monitored(active, paused, p)
             => version'[p] > version[p]]_gatewayVars
  BY StepMovesVersion DEF Monitored
<1> QED
  BY <1>1, InductiveInvariant, PTL DEF GatewaySpec, ActivityMovesVersion

-----------------------------------------------------------------------------

(* SELECT .. ORDER BY id FOR UPDATE: what a transaction still has to lock  *)
(* lies above what it has locked.                                          *)
LocksInOrder ==
    \A t \in Txs : \A h \in held[t] : \A q \in want[t] \ held[t] : h < q

(* Every step keeps the order: a transaction begins without locks, takes   *)
(* the smallest row it lacks, and ends by releasing them all.              *)
LEMMA StepKeepsOrder ==
    ASSUME IInv, LocksInOrder, [GatewayNext]_gatewayVars
    PROVE  LocksInOrder'
<1> USE DEF LocksInOrder
<1>0. held \in [Txs -> SUBSET Products] /\ want \in [Txs -> SUBSET Products]
  BY DEF IInv, GatewayTypeOK
<1>1. ASSUME NEW t \in Txs, NEW o, NEW u, NEW P, Begin(t, o, u, P)
      PROVE  LocksInOrder'
  <2>1. held' = held /\ held[t] = {} /\ \A v \in Txs \ {t} : want'[v] = want[v]
    BY <1>0, <1>1 DEF Begin, IInv, LocksHold
  <2> QED
    BY <2>1
<1>2. ASSUME NEW t \in Txs, NEW p \in Products, LockProduct(t, p)
      PROVE  LocksInOrder'
  <2>1. want' = want /\ held'[t] = held[t] \cup {p}
    BY <1>0, <1>2 DEF LockProduct
  <2>2. \A v \in Txs \ {t} : held'[v] = held[v]
    BY <1>0, <1>2 DEF LockProduct
  <2>3. \A q \in want[t] \ held'[t] : p < q
    BY <1>0, <1>2, <2>1, GatewayAssumption DEF LockProduct, NextRow
  <2> QED
    BY <2>1, <2>2, <2>3
<1>3. ASSUME NEW t \in Txs, End(t)
      PROVE  LocksInOrder'
  BY <1>0, <1>3 DEF End
<1>4. ASSUME UNCHANGED <<want, held>>
      PROVE  LocksInOrder'
  BY <1>4
<1>5. ASSUME NEW t \in Txs, Transaction(t)
      PROVE  LocksInOrder'
  BY <1>1, <1>2, <1>3, <1>5
     DEF Transaction, BeginMutation, BeginCreate, BeginReconcile, BeginForce,
         CommitPause, CommitResume, CommitThresholds, CommitDelete,
         CommitCreate, CommitReconcile, CommitForce, Rollback
<1> QED
  BY <1>4, <1>5 DEF GatewayNext, EnsureProduct, gatewayVars, txs

Beyond(p) == {q \in Products : p < q}

(* Some row of a non-empty set of products has no row of the set above it. *)
LEMMA HasLastRow ==
    ASSUME NEW P \in SUBSET Products, P # {}
    PROVE  \E p \in P : \A q \in P : ~(p < q)
<1> DEFINE R == StrictSubsetOrdering(Products)
           F == {Beyond(p) : p \in P}
<1>1. FiniteSubsetsOf(Products) = SUBSET Products
  BY GatewayAssumption, FS_FiniteSubsetsOfFinite
<1>2. IsWellFoundedOn(R, SUBSET Products)
  BY <1>1, FS_StrictSubsetOrderingWellFounded
<1>3. F \subseteq SUBSET Products /\ F # {}
  BY DEF Beyond
<1>4. PICK x \in F : \A y \in F : <<y, x>> \notin R
  <2> HIDE DEF F, R
  <2> QED
    BY <1>2, <1>3, WFMin
<1>5. PICK p \in P : x = Beyond(p)
  OBVIOUS
<1>6. ASSUME NEW q \in P, p < q
      PROVE  FALSE
  <2>1. Beyond(q) \subseteq Beyond(p) /\ q \in Beyond(p) /\ q \notin Beyond(q)
    <3> HIDE DEF F, R
    <3>1. p \in Nat /\ q \in Nat /\ \A r \in Products : r \in Nat
      BY GatewayAssumption
    <3>2. \A r \in Products : q < r => p < r
      BY <1>6, <3>1
    <3>3. Beyond(q) \subseteq Beyond(p)
      BY <3>2 DEF Beyond
    <3>4. q \in Beyond(p)
      BY <1>6 DEF Beyond
    <3>5. ~(q < q)
      BY <3>1
    <3>6. q \notin Beyond(q)
      BY <3>5 DEF Beyond
    <3> QED
      BY <3>3, <3>4, <3>6
  <2>2. <<Beyond(q), Beyond(p)>> \in R
    BY <2>1 DEF StrictSubsetOrdering, Beyond
  <2> QED
    BY <1>4, <1>5, <2>2
<1> QED
  BY <1>6

(* Locking in order excludes a circle of waiting transactions. *)
LEMMA OrderExcludesCycles ==
    ASSUME IInv, LocksInOrder
    PROVE  NoWaitCycle
<1> SUFFICES ASSUME NEW T \in SUBSET Txs, T # {},
                    \A t \in T : \E v \in T : Waits(t, v)
             PROVE  FALSE
  BY DEF NoWaitCycle
<1>0. want \in [Txs -> SUBSET Products]
  BY DEF IInv, GatewayTypeOK
<1> DEFINE P == {p \in Products : \E t \in T : NextRow(t, p)}
<1>1. \A t \in T : \E p \in P, v \in T : NextRow(t, p) /\ p \in held[v]
  BY <1>0 DEF Waits, NextRow
<1>2. PICK p \in P : \A q \in P : ~(p < q)
  BY <1>1, HasLastRow
<1>3. PICK t \in T : NextRow(t, p)
  OBVIOUS
<1>4. PICK v \in T : p \in held[v]
  <2>1. PICK r \in P, v \in T : NextRow(t, r) /\ r \in held[v]
    BY <1>1
  <2>2. r <= p /\ p <= r
    BY <1>3, <2>1 DEF NextRow
  <2> QED
    BY <2>1, <2>2, GatewayAssumption
<1>5. PICK q \in P : NextRow(v, q)
  BY <1>1
<1>6. p < q
  BY <1>4, <1>5 DEF LocksInOrder, NextRow
<1> QED
  BY <1>2, <1>6

(* Transactions never wait for each other in a circle, however many rows   *)
(* each locks and whichever transactions run (lockProduct, the ordered     *)
(* SELECT .. FOR UPDATE of ReconcileMonitoring).                           *)
THEOREM LocksAreOrdered == GatewaySpec => []NoWaitCycle
<1>1. GatewayInit => LocksInOrder
  BY DEF GatewayInit, LocksInOrder
<1>2. GatewaySpec => []LocksInOrder
  BY <1>1, StepKeepsOrder, InductiveInvariant, PTL DEF GatewaySpec
<1>3. IInv /\ LocksInOrder => NoWaitCycle
  BY OrderExcludesCycles
<1> QED
  BY <1>2, <1>3, InductiveInvariant, PTL

-----------------------------------------------------------------------------
(***************************************************************************)
(* The Scheduler, under a queue that delivers anything in any order        *)
(***************************************************************************)

AnySnapshot == [product : Products, version : Nat, url : URLs, active : BOOLEAN]
AnyForce == [task : ForceIds, product : Products, url : URLs]

SchedulerNext ==
    \/ \E c \in AnySnapshot : ApplySnapshot(c)
    \/ \E c \in AnyForce : EnqueueForce(c)
    \/ Tick

SchedulerSpec == SchedulerInit /\ [][SchedulerNext]_schedulerVars

(* No two open transactions have locked one row. *)
BatchesDisjoint ==
    \A v, w \in Replicas : \A p \in batch[v] : p \in batch[w] => v = w

(* A product without a row has no version to be compared with. *)
NoRowNoVersion ==
    \A p \in Products : schedule[p].url = NoURL => schedule[p].version = 0

SchedulerInv ==
    /\ SchedulerTypeOK
    /\ BatchesDisjoint
    /\ NoRowNoVersion
    /\ OneTaskPerInterval
    /\ AddressesAreUnique

-----------------------------------------------------------------------------

(* Nothing is active at first, and no batch is in work. *)
LEMMA SchedulerInitInv == SchedulerInit => SchedulerInv
BY DEF SchedulerInit, SchedulerInv, SchedulerTypeOK, Row, NoRow, BatchesDisjoint,
       NoRowNoVersion, OneTaskPerInterval, AddressesAreUnique

(* What one row says; the fields in terms of the row that changes. *)
LEMMA RowType ==
    ASSUME SchedulerTypeOK, NEW p \in Products
    PROVE  /\ schedule[p].url \in URLs \cup {NoURL}
           /\ schedule[p].version \in Nat
           /\ schedule[p].active \in BOOLEAN
BY DEF SchedulerTypeOK, Row

(* An accepted snapshot: the row it writes is unlocked, and due when new.  *)
LEMMA ApplyInv ==
    ASSUME SchedulerInv, CatalogAssumption, NEW c \in AnySnapshot, ApplySnapshot(c)
    PROVE  SchedulerInv'
<1>1. /\ c.product \in Products /\ c.url \in URLs /\ c.version \in Nat /\ c.active \in BOOLEAN
      /\ c.url # NoURL
  BY DEF AnySnapshot, CatalogAssumption
<1> DEFINE new == [url |-> c.url, version |-> c.version, active |-> c.active]
<1>2. /\ schedule' = [schedule EXCEPT ![c.product] = new]
      /\ UNCHANGED <<batch, periodic, processed, forced>>
  BY DEF ApplySnapshot
<1>3. new \in Row /\ new.url = c.url /\ new.version = c.version
  BY <1>1 DEF Row
<1> HIDE DEF new
<1>4. /\ schedule' \in [Products -> Row]
      /\ schedule'[c.product] = new
      /\ \A p \in Products \ {c.product} : schedule'[p] = schedule[p]
  BY <1>1, <1>2, <1>3 DEF SchedulerInv, SchedulerTypeOK
<1>5. /\ due \subseteq due' /\ due' \subseteq due \cup {c.product}
      /\ elapsed' \in [Products -> Nat]
  BY <1>1 DEF ApplySnapshot, SchedulerInv, SchedulerTypeOK
<1>6. SchedulerTypeOK'
  <2>1. due' \subseteq {p \in Products : schedule'[p].url # NoURL}
    BY <1>1, <1>3, <1>4, <1>5 DEF SchedulerInv, SchedulerTypeOK
  <2>2. batch' \in [Replicas -> SUBSET due']
    BY <1>2, <1>5 DEF SchedulerInv, SchedulerTypeOK
  <2> QED
    BY <1>2, <1>4, <1>5, <2>1, <2>2 DEF SchedulerInv, SchedulerTypeOK
<1>7. BatchesDisjoint'
  BY <1>2 DEF SchedulerInv, BatchesDisjoint
<1>8. NoRowNoVersion'
  BY <1>1, <1>3, <1>4 DEF SchedulerInv, NoRowNoVersion
<1>9. OneTaskPerInterval'
  <2>1. CASE schedule[c.product].url = NoURL
    <3>1. c.product \notin due
      BY <2>1 DEF SchedulerInv, SchedulerTypeOK
    <3>2. due' = due \cup {c.product} /\ elapsed' = [elapsed EXCEPT ![c.product] = @ + 1]
      BY <2>1 DEF ApplySnapshot
    <3> QED
      BY <1>1, <1>2, <3>1, <3>2 DEF SchedulerInv, SchedulerTypeOK, OneTaskPerInterval
  <2>2. CASE schedule[c.product].url # NoURL
    <3>1. UNCHANGED <<due, elapsed>>
      BY <2>2 DEF ApplySnapshot
    <3> QED
      BY <1>2, <3>1 DEF SchedulerInv, OneTaskPerInterval
  <2> QED
    BY <2>1, <2>2
<1>10. AddressesAreUnique'
  <2>1. \A q \in Products \ {c.product} : schedule[q].url # c.url
    BY DEF ApplySnapshot, Accepted, SameIdentity
  <2> QED
    BY <1>1, <1>3, <1>4, <2>1 DEF SchedulerInv, AddressesAreUnique
<1> QED
  BY <1>6, <1>7, <1>8, <1>9, <1>10 DEF SchedulerInv

(* A forced check writes no row of the schedule. *)
LEMMA ForceInv ==
    ASSUME SchedulerInv, NEW c \in AnyForce, EnqueueForce(c)
    PROVE  SchedulerInv'
<1>1. /\ c.task \in ForceIds
      /\ processed' = processed \cup {c.task} /\ forced' = [forced EXCEPT ![c.task] = @ + 1]
      /\ UNCHANGED <<schedule, due, batch, elapsed, periodic>>
  BY DEF AnyForce, EnqueueForce
<1>2. SchedulerTypeOK'
  BY <1>1 DEF SchedulerInv, SchedulerTypeOK
<1> QED
  BY <1>1, <1>2 DEF SchedulerInv, BatchesDisjoint, NoRowNoVersion,
                    OneTaskPerInterval, AddressesAreUnique

(* SKIP LOCKED keeps the batches apart. *)
LEMMA SelectInv ==
    ASSUME SchedulerInv, NEW w \in Replicas, NEW S \in SUBSET Products, SelectDue(w, S)
    PROVE  SchedulerInv'
<1>1. /\ S \subseteq due /\ batch' = [batch EXCEPT ![w] = S]
      /\ \A v \in Replicas : \A p \in S : p \notin batch[v]
      /\ UNCHANGED <<schedule, due, elapsed, periodic, processed, forced>>
  BY DEF SelectDue, Checkable, SkipLocked, Unlocked
<1>2. SchedulerTypeOK'
  BY <1>1 DEF SchedulerInv, SchedulerTypeOK
<1>3. BatchesDisjoint'
  BY <1>1 DEF SchedulerInv, SchedulerTypeOK, BatchesDisjoint
<1> QED
  BY <1>1, <1>2, <1>3 DEF SchedulerInv, NoRowNoVersion, OneTaskPerInterval, AddressesAreUnique

(* The rows of a batch are due, and leave with one task each; no other     *)
(* batch has them.                                                         *)
LEMMA CommitInv ==
    ASSUME SchedulerInv, NEW w \in Replicas, CommitDue(w)
    PROVE  SchedulerInv'
<1>1. /\ periodic' = [p \in Products |->
                        IF p \in batch[w] THEN periodic[p] + 1 ELSE periodic[p]]
      /\ due' = due \ batch[w] /\ batch' = [batch EXCEPT ![w] = {}]
      /\ UNCHANGED <<schedule, elapsed, processed, forced>>
      /\ batch[w] \subseteq due
  BY DEF CommitDue, SchedulerInv, SchedulerTypeOK
<1>2. batch' \in [Replicas -> SUBSET due']
  BY <1>1 DEF SchedulerInv, SchedulerTypeOK, BatchesDisjoint
<1>3. periodic' \in [Products -> Nat]
  BY <1>1 DEF SchedulerInv, SchedulerTypeOK
<1>4. SchedulerTypeOK'
  BY <1>1, <1>2, <1>3 DEF SchedulerInv, SchedulerTypeOK
<1>5. BatchesDisjoint'
  BY <1>1 DEF SchedulerInv, SchedulerTypeOK, BatchesDisjoint
<1>6. OneTaskPerInterval'
  BY <1>1 DEF SchedulerInv, SchedulerTypeOK, OneTaskPerInterval
<1> QED
  BY <1>1, <1>4, <1>5, <1>6 DEF SchedulerInv, NoRowNoVersion, AddressesAreUnique

(* A batch that is given up leaves its rows due. *)
LEMMA AbortInv ==
    ASSUME SchedulerInv, NEW w \in Replicas, AbortDue(w)
    PROVE  SchedulerInv'
<1>1. /\ batch' = [batch EXCEPT ![w] = {}]
      /\ UNCHANGED <<schedule, due, elapsed, periodic, processed, forced>>
  BY DEF AbortDue
<1>2. SchedulerTypeOK'
  BY <1>1 DEF SchedulerInv, SchedulerTypeOK
<1>3. BatchesDisjoint'
  BY <1>1 DEF SchedulerInv, SchedulerTypeOK, BatchesDisjoint
<1> QED
  BY <1>1, <1>2, <1>3 DEF SchedulerInv, NoRowNoVersion, OneTaskPerInterval, AddressesAreUnique

(* Only a product that is not due becomes due. *)
LEMMA IntervalInv ==
    ASSUME SchedulerInv, NEW p \in Products, CheckInterval(p)
    PROVE  SchedulerInv'
<1>1. /\ schedule[p].url # NoURL /\ p \notin due
      /\ due' = due \cup {p} /\ elapsed' = [elapsed EXCEPT ![p] = @ + 1]
      /\ UNCHANGED <<schedule, batch, periodic, processed, forced>>
  BY DEF CheckInterval
<1>2. SchedulerTypeOK'
  <2>1. batch' \in [Replicas -> SUBSET due']
    BY <1>1 DEF SchedulerInv, SchedulerTypeOK
  <2>2. elapsed' \in [Products -> Nat]
    BY <1>1 DEF SchedulerInv, SchedulerTypeOK
  <2> QED
    BY <1>1, <2>1, <2>2 DEF SchedulerInv, SchedulerTypeOK
<1>3. OneTaskPerInterval'
  BY <1>1 DEF SchedulerInv, SchedulerTypeOK, OneTaskPerInterval
<1> QED
  BY <1>1, <1>2, <1>3 DEF SchedulerInv, BatchesDisjoint, NoRowNoVersion, AddressesAreUnique

(* Time brings products nearer to their next check and ends leases. *)
LEMMA TickInv == SchedulerInv /\ Tick => SchedulerInv'
BY SelectInv, CommitInv, AbortInv, IntervalInv DEF Tick

(* SchedulerInv is inductive, whatever snapshots and forced checks arrive. *)
LEMMA SchedulerStepInv ==
    ASSUME SchedulerInv, CatalogAssumption, [SchedulerNext]_schedulerVars
    PROVE  SchedulerInv'
<1>1. CASE UNCHANGED schedulerVars
  BY <1>1 DEF schedulerVars, SchedulerInv, SchedulerTypeOK, BatchesDisjoint,
              NoRowNoVersion, OneTaskPerInterval, AddressesAreUnique
<1>2. CASE SchedulerNext
  BY <1>2, ApplyInv, ForceInv, TickInv DEF SchedulerNext
<1> QED
  BY <1>1, <1>2

(* A row is written by a snapshot that has its address and a newer version. *)
LEMMA SchedulerForward ==
    ASSUME SchedulerInv, CatalogAssumption, [SchedulerNext]_schedulerVars
    PROVE  [\A p \in Products :
              LET old == schedule[p]
                  new == schedule'[p]
              IN /\ old.url # NoURL => new.url = old.url
                 /\ new.version >= old.version
                 /\ new.version = old.version => new.active = old.active]_schedulerVars
<1> SUFFICES ASSUME NEW p \in Products
             PROVE  /\ schedule[p].url # NoURL => schedule'[p].url = schedule[p].url
                    /\ schedule'[p].version >= schedule[p].version
                    /\ schedule'[p].version = schedule[p].version
                         => schedule'[p].active = schedule[p].active
  OBVIOUS
<1>1. schedule[p].version \in Nat
  BY RowType DEF SchedulerInv
<1>2. CASE schedule' = schedule
  BY <1>1, <1>2
<1>3. ASSUME NEW c \in AnySnapshot, ApplySnapshot(c)
      PROVE  /\ schedule[p].url # NoURL => schedule'[p].url = schedule[p].url
             /\ schedule'[p].version >= schedule[p].version
             /\ schedule'[p].version = schedule[p].version
                  => schedule'[p].active = schedule[p].active
  <2>1. c.product \in Products /\ c.version \in Nat
    BY DEF AnySnapshot
  <2> DEFINE row == [url |-> c.url, version |-> c.version, active |-> c.active]
  <2>2. schedule' = [schedule EXCEPT ![c.product] = row]
    BY <1>3 DEF ApplySnapshot
  <2>3. row.url = c.url /\ row.version = c.version
    OBVIOUS
  <2> HIDE DEF row
  <2>4. CASE p # c.product
    BY <1>1, <2>1, <2>2, <2>4 DEF SchedulerInv, SchedulerTypeOK
  <2>5. CASE p = c.product
    <3>1. schedule'[p] = row
      BY <2>1, <2>2, <2>5 DEF SchedulerInv, SchedulerTypeOK
    <3>2. schedule[p].url \in {NoURL, c.url} /\ c.version > 0
      BY <1>3, <2>5 DEF ApplySnapshot, Accepted, SameIdentity
    <3>3. schedule[p].version < c.version
      BY <1>3, <2>5, <3>2 DEF ApplySnapshot, Newer, SchedulerInv, NoRowNoVersion
    <3> QED
      BY <1>1, <2>1, <2>3, <3>1, <3>2, <3>3
  <2> QED
    BY <2>4, <2>5
<1>4. CASE UNCHANGED schedulerVars
  BY <1>2, <1>4 DEF schedulerVars
<1>5. CASE \E c \in AnyForce : EnqueueForce(c)
  BY <1>2, <1>5 DEF EnqueueForce
<1>6. CASE Tick
  BY <1>2, <1>6 DEF Tick, SelectDue, CommitDue, AbortDue, CheckInterval
<1> QED
  BY <1>3, <1>4, <1>5, <1>6 DEF SchedulerNext

-----------------------------------------------------------------------------

(* The inductive invariant holds for any addresses, replicas and TaskIDs.  *)
THEOREM SchedulerInvariant == SchedulerSpec => []SchedulerInv
<1>1. SchedulerInv /\ [SchedulerNext]_schedulerVars => SchedulerInv'
  BY SchedulerStepInv, CatalogAssumption
<1> QED
  BY <1>1, SchedulerInitInv, PTL DEF SchedulerSpec

(* However many replicas tick, and die, every check that came is still due *)
(* or got one scraper task.                                                *)
THEOREM OneTask == SchedulerSpec => []OneTaskPerInterval
<1>1. SchedulerInv => OneTaskPerInterval
  BY DEF SchedulerInv
<1> QED
  BY <1>1, SchedulerInvariant, PTL

(* No two rows of the schedule share an address. *)
THEOREM UniqueAddresses == SchedulerSpec => []AddressesAreUnique
<1>1. SchedulerInv => AddressesAreUnique
  BY DEF SchedulerInv
<1> QED
  BY <1>1, SchedulerInvariant, PTL

(* Rows keep their address and move to newer versions only. *)
THEOREM MovesForward == SchedulerSpec => ScheduleMovesForward
<1>1. SchedulerInv /\ [SchedulerNext]_schedulerVars =>
        [\A p \in Products :
           LET old == schedule[p]
               new == schedule'[p]
           IN /\ old.url # NoURL => new.url = old.url
              /\ new.version >= old.version
              /\ new.version = old.version => new.active = old.active]_schedulerVars
  BY SchedulerForward, CatalogAssumption
<1> QED
  BY <1>1, SchedulerInvariant, PTL DEF SchedulerSpec, ScheduleMovesForward

-----------------------------------------------------------------------------
(***************************************************************************)
(* Both together                                                           *)
(*                                                                         *)
(* The Gateway's part rests on its own invariant: a step publishes a next  *)
(* version for some products and changes what is wanted of no other.  The  *)
(* Scheduler's rests on one fact: a row is no row, or a snapshot that was  *)
(* published (RowsAreSnapshots), and a newer snapshot is a later point of  *)
(* the history.                                                            *)
(***************************************************************************)

(* Two products never have one address, and events keep their product's.   *)
AddressesAgree ==
    /\ \A p, q \in Products : url[p] = url[q] /\ url[p] # NoURL => p = q
    /\ \A s \in snapshots : s.url = url[s.product]
    /\ \A c \in forces : c.url = url[c.product]

Writes(s) == [url |-> s.url, version |-> s.version, active |-> s.active]

(* What the Scheduler knows of a product, the Gateway once told it. *)
RowsAreSnapshots ==
    /\ schedule \in [Products -> Row]
    /\ \A p \in Products :
         \/ schedule[p] = NoRow
         \/ \E s \in snapshots : s.product = p /\ schedule[p] = Writes(s)

(* Rows in an open EnqueueDue are locked, so they are still active. *)
LockedAreActive ==
    /\ batch \in [Replicas -> SUBSET Products]
    /\ \A w \in Replicas : \A p \in batch[w] : schedule[p].active

SystemInv ==
    /\ IInv
    /\ AddressesAgree
    /\ RowsAreSnapshots
    /\ LockedAreActive
    /\ periodic \in [Products -> Nat]

-----------------------------------------------------------------------------
(* Steps of the Gateway.                                                   *)

(* A step publishes the next version of some products, or of none, and     *)
(* every new snapshot has its product's address.                           *)
Publishes(S) ==
    /\ version' = [p \in Products |-> IF p \in S THEN version[p] + 1 ELSE version[p]]
    /\ snapshots \subseteq snapshots'
    /\ S # {} => url' = url
    /\ \A s \in snapshots' : s \in snapshots \/ s.url = url[s.product]

(* What publish() writes for the products a transaction holds. *)
LEMMA PublishPublishes ==
    ASSUME IInv, NEW t \in Txs, NEW act, NEW pau,
           held[t] = want[t], Publish(t, act, pau), url' = url
    PROVE  \E S \in SUBSET Products : Publishes(S)
<1>1. want[t] \in SUBSET Products
  BY DEF IInv, GatewayTypeOK
<1>2. /\ version' = [p \in Products |->
                       IF p \in want[t] THEN version[p] + 1 ELSE version[p]]
      /\ snapshots' = snapshots \cup
           {[product |-> p, version |-> version[p] + 1, url |-> url[p],
             active |-> Monitored(act, pau, p)] : p \in want[t]}
  BY PublishUnderLock
<1>3. Publishes(want[t])
  BY <1>2 DEF Publishes
<1> QED
  BY <1>1, <1>3

(* A step that writes no snapshot publishes for no product. *)
LEMMA QuietPublishes ==
    ASSUME IInv, UNCHANGED <<version, snapshots>>
    PROVE  \E S \in SUBSET Products : Publishes(S)
<1>1. Publishes({})
  BY DEF Publishes, IInv, GatewayTypeOK
<1> QED
  BY <1>1

(* Every step of the Gateway is of that form. *)
LEMMA GatewayPublishes ==
    ASSUME IInv, [GatewayNext]_gatewayVars
    PROVE  \E S \in SUBSET Products : Publishes(S)
<1>1. CASE UNCHANGED gatewayVars
  BY <1>1, QuietPublishes DEF gatewayVars
<1>2. ASSUME NEW p \in Products, NEW a \in URLs, EnsureProduct(p, a)
      PROVE  \E S \in SUBSET Products : Publishes(S)
  BY <1>2, QuietPublishes DEF EnsureProduct
<1>3. ASSUME NEW t \in Txs, Transaction(t)
      PROVE  \E S \in SUBSET Products : Publishes(S)
  <2>1. CASE \E s \in Subs : \/ CommitPause(t, s) \/ CommitResume(t, s)
                             \/ CommitThresholds(t, s) \/ CommitDelete(t, s)
    BY <2>1, PublishPublishes
       DEF CommitPause, CommitResume, CommitThresholds, CommitDelete, Holds, rows
  <2>2. CASE \E s \in Subs, differ \in BOOLEAN : CommitCreate(t, s, differ)
    <3> PICK s \in Subs, differ \in BOOLEAN : CommitCreate(t, s, differ)
      BY <2>2
    <3>1. CASE s \notin active \/ differ \/ s \in paused
      BY <3>1, PublishPublishes DEF CommitCreate, Holds
    <3>2. CASE ~(s \notin active \/ differ \/ s \in paused)
      BY <3>2, QuietPublishes DEF CommitCreate
    <3> QED
      BY <3>1, <3>2
  <2>3. CASE CommitReconcile(t)
    BY <2>3, PublishPublishes DEF CommitReconcile, Holds, rows
  <2>4. CASE \/ \E o \in Mutations, u \in Users, p \in Products : BeginMutation(t, o, u, p)
             \/ \E u \in Users, p \in Products : BeginCreate(t, u, p)
             \/ BeginReconcile(t)
             \/ \E u \in Users, p \in Products : BeginForce(t, u, p)
             \/ \E p \in Products : LockProduct(t, p)
             \/ \E f \in ForceIds, p \in Products : CommitForce(t, f, p)
             \/ Rollback(t)
    BY <2>4, QuietPublishes
       DEF BeginMutation, BeginCreate, BeginReconcile, BeginForce, Begin,
           LockProduct, CommitForce, Rollback
  <2> QED
    BY <1>3, <2>1, <2>2, <2>3, <2>4 DEF Transaction
<1> QED
  BY <1>1, <1>2, <1>3 DEF GatewayNext

(* A product's address never changes, and a forced check carries it. *)
LEMMA GatewayAddresses ==
    ASSUME IInv, AddressesAgree, [GatewayNext]_gatewayVars
    PROVE  AddressesAgree' /\ \A p \in Products : url[p] # NoURL => url'[p] = url[p]
<1> PICK S \in SUBSET Products : Publishes(S)
  BY GatewayPublishes
<1>0. /\ \A s \in snapshots : s.product \in Products /\ s.url \in URLs
      /\ \A c \in forces : c.product \in Products /\ c.url \in URLs
      /\ url \in [Products -> URLs \cup {NoURL}]
      /\ snapshots' \subseteq Snapshot
  BY StepInv DEF IInv, GatewayTypeOK, Snapshot, ForceCommand
<1>1. CASE url' = url /\ forces' = forces
  BY <1>1, <1>0 DEF AddressesAgree, Publishes
<1>2. ASSUME NEW p \in Products, NEW a \in URLs, EnsureProduct(p, a)
      PROVE  AddressesAgree' /\ \A q \in Products : url[q] # NoURL => url'[q] = url[q]
  <2>1. /\ url[p] = NoURL /\ \A q \in Products : url[q] # a
        /\ url' = [url EXCEPT ![p] = a] /\ UNCHANGED <<snapshots, forces>>
    BY <1>2 DEF EnsureProduct
  <2>2. /\ \A s \in snapshots : s.product # p
        /\ \A c \in forces : c.product # p
    BY <1>0, <2>1, CatalogAssumption DEF AddressesAgree
  <2> QED
    BY <1>0, <2>1, <2>2 DEF AddressesAgree
<1>3. ASSUME NEW t \in Txs, NEW f \in ForceIds, NEW p \in Products, CommitForce(t, f, p)
      PROVE  AddressesAgree' /\ \A q \in Products : url[q] # NoURL => url'[q] = url[q]
  <2>1. /\ url' = url /\ snapshots' = snapshots
        /\ forces' = forces \cup
             {[task |-> f, product |-> p, url |-> url[p], user |-> who[t]]}
    BY <1>3 DEF CommitForce, rows
  <2> QED
    BY <2>1 DEF AddressesAgree
<1>4. ASSUME NEW t \in Txs, Transaction(t)
      PROVE  \/ url' = url /\ forces' = forces
             \/ \E f \in ForceIds, p \in Products : CommitForce(t, f, p)
  BY <1>4
     DEF Transaction, BeginMutation, BeginCreate, BeginReconcile, BeginForce, Begin,
         LockProduct, CommitPause, CommitResume, CommitThresholds, CommitDelete,
         CommitCreate, CommitReconcile, Rollback, rows
<1>5. CASE UNCHANGED gatewayVars
  BY <1>1, <1>5 DEF gatewayVars, rows
<1> QED
  BY <1>1, <1>2, <1>3, <1>4, <1>5 DEF GatewayNext

-----------------------------------------------------------------------------
(* The invariant.                                                          *)

(* Both schemas are empty at first. *)
LEMMA InitSystem == Init => SystemInv
<1> SUFFICES ASSUME Init PROVE SystemInv
  OBVIOUS
<1>1. IInv
  BY InitInv DEF Init
<1>2. AddressesAgree
  BY DEF Init, GatewayInit, AddressesAgree
<1>3. RowsAreSnapshots /\ LockedAreActive /\ periodic \in [Products -> Nat]
  BY DEF Init, SchedulerInit, RowsAreSnapshots, LockedAreActive,
         NoRow, Row
<1> QED
  BY <1>1, <1>2, <1>3 DEF SystemInv

(* The Gateway's steps keep what the Scheduler has seen. *)
LEMMA GatewayKeepsSystem ==
    ASSUME SystemInv, GatewayStep
    PROVE  SystemInv'
<1>1. IInv' /\ AddressesAgree'
  BY StepInv, GatewayAddresses DEF SystemInv, GatewayStep
<1>2. snapshots \subseteq snapshots'
  BY GatewayPublishes DEF SystemInv, GatewayStep, Publishes
<1>3. RowsAreSnapshots'
  BY <1>2 DEF SystemInv, RowsAreSnapshots, GatewayStep, schedulerVars, Writes
<1>4. LockedAreActive' /\ periodic' \in [Products -> Nat]
  BY DEF SystemInv, LockedAreActive, GatewayStep, schedulerVars
<1> QED
  BY <1>1, <1>3, <1>4 DEF SystemInv

(* The Scheduler's steps leave the Gateway alone. *)
LEMMA GatewayUntouched ==
    ASSUME IInv, AddressesAgree, UNCHANGED gatewayVars
    PROVE  IInv' /\ AddressesAgree'
<1>1. IInv'
  BY StepInv
<1>2. AddressesAgree'
  BY DEF AddressesAgree, gatewayVars, rows
<1> QED
  BY <1>1, <1>2

(* Fields of a snapshot in the outbox. *)
LEMMA SnapshotFields ==
    ASSUME IInv, NEW s \in snapshots
    PROVE  /\ s.product \in Products /\ s.url \in URLs /\ s.url # NoURL
           /\ s.version \in Nat /\ s.version > 0 /\ s.version <= version[s.product]
           /\ version[s.product] \in Nat /\ s.active \in BOOLEAN
<1>1. s \in Snapshot
  BY DEF IInv, GatewayTypeOK
<1>2. s.product \in Products /\ s.url \in URLs /\ s.version \in Nat /\ s.active \in BOOLEAN
  BY <1>1 DEF Snapshot
<1>3. version[s.product] \in Nat
  BY <1>2 DEF IInv, GatewayTypeOK
<1>4. s.version \in 1 .. version[s.product]
  BY DEF IInv, PublishedInOrder
<1> QED
  BY <1>2, <1>3, <1>4, CatalogAssumption

(* A snapshot is written to the row of its own product, which is unlocked. *)
LEMMA DeliveryKeepsSystem ==
    ASSUME SystemInv, NEW s \in snapshots, DeliverSnapshot(s)
    PROVE  SystemInv'
<1>1. /\ schedule' = [schedule EXCEPT ![s.product] = Writes(s)]
      /\ \A w \in Replicas : s.product \notin batch[w]
      /\ UNCHANGED <<batch, periodic>> /\ UNCHANGED gatewayVars
  BY DEF DeliverSnapshot, ApplySnapshot, Unlocked, Writes
<1>2. IInv' /\ AddressesAgree'
  BY <1>1, GatewayUntouched DEF SystemInv
<1>3. s.product \in Products /\ Writes(s) \in Row
  BY SnapshotFields DEF SystemInv, Writes, Row
<1>4. snapshots' = snapshots
  BY <1>1 DEF gatewayVars
<1>5. RowsAreSnapshots'
  BY <1>1, <1>3, <1>4 DEF SystemInv, RowsAreSnapshots
<1>6. LockedAreActive'
  BY <1>1, <1>3 DEF SystemInv, LockedAreActive, RowsAreSnapshots
<1> QED
  BY <1>1, <1>2, <1>5, <1>6 DEF SystemInv

(* Forced checks and ticks write no row of the schedule. *)
LEMMA OthersKeepSystem ==
    ASSUME SystemInv, SchedulerTick \/ \E c \in forces : DeliverForce(c)
    PROVE  SystemInv'
<1>1. UNCHANGED gatewayVars /\ schedule' = schedule
  BY DEF SchedulerTick, Tick, SelectDue, CommitDue,
         AbortDue, CheckInterval, DeliverForce, EnqueueForce
<1>2. IInv' /\ AddressesAgree'
  BY <1>1, GatewayUntouched DEF SystemInv
<1>3. RowsAreSnapshots'
  BY <1>1 DEF SystemInv, RowsAreSnapshots, gatewayVars
<1>4. ASSUME NEW w \in Replicas, NEW S \in SUBSET Products, SelectDue(w, S)
      PROVE  LockedAreActive' /\ periodic' = periodic
  BY <1>1, <1>4 DEF SelectDue, Checkable, SystemInv, LockedAreActive
<1>5. ASSUME NEW w \in Replicas, CommitDue(w) \/ AbortDue(w)
      PROVE  LockedAreActive' /\ periodic' \in [Products -> Nat]
  BY <1>1, <1>5 DEF CommitDue, AbortDue, SystemInv, LockedAreActive
<1>6. ASSUME UNCHANGED <<batch, periodic>>
      PROVE  LockedAreActive' /\ periodic' = periodic
  BY <1>1, <1>6 DEF SystemInv, LockedAreActive
<1>7. LockedAreActive' /\ periodic' \in [Products -> Nat]
  <2>1. CASE SchedulerTick
    <3>1. CASE \E p \in Products : CheckInterval(p)
      BY <1>6, <3>1 DEF CheckInterval, SystemInv
    <3> QED
      BY <1>4, <1>5, <2>1, <3>1 DEF SchedulerTick, Tick, SystemInv
  <2>2. CASE \E c \in forces : DeliverForce(c)
    BY <1>6, <2>2 DEF DeliverForce, EnqueueForce, SystemInv
  <2> QED
    BY <2>1, <2>2
<1> QED
  BY <1>2, <1>3, <1>7 DEF SystemInv

(* SystemInv is inductive. *)
LEMMA StepSystem ==
    ASSUME SystemInv, [Next]_systemVars
    PROVE  SystemInv'
<1>1. CASE UNCHANGED systemVars
  <2>1. IInv' /\ AddressesAgree'
    BY <1>1, GatewayUntouched DEF systemVars, SystemInv
  <2> QED
    BY <1>1, <2>1 DEF systemVars, gatewayVars, schedulerVars,
                      SystemInv, RowsAreSnapshots, LockedAreActive
<1>2. CASE Next
  BY <1>2, GatewayKeepsSystem, DeliveryKeepsSystem, OthersKeepSystem DEF Next
<1> QED
  BY <1>1, <1>2

(* What the Scheduler knows comes from the Gateway, whatever was lost,     *)
(* repeated or reordered on the way.                                       *)
THEOREM SystemInvariant == Spec => []SystemInv
<1>1. SystemInv /\ [Next]_systemVars => SystemInv'
  BY StepSystem
<1> QED
  BY <1>1, InitSystem, PTL DEF Spec

(* A row and a snapshot of one product have one address, the product's,    *)
(* and no other product has it.                                            *)
THEOREM NothingIsRejected == Spec => []NothingRejected
<1>1. SystemInv => NothingRejected
  <2> SUFFICES ASSUME SystemInv PROVE NothingRejected
    OBVIOUS
  <2>1. ASSUME NEW p \in Products PROVE schedule[p].url \in {NoURL, url[p]}
    <3>1. CASE schedule[p] = NoRow
      BY <3>1 DEF NoRow
    <3>2. ASSUME NEW s \in snapshots, s.product = p, schedule[p] = Writes(s)
          PROVE  schedule[p].url = url[p]
      BY <3>2 DEF SystemInv, AddressesAgree, Writes
    <3> QED
      BY <3>1, <3>2 DEF SystemInv, RowsAreSnapshots
  <2>2. ASSUME NEW p \in Products, url[p] # NoURL
        PROVE  /\ schedule[p].url \in {NoURL, url[p]}
               /\ \A q \in Products \ {p} : schedule[q].url # url[p]
    BY <2>1, <2>2 DEF SystemInv, AddressesAgree
  <2>3. ASSUME NEW s \in snapshots
        PROVE  Accepted(s)
    <3>1. s.product \in Products /\ s.url # NoURL /\ s.version > 0 /\ s.url = url[s.product]
      BY SnapshotFields DEF SystemInv, AddressesAgree
    <3> QED
      BY <2>2, <3>1 DEF Accepted, SameIdentity
  <2>4. ASSUME NEW c \in forces
        PROVE  SameIdentity(c)
    <3>1. c.product \in Products /\ c.url # NoURL /\ c.url = url[c.product]
      BY CatalogAssumption DEF SystemInv, IInv, GatewayTypeOK, ForceCommand, AddressesAgree
    <3> QED
      BY <2>2, <3>1 DEF SameIdentity
  <2> QED
    BY <2>3, <2>4 DEF NothingRejected
<1> QED
  BY <1>1, SystemInvariant, PTL

-----------------------------------------------------------------------------
(* Checks.                                                                 *)

(* A locked row is active, so it is a snapshot; under the newest version   *)
(* it is the snapshot of what the subscriptions say.                       *)
LEMMA StepChecks ==
    ASSUME SystemInv, [Next]_systemVars
    PROVE  [\A p \in Products :
              periodic'[p] > periodic[p] /\ schedule[p].version = version[p]
                => Monitored(active, paused, p)]_systemVars
<1> SUFFICES ASSUME NEW p \in Products,
                    periodic'[p] > periodic[p], schedule[p].version = version[p]
             PROVE  Monitored(active, paused, p)
  OBVIOUS
<1>1. periodic[p] \in Nat /\ periodic' # periodic
  BY DEF SystemInv
<1>2. PICK w \in Replicas : CommitDue(w)
  BY <1>1
     DEF Next, GatewayStep, schedulerVars, systemVars, SchedulerTick, DeliverSnapshot, DeliverForce,
         Tick, SelectDue, AbortDue, CheckInterval,
         ApplySnapshot, EnqueueForce
<1>3. schedule[p].active
  BY <1>1, <1>2 DEF CommitDue, SystemInv, LockedAreActive
<1>4. PICK s \in snapshots : s.product = p /\ schedule[p] = Writes(s)
  BY <1>3 DEF SystemInv, RowsAreSnapshots, NoRow
<1>5. s.version = version[p] /\ s.version > 0 /\ s.active = TRUE
  BY <1>3, <1>4, SnapshotFields DEF SystemInv, Writes
<1> DEFINE newest == [product |-> p, version |-> version[p], url |-> url[p],
                      active |-> Monitored(active, paused, p)]
<1>6. newest \in snapshots
  BY <1>5 DEF SystemInv, IInv, CurrentSnapshotIsDesired
<1>7. s = newest
  BY <1>4, <1>5, <1>6 DEF SystemInv, IInv, PublishedInOrder, SameKey
<1> QED
  BY <1>5, <1>7

(* No periodic check of a product whose newest version has arrived starts  *)
(* while nobody watches it.                                                *)
THEOREM ChecksAreWatched == Spec => ChecksOnlyWhatIsWatched
<1>1. SystemInv /\ [Next]_systemVars =>
        [\A p \in Products :
           periodic'[p] > periodic[p] /\ schedule[p].version = version[p]
             => Monitored(active, paused, p)]_systemVars
  BY StepChecks
<1> QED
  BY <1>1, SystemInvariant, PTL DEF Spec, ChecksOnlyWhatIsWatched

-----------------------------------------------------------------------------
(* The refinement.                                                         *)

(* The history of a product has one entry for each of its versions. *)
IsHistory(p) ==
    /\ version[p] \in Nat
    /\ History(p) \in Seq(BOOLEAN) /\ Len(History(p)) = version[p]
    /\ \A s \in snapshots : s.product = p => History(p)[s.version] = s.active

(* Versions number the entries of a history without gaps. *)
LEMMA HistoryType == IInv => \A p \in Products : IsHistory(p)
<1> SUFFICES ASSUME IInv, NEW p \in Products
             PROVE  IsHistory(p)
  OBVIOUS
<1>1. version[p] \in Nat
  BY DEF IInv, GatewayTypeOK
<1>2. ASSUME NEW s \in snapshots, s.product = p
      PROVE  /\ s.version \in 1 .. version[p] /\ s.active \in BOOLEAN
             /\ s = CHOOSE r \in snapshots : r.product = p /\ r.version = s.version
  <2>1. s.version \in 1 .. version[p] /\ s.active \in BOOLEAN
    BY <1>2 DEF IInv, PublishedInOrder, GatewayTypeOK, Snapshot
  <2>2. \A r \in snapshots : r.product = p /\ r.version = s.version => r = s
    BY <1>2 DEF IInv, PublishedInOrder, SameKey
  <2> QED
    BY <1>2, <2>1, <2>2
<1>3. ASSUME NEW v \in 1 .. version[p]
      PROVE  (CHOOSE r \in snapshots : r.product = p /\ r.version = v).active \in BOOLEAN
  <2>1. PICK s \in snapshots : s.product = p /\ s.version = v
    BY DEF IInv, PublishedInOrder
  <2> QED
    BY <1>2, <2>1
<1>4. History(p) \in [1 .. version[p] -> BOOLEAN]
  BY <1>3 DEF History
<1>5. History(p) \in Seq(BOOLEAN) /\ Len(History(p)) = version[p]
  BY <1>1, <1>4
<1>6. ASSUME NEW s \in snapshots, s.product = p
      PROVE  History(p)[s.version] = s.active
  BY <1>2, <1>6 DEF History
<1> QED
  BY <1>1, <1>5, <1>6 DEF IsHistory

(* .. and so it has after a step. *)
LEMMA HistoryTypeNext == IInv' => (\A p \in Products : IsHistory(p))'
  BY HistoryType, PTL

(* Two histories that agree on their versions are the same. *)
LEMMA HistoryGrows ==
    ASSUME IInv, IInv', snapshots \subseteq snapshots', NEW p \in Products
    PROVE  /\ version'[p] = version[p] => History(p)' = History(p)
           /\ version'[p] = version[p] + 1 =>
                History(p)' = Append(History(p), Monitored(active', paused', p))
<1> DEFINE old == History(p)
           new == History(p)'
<1>1. /\ version[p] \in Nat /\ old \in Seq(BOOLEAN) /\ Len(old) = version[p]
      /\ \A s \in snapshots : s.product = p => old[s.version] = s.active
  BY HistoryType DEF IsHistory
<1>2. /\ version'[p] \in Nat /\ new \in Seq(BOOLEAN) /\ Len(new) = version'[p]
      /\ \A s \in snapshots' : s.product = p => new[s.version] = s.active
  <2>1. (\A q \in Products : IsHistory(q))'
    BY HistoryTypeNext
  <2> QED
    BY <2>1 DEF IsHistory
<1>3. \A v \in 1 .. version[p] : new[v] = old[v]
  <2> SUFFICES ASSUME NEW v \in 1 .. version[p]
               PROVE  new[v] = old[v]
    OBVIOUS
  <2>1. PICK s \in snapshots : s.product = p /\ s.version = v
    BY DEF IInv, PublishedInOrder
  <2> QED
    BY <1>1, <1>2, <2>1
<1>4. CASE version'[p] = version[p]
  BY <1>1, <1>2, <1>3, <1>4
<1>5. CASE version'[p] = version[p] + 1
  <2> DEFINE wish == Monitored(active', paused', p)
  <2>1. [product |-> p, version |-> version'[p], url |-> url'[p], active |-> wish]
          \in snapshots'
    BY <1>1, <1>5 DEF IInv, CurrentSnapshotIsDesired
  <2>2. new[version'[p]] = wish /\ wish \in BOOLEAN
    BY <1>2, <2>1 DEF Monitored
  <2> HIDE DEF wish, old, new
  <2>3. /\ Append(old, wish) \in Seq(BOOLEAN) /\ Len(Append(old, wish)) = version[p] + 1
        /\ \A v \in 1 .. version[p] : Append(old, wish)[v] = old[v]
        /\ Append(old, wish)[version[p] + 1] = wish
    BY <1>1, <2>2, AppendProperties
  <2>4. new = Append(old, wish)
    BY <1>1, <1>2, <1>3, <1>5, <2>2, <2>3
  <2> QED
    BY <1>1, <1>5, <2>4 DEF wish, old, new
<1> QED
  BY <1>4, <1>5

(* Nothing is wanted, published or monitored at first. *)
LEMMA InitRefines == Init => Service!Init
<1> SUFFICES ASSUME Init PROVE Service!Init
  OBVIOUS
<1>1. \A p \in Products : ~Monitored(active, paused, p)
  BY DEF Init, GatewayInit, Monitored
<1>2. ASSUME NEW p \in Products PROVE History(p) = <<>>
  <2>1. version[p] = 0 /\ 1 .. 0 = {}
    BY DEF Init, GatewayInit
  <2> QED
    BY <2>1 DEF History
<1>3. \A p \in Products : schedule[p].version = 0 /\ schedule[p].active = FALSE
  BY DEF Init, SchedulerInit, NoRow
<1> QED
  BY <1>1, <1>2, <1>3 DEF Service!Init, Monitored

(* A step of the Gateway lengthens some histories by what is wanted now. *)
LEMMA GatewayRefines ==
    ASSUME SystemInv, GatewayStep
    PROVE  Service!Next
<1>1. IInv /\ [GatewayNext]_gatewayVars /\ IInv'
  BY StepInv DEF SystemInv, GatewayStep
<1>2. PICK S \in SUBSET Products : Publishes(S)
  BY <1>1, GatewayPublishes
<1> DEFINE wish == [p \in Products |-> Monitored(active', paused', p)]
<1>3. \A p \in Products \ S : Monitored(active', paused', p) = Monitored(active, paused, p)
  <2> SUFFICES ASSUME NEW p \in Products \ S,
                      Monitored(active', paused', p) # Monitored(active, paused, p)
               PROVE  FALSE
    OBVIOUS
  <2>1. version'[p] > version[p]
    BY <1>1, StepMovesVersion
  <2>2. version'[p] = version[p] /\ version[p] \in Nat
    BY <1>1, <1>2 DEF Publishes, IInv, GatewayTypeOK
  <2> QED
    BY <2>1, <2>2
<1>4. \A p \in Products :
        History(p)' = IF p \in S THEN Append(History(p), wish[p]) ELSE History(p)
  BY <1>1, <1>2, HistoryGrows DEF Publishes
<1>5. UNCHANGED schedule
  BY DEF GatewayStep, schedulerVars
<1>6. wish \in [Products -> BOOLEAN]
  BY DEF Monitored
<1>7. Service!Publish(S, wish)
  BY <1>3, <1>4, <1>5 DEF Service!Publish
<1> QED
  BY <1>6, <1>7 DEF Service!Next

(* A snapshot that is applied takes the Scheduler to its own point of the  *)
(* history, and that lies ahead.                                           *)
LEMMA DeliveryRefines ==
    ASSUME SystemInv, NEW s \in snapshots, DeliverSnapshot(s)
    PROVE  Service!Next
<1> DEFINE p == s.product
<1>1. /\ p \in Products /\ s.version \in Nat /\ s.version > 0 /\ s.version <= version[p]
      /\ version[p] \in Nat
  BY SnapshotFields DEF SystemInv
<1>2. /\ schedule' = [schedule EXCEPT ![p] = Writes(s)]
      /\ schedule[p].url = NoURL \/ schedule[p].version < s.version
      /\ UNCHANGED gatewayVars
  BY DEF DeliverSnapshot, ApplySnapshot, Newer, Writes
<1>3. schedule \in [Products -> Row]
  BY DEF SystemInv, RowsAreSnapshots
<1>4. schedule[p].version \in Nat /\ schedule[p].version < s.version
  <2>1. schedule[p].version \in Nat
    BY <1>1, <1>3 DEF Row
  <2>2. schedule[p].url = NoURL => schedule[p].version = 0
    BY <1>1, SnapshotFields DEF SystemInv, RowsAreSnapshots, Writes, NoRow
  <2> QED
    BY <1>1, <1>2, <2>1, <2>2
<1>5. /\ schedule'[p].version = s.version /\ schedule'[p].active = s.active
      /\ \A q \in Products \ {p} : schedule'[q] = schedule[q]
  BY <1>1, <1>2, <1>3 DEF Writes
<1>6. Len(History(p)) = version[p] /\ History(p)[s.version] = s.active
  BY <1>1, HistoryType DEF SystemInv, IsHistory
<1>7. \A q \in Products :
        /\ History(q)' = History(q)
        /\ Monitored(active, paused, q)' = Monitored(active, paused, q)
  BY <1>2 DEF gatewayVars, rows, History, Monitored
<1>8. s.version \in schedule[p].version + 1 .. Len(History(p))
  BY <1>1, <1>4, <1>6
<1>9. Service!Follow(p, s.version)
  <2>1. [q \in Products |-> schedule'[q].version] =
          [[q \in Products |-> schedule[q].version] EXCEPT ![p] = s.version]
    BY <1>1, <1>5
  <2>2. [q \in Products |-> schedule'[q].active] =
          [[q \in Products |-> schedule[q].active] EXCEPT ![p] = s.active]
    BY <1>1, <1>5
  <2>3. /\ [q \in Products |-> History(q)'] = [q \in Products |-> History(q)]
        /\ [q \in Products |-> Monitored(active, paused, q)'] =
             [q \in Products |-> Monitored(active, paused, q)]
    BY <1>7
  <2> QED
    BY <1>1, <1>6, <1>8, <2>1, <2>2, <2>3 DEF Service!Follow
<1> QED
  BY <1>1, <1>8, <1>9 DEF Service!Next, Service!Advance

(* Nothing else is visible. *)
LEMMA OthersRefine ==
    ASSUME UNCHANGED gatewayVars, schedule' = schedule
    PROVE  UNCHANGED Service!vars
<1>1. \A q \in Products :
        /\ History(q)' = History(q)
        /\ Monitored(active, paused, q)' = Monitored(active, paused, q)
  BY DEF gatewayVars, rows, History, Monitored
<1> QED
  BY <1>1 DEF Service!vars

(* Every step of the system is a step of the service it promises, or none. *)
LEMMA StepRefines ==
    ASSUME SystemInv, [Next]_systemVars
    PROVE  [Service!Next]_(Service!vars)
<1>1. CASE UNCHANGED systemVars
  BY <1>1, OthersRefine DEF systemVars, schedulerVars
<1>2. CASE GatewayStep
  BY <1>2, GatewayRefines
<1>3. CASE \E s \in snapshots : DeliverSnapshot(s)
  BY <1>3, DeliveryRefines
<1>4. CASE SchedulerTick \/ \E c \in forces : DeliverForce(c)
  <2>1. UNCHANGED gatewayVars /\ schedule' = schedule
    BY <1>4 DEF SchedulerTick, Tick, SelectDue, CommitDue,
                AbortDue, CheckInterval, DeliverForce,
                EnqueueForce
  <2> QED
    BY <2>1, OthersRefine
<1> QED
  BY <1>1, <1>2, <1>3, <1>4 DEF Next

(* Gateway, queue and Scheduler implement the promise of monitoring: the   *)
(* Scheduler only ever moves forward along the history of what was wanted. *)
THEOREM Refinement == Spec => FollowsHistory
<1>1. SystemInv /\ [Next]_systemVars => [Service!Next]_(Service!vars)
  BY StepRefines
<1> QED
  BY <1>1, InitRefines, SystemInvariant, PTL DEF Spec, FollowsHistory, Service!Safety
=============================================================================
