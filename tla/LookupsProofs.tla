---------------------------- MODULE LookupsProofs ----------------------------
(***************************************************************************)
(* Theorems about Lookups, for any lookups, number of requests at a time,  *)
(* limit and times to live.                                                *)
(*                                                                         *)
(* A row that has its outcome has its TaskID marked, so no later result is *)
(* taken (AnsweredOnce).  The time a found product has been kept and the   *)
(* time until it expires add up to DoneTtl (KeptForDoneTtl).  A request    *)
(* that has passed the check of the count stands for a row it may still    *)
(* create, so rows and requests are counted together (CountedTogether).    *)
(***************************************************************************)
EXTENDS Lookups, FiniteSetTheorems, TLAPS

Settled == {"deleted"} \cup Outcomes
RowStates == {"none", "pending"} \cup Settled

(* Every task and result belongs to a lookup that was created. *)
LookupsTyped ==
    /\ TypeOK
    /\ \A x \in Extractors :
         /\ work[x] # Nothing => row[work[x]] # "none"
         /\ loaded[x] # Nothing => work[x] # Nothing
    /\ \A r \in results : row[r.lookup] # "none"

AnsweredOnce == \A l \in LookupIds : row[l] \in Outcomes => l \in processed

KeptForDoneTtl ==
    \A l \in LookupIds :
        /\ row[l] \in Prices => kept[l] + left[l] = DoneTtl
        /\ row[l] \in {"none", "pending"} => kept[l] = 0

CountedTogether ==
    /\ IsFiniteSet(Pending)
    /\ Cardinality(Pending) + Cardinality(admitted) < MaxPending + Cardinality(Handlers)

LookupsInv == LookupsTyped /\ AnsweredOnce /\ KeptForDoneTtl /\ CountedTogether

-----------------------------------------------------------------------------

(* The states of a row exclude each other. *)
LEMMA RowStatesDiffer ==
    /\ "none" \notin Settled /\ "pending" \notin Settled
    /\ "deleted" \notin Outcomes /\ Prices \subseteq Outcomes /\ Failure \notin Prices
    /\ MaxPending \in Nat \ {0} /\ PendingTtl \in Nat \ {0} /\ DoneTtl \in Nat \ {0}
    /\ IsFiniteSet(Handlers)
BY LookupsAssumption DEF Settled, Outcomes

(* Requests past the check are finitely many, and at most all of them. *)
LEMMA AdmittedFinite ==
    ASSUME NEW S \in SUBSET Handlers
    PROVE  /\ IsFiniteSet(S) /\ Cardinality(S) \in Nat
           /\ Cardinality(Handlers) \in Nat /\ Cardinality(S) <= Cardinality(Handlers)
BY RowStatesDiffer, FS_Subset, FS_CardinalityType

(* With no rows and no requests nothing counts. *)
LEMMA LookupsInit == Init => LookupsInv
<1> SUFFICES ASSUME Init PROVE LookupsInv
  OBVIOUS
<1>1. Pending = {} /\ admitted = {} /\ processed = {} /\ results = {}
  BY DEF Init, Pending
<1>2. \A l \in LookupIds : row[l] = "none" /\ kept[l] = 0
  BY DEF Init
<1>3. LookupsTyped
  BY <1>1, RowStatesDiffer DEF Init, LookupsTyped, TypeOK
<1>4. AnsweredOnce /\ KeptForDoneTtl
  BY <1>2, RowStatesDiffer DEF AnsweredOnce, KeptForDoneTtl, Settled
<1>5. CountedTogether
  BY <1>1, FS_EmptySet, RowStatesDiffer, FS_CardinalityType DEF CountedTogether
<1> QED
  BY <1>3, <1>4, <1>5 DEF LookupsInv

-----------------------------------------------------------------------------
(* Types, and where tasks and results come from. *)

(* A request is counted, or gives up. *)
LEMMA TypedRequests ==
    ASSUME LookupsTyped, NEW h \in Handlers, CountPending(h) \/ RejectLookup(h)
    PROVE  LookupsTyped'
BY DEF LookupsTyped, TypeOK, CountPending, RejectLookup, lookupRow, extractorVars

(* A row is created by a request that was admitted. *)
LEMMA TypedCreate ==
    ASSUME LookupsTyped, NEW h \in Handlers, NEW l \in LookupIds, CreateLookup(h, l)
    PROVE  LookupsTyped'
<1>1. /\ row[l] = "none" /\ row' = [row EXCEPT ![l] = "pending"]
      /\ left' = [left EXCEPT ![l] = PendingTtl] /\ admitted' = admitted \ {h}
      /\ UNCHANGED <<kept, work, loaded, results, processed>>
  BY DEF CreateLookup, extractorVars
<1>2. \A k \in LookupIds : row[k] # "none" => row'[k] = row[k]
  BY <1>1 DEF LookupsTyped, TypeOK
<1>3. TypeOK'
  <2>1. row' \in [LookupIds -> {"none", "pending", "deleted"} \cup Outcomes]
    BY <1>1 DEF LookupsTyped, TypeOK
  <2>2. left' \in [LookupIds -> 0 .. PendingTtl \cup 0 .. DoneTtl]
    BY <1>1, RowStatesDiffer DEF LookupsTyped, TypeOK
  <2>3. processed' \subseteq {k \in LookupIds : row'[k] \notin {"none", "pending"}}
    BY <1>1, <1>2 DEF LookupsTyped, TypeOK
  <2> QED
    BY <1>1, <2>1, <2>2, <2>3 DEF LookupsTyped, TypeOK
<1> QED
  BY <1>1, <1>2, <1>3 DEF LookupsTyped, TypeOK

(* What the Extractor does with a task. *)
LEMMA TypedExtractor ==
    ASSUME LookupsTyped, NEW x \in Extractors,
           \/ \E l \in LookupIds : Deliver(x, l)
           \/ \E o \in Outcomes : Load(x, o)
           \/ PublishResult(x) \/ Release(x)
    PROVE  LookupsTyped'
<1>1. CASE \E l \in LookupIds : Deliver(x, l)
  BY <1>1 DEF LookupsTyped, TypeOK, Deliver, lookupRow
<1>2. CASE \E o \in Outcomes : Load(x, o)
  BY <1>2 DEF LookupsTyped, TypeOK, Load, lookupRow
<1>3. CASE PublishResult(x)
  BY <1>3 DEF LookupsTyped, TypeOK, PublishResult, lookupRow
<1>4. CASE Release(x)
  BY <1>4 DEF LookupsTyped, TypeOK, Release, lookupRow
<1> QED
  BY <1>1, <1>2, <1>3, <1>4

(* A result marks its TaskID and settles the row, if there is one still. *)
LEMMA TypedResult ==
    ASSUME LookupsTyped, NEW r \in results, ProcessLookupResult(r)
    PROVE  LookupsTyped'
<1>1. /\ processed' = processed \cup {r.lookup}
      /\ UNCHANGED <<kept, admitted, work, loaded, results>>
      /\ r.lookup \in LookupIds /\ r.outcome \in Outcomes /\ row[r.lookup] # "none"
  BY DEF ProcessLookupResult, extractorVars, LookupsTyped, TypeOK
<1>2. CASE r.lookup \in Rows
  <2>1. /\ row' = [row EXCEPT ![r.lookup] = r.outcome]
        /\ left' = [left EXCEPT ![r.lookup] = NewExpiry(r.lookup, r.outcome)]
    BY <1>2 DEF ProcessLookupResult
  <2>2. NewExpiry(r.lookup, r.outcome) \in 0 .. PendingTtl \cup 0 .. DoneTtl
    BY <1>1, RowStatesDiffer DEF NewExpiry, LookupsTyped, TypeOK
  <2>3. /\ row' \in [LookupIds -> {"none", "pending", "deleted"} \cup Outcomes]
        /\ left' \in [LookupIds -> 0 .. PendingTtl \cup 0 .. DoneTtl]
    BY <1>1, <2>1, <2>2 DEF LookupsTyped, TypeOK
  <2>4. \A k \in LookupIds : row[k] # "none" => row'[k] # "none"
    BY <1>1, <2>1, RowStatesDiffer DEF LookupsTyped, TypeOK, Settled
  <2>5. processed' \subseteq {k \in LookupIds : row'[k] \notin {"none", "pending"}}
    BY <1>1, <2>1, RowStatesDiffer DEF LookupsTyped, TypeOK, Settled
  <2> QED
    BY <1>1, <2>3, <2>4, <2>5 DEF LookupsTyped, TypeOK
<1>3. CASE r.lookup \notin Rows
  <2>1. UNCHANGED <<row, left>>
    BY <1>3 DEF ProcessLookupResult
  <2>2. row[r.lookup] = "deleted"
    BY <1>1, <1>3 DEF Rows
  <2> QED
    BY <1>1, <2>1, <2>2 DEF LookupsTyped, TypeOK
<1> QED
  BY <1>2, <1>3

(* Time passes, and the cleaner deletes what has expired. *)
LEMMA TypedTime ==
    ASSUME LookupsTyped, DeleteExpiredLookups \/ Tick
    PROVE  LookupsTyped'
<1>1. CASE DeleteExpiredLookups
  <2>1. /\ row' = [l \in LookupIds |-> IF Expired(l) THEN "deleted" ELSE row[l]]
        /\ UNCHANGED <<left, kept, admitted, work, loaded, results, processed>>
    BY <1>1 DEF DeleteExpiredLookups, extractorVars
  <2>2. \A l \in LookupIds : row'[l] \in {row[l], "deleted"}
    BY <2>1
  <2>3. row' \in [LookupIds -> {"none", "pending", "deleted"} \cup Outcomes]
    BY <2>1 DEF LookupsTyped, TypeOK
  <2> QED
    BY <2>1, <2>2, <2>3 DEF LookupsTyped, TypeOK
<1>2. CASE Tick
  <2>1. /\ left' = [l \in LookupIds |-> IF left[l] > 0 THEN left[l] - 1 ELSE 0]
        /\ kept' = [l \in LookupIds |->
                      IF row[l] \in Prices /\ kept[l] < DoneTtl THEN kept[l] + 1 ELSE kept[l]]
        /\ UNCHANGED <<row, admitted, work, loaded, results, processed>>
    BY <1>2 DEF Tick, extractorVars
  <2>2. \A l \in LookupIds : left[l] \in 0 .. PendingTtl \cup 0 .. DoneTtl /\ kept[l] \in 0 .. DoneTtl
    BY DEF LookupsTyped, TypeOK
  <2>3. /\ left' \in [LookupIds -> 0 .. PendingTtl \cup 0 .. DoneTtl]
        /\ kept' \in [LookupIds -> 0 .. DoneTtl]
    BY <2>1, <2>2, RowStatesDiffer
  <2> QED
    BY <2>1, <2>3 DEF LookupsTyped, TypeOK
<1> QED
  BY <1>1, <1>2

-----------------------------------------------------------------------------
(* What a step does to a row. *)

(* A row appears pending, is settled once, and is deleted when it expires. *)
LEMMA RowStep ==
    ASSUME LookupsInv, [Next]_vars, NEW l \in LookupIds, row'[l] # row[l]
    PROVE  \/ row[l] = "none" /\ row'[l] = "pending" /\ kept'[l] = kept[l]
           \/ /\ row[l] = "pending" /\ row'[l] \in Outcomes /\ l \in processed'
              /\ kept'[l] = kept[l] /\ (row'[l] \in Prices => left'[l] = DoneTtl)
           \/ row[l] # "none" /\ row'[l] = "deleted" /\ left[l] = 0
<1>1. CASE \E h \in Handlers, k \in LookupIds : CreateLookup(h, k)
  BY <1>1 DEF CreateLookup, LookupsInv, LookupsTyped, TypeOK
<1>2. CASE \E r \in results : ProcessLookupResult(r)
  <2>1. PICK r \in results : ProcessLookupResult(r)
    BY <1>2
  <2>2. /\ r.lookup \in LookupIds /\ r.outcome \in Outcomes
        /\ r.lookup \notin processed /\ processed' = processed \cup {r.lookup} /\ kept' = kept
    BY <2>1 DEF ProcessLookupResult, Seen, LookupsInv, LookupsTyped, TypeOK
  <2>3. /\ r.lookup \in Rows
        /\ row' = [row EXCEPT ![r.lookup] = r.outcome]
        /\ left' = [left EXCEPT ![r.lookup] = NewExpiry(r.lookup, r.outcome)]
    BY <2>1 DEF ProcessLookupResult
  <2>4. l = r.lookup /\ row'[l] = r.outcome
    BY <2>2, <2>3 DEF LookupsInv, LookupsTyped, TypeOK
  <2>5. row[l] = "pending"
    BY <2>2, <2>3, <2>4 DEF Rows, LookupsInv, LookupsTyped, TypeOK, AnsweredOnce
  <2>6. row'[l] \in Prices => left'[l] = DoneTtl
    BY <2>3, <2>4, RowStatesDiffer DEF NewExpiry, LookupsInv, LookupsTyped, TypeOK
  <2> QED
    BY <2>2, <2>4, <2>5, <2>6
<1>3. CASE DeleteExpiredLookups
  BY <1>3 DEF DeleteExpiredLookups, Expired, Rows, LookupsInv, LookupsTyped, TypeOK
<1>4. CASE UNCHANGED row
  BY <1>4
<1> QED
  BY <1>1, <1>2, <1>3, <1>4
     DEF Next, vars, lookupRow, CountPending, RejectLookup, Deliver, Load, PublishResult,
         Release, Tick

(* Of two results for one lookup the second is not taken. *)
LEMMA AnsweredStep == LookupsInv /\ [Next]_vars => AnsweredOnce'
<1> SUFFICES ASSUME LookupsInv, [Next]_vars, NEW l \in LookupIds, row'[l] \in Outcomes
             PROVE  l \in processed'
  BY DEF AnsweredOnce
<1>1. processed \subseteq processed'
  BY DEF Next, vars, lookupRow, extractorVars, CountPending, RejectLookup, CreateLookup, Deliver,
         Load, PublishResult, Release, ProcessLookupResult, DeleteExpiredLookups, Tick
<1>2. CASE row'[l] = row[l]
  BY <1>1, <1>2 DEF LookupsInv, AnsweredOnce
<1>3. CASE row'[l] # row[l]
  BY <1>3, RowStep, RowStatesDiffer DEF Settled
<1> QED
  BY <1>2, <1>3

(* The clock of a row runs only in Tick, and a found product's is wound up *)
(* only by its result.                                                     *)
LEMMA KeptStep == LookupsInv /\ [Next]_vars => KeptForDoneTtl'
<1> SUFFICES ASSUME LookupsInv, [Next]_vars, NEW l \in LookupIds
             PROVE  /\ row'[l] \in Prices => kept'[l] + left'[l] = DoneTtl
                    /\ row'[l] \in {"none", "pending"} => kept'[l] = 0
  BY DEF KeptForDoneTtl
<1>0. /\ left[l] \in 0 .. PendingTtl \cup 0 .. DoneTtl /\ kept[l] \in 0 .. DoneTtl
      /\ row[l] \in Prices => kept[l] + left[l] = DoneTtl
      /\ row[l] \in {"none", "pending"} => kept[l] = 0
      /\ DoneTtl \in Nat /\ PendingTtl \in Nat
  BY RowStatesDiffer DEF LookupsInv, LookupsTyped, TypeOK, KeptForDoneTtl
<1>1. CASE row'[l] # row[l]
  BY <1>0, <1>1, RowStep, RowStatesDiffer DEF Settled
<1>2. CASE row'[l] = row[l] /\ UNCHANGED <<left, kept>>
  BY <1>0, <1>2
<1>3. CASE Tick
  <2>1. /\ left'[l] = IF left[l] > 0 THEN left[l] - 1 ELSE 0
        /\ kept'[l] = IF row[l] \in Prices /\ kept[l] < DoneTtl THEN kept[l] + 1 ELSE kept[l]
        /\ row' = row
    BY <1>3 DEF Tick
  <2>2. CASE row[l] \in Prices
    <3>1. kept'[l] + left'[l] = DoneTtl
      BY <1>0, <2>1, <2>2
    <3>2. row'[l] \notin {"none", "pending"}
      BY <2>1, <2>2, RowStatesDiffer DEF Settled
    <3> QED
      BY <3>1, <3>2
  <2>3. CASE row[l] \notin Prices
    BY <1>0, <2>1, <2>3
  <2> QED
    BY <2>2, <2>3
<1>4. CASE \E h \in Handlers, k \in LookupIds : CreateLookup(h, k)
  <2>1. PICK h \in Handlers, k \in LookupIds : CreateLookup(h, k)
    BY <1>4
  <2>2. CASE k = l
    BY <1>1, <2>1, <2>2 DEF CreateLookup, LookupsInv, LookupsTyped, TypeOK
  <2>3. CASE k # l
    BY <1>0, <2>1, <2>3 DEF CreateLookup, LookupsInv, LookupsTyped, TypeOK
  <2> QED
    BY <2>2, <2>3
<1>5. CASE \E r \in results : ProcessLookupResult(r)
  <2>1. PICK r \in results : ProcessLookupResult(r)
    BY <1>5
  <2>2. /\ r.lookup \in LookupIds /\ r.lookup \notin processed /\ kept' = kept
        /\ \/ UNCHANGED <<row, left>>
           \/ \A k \in LookupIds \ {r.lookup} : row'[k] = row[k] /\ left'[k] = left[k]
    BY <2>1 DEF ProcessLookupResult, Seen, LookupsInv, LookupsTyped, TypeOK
  <2>3. CASE l = r.lookup
    <3>1. row[l] \notin Outcomes
      BY <2>2, <2>3 DEF LookupsInv, AnsweredOnce
    <3>2. row'[l] = row[l] => row[l] \notin Prices
      BY <3>1, RowStatesDiffer
    <3> QED
      BY <1>0, <1>1, <2>2, <3>2
  <2>4. CASE l # r.lookup
    BY <1>0, <2>2, <2>4
  <2> QED
    BY <2>3, <2>4
<1> QED
  BY <1>1, <1>2, <1>3, <1>4, <1>5
     DEF Next, vars, lookupRow, CountPending, RejectLookup, Deliver, Load, PublishResult,
         Release, DeleteExpiredLookups

(* The count that admits a request leaves room for it, unless others have  *)
(* counted with it; what creates a row gives its request up.               *)
LEMMA CountedStep == LookupsInv /\ [Next]_vars => CountedTogether'
<1> SUFFICES ASSUME LookupsInv, [Next]_vars PROVE CountedTogether'
  OBVIOUS
<1>0. /\ admitted \in SUBSET Handlers /\ IsFiniteSet(Pending)
      /\ Cardinality(Pending) + Cardinality(admitted) < MaxPending + Cardinality(Handlers)
      /\ Cardinality(Pending) \in Nat /\ Cardinality(admitted) \in Nat
      /\ Cardinality(Handlers) \in Nat /\ MaxPending \in Nat /\ IsFiniteSet(admitted)
  BY AdmittedFinite, FS_CardinalityType, RowStatesDiffer
     DEF LookupsInv, LookupsTyped, TypeOK, CountedTogether
<1>1. CASE \E h \in Handlers : CountPending(h)
  <2>1. PICK h \in Handlers : CountPending(h)
    BY <1>1
  <2>2. /\ Cardinality(Pending) < MaxPending /\ admitted' = admitted \cup {h} /\ row' = row
    BY <2>1 DEF CountPending, lookupRow
  <2>3. Pending' = Pending
    BY <2>2 DEF Pending
  <2>4. admitted' \in SUBSET Handlers
    BY <1>0, <2>2
  <2>5. Cardinality(admitted') \in Nat /\ Cardinality(admitted') <= Cardinality(Handlers)
    BY <2>4, AdmittedFinite
  <2>6. Cardinality(Pending) + Cardinality(admitted') < MaxPending + Cardinality(Handlers)
    BY <1>0, <2>2, <2>5
  <2> QED
    BY <1>0, <2>3, <2>6 DEF CountedTogether
<1>2. CASE \E h \in Handlers, l \in LookupIds : CreateLookup(h, l)
  <2>1. PICK h \in Handlers, l \in LookupIds : CreateLookup(h, l)
    BY <1>2
  <2>2. /\ h \in admitted /\ admitted' = admitted \ {h}
        /\ row[l] = "none" /\ row' = [row EXCEPT ![l] = "pending"]
    BY <2>1 DEF CreateLookup
  <2>3. Pending' = Pending \cup {l} /\ l \notin Pending
    BY <2>2 DEF Pending, LookupsInv, LookupsTyped, TypeOK
  <2>4. IsFiniteSet(Pending') /\ Cardinality(Pending') = Cardinality(Pending) + 1
    BY <1>0, <2>3, FS_AddElement
  <2>5. Cardinality(admitted') = Cardinality(admitted) - 1
    BY <1>0, <2>2, FS_RemoveElement
  <2>6. Cardinality(Pending') + Cardinality(admitted') < MaxPending + Cardinality(Handlers)
    BY <1>0, <2>4, <2>5
  <2> QED
    BY <2>4, <2>6 DEF CountedTogether
<1>3. CASE Pending' \subseteq Pending /\ admitted' \subseteq admitted
  <2>1. /\ IsFiniteSet(Pending') /\ Cardinality(Pending') <= Cardinality(Pending)
        /\ Cardinality(Pending') \in Nat
    BY <1>0, <1>3, FS_Subset, FS_CardinalityType
  <2>2. Cardinality(admitted') <= Cardinality(admitted) /\ Cardinality(admitted') \in Nat
    BY <1>0, <1>3, FS_Subset, FS_CardinalityType
  <2>3. Cardinality(Pending') + Cardinality(admitted') < MaxPending + Cardinality(Handlers)
    BY <1>0, <2>1, <2>2
  <2> QED
    BY <2>1, <2>3 DEF CountedTogether
<1>4. CASE \E h \in Handlers : RejectLookup(h)
  <2>1. row' = row /\ admitted' \subseteq admitted
    BY <1>4 DEF RejectLookup, lookupRow
  <2> QED
    BY <1>3, <2>1 DEF Pending
<1>5. CASE UNCHANGED <<row, admitted>>
  BY <1>3, <1>5 DEF Pending
<1>6. CASE (\E r \in results : ProcessLookupResult(r)) \/ DeleteExpiredLookups
  <2>1. UNCHANGED admitted
    BY <1>6 DEF ProcessLookupResult, DeleteExpiredLookups
  <2>2. \A l \in LookupIds : row'[l] = "pending" => row[l] = "pending"
    <3>1. CASE DeleteExpiredLookups
      BY <3>1 DEF DeleteExpiredLookups
    <3>2. CASE \E r \in results : ProcessLookupResult(r)
      <4>1. PICK r \in results : ProcessLookupResult(r)
        BY <3>2
      <4>2. r.outcome # "pending" /\ r.lookup \in LookupIds
        BY RowStatesDiffer DEF LookupsInv, LookupsTyped, TypeOK, Settled
      <4> QED
        BY <4>1, <4>2 DEF ProcessLookupResult, LookupsInv, LookupsTyped, TypeOK
    <3> QED
      BY <1>6, <3>1, <3>2
  <2>3. Pending' \subseteq Pending
    BY <2>2 DEF Pending
  <2> QED
    BY <1>3, <2>1, <2>3
<1> QED
  BY <1>1, <1>2, <1>4, <1>5, <1>6
     DEF Next, vars, lookupRow, Deliver, Load, PublishResult, Release, Tick

(* LookupsInv is inductive. *)
LEMMA LookupsStep == LookupsInv /\ [Next]_vars => LookupsInv'
<1> SUFFICES ASSUME LookupsInv, [Next]_vars PROVE LookupsInv'
  OBVIOUS
<1>1. LookupsTyped'
  <2>1. CASE UNCHANGED vars
    BY <2>1 DEF vars, lookupRow, extractorVars, LookupsInv, LookupsTyped, TypeOK
  <2>2. CASE Next
    BY <2>2, TypedRequests, TypedCreate, TypedExtractor, TypedResult, TypedTime
       DEF Next, LookupsInv
  <2> QED
    BY <2>1, <2>2
<1> QED
  BY <1>1, AnsweredStep, KeptStep, CountedStep DEF LookupsInv

-----------------------------------------------------------------------------

(* The inductive invariant of the lookups.                                 *)
THEOREM LookupsInvariant == Spec => []LookupsInv
BY LookupsInit, LookupsStep, PTL DEF Spec

(* However many requests count at the same time, pending rows exceed the   *)
(* limit by fewer than there are requests at a time.                       *)
THEOREM PendingBounded == Spec => []PendingNearLimit
<1>1. LookupsInv => PendingNearLimit
  <2> SUFFICES ASSUME LookupsInv PROVE PendingNearLimit
    OBVIOUS
  <2>1. /\ Cardinality(admitted) \in Nat /\ Cardinality(Handlers) \in Nat
        /\ Cardinality(Pending) \in Nat /\ MaxPending \in Nat
        /\ Cardinality(Pending) + Cardinality(admitted) < MaxPending + Cardinality(Handlers)
    BY AdmittedFinite, FS_CardinalityType, RowStatesDiffer
       DEF LookupsInv, LookupsTyped, TypeOK, CountedTogether
  <2> QED
    BY <2>1 DEF PendingNearLimit
<1> QED
  BY <1>1, LookupsInvariant, PTL

(* An answer is final, however often the page was loaded.                  *)
THEOREM AnswersAreFinal == Spec => AnswerIsFinal
<1>1. LookupsInv /\ [Next]_vars =>
        \A l \in LookupIds :
          row[l] \in Outcomes \cup {"deleted"} => row'[l] \in {row[l], "deleted"}
  BY RowStep, RowStatesDiffer DEF Settled
<1>2. LookupsInv /\ [Next]_vars =>
        [\A l \in LookupIds :
           row[l] \in Outcomes \cup {"deleted"} => row'[l] \in {row[l], "deleted"}]_vars
  BY <1>1
<1> QED
  BY <1>2, LookupsInvariant, PTL DEF Spec, AnswerIsFinal

(* A product that was found is kept for DoneTtl.                           *)
THEOREM FoundLastsDoneTtl == Spec => FoundIsKept
<1>1. LookupsInv /\ [Next]_vars =>
        \A l \in LookupIds :
          row[l] \in Prices /\ row'[l] = "deleted" => kept[l] = DoneTtl
  <2> SUFFICES ASSUME LookupsInv, [Next]_vars, NEW l \in LookupIds,
                      row[l] \in Prices, row'[l] = "deleted"
               PROVE  kept[l] = DoneTtl
    OBVIOUS
  <2>1. row'[l] # row[l] /\ row[l] \in Outcomes
    BY RowStatesDiffer
  <2>2. left[l] = 0
    BY <2>1, RowStep, RowStatesDiffer DEF Settled
  <2>3. kept[l] \in Nat /\ kept[l] + left[l] = DoneTtl
    BY DEF LookupsInv, LookupsTyped, TypeOK, KeptForDoneTtl
  <2> QED
    BY <2>2, <2>3
<1>2. LookupsInv /\ [Next]_vars =>
        [\A l \in LookupIds :
           row[l] \in Prices /\ row'[l] = "deleted" => kept[l] = DoneTtl]_vars
  BY <1>1
<1> QED
  BY <1>2, LookupsInvariant, PTL DEF Spec, FoundIsKept
=============================================================================
