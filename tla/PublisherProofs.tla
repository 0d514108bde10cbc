--------------------------- MODULE PublisherProofs ---------------------------
(***************************************************************************)
(* Theorems about Publisher, for any calls and generations: it keeps the   *)
(* promise of PublishPromise, leaks no connection, and nobody waits on a   *)
(* stream that is not its own.                                             *)
(*                                                                         *)
(* What a call finds is decided by whoever has held publishGate before it. *)
(* The channel in use is quiet whenever nobody waits on it: nothing is     *)
(* written that the broker has not handled, and no confirmation waits      *)
(* unread (QuietInUse).  A caller that stops waiting before its answer has *)
(* come takes the channel out of use, so the next caller's confirmation is *)
(* its own (Awaited).                                                      *)
(***************************************************************************)
EXTENDS Publisher, FiniteSetTheorems, TLAPS

Publishing == {"check", "streams", "deadline", "write", "await", "retiring"}
Redialling == {"inspect", "clear", "dial", "dialled", "setup", "install", "abandon"}

(* A call is past the gate exactly while it holds it. *)
GateHeld ==
    /\ \A c \in Calls : pc[c] \in Publishing \cup Redialling <=> gate = c
    /\ \A c \in Calls : gate # c => held[c] = {}

(* A call that is under way is pending, and redials on its first try only. *)
CallsKnown ==
    \A c \in Calls :
        /\ pc[c] = "out" <=> outcome[c] # "pending"
        /\ outcome[c] = "none" => try[c] = 1
        /\ pc[c] \in Redialling \cup {"failed", "redial"} => try[c] = 1

Clean(g) == wire[g] = <<>> /\ confirms[g] = <<>> /\ ~returns[g]

(* Of the generations, whoever holds the gate. *)
Placed ==
    /\ closed => publishCh = None
    /\ ~closed => closing = {}
    /\ publishCh # None => streams = publishCh /\ socket = publishCh
    /\ \A g \in Generations : conn[g] = "none" => Clean(g)
    /\ \A g \in Generations : wire[g] = <<>> \/ \E c \in Calls : wire[g] = <<c>>

(* On the channel in use nothing is left by an earlier call. *)
QuietInUse ==
    publishCh # None /\ conn[publishCh] = "open" =>
        \/ Clean(publishCh)
        \/ \E c \in Calls : gate = c /\ pc[c] = "await" /\ ch[c] = publishCh

(* What a call has in its hands and finds in place while it redials. *)
HoldsItsOwn(c) ==
    /\ pc[c] \in (Publishing \ {"retiring"}) \cup {"inspect", "dial"} => held[c] = {}
    /\ pc[c] \in Redialling \ {"inspect"} => publishCh = None
    /\ pc[c] \in {"dialled", "setup", "install"} =>
         \E g \in Generations : held[c] = {g} /\ Clean(g)
    /\ pc[c] \in {"setup", "install"} /\ ~closed => held[c] = {socket}
    /\ pc[c] = "install" /\ ~closed => held[c] = {streams}

(* What it has read is still in place, or Close has taken all of it. *)
ReadsOwn(c) ==
    /\ pc[c] \in {"streams", "deadline", "write", "await"} =>
         /\ ch[c] \in Generations
         /\ publishCh = None => streams = None /\ socket = None
         /\ publishCh # None => publishCh = ch[c]
    /\ pc[c] = "deadline" => stream[c] = ch[c] \/ publishCh = None
    /\ pc[c] \in {"write", "await"} => stream[c] = ch[c]

(* The confirmation it waits for is that of its own message. *)
Awaited(c) ==
    /\ confirms[ch[c]] = <<>> =>
         /\ ~returns[ch[c]] /\ ~returned[c]
         /\ conn[ch[c]] = "open" => wire[ch[c]] = <<c>>
    /\ confirms[ch[c]] # <<>> =>
         /\ wire[ch[c]] = <<>> /\ Tail(confirms[ch[c]]) = <<>>
         /\ ~(returned[c] /\ returns[ch[c]])
         /\ Head(confirms[ch[c]]) /\ ~returned[c] /\ ~returns[ch[c]] => copies[c] > 0

Confirmed(c) ==
    /\ pc[c] \in {"streams", "deadline", "write"} /\ conn[ch[c]] = "open" => Clean(ch[c])
    /\ pc[c] \in {"deadline", "write"} => ~returned[c]
    /\ pc[c] = "await" => Awaited(c)
    /\ pc[c] = "retiring" /\ verdict[c] => copies[c] > 0

Holder(c) == HoldsItsOwn(c) /\ ReadsOwn(c) /\ Confirmed(c)

OnWire(c) == {g \in Generations : wire[g] = <<c>>}

Unwritten(c) ==
    outcome[c] = "none" \/ pc[c] \in {"gate", "check", "streams", "deadline", "write"}

Written(c) == IF Unwritten(c) THEN try[c] - 1 ELSE try[c]

(* A message is written once by each publishOn. *)
OncePerTry == \A c \in Calls : copies[c] + Cardinality(OnWire(c)) <= Written(c)

PublisherInv ==
    /\ TypeOK
    /\ GateHeld
    /\ CallsKnown
    /\ Placed
    /\ QuietInUse
    /\ NoConnectionLeaks
    /\ \A c \in Calls : gate = c => Holder(c)
    /\ OncePerTry

-----------------------------------------------------------------------------

(* The first connection is new, and nobody has begun. *)
LEMMA InitInv == Init => PublisherInv
<1> SUFFICES ASSUME Init PROVE PublisherInv
  OBVIOUS
<1> USE PublisherAssumption DEF Init, None
<1>1. TypeOK
  <2>1. <<>> \in Seq(Calls) /\ <<>> \in Seq(BOOLEAN) /\ 1 \in Generations
    BY DEF Generations
  <2> QED
    BY <2>1 DEF TypeOK
<1>2. GateHeld /\ CallsKnown
  BY DEF GateHeld, CallsKnown, Publishing, Redialling
<1>3. Placed /\ QuietInUse /\ NoConnectionLeaks
  BY DEF Placed, QuietInUse, NoConnectionLeaks, Clean, Generations
<1>4. \A c \in Calls : gate # c
  OBVIOUS
<1>5. OncePerTry
  <2> SUFFICES ASSUME NEW c \in Calls PROVE copies[c] + Cardinality(OnWire(c)) <= Written(c)
    BY DEF OncePerTry
  <2>1. OnWire(c) = {}
    BY DEF OnWire
  <2> QED
    BY <2>1, FS_EmptySet DEF Written, Unwritten
<1> QED
  BY <1>1, <1>2, <1>3, <1>4, <1>5 DEF PublisherInv

(* Whoever is past the gate is alone there, and finds what Holder says. *)
LEMMA AtGate ==
    ASSUME PublisherInv, NEW c \in Calls, pc[c] \in Publishing \cup Redialling
    PROVE  gate = c /\ HoldsItsOwn(c) /\ ReadsOwn(c) /\ Confirmed(c)
BY DEF PublisherInv, GateHeld, Holder

(* A message is on finitely many wires. *)
LEMMA OnWireFinite ==
    ASSUME NEW c \in Calls
    PROVE  IsFiniteSet(OnWire(c)) /\ Cardinality(OnWire(c)) \in Nat
<1>1. OnWire(c) \in SUBSET (1 .. MaxDials) /\ MaxDials \in Nat
  BY PublisherAssumption DEF OnWire, Generations
<1>2. IsFiniteSet(1 .. MaxDials)
  BY <1>1, FS_Interval
<1>3. IsFiniteSet(OnWire(c))
  BY <1>1, <1>2, FS_Subset
<1> QED
  BY <1>3, FS_CardinalityType

(* A step of one call that neither writes nor is on the broker's side, and *)
(* does not go back before the write on the same try.                      *)
LEMMA BudgetKept ==
    ASSUME PublisherInv, TypeOK', UNCHANGED <<wire, copies>>, NEW c \in Calls,
           \A v \in Calls \ {c} :
             pc'[v] = pc[v] /\ try'[v] = try[v] /\ outcome'[v] = outcome[v],
           \/ try'[c] = try[c] /\ (Unwritten(c)' => Unwritten(c))
           \/ try[c] = 1 /\ try'[c] = 2
    PROVE  OncePerTry'
<1> SUFFICES ASSUME NEW v \in Calls
             PROVE  copies'[v] + Cardinality(OnWire(v)') <= Written(v)'
  BY DEF OncePerTry
<1>1. OnWire(v)' = OnWire(v)
  BY DEF OnWire
<1>2. try[v] \in {1, 2} /\ try'[v] \in {1, 2}
  BY DEF PublisherInv, TypeOK
<1>3. Written(v) <= Written(v)' /\ Written(v) \in Int /\ Written(v)' \in Int
  <2>1. CASE v = c
    BY <1>2, <2>1 DEF Written
  <2>2. CASE v # c
    BY <1>2, <2>2 DEF Written, Unwritten
  <2> QED
    BY <2>1, <2>2
<1>4. copies[v] \in Nat
  BY DEF PublisherInv, TypeOK
<1>5. copies[v] + Cardinality(OnWire(v)) <= Written(v)
  BY DEF PublisherInv, OncePerTry
<1> QED
  BY <1>1, <1>3, <1>4, <1>5, OnWireFinite

(* What the holder of the gate sees is not changed by others' control. *)
LEMMA HolderKept ==
    ASSUME PublisherInv, gate' = gate,
           UNCHANGED <<shared, network, locals, copies>>,
           NEW v \in Calls, gate = v, pc'[v] = pc[v]
    PROVE  Holder(v)'
<1> USE DEF shared, network, locals
<1>0. HoldsItsOwn(v) /\ ReadsOwn(v) /\ Confirmed(v)
  BY DEF PublisherInv, Holder
<1>1. HoldsItsOwn(v)'
  BY <1>0 DEF HoldsItsOwn, Clean
<1>2. ReadsOwn(v)'
  BY <1>0 DEF ReadsOwn
<1>3. Confirmed(v)'
  BY <1>0 DEF Confirmed, Awaited, Clean
<1> QED
  BY <1>1, <1>2, <1>3 DEF Holder

(* Begin, GateTimeout, LookFurther, Expire: the gate is not passed. *)
LEMMA OutsideInv ==
    ASSUME PublisherInv, NEW c \in Calls, gate # c,
           NEW s \in {"out", "gate", "failed", "redial"},
           NEW o \in {"none", "pending", "ok", "failed"},
           NEW E \in SUBSET Calls,
           pc' = [pc EXCEPT ![c] = s], outcome' = [outcome EXCEPT ![c] = o],
           expired' = E,
           s = "out" <=> o # "pending",
           s \in {"failed", "redial"} => try[c] = 1,
           Unwritten(c)' => Unwritten(c), o = "none" => outcome[c] = "none",
           UNCHANGED <<gate, shared, network, closing, try, locals, copies>>
    PROVE  PublisherInv'
<1> USE DEF shared, network, locals
<1>1. TypeOK'
  BY DEF PublisherInv, TypeOK
<1>2. GateHeld'
  BY DEF PublisherInv, TypeOK, GateHeld, Publishing, Redialling
<1>3. CallsKnown'
  BY DEF PublisherInv, TypeOK, CallsKnown, Redialling
<1>4. Placed'
  BY DEF PublisherInv, Placed, Clean
<1>5. QuietInUse'
  BY DEF PublisherInv, TypeOK, QuietInUse, Clean
<1>6. NoConnectionLeaks'
  BY DEF PublisherInv, NoConnectionLeaks
<1>7. \A v \in Calls : gate' = v => Holder(v)'
  BY HolderKept DEF PublisherInv, TypeOK
<1>8. OncePerTry'
  BY <1>1, BudgetKept DEF PublisherInv, TypeOK
<1> QED
  BY <1>1, <1>2, <1>3, <1>4, <1>5, <1>6, <1>7, <1>8 DEF PublisherInv

(* A call gives up the gate; the generations it holds are closed. *)
LEMMA LeaveInv ==
    ASSUME PublisherInv, NEW c \in Calls, pc[c] \in Publishing \cup Redialling,
           gate' = Nobody, NEW ok \in BOOLEAN, Ends(c, ok) \/ Return(c, ok),
           pc[c] \in Redialling => Return(c, ok),
           conn' = Killed(held[c]), held' = [held EXCEPT ![c] = {}],
           UNCHANGED <<shared, wire, closing, try, ch, stream, copies>>,
           confirms' \in [Generations -> Seq(BOOLEAN)], returns' \in [Generations -> BOOLEAN],
           returned' \in [Calls -> BOOLEAN], verdict' \in [Calls -> BOOLEAN],
           expired' = expired,
           \A g \in Generations : Clean(g) => Clean(g)',
           publishCh # None /\ conn[publishCh] = "open" /\ publishCh \notin held[c]
             => Clean(publishCh)'
    PROVE  PublisherInv'
<1> USE PublisherAssumption DEF shared, Killed
<1>0. gate = c
  BY AtGate
<1>1. \E s \in {"out", "failed"}, o \in {"none", "pending", "ok", "failed"} :
        /\ pc' = [pc EXCEPT ![c] = s] /\ outcome' = [outcome EXCEPT ![c] = o]
        /\ s = "out" <=> o # "pending"
        /\ s = "failed" => try[c] = 1
        /\ o # "none"
  <2>1. try[c] \in {1, 2} /\ outcome[c] = "pending" /\ outcome = [outcome EXCEPT ![c] = outcome[c]]
    BY DEF PublisherInv, TypeOK, CallsKnown, Publishing, Redialling
  <2>2. CASE Return(c, ok)
    BY <2>2 DEF Return, GoTo
  <2>3. CASE ~Return(c, ok)
    BY <2>1, <2>3 DEF Ends, GoTo
  <2> QED
    BY <2>2, <2>3
<1>2. PICK s \in {"out", "failed"}, o \in {"none", "pending", "ok", "failed"} :
        /\ pc' = [pc EXCEPT ![c] = s] /\ outcome' = [outcome EXCEPT ![c] = o]
        /\ s = "out" <=> o # "pending"
        /\ s = "failed" => try[c] = 1
        /\ o # "none"
  BY <1>1
<1>3. TypeOK'
  BY <1>2 DEF PublisherInv, TypeOK
<1>4. GateHeld'
  BY <1>0, <1>2 DEF PublisherInv, TypeOK, GateHeld, Publishing, Redialling
<1>5. CallsKnown'
  BY <1>2 DEF PublisherInv, TypeOK, CallsKnown, Redialling
<1>6. Placed'
  BY DEF PublisherInv, TypeOK, Placed, Clean
<1>7. QuietInUse'
  BY DEF PublisherInv, TypeOK, QuietInUse
<1>8. NoConnectionLeaks'
  BY <1>0 DEF PublisherInv, TypeOK, NoConnectionLeaks
<1>9. OncePerTry'
  BY <1>2, <1>3, BudgetKept DEF PublisherInv, TypeOK, Unwritten
<1> QED
  BY <1>3, <1>4, <1>5, <1>6, <1>7, <1>8, <1>9 DEF PublisherInv

(* retirePublisher: the channel is out of use, and its caller holds it. *)
LEMMA RetireInv ==
    ASSUME PublisherInv, NEW c \in Calls, pc[c] \in {"deadline", "write", "await"},
           NEW ok \in BOOLEAN, Retire(c, ok), ok => copies[c] > 0,
           UNCHANGED <<conn, wire, closing, try, ch, stream, returned, expired, copies>>,
           confirms' \in [Generations -> Seq(BOOLEAN)], returns' \in [Generations -> BOOLEAN],
           \A g \in Generations : Clean(g) => Clean(g)'
    PROVE  PublisherInv'
<1> USE PublisherAssumption
<1>0. gate = c /\ HoldsItsOwn(c) /\ ReadsOwn(c)
  BY AtGate DEF Publishing
<1>1. PICK H \in SUBSET Generations :
        /\ held' = [held EXCEPT ![c] = H]
        /\ publishCh # None => publishCh \in H
  <2>1. CASE publishCh = ch[c]
    <3> DEFINE G == {publishCh, socket} \ {None}
    <3>1. G \in SUBSET Generations
      BY DEF PublisherInv, TypeOK
    <3>2. held' = [held EXCEPT ![c] = G]
      BY <2>1 DEF Retire
    <3>3. publishCh # None => publishCh \in G
      OBVIOUS
    <3> HIDE DEF G
    <3> QED
      BY <3>1, <3>2, <3>3
  <2>2. CASE publishCh # ch[c]
    <3>1. publishCh = None
      BY <1>0, <2>2 DEF ReadsOwn
    <3>2. held' = [held EXCEPT ![c] = {}]
      BY <1>0, <2>2 DEF Retire, HoldsItsOwn, Publishing, PublisherInv, TypeOK
    <3> WITNESS {} \in SUBSET Generations
    <3> QED
      BY <3>1, <3>2
  <2> QED
    BY <2>1, <2>2
<1>2. /\ publishCh' = None /\ UNCHANGED <<closed, gate, outcome>>
      /\ {streams', socket'} \subseteq Generations \cup {None}
      /\ verdict' = [verdict EXCEPT ![c] = ok] /\ pc' = [pc EXCEPT ![c] = "retiring"]
  BY <1>0 DEF Retire, GoTo, ReadsOwn, PublisherInv, TypeOK
<1>3. TypeOK'
  BY <1>1, <1>2 DEF PublisherInv, TypeOK
<1>4. GateHeld'
  BY <1>0, <1>1, <1>2 DEF PublisherInv, TypeOK, GateHeld, Publishing, Redialling
<1>5. CallsKnown'
  BY <1>2 DEF PublisherInv, TypeOK, CallsKnown, Redialling
<1>6. Placed'
  BY <1>2 DEF PublisherInv, TypeOK, Placed, Clean
<1>7. QuietInUse'
  BY <1>2 DEF QuietInUse
<1>8. NoConnectionLeaks'
  <2> SUFFICES ASSUME NEW g \in Generations, conn'[g] = "open"
               PROVE  g \in closing' \/ \E v \in Calls : g \in held'[v]
    BY DEF NoConnectionLeaks
  <2>1. \A v \in Calls \ {c} : held'[v] = held[v]
    BY <1>1 DEF PublisherInv, TypeOK
  <2>2. held'[c] = H /\ held[c] = {}
    BY <1>0, <1>1 DEF PublisherInv, TypeOK, HoldsItsOwn, Publishing
  <2>3. \/ g = publishCh \/ g \in closing \/ \E v \in Calls : g \in held[v]
    BY DEF PublisherInv, NoConnectionLeaks
  <2>4. CASE g = publishCh
    BY <1>1, <2>2, <2>4 DEF Generations, None
  <2> QED
    BY <2>1, <2>2, <2>3, <2>4
<1>9. Holder(c)'
  <2>1. pc'[c] = "retiring" /\ verdict'[c] = ok
    BY <1>2 DEF PublisherInv, TypeOK
  <2>2. HoldsItsOwn(c)' /\ ReadsOwn(c)' /\ Confirmed(c)'
    BY <2>1 DEF HoldsItsOwn, ReadsOwn, Confirmed, Publishing, Redialling
  <2> QED
    BY <2>2 DEF Holder
<1>10. OncePerTry'
  BY <1>2, <1>3, BudgetKept DEF PublisherInv, TypeOK, Unwritten
<1> QED
  BY <1>0, <1>2, <1>3, <1>4, <1>5, <1>6, <1>7, <1>8, <1>9, <1>10 DEF PublisherInv

-----------------------------------------------------------------------------
(* publishOn                                                               *)

(* Calls outside the gate begin, give up or look further. *)
LEMMA OutsideSteps ==
    ASSUME PublisherInv, NEW c \in Calls,
           Begin(c) \/ GateTimeout(c) \/ LookFurther(c) \/ Expire(c)
    PROVE  PublisherInv'
<1>0. /\ outcome[c] = "none" => pc[c] = "out"
      /\ pc[c] \in {"gate", "redial", "failed"} => outcome[c] = "pending"
      /\ pc[c] = "failed" => try[c] = 1
      /\ pc[c] \in {"gate", "redial", "failed", "out"} => gate # c
  BY DEF PublisherInv, CallsKnown, GateHeld, Publishing, Redialling
<1>1. CASE Begin(c)
  <2>1. pc' = [pc EXCEPT ![c] = "gate"] /\ outcome' = [outcome EXCEPT ![c] = "pending"]
    BY <1>1 DEF Begin, GoTo
  <2>2. Unwritten(c)' => Unwritten(c)
    BY <1>1 DEF Begin, Unwritten
  <2> QED
    BY <1>0, <1>1, <2>1, <2>2, OutsideInv DEF Begin, PublisherInv, TypeOK
<1>2. CASE GateTimeout(c)
  <2>1. pc' = [pc EXCEPT ![c] = "out"] /\ outcome' = [outcome EXCEPT ![c] = "failed"]
    BY <1>2 DEF GateTimeout, Return, GoTo
  <2>2. Unwritten(c)' => Unwritten(c)
    BY <1>2, <2>1 DEF Unwritten, PublisherInv, TypeOK
  <2> QED
    BY <1>0, <1>2, <2>1, <2>2, OutsideInv DEF GateTimeout, PublisherInv, TypeOK
<1>3. CASE LookFurther(c)
  <2>1. \/ pc' = [pc EXCEPT ![c] = "redial"] /\ outcome' = [outcome EXCEPT ![c] = "pending"]
        \/ pc' = [pc EXCEPT ![c] = "out"] /\ outcome' = [outcome EXCEPT ![c] = "failed"]
    BY <1>0, <1>3 DEF LookFurther, Return, GoTo, PublisherInv, TypeOK
  <2>2. Unwritten(c)' => Unwritten(c)
    BY <1>3, <2>1 DEF Unwritten, PublisherInv, TypeOK
  <2> QED
    BY <1>0, <1>3, <2>1, <2>2, OutsideInv DEF LookFurther, PublisherInv, TypeOK
<1>4. CASE Expire(c)
  <2> USE <1>4 DEF Expire, shared, network, locals
  <2>1. TypeOK'
    BY DEF PublisherInv, TypeOK
  <2>2. GateHeld' /\ CallsKnown'
    BY DEF PublisherInv, GateHeld, CallsKnown
  <2>3. Placed' /\ QuietInUse' /\ NoConnectionLeaks'
    BY DEF PublisherInv, Placed, QuietInUse, NoConnectionLeaks, Clean
  <2>4. \A v \in Calls : gate' = v => Holder(v)'
    BY HolderKept
  <2>5. OncePerTry'
    BY <2>1, BudgetKept DEF Unwritten
  <2> QED
    BY <2>1, <2>2, <2>3, <2>4, <2>5 DEF PublisherInv
<1> QED
  BY <1>1, <1>2, <1>3, <1>4

(* The gate is taken by a call with empty hands. *)
LEMMA TakeGateInv ==
    ASSUME PublisherInv, NEW c \in Calls, TakeGate(c)
    PROVE  PublisherInv'
<1> USE PublisherAssumption DEF TakeGate, GoTo, shared, network, locals
<1>0. PICK s \in {"check", "inspect"} :
        /\ pc' = [pc EXCEPT ![c] = s]
        /\ s = "check" <=> pc[c] = "gate"
        /\ s = "inspect" <=> pc[c] = "redial"
  OBVIOUS
<1>1. TypeOK'
  BY <1>0 DEF PublisherInv, TypeOK
<1>2. GateHeld'
  BY <1>0 DEF PublisherInv, TypeOK, GateHeld, Publishing, Redialling
<1>3. CallsKnown'
  BY <1>0 DEF PublisherInv, TypeOK, CallsKnown, Redialling
<1>4. Placed' /\ NoConnectionLeaks'
  BY DEF PublisherInv, Placed, NoConnectionLeaks, Clean
<1>5. QuietInUse'
  BY DEF PublisherInv, QuietInUse, Clean
<1>6. Holder(c)'
  <2>1. pc'[c] \in {"check", "inspect"} /\ held'[c] = {}
    BY <1>0 DEF PublisherInv, TypeOK, GateHeld
  <2>2. HoldsItsOwn(c)' /\ ReadsOwn(c)' /\ Confirmed(c)'
    BY <2>1 DEF HoldsItsOwn, ReadsOwn, Confirmed, Redialling
  <2> QED
    BY <2>2 DEF Holder
<1>7. OncePerTry'
  BY <1>0, <1>1, BudgetKept DEF PublisherInv, TypeOK, Unwritten
<1> QED
  BY <1>1, <1>2, <1>3, <1>4, <1>5, <1>6, <1>7 DEF PublisherInv

(* A step of the holder that keeps the gate, touches no generation and no  *)
(* hand, and goes on to s.                                                 *)
LEMMA GoOnInv ==
    ASSUME PublisherInv, NEW c \in Calls, pc[c] \in Publishing,
           NEW s \in Publishing \ {"retiring"}, GoTo(c, s),
           UNCHANGED <<gate, shared, network, closing, try, held, verdict, expired,
                       outcome, copies>>,
           ch' \in [Calls -> Generations \cup {None}],
           stream' \in [Calls -> Generations \cup {None}],
           returned' \in [Calls -> BOOLEAN],
           Unwritten(c)' => Unwritten(c),
           pc[c] # "await", held[c] = {}, ReadsOwn(c)', Confirmed(c)'
    PROVE  PublisherInv'
<1> USE DEF GoTo, shared, network
<1>0. gate = c
  BY AtGate
<1>1. TypeOK'
  BY DEF PublisherInv, TypeOK, Publishing
<1>2. GateHeld'
  BY <1>0 DEF PublisherInv, TypeOK, GateHeld, Publishing
<1>3. CallsKnown'
  BY DEF PublisherInv, TypeOK, CallsKnown, Redialling, Publishing
<1>4. Placed' /\ NoConnectionLeaks'
  BY DEF PublisherInv, Placed, NoConnectionLeaks, Clean
<1>5. QuietInUse'
  BY <1>0 DEF PublisherInv, QuietInUse, Clean
<1>6. HoldsItsOwn(c)'
  BY DEF PublisherInv, TypeOK, HoldsItsOwn, Publishing, Redialling
<1>7. OncePerTry'
  BY <1>1, BudgetKept DEF PublisherInv, TypeOK
<1> QED
  BY <1>0, <1>1, <1>2, <1>3, <1>4, <1>5, <1>6, <1>7 DEF PublisherInv, Holder

(* The channel that is read is the one in use, and quiet. *)
LEMMA ReadChannelInv ==
    ASSUME PublisherInv, NEW c \in Calls, ReadChannel(c)
    PROVE  PublisherInv'
<1> USE PublisherAssumption DEF ReadChannel, shared, network
<1>0. gate = c /\ HoldsItsOwn(c) /\ held[c] = {}
  BY AtGate DEF HoldsItsOwn, Publishing
<1>1. CASE ~closed /\ Open(publishCh)
  <2>1. publishCh \in Generations /\ conn[publishCh] = "open" /\ Clean(publishCh)
    BY <1>0, <1>1 DEF Open, None, PublisherInv, TypeOK, QuietInUse
  <2>2. ch'[c] = publishCh /\ pc'[c] = "streams"
    BY <1>1 DEF GoTo, PublisherInv, TypeOK
  <2>3. ReadsOwn(c)' /\ Confirmed(c)'
    BY <1>1, <2>1, <2>2 DEF ReadsOwn, Confirmed, Open, Clean
  <2>4. ch' \in [Calls -> Generations \cup {None}]
    BY <1>1, <2>1 DEF PublisherInv, TypeOK
  <2> QED
    BY <1>0, <1>1, <2>3, <2>4, GoOnInv DEF Publishing, Unwritten, PublisherInv, TypeOK
<1>2. CASE ~(~closed /\ Open(publishCh))
  <2>1. Leave(c, FALSE) /\ ch' = ch
    BY <1>2
  <2>2. held' = [held EXCEPT ![c] = {}] /\ conn' = Killed(held[c])
    BY <1>0 DEF PublisherInv, TypeOK, Killed
  <2>3. publishCh # None /\ conn[publishCh] = "open" => Clean(publishCh)
    BY <1>0 DEF PublisherInv, QuietInUse
  <2> QED
    BY <2>1, <2>2, <2>3, LeaveInv DEF Leave, Publishing, Redialling, PublisherInv, TypeOK, Clean
<1> QED
  BY <1>1, <1>2

(* The streams read after the channel are its own, or Close has come.      *)
LEMMA ReadStreamsInv ==
    ASSUME PublisherInv, NEW c \in Calls, ReadStreams(c)
    PROVE  PublisherInv'
<1> USE DEF ReadStreams, shared, network
<1>0. gate = c /\ held[c] = {} /\ ReadsOwn(c) /\ Confirmed(c)
  BY AtGate DEF HoldsItsOwn, Publishing
<1>1. pc'[c] = "deadline" /\ stream'[c] = streams /\ ~returned'[c]
  BY DEF GoTo, PublisherInv, TypeOK
<1>2. ReadsOwn(c)' /\ Confirmed(c)'
  <2>1. publishCh # None => streams = publishCh
    BY DEF PublisherInv, Placed
  <2> QED
    BY <1>0, <1>1, <2>1 DEF ReadsOwn, Confirmed, Clean
<1>3. /\ stream' \in [Calls -> Generations \cup {None}] /\ ch' = ch
      /\ returned' \in [Calls -> BOOLEAN] /\ ch \in [Calls -> Generations \cup {None}]
  BY DEF PublisherInv, TypeOK
<1> QED
  BY <1>0, <1>2, <1>3, GoOnInv DEF Publishing, Unwritten

(* A socket that is open is that of the channel it has read. *)
LEMMA SetDeadlineInv ==
    ASSUME PublisherInv, NEW c \in Calls, SetDeadline(c)
    PROVE  PublisherInv'
<1> USE DEF SetDeadline, shared, network
<1>0. gate = c /\ held[c] = {} /\ ReadsOwn(c) /\ Confirmed(c)
  BY AtGate DEF HoldsItsOwn, Publishing
<1>1. CASE Open(socket)
  <2>1. pc'[c] = "write"
    BY <1>1 DEF GoTo, PublisherInv, TypeOK
  <2>2. ReadsOwn(c)' /\ Confirmed(c)'
    BY <1>0, <1>1, <2>1 DEF ReadsOwn, Confirmed, Clean, Open
  <2> QED
    BY <1>0, <1>1, <2>2, GoOnInv DEF Publishing, Unwritten, PublisherInv, TypeOK
<1>2. CASE ~Open(socket)
  BY <1>2, RetireInv DEF PublisherInv, TypeOK, Clean
<1> QED
  BY <1>1, <1>2

(* A write that fails takes the channel out of use. *)
LEMMA WriteFailsInv ==
    ASSUME PublisherInv, NEW c \in Calls, WriteFails(c)
    PROVE  PublisherInv'
BY RetireInv DEF WriteFails, network, PublisherInv, TypeOK, Clean

(* The channel is quiet, so the confirmation to come is for this message.  *)
LEMMA WriteInv ==
    ASSUME PublisherInv, NEW c \in Calls, Write(c)
    PROVE  PublisherInv'
<1> USE PublisherAssumption DEF Write, shared, locals
<1>0. gate = c /\ held[c] = {} /\ HoldsItsOwn(c) /\ ReadsOwn(c) /\ Confirmed(c)
  BY AtGate DEF HoldsItsOwn, Publishing
<1> DEFINE h == ch[c]
<1>1. /\ h = ch[c] /\ h \in Generations /\ conn[h] = "open" /\ Clean(h)
      /\ ~returned[c] /\ stream[c] = h /\ pc[c] = "write"
  BY <1>0 DEF ReadsOwn, Confirmed, Open
<1>2. wire' = [wire EXCEPT ![h] = <<c>>] /\ pc' = [pc EXCEPT ![c] = "await"]
  BY <1>1 DEF Clean, GoTo, PublisherInv, TypeOK
<1>3. UNCHANGED <<gate, closed, publishCh, streams, socket, conn, confirms, returns, closing,
                  try, ch, stream, returned, held, verdict, expired, outcome, copies>>
  OBVIOUS
<1> USE <1>2, <1>3
<1> HIDE DEF Write, h
<1>4. TypeOK'
  <2>1. <<c>> \in Seq(Calls)
    OBVIOUS
  <2> QED
    BY <2>1 DEF PublisherInv, TypeOK
<1>5. GateHeld' /\ CallsKnown'
  BY <1>0, <1>1 DEF PublisherInv, TypeOK, GateHeld, CallsKnown, Publishing, Redialling
<1>6. Placed'
  BY <1>1 DEF PublisherInv, TypeOK, Placed, Clean
<1>7. NoConnectionLeaks'
  BY DEF PublisherInv, NoConnectionLeaks
<1>8. QuietInUse'
  <2>1. publishCh # None => publishCh = h
    BY <1>0, <1>1 DEF ReadsOwn
  <2>2. gate' = c /\ pc'[c] = "await" /\ ch'[c] = h /\ publishCh' = publishCh
    BY <1>0, <1>1 DEF PublisherInv, TypeOK
  <2> QED
    BY <2>1, <2>2 DEF QuietInUse
<1>9. Holder(c)'
  <2>1. pc'[c] = "await" /\ wire'[h] = <<c>>
    BY <1>1 DEF PublisherInv, TypeOK
  <2>2. HoldsItsOwn(c)' /\ ReadsOwn(c)'
    BY <1>0, <1>1, <2>1 DEF HoldsItsOwn, ReadsOwn, Publishing, Redialling
  <2>3. Confirmed(c)'
    BY <1>1, <2>1 DEF Confirmed, Awaited, Clean
  <2> QED
    BY <2>2, <2>3 DEF Holder
<1>10. OncePerTry'
  <2> SUFFICES ASSUME NEW v \in Calls
               PROVE  copies[v] + Cardinality(OnWire(v)') <= Written(v)'
    BY DEF OncePerTry
  <2>1. copies[v] + Cardinality(OnWire(v)) <= Written(v) /\ copies[v] \in Nat
    BY DEF PublisherInv, TypeOK, OncePerTry
  <2>2. CASE v = c
    <3>1. OnWire(v)' = OnWire(v) \cup {h} /\ h \notin OnWire(v)
      BY <1>1, <2>2 DEF OnWire, Clean, PublisherInv, TypeOK
    <3>2. Cardinality(OnWire(v)') = Cardinality(OnWire(v)) + 1
      BY <3>1, OnWireFinite, FS_AddElement
    <3>3. Unwritten(c) /\ try[c] \in Int /\ outcome[c] = "pending"
      BY <1>1 DEF Unwritten, PublisherInv, TypeOK, CallsKnown
    <3>4. ~Unwritten(c)'
      BY <3>3 DEF Unwritten, PublisherInv, TypeOK
    <3>5. Written(v)' = try[v] /\ Written(v) = try[v] - 1
      BY <2>2, <3>3, <3>4 DEF Written
    <3> QED
      BY <2>1, <2>2, <3>2, <3>3, <3>5, OnWireFinite
  <2>3. CASE v # c
    <3>1. OnWire(v)' = OnWire(v)
      BY <1>1, <2>3 DEF OnWire, Clean, PublisherInv, TypeOK
    <3>2. Written(v)' = Written(v)
      BY <2>3 DEF Written, Unwritten, PublisherInv, TypeOK
    <3> QED
      BY <2>1, <3>1, <3>2
  <2> QED
    BY <2>2, <2>3
<1> QED
  BY <1>0, <1>4, <1>5, <1>6, <1>7, <1>8, <1>9, <1>10 DEF PublisherInv

(* Who waits is answered on the generation it wrote to. *)
LEMMA AwaitFacts ==
    ASSUME PublisherInv, NEW c \in Calls, pc[c] = "await"
    PROVE  /\ gate = c /\ held[c] = {} /\ HoldsItsOwn(c) /\ ReadsOwn(c) /\ Awaited(c)
           /\ stream[c] = ch[c] /\ ch[c] \in Generations
           /\ publishCh # None => publishCh = ch[c]
<1>1. gate = c /\ HoldsItsOwn(c) /\ ReadsOwn(c) /\ Confirmed(c)
  BY AtGate DEF Publishing
<1>2. held[c] = {} /\ Awaited(c) /\ stream[c] = ch[c] /\ ch[c] \in Generations
  BY <1>1 DEF HoldsItsOwn, ReadsOwn, Confirmed, Publishing
<1>3. publishCh # None => publishCh = ch[c]
  BY <1>1 DEF ReadsOwn
<1> QED
  BY <1>1, <1>2, <1>3

(* A Return that is read first is that of its own message. *)
LEMMA TakeReturnInv ==
    ASSUME PublisherInv, NEW c \in Calls, TakeReturn(c)
    PROVE  PublisherInv'
<1> USE PublisherAssumption DEF TakeReturn, shared
<1> DEFINE h == ch[c]
<1>0. /\ gate = c /\ held[c] = {} /\ HoldsItsOwn(c) /\ ReadsOwn(c) /\ Awaited(c)
      /\ stream[c] = h /\ h \in Generations
      /\ returns[h] /\ ~returned[c] /\ confirms[h] # <<>>
  BY AwaitFacts DEF Awaited
<1>1. TypeOK'
  BY DEF PublisherInv, TypeOK
<1>2. GateHeld' /\ CallsKnown'
  BY DEF PublisherInv, GateHeld, CallsKnown
<1>3. Placed' /\ NoConnectionLeaks'
  BY <1>0 DEF PublisherInv, TypeOK, Placed, NoConnectionLeaks, Clean
<1>4. QuietInUse'
  BY <1>0 DEF PublisherInv, TypeOK, QuietInUse, Clean
<1>5. Holder(c)'
  <2>1. HoldsItsOwn(c)' /\ ReadsOwn(c)'
    BY <1>0 DEF HoldsItsOwn, ReadsOwn, Redialling
  <2>2. ~returns'[h] /\ returned'[c] /\ pc'[c] = "await"
    BY <1>0 DEF PublisherInv, TypeOK
  <2>3. Confirmed(c)'
    BY <1>0, <2>2 DEF Confirmed, Awaited
  <2> QED
    BY <2>1, <2>3 DEF Holder
<1>6. OncePerTry'
  BY <1>1, BudgetKept DEF Unwritten
<1> QED
  BY <1>0, <1>1, <1>2, <1>3, <1>4, <1>5, <1>6 DEF PublisherInv

(* The wait ends: with the channel quiet or dead, or else out of use. *)
LEMMA FinishInv ==
    ASSUME PublisherInv, NEW c \in Calls, pc[c] = "await",
           NEW ok \in BOOLEAN, Finish(c, ok), ok => copies[c] > 0,
           UNCHANGED <<conn, wire, closing, try, ch, stream, returned, expired, copies>>,
           confirms' \in [Generations -> Seq(BOOLEAN)], returns' \in [Generations -> BOOLEAN],
           \A g \in Generations : Clean(g) => Clean(g)',
           c \notin expired /\ conn[ch[c]] = "open" => Clean(ch[c])'
    PROVE  PublisherInv'
<1>1. CASE c \in expired
  BY <1>1, RetireInv DEF Finish
<1>2. CASE c \notin expired
  <2>1. held[c] = {} /\ (publishCh # None => publishCh = ch[c])
    BY AwaitFacts
  <2>2. Leave(c, ok) /\ UNCHANGED <<shared, held, verdict>>
    BY <1>2 DEF Finish
  <2>3. held' = [held EXCEPT ![c] = {}] /\ conn' = Killed(held[c])
    BY <2>1, <2>2 DEF PublisherInv, TypeOK, Killed
  <2>4. publishCh # None /\ conn[publishCh] = "open" => Clean(publishCh)'
    BY <1>2, <2>1, <2>2 DEF shared, Clean
  <2>5. pc[c] \in Publishing \cup Redialling /\ pc[c] \notin Redialling
    BY DEF Publishing, Redialling
  <2>6. returned' \in [Calls -> BOOLEAN] /\ verdict' \in [Calls -> BOOLEAN]
    BY <2>2 DEF PublisherInv, TypeOK
  <2>7. gate' = Nobody /\ Ends(c, ok) /\ UNCHANGED shared
    BY <2>2 DEF Leave
  <2> QED
    BY <2>3, <2>4, <2>5, <2>6, <2>7, LeaveInv
<1> QED
  BY <1>1, <1>2

(* It is the answer to its own message, and the last one on the channel. *)
LEMMA TakeConfirmInv ==
    ASSUME PublisherInv, NEW c \in Calls, TakeConfirm(c)
    PROVE  PublisherInv'
<1> USE DEF TakeConfirm
<1> DEFINE h == ch[c]
           ok == Head(confirms[h]) /\ ~returned[c] /\ ~returns[h]
<1>0. /\ stream[c] = h /\ h \in Generations
      /\ confirms[h] # <<>> /\ wire[h] = <<>> /\ Tail(confirms[h]) = <<>>
      /\ ~(returned[c] /\ returns[h]) /\ (ok => copies[c] > 0)
      /\ confirms[h] \in Seq(BOOLEAN) /\ pc[c] = "await"
  BY AwaitFacts DEF Awaited, PublisherInv, TypeOK
<1>1. ok \in BOOLEAN
  BY <1>0 DEF PublisherInv, TypeOK
<1>2. /\ confirms' = [confirms EXCEPT ![h] = <<>>]
      /\ returns' = [returns EXCEPT ![h] = FALSE]
      /\ Finish(c, ok)
  BY <1>0 DEF PublisherInv, TypeOK
<1>3. UNCHANGED <<conn, wire, closing, try, ch, stream, returned, expired, copies>>
  OBVIOUS
<1> HIDE DEF TakeConfirm, ok
<1>4. /\ confirms' \in [Generations -> Seq(BOOLEAN)] /\ returns' \in [Generations -> BOOLEAN]
      /\ \A g \in Generations : Clean(g) => Clean(g)'
      /\ Clean(h)'
  BY <1>0, <1>2, <1>3 DEF PublisherInv, TypeOK, Clean
<1> QED
  BY <1>0, <1>1, <1>2, <1>3, <1>4, FinishInv

(* A wait on a dead generation ends without a verdict to trust. *)
LEMMA StreamClosedInv ==
    ASSUME PublisherInv, NEW c \in Calls, StreamClosed(c)
    PROVE  PublisherInv'
<1>1. conn[ch[c]] = "dead" /\ pc[c] = "await" /\ Finish(c, FALSE)
  BY AwaitFacts DEF StreamClosed
<1> QED
  BY <1>1, FinishInv DEF StreamClosed, network, PublisherInv, TypeOK, Clean

(* A caller that stops waiting takes its channel out of use. *)
LEMMA AwaitTimeoutInv ==
    ASSUME PublisherInv, NEW c \in Calls, AwaitTimeout(c)
    PROVE  PublisherInv'
BY FinishInv DEF AwaitTimeout, network, PublisherInv, TypeOK, Clean

(* What retirePublisher took out of use is closed, then the gate is given up. *)
LEMMA RetiredInv ==
    ASSUME PublisherInv, NEW c \in Calls, Retired(c)
    PROVE  PublisherInv'
<1> USE DEF Retired
<1>1. gate = c
  BY AtGate DEF Publishing
<1>2. publishCh # None /\ conn[publishCh] = "open" => Clean(publishCh)
  BY <1>1 DEF PublisherInv, QuietInUse
<1>3. verdict[c] \in BOOLEAN /\ verdict' \in [Calls -> BOOLEAN]
  BY DEF PublisherInv, TypeOK
<1> QED
  BY <1>2, <1>3, LeaveInv DEF Leave, Publishing, Redialling, PublisherInv, TypeOK, shared, Clean

-----------------------------------------------------------------------------
(* redial                                                                  *)

(* redial gives up; what it holds is closed. *)
LEMMA GiveUpInv ==
    ASSUME PublisherInv, NEW c \in Calls, pc[c] \in Redialling, GiveUp(c),
           conn' = Killed(held[c]), held' = [held EXCEPT ![c] = {}],
           UNCHANGED <<shared, wire, confirms, returns, closing, try, ch, stream, returned,
                       verdict, expired, copies>>
    PROVE  PublisherInv'
<1>1. gate = c
  BY AtGate
<1>2. publishCh # None /\ conn[publishCh] = "open" => Clean(publishCh)
  BY <1>1 DEF PublisherInv, QuietInUse, Redialling
<1> QED
  BY <1>2, LeaveInv DEF GiveUp, PublisherInv, TypeOK, shared, Clean

(* redial ends well, and Publish tries again. *)
LEMMA AgainInv ==
    ASSUME PublisherInv, NEW c \in Calls, pc[c] \in Redialling, Again(c),
           publishCh' \in Generations \cup {None}, ~closed,
           held' = [held EXCEPT ![c] = {}],
           held[c] \subseteq {publishCh'},
           publishCh # None => publishCh' = publishCh,
           publishCh' # None => streams = publishCh' /\ socket = publishCh',
           publishCh' # None /\ conn[publishCh'] = "open" => Clean(publishCh'),
           UNCHANGED <<closed, streams, socket, network, closing, ch, stream, returned,
                       verdict, expired, copies>>
    PROVE  PublisherInv'
<1> USE PublisherAssumption DEF Again, GoTo, network
<1>0. gate = c
  BY AtGate
<1>1. TypeOK'
  BY DEF PublisherInv, TypeOK
<1>2. GateHeld'
  BY <1>0 DEF PublisherInv, TypeOK, GateHeld, Publishing, Redialling
<1>3. CallsKnown'
  BY DEF PublisherInv, TypeOK, CallsKnown, Redialling
<1>4. Placed'
  BY DEF PublisherInv, Placed, Clean
<1>5. QuietInUse'
  BY DEF QuietInUse, Clean
<1>6. NoConnectionLeaks'
  <2> SUFFICES ASSUME NEW g \in Generations, conn'[g] = "open"
               PROVE  \/ g = publishCh' /\ ~closed'
                      \/ \E v \in Calls : g \in held'[v]
    BY DEF NoConnectionLeaks
  <2>1. \A v \in Calls \ {c} : held'[v] = held[v]
    BY DEF PublisherInv, TypeOK
  <2>2. closing = {}
    BY DEF PublisherInv, Placed
  <2>3. g = publishCh \/ \E v \in Calls : g \in held[v]
    BY <2>2 DEF PublisherInv, NoConnectionLeaks
  <2> QED
    BY <2>1, <2>3 DEF Generations, None
<1>7. OncePerTry'
  <2>1. try[c] = 1 /\ try'[c] = 2
    BY DEF PublisherInv, TypeOK, CallsKnown
  <2> QED
    BY <1>1, <2>1, BudgetKept DEF PublisherInv, TypeOK
<1> QED
  BY <1>1, <1>2, <1>3, <1>4, <1>5, <1>6, <1>7 DEF PublisherInv

(* A step of redial that goes on: the channel is out of use, and what the  *)
(* call held is kept, dead, or in its hands.                               *)
LEMMA RedialGoesOnInv ==
    ASSUME PublisherInv, NEW c \in Calls, pc[c] \in Redialling,
           NEW s \in Redialling \ {"inspect"}, GoTo(c, s),
           publishCh' = None, {streams', socket'} \subseteq Generations \cup {None},
           conn' \in [Generations -> {"none", "open", "dead"}],
           NEW H \in SUBSET Generations, held' = [held EXCEPT ![c] = H],
           \A g \in Generations : conn'[g] = "open" =>
             g \in H \/ (conn[g] = "open" /\ g \notin held[c] /\ g # publishCh),
           \A g \in Generations : conn'[g] = "none" => conn[g] = "none",
           UNCHANGED <<gate, closed, wire, confirms, returns, closing, try, ch, stream, returned,
                       verdict, expired, outcome, copies>>,
           HoldsItsOwn(c)'
    PROVE  PublisherInv'
<1> USE PublisherAssumption DEF GoTo
<1>0. gate = c
  BY AtGate
<1>1. TypeOK'
  BY DEF PublisherInv, TypeOK, Redialling
<1>2. GateHeld'
  BY <1>0 DEF PublisherInv, TypeOK, GateHeld, Publishing, Redialling
<1>3. CallsKnown'
  BY DEF PublisherInv, TypeOK, CallsKnown, Redialling
<1>4. Placed'
  BY DEF PublisherInv, Placed, Clean
<1>5. QuietInUse'
  BY DEF QuietInUse
<1>6. NoConnectionLeaks'
  <2> SUFFICES ASSUME NEW g \in Generations, conn'[g] = "open"
               PROVE  g \in closing' \/ \E v \in Calls : g \in held'[v]
    BY DEF NoConnectionLeaks
  <2>1. (\A v \in Calls \ {c} : held'[v] = held[v]) /\ held'[c] = H
    BY DEF PublisherInv, TypeOK
  <2>2. CASE g \in H
    BY <2>1, <2>2
  <2>3. CASE conn[g] = "open" /\ g \notin held[c] /\ g # publishCh
    <3>1. g \in closing \/ \E v \in Calls : g \in held[v]
      BY <2>3 DEF PublisherInv, NoConnectionLeaks
    <3> QED
      BY <2>1, <2>3, <3>1
  <2> QED
    BY <2>2, <2>3
<1>7. Holder(c)'
  <2>1. pc'[c] = s
    BY DEF PublisherInv, TypeOK
  <2>2. ReadsOwn(c)' /\ Confirmed(c)'
    BY <2>1 DEF ReadsOwn, Confirmed, Redialling
  <2> QED
    BY <2>2 DEF Holder
<1>8. OncePerTry'
  <2>1. ~Unwritten(c)'
    BY DEF PublisherInv, TypeOK, Unwritten, CallsKnown, Redialling
  <2> QED
    BY <1>1, <2>1, BudgetKept DEF PublisherInv, TypeOK
<1> QED
  BY <1>0, <1>1, <1>2, <1>3, <1>4, <1>5, <1>6, <1>7, <1>8 DEF PublisherInv

(* redial takes a dead channel out of use, and leaves a live one.          *)
LEMMA InspectInv ==
    ASSUME PublisherInv, NEW c \in Calls, Inspect(c)
    PROVE  PublisherInv'
<1> USE PublisherAssumption DEF Inspect, network
<1>0. gate = c /\ held[c] = {}
  BY AtGate DEF HoldsItsOwn, Redialling
<1>1. held = [held EXCEPT ![c] = {}] /\ conn = Killed(held[c])
  BY <1>0 DEF PublisherInv, TypeOK, Killed
<1>2. publishCh # None /\ conn[publishCh] = "open" => Clean(publishCh)
  BY <1>0 DEF PublisherInv, QuietInUse
<1>3. CASE closed /\ GiveUp(c) /\ UNCHANGED <<shared, held, try>>
  BY <1>1, <1>3, GiveUpInv DEF Redialling
<1>4. CASE ~closed /\ Open(publishCh) /\ Again(c) /\ UNCHANGED <<shared, held>>
  <2>1. publishCh \in Generations \cup {None}
    BY DEF PublisherInv, TypeOK
  <2>2. publishCh # None => streams = publishCh /\ socket = publishCh
    BY DEF PublisherInv, Placed
  <2> QED
    BY <1>0, <1>1, <1>2, <1>4, <2>1, <2>2, AgainInv DEF Redialling, shared
<1>5. CASE ~closed /\ publishCh' = None
  <2> DEFINE G == {publishCh, socket} \ {None}
  <2>1. /\ held' = [held EXCEPT ![c] = G] /\ GoTo(c, "clear")
        /\ streams' = None /\ socket' = None /\ UNCHANGED <<gate, closed, outcome, try>>
    BY <1>5 DEF Open, Again, shared
  <2>2. G \in SUBSET Generations
    BY DEF PublisherInv, TypeOK
  <2>3. \A g \in Generations : g = publishCh => g \in G
    BY DEF Generations, None
  <2>4. conn \in [Generations -> {"none", "open", "dead"}]
    BY DEF PublisherInv, TypeOK
  <2> HIDE DEF G
  <2>5. HoldsItsOwn(c)'
    <3>1. pc'[c] = "clear"
      BY <2>1 DEF GoTo, PublisherInv, TypeOK
    <3> QED
      BY <1>5, <3>1 DEF HoldsItsOwn, Publishing
  <2> QED
    BY <1>0, <1>5, <2>1, <2>2, <2>3, <2>4, <2>5, RedialGoesOnInv DEF Redialling
<1> QED
  BY <1>3, <1>4, <1>5

(* What was taken out of use is closed before a new generation is dialled. *)
LEMMA CloseOldInv ==
    ASSUME PublisherInv, NEW c \in Calls, CloseOld(c)
    PROVE  PublisherInv'
<1> USE PublisherAssumption DEF CloseOld
<1>1. CASE c \in expired
  BY <1>1, GiveUpInv DEF Redialling
<1>2. CASE c \notin expired
  <2>0. publishCh = None
    BY AtGate DEF HoldsItsOwn, Redialling
  <2>1. GoTo(c, "dial") /\ UNCHANGED <<gate, outcome, shared>>
    BY <1>2
  <2>2. /\ conn' \in [Generations -> {"none", "open", "dead"}]
        /\ \A g \in Generations : conn'[g] = "open" => conn[g] = "open" /\ g \notin held[c]
        /\ \A g \in Generations : conn'[g] = "none" => conn[g] = "none"
        /\ \A g \in Generations : g # publishCh
        /\ {streams', socket'} \subseteq Generations \cup {None}
    BY <2>0, <2>1 DEF PublisherInv, TypeOK, Killed, shared, Generations, None
  <2>3. HoldsItsOwn(c)'
    <3>1. pc'[c] = "dial" /\ held'[c] = {} /\ publishCh' = None
      BY <2>0, <2>1 DEF GoTo, PublisherInv, TypeOK, shared
    <3> QED
      BY <3>1 DEF HoldsItsOwn
  <2> DEFINE H == {}
  <2>4. /\ H \in SUBSET Generations /\ held' = [held EXCEPT ![c] = H] /\ GoTo(c, "dial")
        /\ \A g \in Generations : conn'[g] = "open" =>
             g \in H \/ (conn[g] = "open" /\ g \notin held[c] /\ g # publishCh)
        /\ publishCh' = None /\ pc[c] \in Redialling
    BY <2>0, <2>1, <2>2 DEF Redialling, shared
  <2> HIDE DEF H
  <2> QED
    BY <2>1, <2>2, <2>3, <2>4, RedialGoesOnInv DEF Redialling, shared
<1> QED
  BY <1>1, <1>2

(* A generation is dialled once, so nothing is left on it. *)
LEMMA DialInv ==
    ASSUME PublisherInv, NEW c \in Calls, NEW g \in Generations, Dial(c, g)
    PROVE  PublisherInv'
<1> USE PublisherAssumption DEF Dial
<1>0. publishCh = None /\ held[c] = {}
  BY AtGate DEF HoldsItsOwn, Redialling
<1>1. /\ conn' \in [Generations -> {"none", "open", "dead"}]
      /\ \A f \in Generations : conn'[f] = "open" => conn[f] = "open" \/ f = g
      /\ \A f \in Generations : conn'[f] = "none" => conn[f] = "none"
      /\ \A f \in Generations : f # publishCh
      /\ {streams', socket'} \subseteq Generations \cup {None}
  BY <1>0 DEF PublisherInv, TypeOK, shared, Generations, None
<1>2. HoldsItsOwn(c)'
  <2>1. pc'[c] = "dialled" /\ held'[c] = {g} /\ publishCh' = None /\ Clean(g)
    BY <1>0 DEF GoTo, PublisherInv, TypeOK, shared, Placed
  <2> QED
    BY <2>1 DEF HoldsItsOwn, Publishing, Clean
<1> DEFINE H == {g}
<1>3. /\ H \in SUBSET Generations /\ held' = [held EXCEPT ![c] = H] /\ GoTo(c, "dialled")
      /\ \A f \in Generations : conn'[f] = "open" =>
           f \in H \/ (conn[f] = "open" /\ f \notin held[c] /\ f # publishCh)
      /\ publishCh' = None /\ pc[c] \in Redialling
  BY <1>0, <1>1 DEF Redialling, shared
<1> HIDE DEF H
<1> QED
  BY <1>1, <1>2, <1>3, RedialGoesOnInv DEF Redialling, shared

(* Nothing was dialled, so nothing is to be closed. *)
LEMMA DialFailsInv ==
    ASSUME PublisherInv, NEW c \in Calls, DialFails(c)
    PROVE  PublisherInv'
<1>1. held[c] = {}
  BY AtGate DEF DialFails, HoldsItsOwn, Redialling
<1>2. held = [held EXCEPT ![c] = {}] /\ conn = Killed(held[c])
  BY <1>1 DEF PublisherInv, TypeOK, Killed
<1> QED
  BY <1>2, GiveUpInv DEF DialFails, Redialling, network, locals

(* What was dialled and could not be set up is closed. *)
LEMMA SetupFailsInv ==
    ASSUME PublisherInv, NEW c \in Calls, SetupFails(c)
    PROVE  PublisherInv'
BY GiveUpInv DEF SetupFails, Redialling

(* What Close has overtaken is closed. *)
LEMMA AbandonInv ==
    ASSUME PublisherInv, NEW c \in Calls, Abandon(c)
    PROVE  PublisherInv'
BY GiveUpInv DEF Abandon, Redialling

(* What a call that has dialled has in its hands. *)
LEMMA DialledFacts ==
    ASSUME PublisherInv, NEW c \in Calls, pc[c] \in {"dialled", "setup", "install"}
    PROVE  /\ Dialled(c) \in Generations /\ held[c] = {Dialled(c)} /\ Clean(Dialled(c))
           /\ publishCh = None /\ HoldsItsOwn(c)
           /\ pc[c] \in {"setup", "install"} /\ ~closed => socket = Dialled(c)
           /\ pc[c] = "install" /\ ~closed => streams = Dialled(c)
<1>1. HoldsItsOwn(c)
  BY AtGate DEF Redialling
<1>2. PICK g \in Generations : held[c] = {g} /\ Clean(g)
  BY <1>1 DEF HoldsItsOwn
<1>3. Dialled(c) = g
  BY <1>2 DEF Dialled
<1> QED
  BY <1>1, <1>2, <1>3 DEF HoldsItsOwn, Redialling

(* The socket that is registered is that of the generation in hand. *)
LEMMA RegisterSocketInv ==
    ASSUME PublisherInv, NEW c \in Calls, RegisterSocket(c)
    PROVE  PublisherInv'
<1> USE PublisherAssumption DEF RegisterSocket, network, locals
<1> DEFINE d == Dialled(c)
<1>0. d \in Generations /\ held[c] = {d} /\ Clean(d) /\ publishCh = None
  BY DialledFacts
<1> HIDE DEF d
<1>1. HoldsItsOwn(c)'
  <2>1. pc'[c] = "setup" /\ socket' = d
    BY DEF GoTo, PublisherInv, TypeOK, d
  <2> QED
    BY <1>0, <2>1 DEF HoldsItsOwn, Clean, Publishing
<1>2. /\ conn' \in [Generations -> {"none", "open", "dead"}] /\ held[c] \in SUBSET Generations
      /\ held' = [held EXCEPT ![c] = held[c]]
      /\ {streams', socket'} \subseteq Generations \cup {None}
      /\ \A g \in Generations : g # publishCh
  BY <1>0 DEF PublisherInv, TypeOK, Generations, None, d
<1> QED
  BY <1>0, <1>1, <1>2, RedialGoesOnInv DEF Redialling

(* So are the streams, and until Close comes both stay in place.           *)
LEMMA RegisterStreamsInv ==
    ASSUME PublisherInv, NEW c \in Calls, RegisterStreams(c)
    PROVE  PublisherInv'
<1> USE PublisherAssumption DEF RegisterStreams, network, locals
<1> DEFINE d == Dialled(c)
<1>0. /\ d \in Generations /\ held[c] = {d} /\ Clean(d) /\ publishCh = None
      /\ ~closed => socket = d
  BY DialledFacts
<1> HIDE DEF d
<1>1. HoldsItsOwn(c)'
  <2>1. pc'[c] = "install" /\ streams' = d
    BY DEF GoTo, PublisherInv, TypeOK, d
  <2> QED
    BY <1>0, <2>1 DEF HoldsItsOwn, Clean, Publishing
<1>2. /\ conn' \in [Generations -> {"none", "open", "dead"}] /\ held[c] \in SUBSET Generations
      /\ held' = [held EXCEPT ![c] = held[c]]
      /\ {streams', socket'} \subseteq Generations \cup {None}
      /\ \A g \in Generations : g # publishCh
  BY <1>0 DEF PublisherInv, TypeOK, Generations, None, d
<1> QED
  BY <1>0, <1>1, <1>2, RedialGoesOnInv DEF Redialling

(* Under mu: either Close has not run and the new channel is in use, or it *)
(* stays in its caller's hands to be closed.                               *)
LEMMA InstallInv ==
    ASSUME PublisherInv, NEW c \in Calls, Install(c)
    PROVE  PublisherInv'
<1> USE PublisherAssumption DEF Install
<1> DEFINE d == Dialled(c)
<1>0. /\ d \in Generations /\ held[c] = {d} /\ Clean(d) /\ publishCh = None
      /\ ~closed => socket = d /\ streams = d
  BY DialledFacts
<1> HIDE DEF d
<1>1. CASE closed
  <2> DEFINE G == held[c] \cup ({socket} \ {None})
  <2>1. /\ held' = [held EXCEPT ![c] = G] /\ GoTo(c, "abandon")
        /\ UNCHANGED <<gate, publishCh, try, outcome>>
    BY <1>1
  <2>2. G \in SUBSET Generations /\ {streams, socket} \subseteq Generations \cup {None}
    BY DEF PublisherInv, TypeOK
  <2>3. \A g \in Generations : g \in held[c] => g \in G
    OBVIOUS
  <2> HIDE DEF G
  <2>4. HoldsItsOwn(c)'
    <3>1. pc'[c] = "abandon"
      BY <2>1 DEF GoTo, PublisherInv, TypeOK
    <3> QED
      BY <1>0, <2>1, <3>1 DEF HoldsItsOwn, Publishing
  <2>5. /\ conn' \in [Generations -> {"none", "open", "dead"}]
        /\ \A g \in Generations : g # publishCh
    BY <1>0 DEF PublisherInv, TypeOK, network, Generations, None
  <2> QED
    BY <1>0, <2>1, <2>2, <2>3, <2>4, <2>5, RedialGoesOnInv DEF Redialling, network
<1>2. CASE ~closed
  <2>1. publishCh' = d /\ held' = [held EXCEPT ![c] = {}] /\ Again(c)
    BY <1>2 DEF d
  <2> QED
    BY <1>0, <1>2, <2>1, AgainInv DEF Redialling
<1> QED
  BY <1>1, <1>2

-----------------------------------------------------------------------------
(* Close, the broker and the network                                       *)

(* Close takes everything out of use, and has it in its hands. *)
LEMMA CloseInv ==
    ASSUME PublisherInv, Close
    PROVE  PublisherInv'
<1> USE PublisherAssumption DEF Close, network, locals
<1>1. TypeOK'
  BY DEF PublisherInv, TypeOK
<1>2. GateHeld' /\ CallsKnown'
  BY DEF PublisherInv, GateHeld, CallsKnown
<1>3. Placed' /\ QuietInUse'
  BY DEF PublisherInv, Placed, QuietInUse, Clean
<1>4. NoConnectionLeaks'
  BY DEF PublisherInv, Placed, NoConnectionLeaks, Generations, None
<1>5. ASSUME NEW c \in Calls, gate' = c
      PROVE  Holder(c)'
  <2>0. HoldsItsOwn(c) /\ ReadsOwn(c) /\ Confirmed(c)
    BY <1>5 DEF PublisherInv, Holder
  <2>1. HoldsItsOwn(c)'
    BY <2>0 DEF HoldsItsOwn, Clean
  <2>2. ReadsOwn(c)'
    BY <2>0 DEF ReadsOwn
  <2>3. Confirmed(c)'
    BY <2>0 DEF Confirmed, Awaited, Clean
  <2> QED
    BY <2>1, <2>2, <2>3 DEF Holder
<1>6. OncePerTry'
  BY DEF PublisherInv, OncePerTry, OnWire, Written, Unwritten
<1> QED
  BY <1>1, <1>2, <1>3, <1>4, <1>5, <1>6 DEF PublisherInv

(* Connections die, by Close or by themselves, and leave the rest alone. *)
LEMMA DeathInv ==
    ASSUME PublisherInv, closing' \in {{}, closing},
           conn' \in [Generations -> {"none", "open", "dead"}],
           \A g \in Generations : conn'[g] = "open" =>
             conn[g] = "open" /\ (g \in closing => g \in closing'),
           \A g \in Generations : conn'[g] = "none" => conn[g] = "none",
           UNCHANGED <<gate, shared, wire, confirms, returns, pc, try, locals, expired,
                       outcome, copies>>
    PROVE  PublisherInv'
<1> USE DEF shared, locals
<1>1. TypeOK'
  BY DEF PublisherInv, TypeOK
<1>2. GateHeld' /\ CallsKnown'
  BY DEF PublisherInv, GateHeld, CallsKnown
<1>3. Placed'
  BY DEF PublisherInv, Placed, Clean
<1>4. QuietInUse'
  <2>1. publishCh # None => publishCh \in Generations
    BY DEF PublisherInv, TypeOK
  <2> QED
    BY <2>1 DEF PublisherInv, QuietInUse, Clean
<1>5. NoConnectionLeaks'
  BY DEF PublisherInv, NoConnectionLeaks
<1>6. ASSUME NEW c \in Calls, gate' = c
      PROVE  Holder(c)'
  <2>0. HoldsItsOwn(c) /\ ReadsOwn(c) /\ Confirmed(c)
    BY <1>6 DEF PublisherInv, Holder
  <2>1. HoldsItsOwn(c)' /\ ReadsOwn(c)'
    BY <2>0 DEF HoldsItsOwn, ReadsOwn, Clean
  <2>2. Confirmed(c)'
    <3>1. pc[c] \in {"streams", "deadline", "write", "await"} =>
            ch[c] \in Generations /\ (conn'[ch[c]] = "open" => conn[ch[c]] = "open")
      BY <2>0 DEF ReadsOwn
    <3> QED
      BY <2>0, <3>1 DEF Confirmed, Awaited, Clean
  <2> QED
    BY <2>1, <2>2 DEF Holder
<1>7. OncePerTry'
  BY DEF PublisherInv, OncePerTry, OnWire, Written, Unwritten
<1> QED
  BY <1>1, <1>2, <1>3, <1>4, <1>5, <1>6, <1>7 DEF PublisherInv

(* Close closes what it took out of use. *)
LEMMA CloseConnectionsInv ==
    ASSUME PublisherInv, CloseConnections
    PROVE  PublisherInv'
<1>1. /\ conn' \in [Generations -> {"none", "open", "dead"}]
      /\ \A g \in Generations : conn'[g] = "open" => conn[g] = "open" /\ g \notin closing
      /\ \A g \in Generations : conn'[g] = "none" => conn[g] = "none"
  BY DEF CloseConnections, Killed, PublisherInv, TypeOK
<1> QED
  BY <1>1, DeathInv DEF CloseConnections

(* A connection may die whoever uses it. *)
LEMMA ConnectionDiesInv ==
    ASSUME PublisherInv, NEW g \in Generations, ConnectionDies(g)
    PROVE  PublisherInv'
<1>1. /\ conn' \in [Generations -> {"none", "open", "dead"}]
      /\ \A f \in Generations : conn'[f] = "open" => conn[f] = "open"
      /\ \A f \in Generations : conn'[f] = "none" => conn[f] = "none"
  BY DEF ConnectionDies, PublisherInv, TypeOK
<1> QED
  BY <1>1, DeathInv DEF ConnectionDies

(* What the broker handles: one message, on a wire of its own. *)
LEMMA BrokerFacts ==
    ASSUME PublisherInv, NEW g \in Generations, NEW answer \in {"take", "refuse", "return"},
           BrokerHandles(g, answer)
    PROVE  \E c \in Calls :
             /\ wire[g] = <<c>> /\ wire' = [wire EXCEPT ![g] = <<>>]
             /\ copies' = [copies EXCEPT ![c] = IF answer = "take" THEN @ + 1 ELSE @]
             /\ outcome[c] # "none" /\ copies[c] < 2
<1>1. PICK c \in Calls : wire[g] = <<c>>
  BY DEF BrokerHandles, PublisherInv, Placed
<1>2. Head(wire[g]) = c /\ Tail(wire[g]) = <<>>
  BY <1>1
<1>3. outcome[c] # "none" /\ copies[c] < 2
  <2>1. {g} \subseteq OnWire(c)
    BY <1>1 DEF OnWire
  <2>2. Cardinality({g}) = 1 /\ Cardinality({g}) <= Cardinality(OnWire(c))
    BY <2>1, OnWireFinite, FS_Subset, FS_Singleton
  <2>3. copies[c] \in Nat /\ try[c] \in {1, 2} /\ copies[c] + Cardinality(OnWire(c)) <= Written(c)
    BY DEF PublisherInv, TypeOK, OncePerTry
  <2>4. Written(c) \in Int /\ Written(c) <= 2
    BY <2>3 DEF Written
  <2>5. copies[c] + 1 <= Written(c)
    BY <2>2, <2>3, <2>4, OnWireFinite
  <2>6. outcome[c] = "none" => Written(c) = 0
    BY DEF Written, Unwritten, PublisherInv, CallsKnown
  <2>7. outcome[c] # "none"
    BY <2>3, <2>5, <2>6
  <2>8. copies[c] < 2
    BY <2>3, <2>4, <2>5
  <2> QED
    BY <2>7, <2>8
<1> QED
  BY <1>1, <1>2, <1>3 DEF BrokerHandles

(* On an open generation the answer is for whoever waits there; on a dead  *)
(* one nobody hears of it.                                                 *)
LEMMA BrokerInv ==
    ASSUME PublisherInv, NEW g \in Generations, NEW answer \in {"take", "refuse", "return"},
           BrokerHandles(g, answer)
    PROVE  PublisherInv'
<1> USE PublisherAssumption DEF shared, locals
<1>0. PICK c \in Calls :
        /\ wire[g] = <<c>> /\ wire' = [wire EXCEPT ![g] = <<>>]
        /\ copies' = [copies EXCEPT ![c] = IF answer = "take" THEN @ + 1 ELSE @]
  BY BrokerFacts
<1> DEFINE answers == IF conn[g] = "open"
                        THEN Append(confirms[g], answer # "refuse") ELSE confirms[g]
           back == returns[g] \/ (conn[g] = "open" /\ answer = "return")
<1>1. confirms' = [confirms EXCEPT ![g] = answers] /\ returns' = [returns EXCEPT ![g] = back]
  <2>1. CASE conn[g] = "open"
    BY <2>1 DEF BrokerHandles
  <2>2. CASE conn[g] # "open"
    <3>1. confirms \in [Generations -> Seq(BOOLEAN)] /\ returns \in [Generations -> BOOLEAN]
      BY DEF PublisherInv, TypeOK
    <3>2. confirms' = confirms /\ returns' = returns
      BY <2>2 DEF BrokerHandles
    <3>3. answers = confirms[g] /\ back = returns[g]
      BY <2>2, <3>1
    <3> HIDE DEF answers, back
    <3> QED
      BY <3>1, <3>2, <3>3
  <2> QED
    BY <2>1, <2>2
<1>2. answers \in Seq(BOOLEAN) /\ back \in BOOLEAN
  <2>1. confirms[g] \in Seq(BOOLEAN) /\ (answer # "refuse") \in BOOLEAN
    BY DEF PublisherInv, TypeOK
  <2>2. Append(confirms[g], answer # "refuse") \in Seq(BOOLEAN)
    BY <2>1
  <2> QED
    BY <2>1, <2>2
<1>3. IF conn[g] = "open"
        THEN /\ answers = Append(confirms[g], answer # "refuse")
             /\ back = (returns[g] \/ answer = "return")
        ELSE answers = confirms[g] /\ (back <=> returns[g])
  OBVIOUS
<1> HIDE DEF answers, back
<1>4. /\ confirms'[g] = answers /\ returns'[g] = back
      /\ \A f \in Generations \ {g} : confirms'[f] = confirms[f] /\ returns'[f] = returns[f]
  BY <1>1 DEF PublisherInv, TypeOK
<1>5. UNCHANGED <<gate, shared, conn, closing, pc, try, locals, expired, outcome>>
  BY DEF BrokerHandles
<1>6. \A v \in Calls : copies'[v] \in Nat /\ copies'[v] >= copies[v]
  BY <1>0 DEF PublisherInv, TypeOK
<1>7. TypeOK'
  <2>1. confirms' \in [Generations -> Seq(BOOLEAN)] /\ returns' \in [Generations -> BOOLEAN]
    BY <1>1, <1>2 DEF PublisherInv, TypeOK
  <2>2. wire' \in [Generations -> Seq(Calls)] /\ copies' \in [Calls -> Nat]
    BY <1>0 DEF PublisherInv, TypeOK
  <2> QED
    BY <1>5, <2>1, <2>2 DEF PublisherInv, TypeOK
<1>8. GateHeld' /\ CallsKnown' /\ NoConnectionLeaks'
  BY <1>5 DEF PublisherInv, GateHeld, CallsKnown, NoConnectionLeaks
<1>9. \A f \in Generations :
        /\ f # g => wire'[f] = wire[f] /\ confirms'[f] = confirms[f] /\ returns'[f] = returns[f]
        /\ Clean(f) => f # g /\ Clean(f)'
  <2>1. \A f \in Generations \ {g} : wire'[f] = wire[f]
    BY <1>0 DEF PublisherInv, TypeOK
  <2>2. ~Clean(g)
    BY <1>0 DEF Clean
  <2> QED
    BY <1>4, <2>1, <2>2 DEF Clean
<1>10. wire'[g] = <<>>
  BY <1>0 DEF PublisherInv, TypeOK
<1>11. Placed'
  BY <1>5, <1>9, <1>10 DEF PublisherInv, Placed
<1>12. QuietInUse'
  <2>1. publishCh # None => publishCh \in Generations
    BY DEF PublisherInv, TypeOK
  <2> QED
    BY <1>5, <1>9, <2>1 DEF PublisherInv, QuietInUse
<1>13. ASSUME NEW v \in Calls, gate' = v
       PROVE  Holder(v)'
  <2>0. HoldsItsOwn(v) /\ ReadsOwn(v) /\ Confirmed(v)
    BY <1>5, <1>13 DEF PublisherInv, Holder
  <2>1. HoldsItsOwn(v)'
    BY <1>5, <1>9, <2>0 DEF HoldsItsOwn
  <2>2. ReadsOwn(v)'
    BY <1>5, <2>0 DEF ReadsOwn
  <2>3. ASSUME pc[v] = "await" PROVE Awaited(v)'
    <3> DEFINE h == ch[v]
    <3>1. h \in Generations /\ Awaited(v) /\ ch'[v] = h
      BY <1>5, <2>0, <2>3 DEF ReadsOwn, Confirmed
    <3>2. CASE h # g
      <4>1. /\ confirms'[h] = confirms[h] /\ returns'[h] = returns[h] /\ wire'[h] = wire[h]
            /\ conn'[h] = conn[h] /\ returned'[v] = returned[v] /\ ch'[v] = h
        BY <1>5, <1>9, <3>1, <3>2
      <4>2. copies[v] > 0 => copies'[v] > 0
        BY <1>6 DEF PublisherInv, TypeOK
      <4> QED
        BY <3>1, <4>1, <4>2 DEF Awaited
    <3>3. CASE h = g
      <4>1. confirms[g] = <<>> /\ ~returns[g] /\ ~returned[v] /\ wire[g] = <<c>>
        <5>1. wire[h] # <<>>
          BY <1>0, <3>3
        <5>2. confirms[h] = <<>>
          BY <3>1, <5>1 DEF Awaited
        <5> QED
          BY <1>0, <3>1, <3>3, <5>2 DEF Awaited
      <4>2. CASE conn[g] = "open"
        <5>1. v = c
          <6>1. wire[g] = <<v>>
            BY <3>1, <3>3, <4>1, <4>2 DEF Awaited
          <6>2. Head(wire[g]) = v /\ Head(wire[g]) = c
            BY <4>1, <6>1
          <6> QED
            BY <6>2
        <5>2. confirms'[g] = <<answer # "refuse">> /\ (returns'[g] <=> answer = "return")
          <6>1. answers = Append(<<>>, answer # "refuse")
            BY <1>3, <4>1, <4>2
          <6>2. answers = <<answer # "refuse">>
            BY <6>1
          <6>3. back <=> answer = "return"
            BY <1>3, <4>1, <4>2
          <6> QED
            BY <1>4, <6>2, <6>3
        <5>3. answer = "take" => copies'[v] > 0
          BY <1>0, <5>1 DEF PublisherInv, TypeOK
        <5>4. /\ confirms'[g] # <<>> /\ Tail(confirms'[g]) = <<>>
              /\ Head(confirms'[g]) = (answer # "refuse")
          BY <5>2
        <5> QED
          BY <1>5, <1>10, <3>1, <3>3, <4>1, <5>2, <5>3, <5>4 DEF Awaited
      <4>3. CASE conn[g] # "open"
        <5>1. confirms'[g] = <<>> /\ ~returns'[g]
          BY <1>3, <1>4, <4>1, <4>3
        <5> QED
          BY <1>5, <3>1, <3>3, <4>1, <4>3, <5>1 DEF Awaited
      <4> QED
        BY <4>2, <4>3
    <3> QED
      BY <3>2, <3>3
  <2>4. Confirmed(v)'
    <3>1. pc[v] \in {"streams", "deadline", "write"} => ch[v] \in Generations
      BY <2>0 DEF ReadsOwn
    <3>2. copies[v] \in Nat
      BY DEF PublisherInv, TypeOK
    <3> QED
      BY <1>5, <1>6, <1>9, <2>0, <2>3, <3>1, <3>2 DEF Confirmed
  <2> QED
    BY <2>1, <2>2, <2>4 DEF Holder
<1>14. OncePerTry'
  <2> SUFFICES ASSUME NEW v \in Calls
               PROVE  copies'[v] + Cardinality(OnWire(v)') <= Written(v)'
    BY DEF OncePerTry
  <2>1. copies[v] + Cardinality(OnWire(v)) <= Written(v) /\ copies[v] \in Nat
    BY DEF PublisherInv, TypeOK, OncePerTry
  <2>2. Written(v)' = Written(v) /\ Written(v) \in Int
    BY <1>5 DEF Written, Unwritten, PublisherInv, TypeOK
  <2>3. CASE v = c
    <3>1. OnWire(v)' = OnWire(v) \ {g} /\ g \in OnWire(v)
      BY <1>0, <1>9, <1>10, <2>3 DEF OnWire
    <3>2. Cardinality(OnWire(v)') = Cardinality(OnWire(v)) - 1
      BY <3>1, OnWireFinite, FS_RemoveElement
    <3>3. copies'[v] <= copies[v] + 1 /\ copies'[v] \in Nat
      BY <1>0, <2>3 DEF PublisherInv, TypeOK
    <3> QED
      BY <2>1, <2>2, <3>2, <3>3, OnWireFinite
  <2>4. CASE v # c
    <3>1. OnWire(v)' = OnWire(v)
      BY <1>0, <1>9, <1>10, <2>4 DEF OnWire
    <3>2. copies'[v] = copies[v]
      BY <1>0, <2>4 DEF PublisherInv, TypeOK
    <3> QED
      BY <2>1, <2>2, <3>1, <3>2
  <2> QED
    BY <2>3, <2>4
<1> QED
  BY <1>7, <1>8, <1>11, <1>12, <1>13, <1>14 DEF PublisherInv

-----------------------------------------------------------------------------

(* Every step of a call keeps the invariant. *)
LEMMA CallStepInv ==
    ASSUME PublisherInv, NEW c \in Calls, CallStep(c)
    PROVE  PublisherInv'
<1>1. CASE GateTimeout(c) \/ LookFurther(c)
  BY <1>1, OutsideSteps
<1>2. CASE TakeGate(c) \/ ReadChannel(c) \/ ReadStreams(c) \/ SetDeadline(c)
  BY <1>2, TakeGateInv, ReadChannelInv, ReadStreamsInv, SetDeadlineInv
<1>3. CASE Write(c) \/ WriteFails(c) \/ TakeReturn(c) \/ TakeConfirm(c)
  BY <1>3, WriteInv, WriteFailsInv, TakeReturnInv, TakeConfirmInv
<1>4. CASE StreamClosed(c) \/ AwaitTimeout(c) \/ Retired(c)
  BY <1>4, StreamClosedInv, AwaitTimeoutInv, RetiredInv
<1>5. CASE Inspect(c) \/ CloseOld(c) \/ \E g \in Generations : Dial(c, g)
  BY <1>5, InspectInv, CloseOldInv, DialInv
<1>6. CASE DialFails(c) \/ SetupFails(c) \/ RegisterSocket(c) \/ RegisterStreams(c)
  BY <1>6, DialFailsInv, SetupFailsInv, RegisterSocketInv, RegisterStreamsInv
<1>7. CASE Install(c) \/ Abandon(c)
  BY <1>7, InstallInv, AbandonInv
<1> QED
  BY <1>1, <1>2, <1>3, <1>4, <1>5, <1>6, <1>7 DEF CallStep

(* Every step keeps the invariant. *)
LEMMA StepInv == PublisherInv /\ [Next]_vars => PublisherInv'
<1> SUFFICES ASSUME PublisherInv, [Next]_vars
             PROVE  PublisherInv'
  OBVIOUS
<1>1. ASSUME NEW c \in Calls, Begin(c) \/ CallStep(c) \/ Expire(c) PROVE PublisherInv'
  BY <1>1, OutsideSteps, CallStepInv
<1>2. CASE Close \/ CloseConnections
  BY <1>2, CloseInv, CloseConnectionsInv
<1>3. ASSUME NEW g \in Generations, NEW answer \in {"take", "refuse", "return"},
             BrokerHandles(g, answer)
      PROVE  PublisherInv'
  BY <1>3, BrokerInv
<1>4. ASSUME NEW g \in Generations, ConnectionDies(g) PROVE PublisherInv'
  BY <1>4, ConnectionDiesInv
<1>5. CASE UNCHANGED vars
  <2>1. closing' \in {{}, closing} /\ UNCHANGED network
    BY <1>5 DEF vars
  <2>2. /\ conn' \in [Generations -> {"none", "open", "dead"}]
        /\ \A g \in Generations : conn'[g] = "open" =>
             conn[g] = "open" /\ (g \in closing => g \in closing')
        /\ \A g \in Generations : conn'[g] = "none" => conn[g] = "none"
    BY <1>5 DEF vars, network, PublisherInv, TypeOK
  <2> QED
    BY <1>5, <2>1, <2>2, DeathInv DEF vars, network
<1> QED
  BY <1>1, <1>2, <1>3, <1>4, <1>5 DEF Next

(* The gate serialises the calls: the channel in use is quiet whenever     *)
(* nobody waits on it, whatever came of the calls before.                  *)
THEOREM PublisherInvariant == Spec => []PublisherInv
<1>1. Init => PublisherInv
  BY InitInv
<1>2. PublisherInv /\ [Next]_vars => PublisherInv'
  BY StepInv
<1> QED
  BY <1>1, <1>2, PTL DEF Spec

(* Every variable keeps its type. *)
THEOREM TypeCorrect == Spec => []TypeOK
<1>1. PublisherInv => TypeOK
  BY DEF PublisherInv
<1> QED
  BY <1>1, PublisherInvariant, PTL

(* Every open connection is in use or in the hands of somebody who will    *)
(* close it or put it in use, however retirePublisher, redial and Close    *)
(* meet.                                                                   *)
THEOREM NoLeaks == Spec => []NoConnectionLeaks
<1>1. PublisherInv => NoConnectionLeaks
  BY DEF PublisherInv
<1> QED
  BY <1>1, PublisherInvariant, PTL

(* publishOn fetches channel and streams in two steps, and Close or a      *)
(* redial may come between; whoever gets as far as waiting waits on the    *)
(* streams of the channel it wrote to.                                     *)
THEOREM OwnStreams == Spec => []WaitsOnOwnStream
<1>1. PublisherInv => WaitsOnOwnStream
  <2> SUFFICES ASSUME PublisherInv, NEW c \in Calls, pc[c] = "await"
               PROVE  stream[c] # None /\ stream[c] = ch[c]
    BY DEF WaitsOnOwnStream
  <2> QED
    BY AwaitFacts DEF Generations, None
<1> QED
  BY <1>1, PublisherInvariant, PTL

-----------------------------------------------------------------------------
(* The promise                                                             *)

(* A publishOn that ends settles the call or leaves it pending. *)
LEMMA EndsAsPromised ==
    ASSUME PublisherInv, NEW c \in Calls, outcome[c] = "pending", UNCHANGED copies,
           NEW ok \in BOOLEAN, ok => copies[c] > 0,
           Ends(c, ok) \/ Return(c, ok) \/ UNCHANGED outcome
    PROVE  Promise!Succeed(c) \/ Promise!Fail(c) \/ UNCHANGED Promise!promiseVars
<1>1. CASE UNCHANGED outcome
  BY <1>1 DEF Promise!promiseVars
<1>2. CASE Return(c, ok)
  BY <1>2 DEF Return, Promise!Succeed, Promise!Fail
<1> QED
  BY <1>1, <1>2 DEF Ends

(* An ended wait: with a context that has ended the verdict comes later. *)
LEMMA FinishAsPromised ==
    ASSUME PublisherInv, NEW c \in Calls, pc[c] = "await", UNCHANGED copies,
           NEW ok \in BOOLEAN, ok => copies[c] > 0, Finish(c, ok)
    PROVE  Promise!Succeed(c) \/ Promise!Fail(c) \/ UNCHANGED Promise!promiseVars
<1>1. outcome[c] = "pending"
  BY DEF PublisherInv, CallsKnown
<1>2. Ends(c, ok) \/ UNCHANGED outcome
  BY DEF Finish, Retire, Leave
<1> QED
  BY <1>1, <1>2, EndsAsPromised

(* What a call reports of its message is true. *)
LEMMA CallAsPromised ==
    ASSUME PublisherInv, NEW c \in Calls, CallStep(c)
    PROVE  Promise!Succeed(c) \/ Promise!Fail(c) \/ UNCHANGED Promise!promiseVars
<1>0. pc[c] # "out" => outcome[c] = "pending"
  BY DEF PublisherInv, CallsKnown
<1>1. CASE \/ TakeGate(c) \/ ReadStreams(c) \/ Write(c) \/ TakeReturn(c)
           \/ \E g \in Generations : Dial(c, g)
           \/ RegisterSocket(c) \/ RegisterStreams(c)
  BY <1>1 DEF TakeGate, ReadStreams, Write, TakeReturn, Dial, RegisterSocket, RegisterStreams,
              Promise!promiseVars
<1>2. CASE SetDeadline(c) \/ WriteFails(c)
  BY <1>2 DEF SetDeadline, WriteFails, Retire, Promise!promiseVars
<1>3. CASE GateTimeout(c) \/ LookFurther(c)
  BY <1>0, <1>3, EndsAsPromised DEF GateTimeout, LookFurther
<1>4. CASE ReadChannel(c)
  BY <1>0, <1>4, EndsAsPromised DEF ReadChannel, Leave
<1>5. CASE TakeConfirm(c)
  <2> DEFINE h == ch[c]
             ok == Head(confirms[h]) /\ ~returned[c] /\ ~returns[h]
  <2>1. stream[c] = h /\ Awaited(c) /\ h \in Generations
    BY <1>5, AwaitFacts DEF TakeConfirm
  <2>2. confirms[h] # <<>> /\ Finish(c, ok) /\ UNCHANGED copies /\ pc[c] = "await"
    BY <1>5, <2>1 DEF TakeConfirm
  <2>3. ok => copies[c] > 0
    BY <2>1, <2>2 DEF Awaited
  <2>4. ok \in BOOLEAN
    BY <2>1, <2>2 DEF PublisherInv, TypeOK
  <2> HIDE DEF ok
  <2> QED
    BY <2>2, <2>3, <2>4, FinishAsPromised
<1>6. CASE StreamClosed(c) \/ AwaitTimeout(c)
  BY <1>6, FinishAsPromised DEF StreamClosed, AwaitTimeout
<1>7. CASE Retired(c)
  <2>1. verdict[c] \in BOOLEAN /\ (verdict[c] => copies[c] > 0)
    BY <1>7, AtGate DEF Retired, Publishing, Confirmed, PublisherInv, TypeOK
  <2> QED
    BY <1>0, <1>7, <2>1, EndsAsPromised DEF Retired, Leave
<1>8. CASE Inspect(c) \/ CloseOld(c) \/ DialFails(c)
  BY <1>0, <1>8, EndsAsPromised DEF Inspect, CloseOld, DialFails, GiveUp, Again
<1>9. CASE SetupFails(c) \/ Install(c) \/ Abandon(c)
  BY <1>0, <1>9, EndsAsPromised DEF SetupFails, Install, Abandon, GiveUp, Again
<1> QED
  BY <1>1, <1>2, <1>3, <1>4, <1>5, <1>6, <1>7, <1>8, <1>9 DEF CallStep

(* Every step is one of the promise, or none that it sees. *)
LEMMA StepAsPromised == PublisherInv /\ [Next]_vars => [Promise!Next]_(Promise!promiseVars)
<1> SUFFICES ASSUME PublisherInv, [Next]_vars
             PROVE  Promise!Next \/ UNCHANGED Promise!promiseVars
  OBVIOUS
<1>1. ASSUME NEW c \in Calls, Begin(c) PROVE Promise!Next
  BY <1>1 DEF Begin, Promise!Next, Promise!Begin
<1>2. ASSUME NEW c \in Calls, CallStep(c)
      PROVE  Promise!Next \/ UNCHANGED Promise!promiseVars
  BY <1>2, CallAsPromised DEF Promise!Next
<1>3. CASE \/ \E c \in Calls : Expire(c)
           \/ Close \/ CloseConnections
           \/ \E g \in Generations : ConnectionDies(g)
           \/ UNCHANGED vars
  BY <1>3 DEF Expire, Close, CloseConnections, ConnectionDies, vars, Promise!promiseVars
<1>4. ASSUME NEW g \in Generations, NEW answer \in {"take", "refuse", "return"},
             BrokerHandles(g, answer)
      PROVE  Promise!Next \/ UNCHANGED Promise!promiseVars
  <2>1. PICK c \in Calls :
          /\ copies' = [copies EXCEPT ![c] = IF answer = "take" THEN @ + 1 ELSE @]
          /\ outcome[c] # "none" /\ copies[c] < 2
    BY <1>4, BrokerFacts
  <2>2. UNCHANGED outcome
    BY <1>4 DEF BrokerHandles
  <2>3. CASE answer = "take"
    BY <2>1, <2>2, <2>3 DEF Promise!Next, Promise!Take
  <2>4. CASE answer # "take"
    BY <2>1, <2>2, <2>4 DEF PublisherInv, TypeOK, Promise!promiseVars
  <2> QED
    BY <2>3, <2>4
<1> QED
  BY <1>1, <1>2, <1>3, <1>4 DEF Next

(* Publish implements its promise: a call that returns without an error    *)
(* has had its own message taken, and no message is taken more than twice, *)
(* whatever the broker, the network, Close and the contexts do.            *)
THEOREM PublishImplementsPromise == Spec => KeepsPromise
<1>1. Init => Promise!Init
  BY DEF Init, Promise!Init
<1>2. PublisherInv /\ [Next]_vars => [Promise!Next]_(Promise!promiseVars)
  BY StepAsPromised
<1> QED
  BY <1>1, <1>2, PublisherInvariant, PTL DEF Spec, KeepsPromise, Promise!Spec
=============================================================================
