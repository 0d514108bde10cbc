------------------------------ MODULE Publisher ------------------------------
(***************************************************************************)
(* The publishing side of shared/pkg/broker's Connection: calls of Publish *)
(* that share one confirmed channel behind a gate, replace it when it has  *)
(* died, and may run into Close.  A generation is one dialled connection   *)
(* with its channel, confirmation streams and socket.                      *)
(*                                                                         *)
(* A step is what one holder of mu does, or one call to the network.  What *)
(* is fetched under mu and closed after it is kept in "held" meanwhile.    *)
(***************************************************************************)
EXTENDS Integers, Sequences

CONSTANTS
    Calls,      \* calls of Publish, one message each
    Nobody,
    MaxDials    \* bounds the generations

ASSUME PublisherAssumption ==
    /\ Nobody \notin Calls
    /\ MaxDials \in Nat \ {0}

Generations == 1 .. MaxDials

None == 0       \* nil

VARIABLES
    gate,                    \* who holds publishGate
    closed,
    publishCh, streams, socket,  \* generations of publishCh and pubConn, of confirms
                                 \* and returns, and of pubNetConn
    conn,                    \* each generation: "none", "open" or "dead"
    wire,                    \* what was written and the broker has not yet handled
    confirms, returns,       \* what waits in the notification channels
    closing,                 \* of Close: generations it still has to close; it is
                             \* under way while this is not empty
    pc,                      \* where each call is
    try,                     \* its first or second publishOn
    ch, stream,              \* the generations it has read
    returned,                \* has it received a Return?
    held,                    \* generations it still has to close
    verdict,                 \* what its publishOn will return
    expired,                 \* calls whose context has ended
    outcome, copies          \* as in PublishPromise

shared == <<closed, publishCh, streams, socket>>
network == <<conn, wire, confirms, returns>>
locals == <<ch, stream, returned, held, verdict>>
vars == <<gate, shared, network, closing, pc, try, locals, expired, outcome, copies>>

(* NewConnection has dialled the first generation. *)
Init ==
    /\ gate = Nobody /\ closed = FALSE
    /\ publishCh = 1 /\ streams = 1 /\ socket = 1
    /\ conn = [g \in Generations |-> IF g = 1 THEN "open" ELSE "none"]
    /\ wire = [g \in Generations |-> <<>>]
    /\ confirms = [g \in Generations |-> <<>>]
    /\ returns = [g \in Generations |-> FALSE]
    /\ closing = {}
    /\ pc = [c \in Calls |-> "out"]
    /\ try = [c \in Calls |-> 1]
    /\ ch = [c \in Calls |-> None]
    /\ stream = [c \in Calls |-> None]
    /\ returned = [c \in Calls |-> FALSE]
    /\ held = [c \in Calls |-> {}]
    /\ verdict = [c \in Calls |-> FALSE]
    /\ expired = {}
    /\ outcome = [c \in Calls |-> "none"]
    /\ copies = [c \in Calls |-> 0]

Open(g) == g # None /\ conn[g] = "open"

Killed(G) == [g \in Generations |-> IF g \in G THEN "dead" ELSE conn[g]]

GoTo(c, s) == pc' = [pc EXCEPT ![c] = s]

Begin(c) ==
    /\ outcome[c] = "none"
    /\ outcome' = [outcome EXCEPT ![c] = "pending"]
    /\ GoTo(c, "gate")
    /\ UNCHANGED <<gate, shared, network, closing, try, locals, expired, copies>>

Return(c, ok) ==
    /\ GoTo(c, "out")
    /\ outcome' = [outcome EXCEPT ![c] = IF ok THEN "ok" ELSE "failed"]

(* A publishOn ends: after a first failure Publish looks further. *)
Ends(c, ok) ==
    IF ok \/ try[c] = 2
      THEN Return(c, ok)
      ELSE GoTo(c, "failed") /\ UNCHANGED outcome

Leave(c, ok) == gate' = Nobody /\ Ends(c, ok)

-----------------------------------------------------------------------------
(* publishOn *)

TakeGate(c) ==
    /\ pc[c] \in {"gate", "redial"} /\ gate = Nobody
    /\ gate' = c
    /\ GoTo(c, IF pc[c] = "gate" THEN "check" ELSE "inspect")
    /\ UNCHANGED <<shared, network, closing, try, locals, expired, outcome, copies>>

(* Fault: the gate is awaited without looking at the context. *)
PatientAtGate(c) == FALSE

GateTimeout(c) ==
    /\ pc[c] \in {"gate", "redial"} /\ c \in expired
    /\ Return(c, FALSE)
    /\ UNCHANGED <<gate, shared, network, closing, try, locals, expired, copies>>

ReadChannel(c) ==
    /\ pc[c] = "check"
    /\ IF ~closed /\ Open(publishCh)
         THEN /\ ch' = [ch EXCEPT ![c] = publishCh]
              /\ GoTo(c, "streams")
              /\ UNCHANGED <<gate, outcome>>
         ELSE Leave(c, FALSE) /\ UNCHANGED ch
    /\ UNCHANGED <<shared, network, closing, try, stream, returned, held, verdict, expired, copies>>

ReadStreams(c) ==
    /\ pc[c] = "streams"
    /\ stream' = [stream EXCEPT ![c] = streams]
    /\ returned' = [returned EXCEPT ![c] = FALSE]
    /\ GoTo(c, "deadline")
    /\ UNCHANGED <<gate, shared, network, closing, try, ch, held, verdict, expired, outcome, copies>>

(* retirePublisher: whoever finds its channel still in place takes it out, *)
(* and closes it after that.                                               *)
Retire(c, ok) ==
    /\ IF publishCh = ch[c]
         THEN /\ held' = [held EXCEPT ![c] = {publishCh, socket} \ {None}]
              /\ publishCh' = None /\ streams' = None /\ socket' = None
         ELSE UNCHANGED <<held, publishCh, streams, socket>>
    /\ verdict' = [verdict EXCEPT ![c] = ok]
    /\ GoTo(c, "retiring")
    /\ UNCHANGED <<closed, gate, outcome>>

Retired(c) ==
    /\ pc[c] = "retiring"
    /\ conn' = Killed(held[c])
    /\ held' = [held EXCEPT ![c] = {}]
    /\ verdict' = [verdict EXCEPT ![c] = FALSE]
    /\ Leave(c, verdict[c])
    /\ UNCHANGED <<shared, wire, confirms, returns, closing, try, ch, stream, returned, expired, copies>>

(* Fault: no socket, no deadline. *)
LenientDeadline(c) ==
    /\ pc[c] = "deadline"
    /\ GoTo(c, "write")
    /\ UNCHANGED <<gate, shared, network, closing, try, locals, expired, outcome, copies>>

SetDeadline(c) ==
    /\ pc[c] = "deadline"
    /\ IF Open(socket)
         THEN GoTo(c, "write") /\ UNCHANGED <<gate, shared, held, verdict, outcome>>
         ELSE Retire(c, FALSE)
    /\ UNCHANGED <<network, closing, try, ch, stream, returned, expired, copies>>

Write(c) ==
    /\ pc[c] = "write" /\ Open(ch[c])
    /\ wire' = [wire EXCEPT ![ch[c]] = Append(@, c)]
    /\ GoTo(c, "await")
    /\ UNCHANGED <<gate, shared, conn, confirms, returns, closing, try, locals, expired, outcome, copies>>

(* The connection has died or the write did not end in time. *)
WriteFails(c) ==
    /\ pc[c] = "write"
    /\ Retire(c, FALSE)
    /\ UNCHANGED <<network, closing, try, ch, stream, returned, expired, copies>>

(* Fault: the channel stays in use when its caller stops waiting. *)
NeverRetires(c, ok) ==
    /\ Leave(c, ok)
    /\ UNCHANGED <<shared, held, verdict>>

(* The wait is over: with the context ended, its answer may be to come. *)
Finish(c, ok) ==
    IF c \in expired
      THEN Retire(c, ok)
      ELSE Leave(c, ok) /\ UNCHANGED <<shared, held, verdict>>

TakeReturn(c) ==
    /\ pc[c] = "await" /\ stream[c] # None /\ ~returned[c]
    /\ returns[stream[c]]
    /\ returns' = [returns EXCEPT ![stream[c]] = FALSE]
    /\ returned' = [returned EXCEPT ![c] = TRUE]
    /\ UNCHANGED <<gate, shared, conn, wire, confirms, closing, pc, try, ch, stream, held,
                   verdict, expired, outcome, copies>>

(* select takes either channel; a Return that came first may still wait. *)
TakeConfirm(c) ==
    /\ pc[c] = "await" /\ stream[c] # None
    /\ LET g == stream[c] IN
         /\ confirms[g] # <<>>
         /\ confirms' = [confirms EXCEPT ![g] = Tail(@)]
         /\ returns' = [returns EXCEPT ![g] = @ /\ returned[c]]
         /\ Finish(c, Head(confirms[g]) /\ ~returned[c] /\ ~returns[g])
    /\ UNCHANGED <<conn, wire, closing, try, ch, stream, returned, expired, copies>>

StreamClosed(c) ==
    /\ pc[c] = "await" /\ stream[c] # None
    /\ conn[stream[c]] = "dead" /\ confirms[stream[c]] = <<>>
    /\ Finish(c, FALSE)
    /\ UNCHANGED <<network, closing, try, ch, stream, returned, expired, copies>>

AwaitTimeout(c) ==
    /\ pc[c] = "await" /\ c \in expired
    /\ Finish(c, FALSE)
    /\ UNCHANGED <<network, closing, try, ch, stream, returned, expired, copies>>

-----------------------------------------------------------------------------
(* Publish after a first failure, and redial *)

Dead == closed \/ ~Open(publishCh)

LookFurther(c) ==
    /\ pc[c] = "failed"
    /\ IF c \notin expired /\ Dead
         THEN GoTo(c, "redial") /\ UNCHANGED outcome
         ELSE Return(c, FALSE)
    /\ UNCHANGED <<gate, shared, network, closing, try, locals, expired, copies>>

GiveUp(c) ==
    /\ gate' = Nobody
    /\ Return(c, FALSE)

Again(c) ==
    /\ gate' = Nobody
    /\ try' = [try EXCEPT ![c] = 2]
    /\ GoTo(c, "gate")
    /\ UNCHANGED outcome

Inspect(c) ==
    /\ pc[c] = "inspect"
    /\ \/ closed /\ GiveUp(c) /\ UNCHANGED <<shared, held, try>>
       \/ ~closed /\ Open(publishCh) /\ Again(c) /\ UNCHANGED <<shared, held>>
       \/ /\ ~closed /\ ~Open(publishCh)
          /\ held' = [held EXCEPT ![c] = {publishCh, socket} \ {None}]
          /\ publishCh' = None /\ streams' = None /\ socket' = None
          /\ GoTo(c, "clear")
          /\ UNCHANGED <<gate, closed, outcome, try>>
    /\ UNCHANGED <<network, closing, ch, stream, returned, verdict, expired, copies>>

CloseOld(c) ==
    /\ pc[c] = "clear"
    /\ conn' = Killed(held[c])
    /\ held' = [held EXCEPT ![c] = {}]
    /\ IF c \in expired
         THEN GiveUp(c)
         ELSE GoTo(c, "dial") /\ UNCHANGED <<gate, outcome>>
    /\ UNCHANGED <<shared, wire, confirms, returns, closing, try, ch, stream, returned,
                   verdict, expired, copies>>

Dial(c, g) ==
    /\ pc[c] = "dial"
    /\ conn[g] = "none" /\ \A f \in Generations : conn[f] = "none" => g <= f
    /\ conn' = [conn EXCEPT ![g] = "open"]
    /\ held' = [held EXCEPT ![c] = {g}]
    /\ GoTo(c, "dialled")
    /\ UNCHANGED <<gate, shared, wire, confirms, returns, closing, try, ch, stream, returned,
                   verdict, expired, outcome, copies>>

DialFails(c) ==
    /\ pc[c] = "dial"
    /\ GiveUp(c)
    /\ UNCHANGED <<shared, network, closing, try, locals, expired, copies>>

(* The rest of openPublisher: any of its calls may fail, and it closes     *)
(* what it has dialled.                                                    *)
SetupFails(c) ==
    /\ pc[c] \in {"dialled", "setup"}
    /\ conn' = Killed(held[c])
    /\ held' = [held EXCEPT ![c] = {}]
    /\ GiveUp(c)
    /\ UNCHANGED <<shared, wire, confirms, returns, closing, try, ch, stream, returned,
                   verdict, expired, copies>>

Dialled(c) == CHOOSE g \in held[c] : TRUE

RegisterSocket(c) ==
    /\ pc[c] = "dialled"
    /\ socket' = Dialled(c)
    /\ GoTo(c, "setup")
    /\ UNCHANGED <<gate, closed, publishCh, streams, network, closing, try, locals, expired,
                   outcome, copies>>

RegisterStreams(c) ==
    /\ pc[c] = "setup" /\ Open(Dialled(c)) /\ c \notin expired
    /\ streams' = Dialled(c)
    /\ GoTo(c, "install")
    /\ UNCHANGED <<gate, closed, publishCh, socket, network, closing, try, locals, expired,
                   outcome, copies>>

(* Fault: the new channel is installed although Close has run meanwhile. *)
InstallAnyway(c) ==
    /\ pc[c] = "install"
    /\ publishCh' = Dialled(c)
    /\ held' = [held EXCEPT ![c] = {}]
    /\ Again(c)
    /\ UNCHANGED <<closed, streams, socket, network, closing, ch, stream, returned, verdict,
                   expired, copies>>

Install(c) ==
    /\ pc[c] = "install"
    /\ IF closed
         THEN /\ held' = [held EXCEPT ![c] = @ \cup ({socket} \ {None})]
              /\ GoTo(c, "abandon")
              /\ UNCHANGED <<gate, publishCh, try, outcome>>
         ELSE /\ publishCh' = Dialled(c)
              /\ held' = [held EXCEPT ![c] = {}]
              /\ Again(c)
    /\ UNCHANGED <<closed, streams, socket, network, closing, ch, stream, returned, verdict,
                   expired, copies>>

Abandon(c) ==
    /\ pc[c] = "abandon"
    /\ conn' = Killed(held[c])
    /\ held' = [held EXCEPT ![c] = {}]
    /\ GiveUp(c)
    /\ UNCHANGED <<shared, wire, confirms, returns, closing, try, ch, stream, returned,
                   verdict, expired, copies>>

-----------------------------------------------------------------------------
(* Close, the broker, the network and the contexts *)

Close ==
    /\ ~closed
    /\ closed' = TRUE
    /\ closing' = {publishCh, socket} \ {None}
    /\ publishCh' = None /\ streams' = None /\ socket' = None
    /\ UNCHANGED <<gate, network, pc, try, locals, expired, outcome, copies>>

CloseConnections ==
    /\ closing # {}
    /\ conn' = Killed(closing)
    /\ closing' = {}
    /\ UNCHANGED <<gate, shared, wire, confirms, returns, pc, try, locals, expired, outcome, copies>>

(* The broker handles what was written, perhaps after the connection died; *)
(* then nobody hears of it.  A mandatory message that reaches no queue is  *)
(* returned before it is confirmed.                                        *)
BrokerHandles(g, answer) ==
    /\ wire[g] # <<>>
    /\ wire' = [wire EXCEPT ![g] = Tail(@)]
    /\ copies' = [copies EXCEPT ![Head(wire[g])] = IF answer = "take" THEN @ + 1 ELSE @]
    /\ IF conn[g] = "open"
         THEN /\ confirms' = [confirms EXCEPT ![g] = Append(@, answer # "refuse")]
              /\ returns' = [returns EXCEPT ![g] = @ \/ answer = "return"]
         ELSE UNCHANGED <<confirms, returns>>
    /\ UNCHANGED <<gate, shared, conn, closing, pc, try, locals, expired, outcome>>

ConnectionDies(g) ==
    /\ conn[g] = "open"
    /\ conn' = [conn EXCEPT ![g] = "dead"]
    /\ UNCHANGED <<gate, shared, wire, confirms, returns, closing, pc, try, locals, expired,
                   outcome, copies>>

Expire(c) ==
    /\ outcome[c] = "pending" /\ c \notin expired
    /\ expired' = expired \cup {c}
    /\ UNCHANGED <<gate, shared, network, closing, pc, try, locals, outcome, copies>>

CallStep(c) ==
    \/ TakeGate(c) \/ GateTimeout(c) \/ ReadChannel(c) \/ ReadStreams(c) \/ SetDeadline(c)
    \/ Write(c) \/ WriteFails(c) \/ TakeReturn(c) \/ TakeConfirm(c) \/ StreamClosed(c)
    \/ AwaitTimeout(c) \/ Retired(c) \/ LookFurther(c) \/ Inspect(c) \/ CloseOld(c)
    \/ \E g \in Generations : Dial(c, g)
    \/ DialFails(c) \/ SetupFails(c) \/ RegisterSocket(c) \/ RegisterStreams(c)
    \/ Install(c) \/ Abandon(c)

Next ==
    \/ \E c \in Calls : Begin(c) \/ CallStep(c) \/ Expire(c)
    \/ Close \/ CloseConnections
    \/ \E g \in Generations :
         \/ \E answer \in {"take", "refuse", "return"} : BrokerHandles(g, answer)
         \/ ConnectionDies(g)

Spec == Init /\ [][Next]_vars

(* The goroutines of the calls and of Close run, and each call they make to *)
(* the network is bounded by a deadline of its own.  The broker, the       *)
(* network and the contexts owe nothing.                                   *)
Fairness == WF_vars(CloseConnections) /\ \A c \in Calls : WF_vars(CallStep(c))

FairSpec == Spec /\ Fairness

-----------------------------------------------------------------------------

TypeOK ==
    /\ gate \in Calls \cup {Nobody} /\ closed \in BOOLEAN
    /\ {publishCh, streams, socket} \subseteq Generations \cup {None}
    /\ conn \in [Generations -> {"none", "open", "dead"}]
    /\ wire \in [Generations -> Seq(Calls)]
    /\ confirms \in [Generations -> Seq(BOOLEAN)]
    /\ returns \in [Generations -> BOOLEAN]
    /\ closing \subseteq Generations
    /\ pc \in [Calls -> {"out", "gate", "check", "streams", "deadline", "write", "await",
                         "retiring", "failed", "redial", "inspect", "clear", "dial", "dialled",
                         "setup", "install", "abandon"}]
    /\ try \in [Calls -> {1, 2}]
    /\ ch \in [Calls -> Generations \cup {None}]
    /\ stream \in [Calls -> Generations \cup {None}]
    /\ returned \in [Calls -> BOOLEAN]
    /\ held \in [Calls -> SUBSET Generations]
    /\ verdict \in [Calls -> BOOLEAN]
    /\ expired \subseteq Calls
    /\ outcome \in [Calls -> {"none", "pending", "ok", "failed"}]
    /\ copies \in [Calls -> Nat]

(* Publish keeps its promise: a call that succeeds has had its own message *)
(* taken, not a neighbour's late confirmation, and not a returned or       *)
(* refused one; and no message is taken more than twice.                   *)
Promise == INSTANCE PublishPromise

KeepsPromise == Promise!Spec

(* Every open connection is the one in use, or somebody is about to put it *)
(* in use or to close it.  So once Close has run and the calls under way   *)
(* have returned, none is left.                                            *)
NoConnectionLeaks ==
    \A g \in Generations : conn[g] = "open" =>
        \/ g = publishCh /\ ~closed
        \/ g \in closing
        \/ \E c \in Calls : g \in held[c]

(* Who waits for a confirmation waits on the stream of the channel it      *)
(* wrote to, never on a nil one, whatever Close did meanwhile: without a   *)
(* deadline it would wait for ever.                                        *)
WaitsOnOwnStream ==
    \A c \in Calls : pc[c] = "await" => stream[c] # None /\ stream[c] = ch[c]

(* A call returns once its context has ended or the connection is closed,  *)
(* even if the broker never answers it or the call in front of it.         *)
EveryCallEnds ==
    \A c \in Calls :
        outcome[c] = "pending" /\ (c \in expired \/ closed) ~> outcome[c] # "pending"

=============================================================================
