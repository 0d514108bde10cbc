------------------------------ MODULE Notifier ------------------------------
(***************************************************************************)
(* The Notifier: one consumer that takes notifications from notify.tasks,  *)
(* sends them to Telegram with a few attempts, and passes on what it could *)
(* not send: to notify.retry, whose messages expire back into notify.tasks *)
(* after RetryDelay, or to notify.dead.  Passing on is a Publish that may  *)
(* lose its confirmation, then an acknowledgement; the process may stop at *)
(* any point, and what it had not acknowledged is delivered again.  The    *)
(* Gateway's outbox publishes a notification at least once.                *)
(*                                                                         *)
(* Time is discrete and relative.  Deliveries the client has prefetched    *)
(* count as waiting in notify.tasks, the one being handled is "unacked".   *)
(***************************************************************************)
EXTENDS Integers, Sequences

CONSTANTS
    Tasks,
    NoTask,
    Copies,       \* messages that exist at a time; bounds the duplicates
    NoCopy,
    Delays,       \* what Send waits before each of its attempts
    RetryDelay,   \* NotifyRetryDelay, the TTL of notify.retry
    Afters        \* what Telegram may ask for in retry_after, 0 for nothing

ASSUME NotifierAssumption ==
    /\ NoTask \notin Tasks
    /\ NoCopy \notin Copies
    /\ Copies \subseteq Nat
    /\ Delays \in Seq(Nat) /\ Delays # <<>>
    /\ RetryDelay \in Nat \ {0}
    /\ Afters \subseteq Nat

VARIABLES
    kind,       \* what a task's body is
    accepted,   \* tasks the Gateway's outbox has published
    msg,        \* the messages, by copy
    hold,       \* how long Telegram still wants a task kept back, not stored
    delivered,  \* tasks Telegram has shown to their user
    dead,       \* tasks in notify.dead
    step,       \* where handle() is
    current,    \* the delivery it works on
    attempt, wait,  \* of Send: the attempt, and the wait before it
    target,     \* the queue the task is passed on to
    stamp,      \* the NotBefore it is passed on with
    taken       \* has the broker taken the message being published?

handlerVars == <<step, current, attempt, wait, target, stamp, taken>>
outcomeVars == <<delivered, dead>>
vars == <<kind, accepted, msg, hold, outcomeVars, handlerVars>>

Kinds == {"telegram", "malformed", "unknown"}

(* notBefore is in the body.  A message is unaware of what Telegram still  *)
(* asks for its task when Telegram said so in answer to another message of *)
(* the task, before it was published, or in an answer that a stop or a     *)
(* failed transfer has lost.                                               *)
Blank == [task |-> NoTask, place |-> "free", notBefore |-> 0, ttl |-> 0, unaware |-> FALSE]

Free == {m \in Copies : msg[m].place = "free"}

(* A new message; which copy stands for it makes no difference. *)
New(m) == m \in Free /\ \A n \in Free : m <= n

Task(m) == msg[m].task

Init ==
    /\ kind \in [Tasks -> Kinds]
    /\ accepted = {}
    /\ msg = [m \in Copies |-> Blank]
    /\ hold = [t \in Tasks |-> 0]
    /\ delivered = {} /\ dead = {}
    /\ step = "idle" /\ current = NoCopy
    /\ attempt = 0 /\ wait = 0
    /\ target = "retry" /\ stamp = 0 /\ taken = FALSE

(* The Gateway's outbox publishes a task, once or again.  A second copy is *)
(* kept free for what is passed on.                                        *)
Accept(t, m) ==
    /\ New(m) /\ Free # {m}
    /\ accepted' = accepted \cup {t}
    /\ msg' = [msg EXCEPT ![m] = [Blank EXCEPT !.task = t, !.place = "main",
                                              !.unaware = hold[t] > 0]]
    /\ UNCHANGED <<kind, hold, outcomeVars, handlerVars>>

(* The message TTL of notify.retry ends and RabbitMQ routes it back. *)
Expire(m) ==
    /\ msg[m].place = "retry" /\ msg[m].ttl = 0
    /\ msg' = [msg EXCEPT ![m].place = "main"]
    /\ UNCHANGED <<kind, accepted, hold, outcomeVars, handlerVars>>

GoTo(s) == step' = s /\ attempt' = 0 /\ wait' = 0
           /\ target' = "retry" /\ stamp' = 0 /\ taken' = FALSE

Rest == GoTo("idle") /\ current' = NoCopy

PassOn(queue, notBefore) ==
    /\ step' = "transfer" /\ target' = queue /\ stamp' = notBefore
    /\ attempt' = 0 /\ wait' = 0 /\ taken' = FALSE

-----------------------------------------------------------------------------
(* handle(): one delivery at a time. *)

Receive(m) ==
    /\ step = "idle" /\ msg[m].place = "main"
    /\ msg' = [msg EXCEPT ![m].place = "unacked"]
    /\ current' = m
    /\ UNCHANGED <<kind, accepted, hold, outcomeVars>>

DeadLetter(m) ==
    /\ Receive(m)
    /\ \/ kind[Task(m)] = "malformed"
       \/ kind[Task(m)] = "unknown" /\ msg[m].notBefore = 0
    /\ PassOn("dead", 0)

Postpone(m) ==
    /\ Receive(m)
    /\ kind[Task(m)] # "malformed" /\ msg[m].notBefore > 0
    /\ PassOn("retry", msg[m].notBefore)

StartSending(m) ==
    /\ Receive(m)
    /\ kind[Task(m)] = "telegram" /\ msg[m].notBefore = 0
    /\ step' = "waiting" /\ attempt' = 1 /\ wait' = Delays[1]
    /\ UNCHANGED <<target, stamp, taken>>

Handle(m) == DeadLetter(m) \/ Postpone(m) \/ StartSending(m)

-----------------------------------------------------------------------------
(* Send() *)

Request ==
    /\ step = "waiting" /\ wait = 0
    /\ step' = "requesting"
    /\ UNCHANGED <<kind, accepted, msg, hold, outcomeVars, current, attempt, wait,
                   target, stamp, taken>>

Sent ==
    /\ step = "requesting"
    /\ delivered' = delivered \cup {Task(current)}
    /\ GoTo("acking")
    /\ UNCHANGED <<kind, accepted, msg, hold, dead, current>>

Refused ==
    /\ step = "requesting"
    /\ PassOn("dead", 0)
    /\ UNCHANGED <<kind, accepted, msg, hold, outcomeVars, current>>

Larger(a, b) == IF a > b THEN a ELSE b

(* The wait before the next attempt, Telegram's demand included. *)
NextWait(after) == Larger(after, Delays[attempt + 1])

(* Fault: a long retry_after is not written into the task. *)
Unstamped(after) == 0

Stamp(after) == IF after > RetryDelay THEN after ELSE 0

(* A transport error, HTTP 429 or 5xx.  A short retry_after is waited for  *)
(* while attempts are left; a long one goes into the task.                 *)
TryAgain(after) ==
    /\ IF after <= RetryDelay /\ attempt < Len(Delays)
         THEN /\ step' = "waiting" /\ attempt' = attempt + 1
              /\ wait' = NextWait(after)
              /\ UNCHANGED <<target, stamp, taken>>
         ELSE PassOn("retry", Stamp(after))
    /\ UNCHANGED <<kind, accepted, dead, current>>

(* What Telegram says in answer to one message the others do not learn. *)
Demand(t, after) ==
    /\ hold' = [hold EXCEPT ![t] = after]
    /\ msg' = [m \in Copies |-> IF Task(m) = t THEN [msg[m] EXCEPT !.unaware = m # current]
                                              ELSE msg[m]]

Failed(after) ==
    /\ step = "requesting"
    /\ IF after = 0 THEN UNCHANGED <<msg, hold>> ELSE Demand(Task(current), after)
    /\ TryAgain(after)
    /\ UNCHANGED delivered

(* Telegram showed the message and its answer is lost. *)
AnswerLost ==
    /\ step = "requesting"
    /\ delivered' = delivered \cup {Task(current)}
    /\ TryAgain(0)
    /\ UNCHANGED <<msg, hold>>

-----------------------------------------------------------------------------
(* transfer() *)

BrokerTakes(m) ==
    /\ step = "transfer" /\ ~taken
    /\ New(m)
    /\ taken' = TRUE
    /\ IF target = "retry"
         THEN /\ msg' = [msg EXCEPT ![m] =
                          [msg[current] EXCEPT !.place = "retry", !.ttl = RetryDelay,
                                               !.notBefore = stamp]]
              /\ UNCHANGED dead
         ELSE dead' = dead \cup {Task(current)} /\ UNCHANGED msg
    /\ UNCHANGED <<kind, accepted, hold, delivered, step, current, attempt, wait,
                   target, stamp>>

(* Fault: the delivery is acknowledged before the copy is confirmed. *)
AckFirst ==
    /\ step = "transfer"
    /\ GoTo("acking")
    /\ UNCHANGED <<kind, accepted, msg, hold, outcomeVars, current>>

Confirmed ==
    /\ step = "transfer" /\ taken
    /\ GoTo("acking")
    /\ UNCHANGED <<kind, accepted, msg, hold, outcomeVars, current>>

(* A failed Publish may have been taken; a copy has to be free for the     *)
(* next try (the bound Copies).                                            *)
PublishFails ==
    /\ step = "transfer"
    /\ taken => Free # {}
    /\ GoTo("pausing")
    /\ UNCHANGED <<kind, accepted, msg, hold, outcomeVars, current>>

(* Brought back as it was delivered: what only its handler knew is lost. *)
Requeued(m) ==
    [msg[m] EXCEPT !.place = "main",
                   !.unaware = @ \/ hold[Task(m)] > msg[m].notBefore]

(* Fault: after a failed transfer the delivery is left as it is. *)
LeaveUnacked ==
    /\ step = "pausing"
    /\ Rest
    /\ UNCHANGED <<kind, accepted, msg, hold, outcomeVars>>

Nack ==
    /\ step = "pausing"
    /\ msg' = [msg EXCEPT ![current] = Requeued(current)]
    /\ Rest
    /\ UNCHANGED <<kind, accepted, hold, outcomeVars>>

Ack ==
    /\ step = "acking"
    /\ msg' = [msg EXCEPT ![current] = Blank]
    /\ Rest
    /\ UNCHANGED <<kind, accepted, hold, outcomeVars>>

(* The process stops, is stopped or loses its channel, and starts again:   *)
(* from then on nothing is acknowledged, and RabbitMQ delivers again.      *)
Restart ==
    /\ taken /\ step = "transfer" => Free # {}
    /\ msg' = [m \in Copies |-> IF msg[m].place = "unacked" THEN Requeued(m) ELSE msg[m]]
    /\ Rest
    /\ UNCHANGED <<kind, accepted, hold, outcomeVars>>

Less(n) == IF n = 0 THEN 0 ELSE n - 1

Aged(m) == [msg[m] EXCEPT !.notBefore = Less(@), !.ttl = Less(@),
                          !.unaware = @ /\ hold[Task(m)] > 1]

Tick ==
    /\ msg' = [m \in Copies |-> Aged(m)]
    /\ hold' = [t \in Tasks |-> Less(hold[t])]
    /\ wait' = Less(wait)
    /\ stamp' = Less(stamp)
    /\ UNCHANGED <<kind, accepted, outcomeVars, step, current, attempt, target, taken>>

Next ==
    \/ \E t \in Tasks, m \in Copies : Accept(t, m)
    \/ \E m \in Copies : Expire(m) \/ Handle(m) \/ BrokerTakes(m)
    \/ Request \/ Sent \/ Refused \/ AnswerLost
    \/ \E after \in Afters : Failed(after)
    \/ Confirmed \/ PublishFails \/ Nack \/ Ack
    \/ Restart
    \/ Tick

Spec == Init /\ [][Next]_vars

Answer == Sent \/ Refused \/ AnswerLost \/ \E after \in Afters : Failed(after)

HandlerStep == Request \/ Answer \/ Confirmed \/ PublishFails \/ Nack \/ Ack

Of(t) == current # NoCopy /\ Task(current) = t

(* Time passes, every call of the handler ends, and messages expire.  For  *)
(* each notification the process sometimes runs long enough to make its    *)
(* request, and Telegram and the broker sometimes work.                    *)
Fairness ==
    /\ WF_vars(Tick) /\ WF_vars(HandlerStep)
    /\ \A t \in Tasks :
         /\ WF_vars(\E m \in Copies : Task(m) = t /\ Expire(m))
         /\ SF_vars(\E m \in Copies : Task(m) = t /\ Handle(m))
         /\ SF_vars(Of(t) /\ Request)
         /\ SF_vars(Of(t) /\ Sent)
         /\ SF_vars(Of(t) /\ \E m \in Copies : BrokerTakes(m))

FairSpec == Spec /\ Fairness

-----------------------------------------------------------------------------

TypeOK ==
    /\ kind \in [Tasks -> Kinds]
    /\ accepted \subseteq Tasks
    /\ msg \in [Copies -> [task : Tasks \cup {NoTask},
                           place : {"free", "main", "unacked", "retry"},
                           notBefore : Nat, ttl : 0 .. RetryDelay, unaware : BOOLEAN]]
    /\ hold \in [Tasks -> Nat]
    /\ delivered \subseteq accepted /\ dead \subseteq accepted
    /\ step \in {"idle", "waiting", "requesting", "transfer", "pausing", "acking"}
    /\ current \in Copies \cup {NoCopy}
    /\ attempt \in 0 .. Len(Delays) /\ wait \in Nat
    /\ target \in {"retry", "dead"} /\ stamp \in Nat /\ taken \in BOOLEAN
    /\ \A m \in Copies : msg[m].place = "unacked" <=> m = current

(* No accepted notification is lost between its queues: until it is shown  *)
(* or dead, a message that carries it exists, through failed transfers,    *)
(* lost confirmations and stops.                                           *)
NothingLost ==
    \A t \in accepted \ (delivered \cup dead) :
        \E m \in Copies : msg[m].place # "free" /\ Task(m) = t

(* What Telegram last asked for in retry_after for a notification, short   *)
(* or long, is over whenever the notification is sent, from whichever of   *)
(* its messages, except from one that is unaware of it: a duplicate of the *)
(* message that Telegram answered, by the outbox or a transfer that failed *)
(* though it was taken, or that message itself brought back by a stop or a *)
(* failed transfer, for only the transfer writes NotBefore into the task.  *)
RetryAfterRespected ==
    step = "requesting" => hold[Task(current)] = 0 \/ msg[current].unaware

(* Every notification is shown or dead in the end: it neither circulates   *)
(* for ever with its NotBefore nor is it left behind.                      *)
EventuallySettled ==
    \A t \in Tasks : t \in accepted ~> t \in delivered \cup dead

=============================================================================
