--------------------------- MODULE NotifierProofs ---------------------------
(***************************************************************************)
(* Theorems about Notifier, for any notifications, number of copies,       *)
(* delays and demands of Telegram.                                         *)
(*                                                                         *)
(* A delivery is acknowledged only when its notification is settled or     *)
(* another message carries it (SafeToAck).  What Telegram still asks to    *)
(* keep a notification back is covered by the time its message, or the     *)
(* handler, will still wait, for every message that is not unaware of it   *)
(* (HoldCovered).                                                          *)
(***************************************************************************)
EXTENDS Notifier, TLAPS

Message == [task : Tasks \cup {NoTask}, place : {"free", "main", "unacked", "retry"},
            notBefore : Nat, ttl : Nat, unaware : BOOLEAN]

Steps == {"idle", "waiting", "requesting", "transfer", "pausing", "acking"}

NotifierTypeOK ==
    /\ accepted \subseteq Tasks
    /\ msg \in [Copies -> Message]
    /\ \A m \in Copies : msg[m].place # "free" => Task(m) \in Tasks
    /\ hold \in [Tasks -> Nat]
    /\ step \in Steps
    /\ current \in Copies \cup {NoCopy}
    /\ step = "idle" <=> current = NoCopy
    /\ \A m \in Copies : msg[m].place = "unacked" <=> m = current
    /\ attempt \in Nat /\ wait \in Nat /\ stamp \in Nat
    /\ attempt <= Len(Delays)
    /\ target \in {"retry", "dead"} /\ taken \in BOOLEAN

Carried(t) == \E m \in Copies : m # current /\ msg[m].place # "free" /\ Task(m) = t

(* The delivery may go: it is settled, or its notification lives on. *)
SafeToAck ==
    step = "acking" \/ (step = "transfer" /\ taken) =>
        Task(current) \in delivered \cup dead \/ Carried(Task(current))

(* What is left of Telegram's demand is covered by what is left of a wait, *)
(* or the message is unaware of it.                                        *)
Covers(m, n) == hold[Task(m)] <= n \/ msg[m].unaware

HoldCovered ==
    /\ \A m \in Copies :
         /\ msg[m].place = "main" => Covers(m, msg[m].notBefore)
         /\ msg[m].place = "retry" => Covers(m, msg[m].notBefore) \/ Covers(m, msg[m].ttl)
    /\ step = "waiting" => Covers(current, wait)
    /\ step = "requesting" => Covers(current, 0)
    /\ step = "transfer" /\ target = "retry" =>
         Covers(current, stamp) \/ Covers(current, RetryDelay)

NotifierInv ==
    /\ NotifierTypeOK
    /\ NothingLost
    /\ SafeToAck
    /\ HoldCovered

-----------------------------------------------------------------------------

(* No notification is accepted yet, and the handler is idle. *)
LEMMA InitInv == Init => NotifierInv
<1> SUFFICES ASSUME Init PROVE NotifierInv
  OBVIOUS
<1>1. Len(Delays) \in Nat /\ NoCopy \notin Copies
  BY NotifierAssumption
<1>2. Blank \in Message /\ Blank.place = "free"
  BY DEF Blank, Message
<1>3. NotifierTypeOK
  <2>1. msg \in [Copies -> Message] /\ \A m \in Copies : msg[m].place # "unacked" /\ m # current
    BY <1>1, <1>2 DEF Init
  <2>2. /\ accepted \subseteq Tasks /\ step \in Steps /\ current \in Copies \cup {NoCopy}
        /\ step = "idle" /\ current = NoCopy
    BY DEF Init, Steps
  <2>3. attempt \in Nat /\ wait \in Nat /\ stamp \in Nat /\ attempt <= Len(Delays)
    BY <1>1 DEF Init
  <2>4. target \in {"retry", "dead"} /\ taken \in BOOLEAN /\ hold \in [Tasks -> Nat]
    BY DEF Init
  <2>5. \A m \in Copies : msg[m].place = "free"
    BY <1>2 DEF Init
  <2> QED
    BY <2>1, <2>2, <2>3, <2>4, <2>5 DEF NotifierTypeOK
<1>4. NothingLost /\ SafeToAck /\ HoldCovered
  BY <1>2 DEF Init, NothingLost, SafeToAck, HoldCovered
<1> QED
  BY <1>3, <1>4 DEF NotifierInv

(* Fields of the message being handled and of any other. *)
LEMMA Fields ==
    ASSUME NotifierTypeOK, NEW m \in Copies
    PROVE  /\ msg[m] \in Message
           /\ msg[m].task \in Tasks \cup {NoTask}
           /\ msg[m].place \in {"free", "main", "unacked", "retry"}
           /\ msg[m].notBefore \in Nat /\ msg[m].ttl \in Nat /\ msg[m].unaware \in BOOLEAN
           /\ msg[m].place # "free" => Task(m) \in Tasks /\ hold[Task(m)] \in Nat
BY DEF NotifierTypeOK, Message

(* A new task takes a copy that is free. *)
LEMMA AcceptInv ==
    ASSUME NotifierInv, NEW t \in Tasks, NEW m \in Copies, Accept(t, m)
    PROVE  NotifierInv'
<1> DEFINE new == [Blank EXCEPT !.task = t, !.place = "main", !.unaware = hold[t] > 0]
<1>1. /\ msg' = [msg EXCEPT ![m] = new] /\ accepted' = accepted \cup {t}
      /\ msg[m].place = "free"
      /\ UNCHANGED <<hold, delivered, dead, step, current, attempt, wait, target, stamp, taken>>
  BY DEF Accept, New, Free, handlerVars, outcomeVars
<1>2. /\ new \in Message /\ new.task = t /\ new.place = "main" /\ new.notBefore = 0
      /\ hold[t] > 0 => new.unaware
  <2>0. (hold[t] > 0) \in BOOLEAN
    BY DEF NotifierInv, NotifierTypeOK
  <2>1. PICK u \in BOOLEAN : u = (hold[t] > 0)
    BY <2>0, Zenon
  <2>2. new = [Blank EXCEPT !.task = t, !.place = "main", !.unaware = u]
    BY <2>1
  <2> HIDE DEF new
  <2>3. /\ new \in Message /\ new.task = t /\ new.place = "main" /\ new.notBefore = 0
        /\ new.unaware = u
    BY <2>2 DEF Blank, Message
  <2> QED
    BY <2>1, <2>3
<1> HIDE DEF new
<1>3. msg'[m] = new /\ \A n \in Copies \ {m} : msg'[n] = msg[n]
  BY <1>1 DEF NotifierInv, NotifierTypeOK
<1>4. m # current
  BY <1>1 DEF NotifierInv, NotifierTypeOK
<1>5. NotifierTypeOK'
  <2>1. msg' \in [Copies -> Message]
    BY <1>1, <1>2 DEF NotifierInv, NotifierTypeOK
  <2>2. \A n \in Copies : /\ msg'[n].place # "free" => Task(n)' \in Tasks
                          /\ msg'[n].place = "unacked" <=> n = current'
    BY <1>1, <1>2, <1>3, <1>4 DEF NotifierInv, NotifierTypeOK, Task
  <2> QED
    BY <1>1, <2>1, <2>2 DEF NotifierInv, NotifierTypeOK
<1>6. NothingLost'
  <2> SUFFICES ASSUME NEW v \in accepted' \ (delivered \cup dead)
               PROVE  \E n \in Copies : msg'[n].place # "free" /\ msg'[n].task = v
    BY <1>1 DEF NothingLost, Task
  <2>1. CASE v = t
    BY <1>2, <1>3, <2>1
  <2>2. CASE v # t
    <3>1. PICK n \in Copies : msg[n].place # "free" /\ msg[n].task = v
      BY <1>1, <2>2 DEF NotifierInv, NothingLost, Task
    <3> QED
      BY <1>1, <1>3, <3>1
  <2> QED
    BY <2>1, <2>2
<1>7. SafeToAck'
  BY <1>1, <1>2, <1>3, <1>4 DEF NotifierInv, NotifierTypeOK, SafeToAck, Carried, Task
<1>8. HoldCovered'
  BY <1>1, <1>2, <1>3, <1>4, NotifierAssumption
     DEF NotifierInv, NotifierTypeOK, HoldCovered, Covers, Task
<1> QED
  BY <1>5, <1>6, <1>7, <1>8 DEF NotifierInv

(* What waited for its TTL has waited long enough, unless NotBefore says   *)
(* otherwise.                                                              *)
LEMMA ExpireInv ==
    ASSUME NotifierInv, NEW m \in Copies, Expire(m)
    PROVE  NotifierInv'
<1>1. /\ msg' = [msg EXCEPT ![m].place = "main"]
      /\ msg[m].place = "retry" /\ msg[m].ttl = 0
      /\ UNCHANGED <<accepted, hold, delivered, dead, step, current, attempt, wait, target, stamp, taken>>
  BY DEF Expire, handlerVars, outcomeVars
<1>2. /\ msg'[m].place = "main" /\ msg'[m].task = msg[m].task
      /\ msg'[m].unaware = msg[m].unaware /\ msg'[m].notBefore = msg[m].notBefore
      /\ \A n \in Copies \ {m} : msg'[n] = msg[n]
      /\ msg' \in [Copies -> Message] /\ m # current
  BY <1>1 DEF NotifierInv, NotifierTypeOK, Message
<1>3. NotifierTypeOK'
  <2>1. \A n \in Copies : /\ msg'[n].place # "free" => Task(n)' \in Tasks
                          /\ msg'[n].place = "unacked" <=> n = current'
    BY <1>1, <1>2 DEF NotifierInv, NotifierTypeOK, Task
  <2> QED
    BY <1>1, <1>2, <2>1 DEF NotifierInv, NotifierTypeOK
<1>4. NothingLost'
  BY <1>1, <1>2 DEF NotifierInv, NothingLost, Task
<1>5. SafeToAck'
  BY <1>1, <1>2, NotifierAssumption DEF NotifierInv, NotifierTypeOK, SafeToAck, Carried, Task
<1>6. HoldCovered'
  <2>1. Covers(m, msg[m].notBefore)
    BY <1>1, Fields DEF NotifierInv, HoldCovered, Covers, Task
  <2> QED
    BY <1>1, <1>2, <2>1, NotifierAssumption DEF NotifierInv, NotifierTypeOK, HoldCovered, Covers, Task
<1> QED
  BY <1>3, <1>4, <1>5, <1>6 DEF NotifierInv

(* A delivery is taken by the handler, which is free. *)
LEMMA HandleInv ==
    ASSUME NotifierInv, NEW m \in Copies, Handle(m)
    PROVE  NotifierInv'
<1>1. /\ msg' = [msg EXCEPT ![m].place = "unacked"]
      /\ msg[m].place = "main" /\ step = "idle" /\ current' = m
      /\ UNCHANGED <<accepted, hold, delivered, dead>>
  BY DEF Handle, DeadLetter, Postpone, StartSending, Receive, outcomeVars
<1>2. /\ msg'[m].place = "unacked" /\ msg'[m].task = msg[m].task
      /\ msg'[m].unaware = msg[m].unaware /\ msg'[m].notBefore = msg[m].notBefore
      /\ \A n \in Copies \ {m} : msg'[n] = msg[n]
      /\ msg' \in [Copies -> Message]
  BY <1>1 DEF NotifierInv, NotifierTypeOK, Message
<1>3. current = NoCopy /\ \A n \in Copies : n # current
  BY <1>1, NotifierAssumption DEF NotifierInv, NotifierTypeOK
<1>4. Len(Delays) \in Nat /\ Len(Delays) >= 1 /\ Delays[1] \in Nat
  BY NotifierAssumption
<1>5. \/ step' = "transfer" /\ taken' = FALSE /\ target' = "dead" /\ stamp' = 0
           /\ attempt' = 0 /\ wait' = 0
      \/ step' = "transfer" /\ taken' = FALSE /\ target' = "retry" /\ stamp' = msg[m].notBefore
           /\ attempt' = 0 /\ wait' = 0
      \/ step' = "waiting" /\ msg[m].notBefore = 0 /\ attempt' = 1 /\ wait' = Delays[1]
           /\ UNCHANGED <<target, stamp, taken>>
  BY DEF Handle, DeadLetter, Postpone, StartSending, PassOn
<1>6. NotifierTypeOK'
  <2>0. /\ msg[m].notBefore \in Nat /\ stamp \in Nat /\ target \in {"retry", "dead"}
        /\ taken \in BOOLEAN
    BY Fields DEF NotifierInv, NotifierTypeOK
  <2>1. /\ step' \in Steps /\ step' # "idle" /\ stamp' \in Nat
        /\ target' \in {"retry", "dead"} /\ taken' \in BOOLEAN
    <3>1. step' \in Steps /\ step' # "idle"
      BY <1>5 DEF Steps
    <3>2. stamp' \in Nat
      BY <1>5, <2>0
    <3>3. target' \in {"retry", "dead"}
      BY <1>5, <2>0
    <3>4. taken' \in BOOLEAN
      BY <1>5, <2>0, Zenon
    <3> QED
      BY <3>1, <3>2, <3>3, <3>4
  <2>2. attempt' \in Nat /\ wait' \in Nat /\ attempt' <= Len(Delays)
    BY <1>4, <1>5
  <2>3. current' # NoCopy
    BY <1>1, <1>3
  <2>4. \A n \in Copies : /\ msg'[n].place # "free" => Task(n)' \in Tasks
                          /\ msg'[n].place = "unacked" <=> n = current'
    BY <1>1, <1>2, <1>3 DEF NotifierInv, NotifierTypeOK, Task
  <2> QED
    BY <1>1, <1>2, <2>1, <2>2, <2>3, <2>4 DEF NotifierInv, NotifierTypeOK
<1>7. NothingLost'
  BY <1>1, <1>2 DEF NotifierInv, NothingLost, Task
<1>8. SafeToAck'
  BY <1>5 DEF SafeToAck
<1>9. HoldCovered'
  <2>1. Covers(m, msg[m].notBefore)
    BY <1>1 DEF NotifierInv, HoldCovered
  <2>2. msg[m].notBefore \in Nat /\ hold[Task(m)] \in Nat
    BY <1>1, Fields DEF NotifierInv
  <2>3. step' = "waiting" => Covers(m, 0) /\ wait' \in Nat
    BY <1>4, <1>5, <2>1
  <2>4. step' = "transfer" /\ target' = "retry" => stamp' = msg[m].notBefore
    BY <1>5
  <2>5. step' # "requesting"
    BY <1>5
  <2>6. \A n \in Copies \ {m} : msg'[n] = msg[n]
    BY <1>2
  <2> QED
    <3>1. \A n \in Copies :
            /\ msg'[n].place = "main" => Covers(n, msg[n].notBefore)'
            /\ msg'[n].place = "retry" =>
                 Covers(n, msg[n].notBefore)' \/ Covers(n, msg[n].ttl)'
      BY <1>1, <1>2 DEF NotifierInv, HoldCovered, Covers, Task
    <3>2. step' = "waiting" => Covers(current, wait)'
      BY <1>1, <1>2, <2>2, <2>3 DEF Covers, Task
    <3>3. step' = "transfer" /\ target' = "retry" => Covers(current, stamp)'
      BY <1>1, <1>2, <2>1, <2>4 DEF Covers, Task
    <3> QED
      BY <2>5, <3>1, <3>2, <3>3 DEF HoldCovered
<1> QED
  BY <1>6, <1>7, <1>8, <1>9 DEF NotifierInv

(* What no step of Send() or transfer() touches, and Telegram's part. *)
LEMMA HandlerFields ==
    ASSUME NotifierInv, step # "idle"
    PROVE  /\ current \in Copies /\ current # NoCopy
           /\ msg[current].place = "unacked"
           /\ msg[current] \in Message
           /\ Task(current) \in Tasks /\ hold[Task(current)] \in Nat
BY Fields DEF NotifierInv, NotifierTypeOK

(* A step that leaves the messages alone and loses no outcome. *)
LEMMA QuietInv ==
    ASSUME NotifierInv, step # "idle", step' # "idle",
           UNCHANGED <<accepted, msg, hold, current>>,
           delivered \subseteq delivered', dead \subseteq dead',
           step' \in Steps, attempt' \in Nat, wait' \in Nat, stamp' \in Nat,
           attempt' <= Len(Delays), target' \in {"retry", "dead"}, taken' \in BOOLEAN,
           SafeToAck',
           step' = "waiting" => Covers(current, wait'),
           step' = "requesting" => Covers(current, 0),
           step' = "transfer" /\ target' = "retry" =>
               Covers(current, stamp') \/ Covers(current, RetryDelay)
    PROVE  NotifierInv'
<1>1. NotifierTypeOK'
  BY DEF NotifierInv, NotifierTypeOK, Task
<1>2. NothingLost'
  BY DEF NotifierInv, NothingLost, Task
<1>3. HoldCovered'
  BY DEF NotifierInv, HoldCovered, Covers, Task
<1> QED
  BY <1>1, <1>2, <1>3 DEF NotifierInv

(* A wait that has ended ends the demand it covered. *)
LEMMA RequestInv == NotifierInv /\ Request => NotifierInv'
<1> SUFFICES ASSUME NotifierInv, Request PROVE NotifierInv'
  OBVIOUS
<1>1. /\ step = "waiting" /\ wait = 0 /\ step' = "requesting"
      /\ UNCHANGED <<accepted, msg, hold, delivered, dead, current, attempt, wait, target, stamp, taken>>
  BY DEF Request, outcomeVars
<1>2. Covers(current, 0)
  BY <1>1 DEF NotifierInv, HoldCovered
<1>3. SafeToAck'
  BY <1>1 DEF SafeToAck
<1>4. /\ attempt' \in Nat /\ wait' \in Nat /\ stamp' \in Nat
      /\ attempt' <= Len(Delays) /\ target' \in {"retry", "dead"}
  BY <1>1 DEF NotifierInv, NotifierTypeOK
<1>5. taken' \in BOOLEAN
  BY <1>1 DEF NotifierInv, NotifierTypeOK
<1> QED
  BY <1>1, <1>2, <1>3, <1>4, <1>5, QuietInv DEF Steps

(* A settled delivery is acknowledged, and passing on to the dead starts. *)
LEMMA SettledInv == NotifierInv /\ (Sent \/ Refused) => NotifierInv'
<1> SUFFICES ASSUME NotifierInv, Sent \/ Refused PROVE NotifierInv'
  OBVIOUS
<1>0. Len(Delays) \in Nat
  BY NotifierAssumption
<1>1. CASE Sent
  <2>1. /\ step = "requesting" /\ step' = "acking" /\ UNCHANGED <<accepted, msg, hold, dead, current>>
        /\ delivered' = delivered \cup {Task(current)}
        /\ attempt' = 0 /\ wait' = 0 /\ stamp' = 0 /\ target' = "retry"
    BY <1>1 DEF Sent, GoTo
  <2>2. taken' \in BOOLEAN
    BY <1>1 DEF Sent, GoTo
  <2>3. SafeToAck'
    BY <2>1 DEF SafeToAck, Task
  <2> QED
    BY <1>0, <2>1, <2>2, <2>3, QuietInv DEF Steps
<1>2. CASE Refused
  <2>1. /\ step = "requesting" /\ step' = "transfer"
        /\ UNCHANGED <<accepted, msg, hold, delivered, dead, current>>
        /\ attempt' = 0 /\ wait' = 0 /\ stamp' = 0 /\ target' = "dead"
    BY <1>2 DEF Refused, PassOn, outcomeVars
  <2>2. taken' = FALSE
    BY <1>2 DEF Refused, PassOn
  <2>3. SafeToAck'
    BY <2>1, <2>2 DEF SafeToAck
  <2>4. taken' \in BOOLEAN
    BY <2>2
  <2> QED
    BY <1>0, <2>1, <2>3, <2>4, QuietInv DEF Steps
<1> QED
  BY <1>1, <1>2

(* Whichever way a failed attempt goes on, what Telegram asked for is      *)
(* waited for, stamped, or shorter than the retry queue's TTL.             *)
LEMMA TryAgainCovers ==
    ASSUME NotifierInv, NEW after \in Nat, TryAgain(after)
    PROVE  /\ step' \in {"waiting", "transfer"} /\ UNCHANGED <<accepted, dead, current>>
           /\ attempt' \in Nat /\ wait' \in Nat /\ stamp' \in Nat
           /\ attempt' <= Len(Delays) /\ target' \in {"retry", "dead"} /\ taken' \in BOOLEAN
           /\ step' = "waiting" => after <= wait'
           /\ step' = "transfer" => after <= stamp' \/ after <= RetryDelay
           /\ step' = "transfer" => taken' = FALSE
<1>1. Len(Delays) \in Nat /\ Delays \in Seq(Nat) /\ RetryDelay \in Nat
  BY NotifierAssumption
<1>2. attempt \in Nat /\ attempt <= Len(Delays) /\ stamp \in Nat /\ target \in {"retry", "dead"}
  BY DEF NotifierInv, NotifierTypeOK
<1>3. taken \in BOOLEAN
  BY DEF NotifierInv, NotifierTypeOK
<1>4. UNCHANGED <<accepted, dead, current>>
  BY DEF TryAgain
<1>5. CASE after <= RetryDelay /\ attempt < Len(Delays)
  <2>1. /\ step' = "waiting" /\ attempt' = attempt + 1 /\ wait' = NextWait(after)
        /\ UNCHANGED <<target, stamp, taken>>
    BY <1>5 DEF TryAgain
  <2>2. Delays[attempt + 1] \in Nat
    BY <1>1, <1>2, <1>5
  <2>3. NextWait(after) \in Nat /\ after <= NextWait(after)
    BY <2>2 DEF NextWait, Larger
  <2>4. taken' \in BOOLEAN
    BY <1>3, <2>1
  <2>5. /\ attempt' \in Nat /\ wait' \in Nat /\ stamp' \in Nat
        /\ attempt' <= Len(Delays) /\ target' \in {"retry", "dead"}
        /\ step' \in {"waiting", "transfer"} /\ step' # "transfer" /\ after <= wait'
    BY <1>1, <1>2, <1>5, <2>1, <2>3
  <2> QED
    BY <1>4, <2>4, <2>5
<1>6. CASE ~(after <= RetryDelay /\ attempt < Len(Delays))
  <2>1. /\ step' = "transfer" /\ attempt' = 0 /\ wait' = 0 /\ stamp' = Stamp(after)
        /\ target' = "retry"
    BY <1>6 DEF TryAgain, PassOn
  <2>2. taken' = FALSE
    BY <1>6 DEF TryAgain, PassOn
  <2>3. Stamp(after) \in Nat /\ (after <= Stamp(after) \/ after <= RetryDelay)
    BY <1>1 DEF Stamp
  <2>4. /\ attempt' \in Nat /\ wait' \in Nat /\ stamp' \in Nat
        /\ attempt' <= Len(Delays) /\ target' \in {"retry", "dead"}
        /\ step' \in {"waiting", "transfer"} /\ step' # "waiting"
        /\ after <= stamp' \/ after <= RetryDelay
    BY <1>1, <2>1, <2>3
  <2>5. taken' \in BOOLEAN
    BY <2>2
  <2> QED
    BY <1>4, <2>2, <2>4, <2>5
<1> QED
  BY <1>5, <1>6

(* The answer is lost on the way back: as far as the handler knows the     *)
(* attempt failed.                                                         *)
LEMMA AnswerLostInv == NotifierInv /\ AnswerLost => NotifierInv'
<1> SUFFICES ASSUME NotifierInv, AnswerLost PROVE NotifierInv'
  OBVIOUS
<1>1. /\ step = "requesting" /\ TryAgain(0) /\ UNCHANGED <<msg, hold>> /\ delivered \subseteq delivered'
  BY DEF AnswerLost
<1>2. Covers(current, 0)
  BY <1>1 DEF NotifierInv, HoldCovered
<1>3. hold[Task(current)] \in Nat
  BY <1>1, HandlerFields
<1>4. /\ step' \in {"waiting", "transfer"} /\ UNCHANGED <<accepted, dead, current>>
      /\ attempt' \in Nat /\ wait' \in Nat /\ stamp' \in Nat
      /\ attempt' <= Len(Delays) /\ target' \in {"retry", "dead"} /\ taken' \in BOOLEAN
      /\ step' = "transfer" => taken' = FALSE
  BY <1>1, TryAgainCovers
<1>5. Covers(current, wait') /\ Covers(current, stamp')
  BY <1>2, <1>3, <1>4 DEF Covers, Task
<1>6. SafeToAck'
  BY <1>4 DEF SafeToAck
<1> QED
  BY <1>1, <1>4, <1>5, <1>6, QuietInv DEF Steps

(* A failed attempt, with what Telegram asks for. *)
LEMMA FailedInv ==
    ASSUME NotifierInv, NEW after \in Afters, Failed(after)
    PROVE  NotifierInv'
<1>1. step = "requesting" /\ TryAgain(after) /\ UNCHANGED delivered /\ after \in Nat
  BY NotifierAssumption DEF Failed
<1>2. current \in Copies /\ Task(current) \in Tasks /\ hold[Task(current)] \in Nat
  BY <1>1, HandlerFields
<1>3. /\ step' \in {"waiting", "transfer"} /\ UNCHANGED <<accepted, dead, current>>
      /\ attempt' \in Nat /\ wait' \in Nat /\ stamp' \in Nat
      /\ attempt' <= Len(Delays) /\ target' \in {"retry", "dead"} /\ taken' \in BOOLEAN
      /\ step' = "waiting" => after <= wait'
      /\ step' = "transfer" => after <= stamp' \/ after <= RetryDelay
      /\ step' = "transfer" => taken' = FALSE
  BY <1>1, TryAgainCovers
<1>4. SafeToAck'
  BY <1>3 DEF SafeToAck
<1>5. CASE after = 0
  <2>1. Covers(current, 0)
    BY <1>1 DEF NotifierInv, HoldCovered
  <2>2. Covers(current, wait') /\ Covers(current, stamp')
    BY <1>2, <1>3, <2>1 DEF Covers, Task
  <2>3. UNCHANGED <<msg, hold>>
    BY <1>5 DEF Failed
  <2> QED
    BY <1>1, <1>3, <1>4, <2>2, <2>3, QuietInv DEF Steps
<1>6. CASE after # 0
  <2> DEFINE t == Task(current)
  <2>1. /\ hold' \in [Tasks -> Nat] /\ hold'[t] = after
        /\ \A u \in Tasks \ {t} : hold'[u] = hold[u]
    BY <1>1, <1>2, <1>6 DEF Failed, Demand, NotifierInv, NotifierTypeOK
  <2>2. msg' = [m \in Copies |-> IF Task(m) = t THEN [msg[m] EXCEPT !.unaware = m # current]
                                                ELSE msg[m]]
    BY <1>6 DEF Failed, Demand
  <2>3. \A m \in Copies :
          /\ msg'[m] \in Message
          /\ msg'[m].place = msg[m].place /\ msg'[m].task = msg[m].task
          /\ msg'[m].notBefore = msg[m].notBefore /\ msg'[m].ttl = msg[m].ttl
          /\ Task(m) = t => (msg'[m].unaware <=> m # current)
          /\ Task(m) # t => msg'[m].unaware = msg[m].unaware
    <3> SUFFICES ASSUME NEW m \in Copies
                 PROVE  /\ msg'[m] \in Message
                        /\ msg'[m].place = msg[m].place /\ msg'[m].task = msg[m].task
                        /\ msg'[m].notBefore = msg[m].notBefore /\ msg'[m].ttl = msg[m].ttl
                        /\ Task(m) = t => (msg'[m].unaware <=> m # current)
                        /\ Task(m) # t => msg'[m].unaware = msg[m].unaware
      OBVIOUS
    <3>1. msg[m] \in Message /\ (m # current) \in BOOLEAN
      BY DEF NotifierInv, NotifierTypeOK
    <3>2. CASE Task(m) = t
      BY <2>2, <3>1, <3>2 DEF Message
    <3>3. CASE Task(m) # t
      BY <2>2, <3>1, <3>3
    <3> QED
      BY <3>2, <3>3
  <2> HIDE DEF t
  <2>4. NotifierTypeOK'
    <3>1. /\ accepted' \subseteq Tasks /\ step' \in Steps /\ step' # "idle"
          /\ current' \in Copies \cup {NoCopy} /\ current' # NoCopy
      BY <1>1, <1>2, <1>3, NotifierAssumption DEF NotifierInv, NotifierTypeOK, Steps
    <3>2. \A m \in Copies : msg'[m].place = "unacked" <=> m = current'
      BY <1>2, <1>3, <2>3 DEF NotifierInv, NotifierTypeOK
    <3>3. msg' \in [Copies -> Message]
      BY <2>2, <2>3
    <3>4. \A m \in Copies : msg'[m].place # "free" => Task(m)' \in Tasks
      BY <2>3 DEF NotifierInv, NotifierTypeOK, Task
    <3> QED
      BY <1>3, <2>1, <3>1, <3>2, <3>3, <3>4 DEF NotifierTypeOK
  <2>5. NothingLost'
    <3>1. \A m \in Copies : msg'[m].place = msg[m].place /\ Task(m)' = Task(m)
      BY <2>3 DEF Task
    <3> QED
      BY <1>1, <1>3, <3>1 DEF NotifierInv, NothingLost
  <2>6. HoldCovered'
    <3>1. msg[current].place = "unacked"
      BY <1>1, HandlerFields
    <3>2. ASSUME NEW m \in Copies, msg[m].place \in {"main", "retry"}
          PROVE  \/ msg'[m].unaware
                 \/ hold'[msg'[m].task] = hold[Task(m)] /\ msg'[m].unaware = msg[m].unaware
      <4>1. CASE Task(m) = t
        BY <2>3, <3>1, <3>2, <4>1
      <4>2. CASE Task(m) # t
        <5>1. Task(m) \in Tasks
          BY <3>2 DEF NotifierInv, NotifierTypeOK
        <5> QED
          BY <2>1, <2>3, <4>2, <5>1 DEF Task
      <4> QED
        BY <4>1, <4>2
    <3>3. \A m \in Copies :
            /\ msg'[m].place = "main" => Covers(m, msg[m].notBefore)'
            /\ msg'[m].place = "retry" =>
                 Covers(m, msg[m].notBefore)' \/ Covers(m, msg[m].ttl)'
      BY <2>3, <3>2 DEF NotifierInv, HoldCovered, Covers, Task
    <3>4. hold'[msg'[current].task] = after
      BY <1>2, <2>1, <2>3 DEF t, Task
    <3>5. step' = "waiting" => Covers(current, wait)'
      BY <1>3, <3>4 DEF Covers, Task
    <3>6. step' = "transfer" => Covers(current, stamp)' \/ Covers(current, RetryDelay)'
      BY <1>3, <3>4 DEF Covers, Task
    <3> QED
      BY <1>3, <3>3, <3>5, <3>6 DEF HoldCovered
  <2> QED
    BY <1>4, <2>4, <2>5, <2>6 DEF NotifierInv
<1> QED
  BY <1>5, <1>6

(* The broker takes the copy that goes to the retry queue, or the dead     *)
(* letter; the delivery itself is still unacknowledged.                    *)
LEMMA BrokerTakesInv ==
    ASSUME NotifierInv, NEW m \in Copies, BrokerTakes(m)
    PROVE  NotifierInv'
<1>1. /\ step = "transfer" /\ msg[m].place = "free" /\ taken' = TRUE
      /\ UNCHANGED <<accepted, hold, delivered, step, current, attempt, wait, target, stamp>>
  BY DEF BrokerTakes, New, Free
<1>2. /\ current \in Copies /\ current # NoCopy /\ msg[current] \in Message
      /\ msg[current].place = "unacked"
  BY <1>1, HandlerFields
<1>3. /\ m # current /\ RetryDelay \in Nat /\ stamp \in Nat
  BY <1>1, <1>2, NotifierAssumption DEF NotifierInv, NotifierTypeOK
<1>4. taken' \in BOOLEAN
  BY <1>1
<1>5. CASE target = "retry"
  <2> DEFINE new == [msg[current] EXCEPT !.place = "retry", !.ttl = RetryDelay,
                                         !.notBefore = stamp]
  <2>1. msg' = [msg EXCEPT ![m] = new] /\ dead' = dead
    BY <1>5 DEF BrokerTakes
  <2>2. /\ new \in Message /\ new.place = "retry" /\ new.task = msg[current].task
        /\ new.notBefore = stamp /\ new.ttl = RetryDelay
        /\ new.unaware = msg[current].unaware
    BY <1>2, <1>3 DEF Message
  <2> HIDE DEF new
  <2>3. msg'[m] = new /\ \A n \in Copies \ {m} : msg'[n] = msg[n]
    BY <2>1 DEF NotifierInv, NotifierTypeOK
  <2>4. NotifierTypeOK'
    <3>1. msg' \in [Copies -> Message]
      BY <2>1, <2>2 DEF NotifierInv, NotifierTypeOK
    <3>2. \A n \in Copies : /\ msg'[n].place # "free" => Task(n)' \in Tasks
                            /\ msg'[n].place = "unacked" <=> n = current'
      BY <1>1, <1>2, <1>3, <2>2, <2>3 DEF NotifierInv, NotifierTypeOK, Task
    <3> QED
      BY <1>1, <1>4, <3>1, <3>2 DEF NotifierInv, NotifierTypeOK
  <2>5. NothingLost'
    BY <1>1, <2>1, <2>2, <2>3 DEF NotifierInv, NothingLost, Task
  <2>6. SafeToAck'
    <3>1. msg'[m].place # "free" /\ msg'[m].task = msg'[current].task /\ m # current'
      BY <1>1, <1>2, <1>3, <2>2, <2>3
    <3> QED
      BY <1>1, <3>1 DEF SafeToAck, Carried, Task
  <2>7. HoldCovered'
    <3>1. Covers(current, stamp) \/ Covers(current, RetryDelay)
      BY <1>1, <1>5 DEF NotifierInv, HoldCovered
    <3>2. Covers(m, stamp)' \/ Covers(m, RetryDelay)'
      BY <1>1, <2>2, <2>3, <3>1 DEF Covers, Task
    <3>3. Covers(current, stamp)' \/ Covers(current, RetryDelay)'
      BY <1>1, <1>2, <1>3, <2>3, <3>1 DEF Covers, Task
    <3>4. \A n \in Copies \ {m} :
            /\ msg'[n].place = "main" => Covers(n, msg[n].notBefore)'
            /\ msg'[n].place = "retry" =>
                 Covers(n, msg[n].notBefore)' \/ Covers(n, msg[n].ttl)'
      BY <1>1, <2>3 DEF NotifierInv, HoldCovered, Covers, Task
    <3>5. /\ msg'[m].place # "main"
          /\ Covers(m, msg[m].notBefore)' \/ Covers(m, msg[m].ttl)'
      BY <1>1, <2>2, <2>3, <3>2 DEF Covers, Task
    <3> QED
      BY <1>1, <3>3, <3>4, <3>5 DEF HoldCovered
  <2> QED
    BY <2>4, <2>5, <2>6, <2>7 DEF NotifierInv
<1>6. CASE target # "retry"
  <2>1. dead' = dead \cup {Task(current)} /\ msg' = msg
    BY <1>6 DEF BrokerTakes
  <2>2. SafeToAck'
    BY <1>1, <2>1 DEF SafeToAck, Task
  <2>3. /\ attempt' \in Nat /\ wait' \in Nat /\ stamp' \in Nat /\ step' \in Steps
        /\ attempt' <= Len(Delays) /\ target' \in {"retry", "dead"} /\ target' # "retry"
    BY <1>1, <1>6 DEF NotifierInv, NotifierTypeOK
  <2> QED
    BY <1>1, <1>4, <2>1, <2>2, <2>3, QuietInv
<1> QED
  BY <1>5, <1>6

(* A transfer that is confirmed lets the delivery be acknowledged, one     *)
(* that fails gives it back later.                                         *)
LEMMA PublishedInv == NotifierInv /\ (Confirmed \/ PublishFails) => NotifierInv'
<1> SUFFICES ASSUME NotifierInv, Confirmed \/ PublishFails PROVE NotifierInv'
  OBVIOUS
<1>0. Len(Delays) \in Nat
  BY NotifierAssumption
<1>1. /\ step = "transfer" /\ step' \in {"acking", "pausing"}
      /\ UNCHANGED <<accepted, msg, hold, delivered, dead, current>>
      /\ attempt' = 0 /\ wait' = 0 /\ stamp' = 0 /\ target' = "retry"
  BY DEF Confirmed, PublishFails, GoTo, outcomeVars
<1>2. taken' = FALSE
  BY DEF Confirmed, PublishFails, GoTo
<1>3. step' = "acking" => taken
  BY DEF Confirmed, PublishFails, GoTo
<1>4. SafeToAck'
  BY <1>1, <1>2, <1>3 DEF NotifierInv, SafeToAck, Carried, Task
<1>5. taken' \in BOOLEAN
  BY <1>2
<1> QED
  BY <1>0, <1>1, <1>4, <1>5, QuietInv DEF Steps

(* The handler is idle again, with everything of the delivery forgotten.   *)
LEMMA RestType ==
    ASSUME NotifierInv, Rest, UNCHANGED <<accepted, hold>>, msg' \in [Copies -> Message],
           \A m \in Copies : msg'[m].place # "unacked",
           \A m \in Copies : msg'[m].place # "free" => Task(m)' \in Tasks
    PROVE  NotifierTypeOK' /\ SafeToAck'
           /\ step' = "idle" /\ current' = NoCopy /\ target' = "retry"
<1>0. Len(Delays) \in Nat /\ NoCopy \notin Copies
  BY NotifierAssumption
<1>1. /\ step' = "idle" /\ current' = NoCopy
      /\ attempt' = 0 /\ wait' = 0 /\ stamp' = 0 /\ target' = "retry"
  BY DEF Rest, GoTo
<1>2. taken' \in BOOLEAN
  BY DEF Rest, GoTo
<1>3. SafeToAck'
  BY <1>1 DEF SafeToAck
<1>4. \A m \in Copies : msg'[m].place = "unacked" <=> m = current'
  BY <1>0, <1>1
<1>5. /\ accepted' \subseteq Tasks /\ step' \in Steps /\ hold' \in [Tasks -> Nat]
      /\ attempt' \in Nat /\ wait' \in Nat /\ stamp' \in Nat
      /\ attempt' <= Len(Delays) /\ target' \in {"retry", "dead"}
  BY <1>0, <1>1 DEF NotifierInv, NotifierTypeOK, Steps
<1> QED
  BY <1>1, <1>2, <1>3, <1>4, <1>5 DEF NotifierTypeOK

(* A message that comes back as it was delivered has its own NotBefore,    *)
(* and is unaware of what Telegram asks for beyond that.                   *)
LEMMA RequeuedFields ==
    ASSUME NotifierInv, NEW m \in Copies, msg[m].place # "free"
    PROVE  /\ Requeued(m) \in Message /\ Requeued(m).place = "main"
           /\ Requeued(m).task = msg[m].task
           /\ hold[Task(m)] <= Requeued(m).notBefore \/ Requeued(m).unaware
<1>1. /\ msg[m] \in Message /\ hold[Task(m)] \in Nat /\ msg[m].notBefore \in Nat
      /\ msg[m].unaware \in BOOLEAN
  BY Fields DEF NotifierInv
<1> DEFINE u == msg[m].unaware \/ hold[Task(m)] > msg[m].notBefore
<1>2. u \in BOOLEAN
  BY <1>1
<1>3. Requeued(m) = [msg[m] EXCEPT !.place = "main", !.unaware = u]
  BY <1>1 DEF Requeued, Message
<1>4. hold[Task(m)] <= msg[m].notBefore \/ u
  BY <1>1
<1> HIDE DEF u
<1>5. /\ Requeued(m) \in Message /\ Requeued(m).place = "main"
      /\ Requeued(m).task = msg[m].task
      /\ Requeued(m).notBefore = msg[m].notBefore /\ Requeued(m).unaware = u
  BY <1>1, <1>2, <1>3 DEF Message
<1> QED
  BY <1>4, <1>5

(* After Nack the delivery waits in notify.tasks again; so it does after a *)
(* stop, wherever the handler was.                                         *)
LEMMA BackInv == NotifierInv /\ (Nack \/ Restart) => NotifierInv'
<1> SUFFICES ASSUME NotifierInv, Nack \/ Restart PROVE NotifierInv'
  OBVIOUS
<1>1. Rest /\ UNCHANGED <<accepted, hold, delivered, dead>>
  BY DEF Nack, Restart, outcomeVars
<1>2. \A m \in Copies :
        msg'[m] = IF m = current THEN Requeued(m) ELSE msg[m]
  <2>1. CASE Nack
    BY <2>1 DEF Nack, NotifierInv, NotifierTypeOK
  <2>2. CASE Restart
    BY <2>2 DEF Restart, NotifierInv, NotifierTypeOK
  <2> QED
    BY <2>1, <2>2
<1>3. msg' \in [Copies -> Message]
  <2>1. DOMAIN msg' = Copies /\ msg' = [m \in Copies |-> msg'[m]]
    <3>1. CASE Nack
      BY <3>1 DEF Nack, NotifierInv, NotifierTypeOK
    <3>2. CASE Restart
      BY <3>2 DEF Restart
    <3> QED
      BY <3>1, <3>2
  <2>2. \A m \in Copies : msg'[m] \in Message
    BY <1>2, RequeuedFields DEF NotifierInv, NotifierTypeOK
  <2> QED
    BY <2>1, <2>2
<1>4. \A m \in Copies :
        /\ msg'[m].place # "unacked" /\ msg'[m].task = msg[m].task
        /\ msg[m].place # "free" => msg'[m].place # "free"
        /\ msg'[m].place # "free" => Task(m)' \in Tasks
  BY <1>2, RequeuedFields DEF NotifierInv, NotifierTypeOK, Task
<1>5. NothingLost'
  BY <1>1, <1>4 DEF NotifierInv, NothingLost, Task
<1>6. /\ NotifierTypeOK' /\ SafeToAck'
      /\ step' = "idle" /\ current' = NoCopy /\ target' = "retry"
  BY <1>1, <1>3, <1>4, RestType
<1>7. HoldCovered'
  <2>1. ASSUME NEW m \in Copies
        PROVE  /\ msg'[m].place = "main" => Covers(m, msg[m].notBefore)'
               /\ msg'[m].place = "retry" =>
                    Covers(m, msg[m].notBefore)' \/ Covers(m, msg[m].ttl)'
    <3>1. CASE m = current
      <4>1. msg'[m] = Requeued(m) /\ msg[m].place # "free"
        BY <1>2, <3>1 DEF NotifierInv, NotifierTypeOK
      <4>2. msg'[m].place = "main" /\ Covers(m, msg[m].notBefore)'
        BY <1>1, <4>1, RequeuedFields DEF Covers, Task
      <4> QED
        BY <4>2
    <3>2. CASE m # current
      BY <1>1, <1>2, <3>2 DEF NotifierInv, HoldCovered, Covers, Task
    <3> QED
      BY <3>1, <3>2
  <2> QED
    BY <1>6, <2>1 DEF HoldCovered
<1> QED
  BY <1>5, <1>6, <1>7 DEF NotifierInv

(* The acknowledged message is gone, and nothing needed it.                *)
LEMMA AckInv == NotifierInv /\ Ack => NotifierInv'
<1> SUFFICES ASSUME NotifierInv, Ack PROVE NotifierInv'
  OBVIOUS
<1>1. /\ step = "acking" /\ Rest /\ UNCHANGED <<accepted, hold, delivered, dead>>
      /\ msg' = [msg EXCEPT ![current] = Blank]
  BY DEF Ack, outcomeVars
<1>2. current \in Copies
  BY <1>1, HandlerFields
<1>3. Blank \in Message /\ Blank.place = "free"
  BY DEF Blank, Message
<1>4. /\ msg' \in [Copies -> Message] /\ msg'[current].place = "free"
      /\ \A m \in Copies \ {current} : msg'[m] = msg[m]
  BY <1>1, <1>2, <1>3 DEF NotifierInv, NotifierTypeOK
<1>5. \A m \in Copies : /\ msg'[m].place # "unacked"
                        /\ msg'[m].place # "free" => Task(m)' \in Tasks
  BY <1>4 DEF NotifierInv, NotifierTypeOK, Task
<1>6. NothingLost'
  <2> SUFFICES ASSUME NEW t \in accepted \ (delivered \cup dead)
               PROVE  \E m \in Copies : msg'[m].place # "free" /\ msg'[m].task = t
    BY <1>1 DEF NothingLost, Task
  <2>1. PICK m \in Copies : msg[m].place # "free" /\ msg[m].task = t
    BY DEF NotifierInv, NothingLost, Task
  <2>2. CASE m # current
    BY <1>4, <2>1, <2>2
  <2>3. CASE m = current
    <3>1. Carried(t)
      BY <1>1, <2>1, <2>3 DEF NotifierInv, SafeToAck, Task
    <3> QED
      BY <1>4, <3>1 DEF Carried, Task
  <2> QED
    BY <2>2, <2>3
<1>7. /\ NotifierTypeOK' /\ SafeToAck'
      /\ step' = "idle" /\ current' = NoCopy /\ target' = "retry"
  BY <1>1, <1>4, <1>5, RestType
<1>8. HoldCovered'
  BY <1>1, <1>4, <1>7 DEF NotifierInv, HoldCovered, Covers, Task
<1> QED
  BY <1>6, <1>7, <1>8 DEF NotifierInv

(* A second less of every wait, and of what Telegram still asks for. *)
LEMMA AgedFields ==
    ASSUME NotifierInv, NEW m \in Copies
    PROVE  /\ Aged(m) \in Message /\ Aged(m).place = msg[m].place /\ Aged(m).task = msg[m].task
           /\ Aged(m).notBefore = Less(msg[m].notBefore) /\ Aged(m).ttl = Less(msg[m].ttl)
           /\ msg[m].unaware /\ hold[Task(m)] > 1 => Aged(m).unaware
<1>1. msg[m] \in Message /\ msg[m].notBefore \in Nat /\ msg[m].ttl \in Nat
  BY Fields DEF NotifierInv
<1>2. \A n \in Nat : Less(n) \in Nat
  BY DEF Less
<1> DEFINE u == msg[m].unaware /\ hold[Task(m)] > 1
<1>3. u \in BOOLEAN
  BY <1>1 DEF Message
<1>4. Aged(m) = [msg[m] EXCEPT !.notBefore = Less(msg[m].notBefore),
                               !.ttl = Less(msg[m].ttl), !.unaware = u]
  BY <1>1 DEF Aged, Message
<1>5. u <=> msg[m].unaware /\ hold[Task(m)] > 1
  OBVIOUS
<1> HIDE DEF u
<1>6. /\ Aged(m) \in Message /\ Aged(m).place = msg[m].place /\ Aged(m).task = msg[m].task
      /\ Aged(m).notBefore = Less(msg[m].notBefore) /\ Aged(m).ttl = Less(msg[m].ttl)
      /\ Aged(m).unaware = u
  BY <1>1, <1>2, <1>3, <1>4 DEF Message
<1> QED
  BY <1>5, <1>6

(* Waits and what Telegram still asks for end together.                    *)
LEMMA TickInv == NotifierInv /\ Tick => NotifierInv'
<1> SUFFICES ASSUME NotifierInv, Tick PROVE NotifierInv'
  OBVIOUS
<1>1. /\ msg' = [m \in Copies |-> Aged(m)] /\ hold' = [t \in Tasks |-> Less(hold[t])]
      /\ wait' = Less(wait) /\ stamp' = Less(stamp)
      /\ UNCHANGED <<accepted, delivered, dead, step, current, attempt, target, taken>>
  BY DEF Tick, outcomeVars
<1>2. /\ wait \in Nat /\ stamp \in Nat /\ RetryDelay \in Nat
      /\ \A n \in Nat : Less(n) \in Nat
  BY NotifierAssumption DEF NotifierInv, NotifierTypeOK, Less
<1>3. \A m \in Copies :
        /\ msg'[m] \in Message /\ msg'[m].place = msg[m].place /\ msg'[m].task = msg[m].task
        /\ msg'[m].notBefore = Less(msg[m].notBefore) /\ msg'[m].ttl = Less(msg[m].ttl)
        /\ msg[m].unaware /\ hold[Task(m)] > 1 => msg'[m].unaware
  BY <1>1, AgedFields
<1>4. NotifierTypeOK'
  <2>1. msg' \in [Copies -> Message]
    BY <1>1, <1>3
  <2>2. hold' \in [Tasks -> Nat]
    BY <1>1, <1>2 DEF NotifierInv, NotifierTypeOK
  <2>3. \A m \in Copies : msg'[m].place # "free" => Task(m)' \in Tasks
    BY <1>3 DEF NotifierInv, NotifierTypeOK, Task
  <2> QED
    BY <1>1, <1>2, <1>3, <2>1, <2>2, <2>3 DEF NotifierInv, NotifierTypeOK
<1>5. NothingLost'
  BY <1>1, <1>3 DEF NotifierInv, NothingLost, Task
<1>6. SafeToAck'
  <2>1. step # "idle" => current \in Copies
    BY HandlerFields
  <2> QED
    BY <1>1, <1>3, <2>1 DEF NotifierInv, SafeToAck, Carried, Task
<1>7. ASSUME NEW m \in Copies, msg[m].place # "free", NEW n \in Nat, Covers(m, n)
      PROVE  /\ hold'[msg'[m].task] <= Less(n) \/ msg'[m].unaware
             /\ hold'[msg'[m].task] <= n \/ msg'[m].unaware
  <2>1. /\ Task(m) \in Tasks /\ hold[Task(m)] \in Nat
        /\ hold'[msg'[m].task] = Less(hold[Task(m)])
    BY <1>1, <1>3, <1>7, Fields DEF NotifierInv, Task
  <2>2. CASE hold[Task(m)] <= n
    BY <2>1, <2>2 DEF Less
  <2>3. CASE msg[m].unaware /\ hold[Task(m)] > 1
    BY <1>3, <2>3
  <2>4. CASE hold[Task(m)] <= 1
    BY <2>1, <2>4 DEF Less
  <2> QED
    BY <1>7, <2>1, <2>2, <2>3, <2>4 DEF Covers
<1>8. HoldCovered'
  <2>1. ASSUME NEW m \in Copies
        PROVE  /\ msg'[m].place = "main" => Covers(m, msg[m].notBefore)'
               /\ msg'[m].place = "retry" =>
                    Covers(m, msg[m].notBefore)' \/ Covers(m, msg[m].ttl)'
    <3>1. msg[m].notBefore \in Nat /\ msg[m].ttl \in Nat
      BY Fields DEF NotifierInv
    <3>2. msg[m].place # "free" =>
            /\ Covers(m, msg[m].notBefore) => Covers(m, msg[m].notBefore)'
            /\ Covers(m, msg[m].ttl) => Covers(m, msg[m].ttl)'
      BY <1>3, <1>7, <3>1 DEF Covers, Task
    <3> QED
      BY <1>3, <3>2 DEF NotifierInv, HoldCovered
  <2>2. step # "idle" => current \in Copies /\ msg[current].place # "free"
    BY HandlerFields
  <2>3. step = "waiting" => Covers(current, wait)'
    BY <1>1, <1>2, <1>7, <2>2 DEF NotifierInv, HoldCovered, Covers, Task
  <2>4. step = "requesting" => Covers(current, 0)'
    BY <1>1, <1>7, <2>2 DEF NotifierInv, HoldCovered, Covers, Task
  <2>5. step = "transfer" /\ target = "retry" =>
          Covers(current, stamp)' \/ Covers(current, RetryDelay)'
    BY <1>1, <1>2, <1>7, <2>2 DEF NotifierInv, HoldCovered, Covers, Task
  <2> QED
    BY <1>1, <2>1, <2>3, <2>4, <2>5 DEF HoldCovered
<1> QED
  BY <1>4, <1>5, <1>6, <1>8 DEF NotifierInv

-----------------------------------------------------------------------------

(* NotifierInv is inductive.                                               *)
LEMMA NotifierStep == NotifierInv /\ [Next]_vars => NotifierInv'
<1> SUFFICES ASSUME NotifierInv, [Next]_vars PROVE NotifierInv'
  OBVIOUS
<1>1. CASE \E t \in Tasks, m \in Copies : Accept(t, m)
  BY <1>1, AcceptInv
<1>2. CASE \E m \in Copies : Expire(m) \/ Handle(m) \/ BrokerTakes(m)
  BY <1>2, ExpireInv, HandleInv, BrokerTakesInv
<1>3. CASE Request \/ Sent \/ Refused \/ AnswerLost
  BY <1>3, RequestInv, SettledInv, AnswerLostInv
<1>4. CASE \E after \in Afters : Failed(after)
  BY <1>4, FailedInv
<1>5. CASE Confirmed \/ PublishFails \/ Nack \/ Ack \/ Restart \/ Tick
  BY <1>5, PublishedInv, BackInv, AckInv, TickInv
<1>6. CASE UNCHANGED vars
  BY <1>6 DEF vars, outcomeVars, handlerVars, NotifierInv, NotifierTypeOK, NothingLost,
     SafeToAck, Carried, HoldCovered, Covers, Task
<1> QED
  BY <1>1, <1>2, <1>3, <1>4, <1>5, <1>6 DEF Next

(* The inductive invariant holds whatever the notifications, the delays    *)
(* and the demands of Telegram are.                                        *)
THEOREM NotifierInvariant == Spec => []NotifierInv
BY InitInv, NotifierStep, PTL DEF Spec

(* No accepted notification is lost between its queues.                    *)
THEOREM NotificationsSurvive == Spec => []NothingLost
<1>1. NotifierInv => NothingLost
  BY DEF NotifierInv
<1> QED
  BY <1>1, NotifierInvariant, PTL

(* No message of a notification is sent while Telegram asks to keep it     *)
(* back, unless that message is unaware of it: a duplicate of the one      *)
(* Telegram answered, or brought back by a stop or a failed transfer.      *)
THEOREM DemandsAreKept == Spec => []RetryAfterRespected
<1>1. NotifierInv => RetryAfterRespected
  <2> SUFFICES ASSUME NotifierInv, step = "requesting"
               PROVE  hold[Task(current)] = 0 \/ msg[current].unaware
    BY DEF RetryAfterRespected
  <2>1. hold[Task(current)] \in Nat /\ Covers(current, 0)
    BY HandlerFields DEF NotifierInv, HoldCovered
  <2> QED
    BY <2>1 DEF Covers, Task
<1> QED
  BY <1>1, NotifierInvariant, PTL
=============================================================================
