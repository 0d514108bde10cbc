----------------------------- MODULE Dispatcher -----------------------------
(***************************************************************************)
(* How the bot's updates reach its handlers: the goroutine that polls      *)
(* Telegram, the channel of updates, the dispatcher that hands each to the *)
(* bounded queue of its chat's worker, the workers, and how all of them    *)
(* stop.  BotDialog has what the handlers do; here one takes some time and *)
(* ends.                                                                   *)
(*                                                                         *)
(* Telegram keeps an update until a poll with a higher offset confirms it. *)
(* The bot stores neither offset nor queues: what it had confirmed and not *)
(* handled when it ends is lost, what it had handled and not confirmed     *)
(* comes again.                                                            *)
(***************************************************************************)
EXTENDS Integers, Sequences

CONSTANTS
    Chats,
    NoChat,       \* of an update that updateChatID finds none in
    NumWorkers,   \* dispatcherWorkers
    Route,        \* the hash of a chat
    BufferSize,   \* capacity of updates
    QueueSize,    \* capacity of a worker's queue
    MaxUpdates,   \* bound on the updates, for TLC
    Streams,      \* the chats that may send them, one after another
    MaxRestarts   \* bound on the restarts, for TLC

Workers == 1 .. NumWorkers
Updates == 1 .. MaxUpdates

ASSUME DispatcherAssumption ==
    /\ NoChat \notin Chats
    /\ NumWorkers \in Nat \ {0}
    /\ Route \in [Chats -> Workers]
    /\ BufferSize \in Nat \ {0} /\ QueueSize \in Nat \ {0}
    /\ MaxUpdates \in Nat /\ MaxRestarts \in Nat
    /\ Streams \subseteq [Updates -> Chats \cup {NoChat}]

Idle == 0     \* of a worker or dispatcher without an update
Gone == -1    \* and of one that has returned

VARIABLES
    chat,        \* of each update
    sent,        \* the last update users have sent
    confirmed,   \* the last one Telegram has been told is received
    base,        \* the last one confirmed when this process started, not stored
    fetched,     \* the last one of the batch GetUpdates has returned
    offset,      \* u.Offset - 1: the last one put into updates
    polling,     \* does the polling goroutine run?
    updates,     \* the channel
    hand,        \* the update the dispatcher holds
    queue,       \* the queue of each worker
    work,        \* the update each worker handles
    handled,     \* updates handled by this process
    stopping,    \* has the context ended?
    restarts     \* how often a process has replaced another, not stored

pollVars == <<sent, confirmed, fetched, offset, polling>>
workerVars == <<work, handled>>
lifeVars == <<base, stopping, restarts>>
vars == <<chat, pollVars, updates, hand, queue, workerVars, lifeVars>>

Init ==
    /\ chat \in Streams
    /\ sent = 0 /\ confirmed = 0 /\ base = 0 /\ fetched = 0 /\ offset = 0
    /\ polling = TRUE
    /\ updates = <<>>
    /\ hand = Idle
    /\ queue = [w \in Workers |-> <<>>]
    /\ work = [w \in Workers |-> Idle]
    /\ handled = {}
    /\ stopping = FALSE /\ restarts = 0

SendUpdate ==
    /\ sent < MaxUpdates
    /\ sent' = sent + 1
    /\ UNCHANGED <<chat, confirmed, fetched, offset, polling, updates, hand, queue, workerVars,
                   lifeVars>>

-----------------------------------------------------------------------------
(* The polling goroutine. *)

(* The request confirms what came before its offset, its answer may be     *)
(* lost or empty.  A new process asks from 0, that is from what is left.   *)
GetUpdates(last) ==
    /\ polling /\ ~stopping
    /\ offset = fetched
    /\ last \in offset .. sent
    /\ confirmed' = offset
    /\ fetched' = last
    /\ UNCHANGED <<chat, sent, offset, polling, updates, hand, queue, workerVars, lifeVars>>

(* select takes either way when the context has ended and there is room. *)
PushUpdate ==
    /\ polling
    /\ offset < fetched
    /\ Len(updates) < BufferSize
    /\ offset' = offset + 1
    /\ updates' = Append(updates, offset + 1)
    /\ UNCHANGED <<chat, sent, confirmed, fetched, polling, hand, queue, workerVars, lifeVars>>

StopPolling ==
    /\ polling /\ stopping
    /\ polling' = FALSE
    /\ UNCHANGED <<chat, sent, confirmed, fetched, offset, updates, hand, queue, workerVars,
                   lifeVars>>

-----------------------------------------------------------------------------
(* The dispatcher. *)

TakeUpdate ==
    /\ hand = Idle /\ updates # <<>>
    /\ hand' = IF chat[Head(updates)] = NoChat THEN Idle ELSE Head(updates)
    /\ updates' = Tail(updates)
    /\ UNCHANGED <<chat, pollVars, queue, workerVars, lifeVars>>

(* Fault: updates go to the workers in turn. *)
RoundRobin(u) == 1 + (u % NumWorkers)

QueueOf(u) == Route[chat[u]]

(* Fault: the dispatcher does not wait for a full queue. *)
DropWhenFull ==
    /\ hand > 0
    /\ queue' = [queue EXCEPT ![QueueOf(hand)] =
                   IF Len(@) < QueueSize THEN Append(@, hand) ELSE @]
    /\ hand' = Idle
    /\ UNCHANGED <<chat, pollVars, updates, workerVars, lifeVars>>

(* With the queue full, it waits, and all chats with it. *)
Enqueue ==
    /\ hand > 0
    /\ Len(queue[QueueOf(hand)]) < QueueSize
    /\ queue' = [queue EXCEPT ![QueueOf(hand)] = Append(@, hand)]
    /\ hand' = Idle
    /\ UNCHANGED <<chat, pollVars, updates, workerVars, lifeVars>>

(* Fault: a full queue is waited for whatever becomes of the context. *)
StopBetweenUpdates ==
    /\ stopping /\ hand = Idle
    /\ hand' = Gone
    /\ UNCHANGED <<chat, pollVars, updates, queue, workerVars, lifeVars>>

(* The context has ended: it returns, also while it waits for a queue, and *)
(* closes all queues.                                                      *)
StopDispatching ==
    /\ stopping /\ hand # Gone
    /\ hand' = Gone
    /\ UNCHANGED <<chat, pollVars, updates, queue, workerVars, lifeVars>>

-----------------------------------------------------------------------------
(* The workers. *)

BeginHandling(w) ==
    /\ ~stopping /\ work[w] = Idle /\ queue[w] # <<>>
    /\ work' = [work EXCEPT ![w] = Head(queue[w])]
    /\ queue' = [queue EXCEPT ![w] = Tail(@)]
    /\ UNCHANGED <<chat, pollVars, updates, hand, handled, lifeVars>>

EndHandling(w) ==
    /\ work[w] > 0
    /\ handled' = handled \cup {work[w]}
    /\ work' = [work EXCEPT ![w] = IF stopping THEN Gone ELSE Idle]
    /\ UNCHANGED <<chat, pollVars, updates, hand, queue, lifeVars>>

(* A worker that waits for an update learns of the end from the next one,  *)
(* which it drops, or from the closing of its queue.                       *)
StopWorking(w) ==
    /\ stopping /\ work[w] = Idle
    /\ queue[w] # <<>> \/ hand = Gone
    /\ queue' = [queue EXCEPT ![w] = IF @ = <<>> THEN @ ELSE Tail(@)]
    /\ work' = [work EXCEPT ![w] = Gone]
    /\ UNCHANGED <<chat, pollVars, updates, hand, handled, lifeVars>>

Stop ==
    /\ ~stopping
    /\ stopping' = TRUE
    /\ UNCHANGED <<chat, pollVars, updates, hand, queue, workerVars, base, restarts>>

(* The process has stopped, or dies, and a new one starts. *)
Restart ==
    /\ restarts < MaxRestarts
    /\ restarts' = restarts + 1
    /\ base' = confirmed /\ fetched' = confirmed /\ offset' = confirmed
    /\ polling' = TRUE /\ updates' = <<>> /\ hand' = Idle
    /\ queue' = [w \in Workers |-> <<>>]
    /\ work' = [w \in Workers |-> Idle]
    /\ handled' = {} /\ stopping' = FALSE
    /\ UNCHANGED <<chat, sent, confirmed>>

Next ==
    \/ SendUpdate
    \/ \E last \in 0 .. MaxUpdates : GetUpdates(last)
    \/ PushUpdate \/ StopPolling
    \/ TakeUpdate \/ Enqueue \/ StopDispatching
    \/ \E w \in Workers : BeginHandling(w) \/ EndHandling(w) \/ StopWorking(w)
    \/ Stop \/ Restart

Spec == Init /\ [][Next]_vars

Fetch == \E last \in Updates : last > offset /\ GetUpdates(last)

(* Every goroutine runs, every handler ends since all its calls have       *)
(* timeouts, and polls succeed again and again.  Nobody has to stop.       *)
Fairness ==
    /\ WF_vars(Fetch) /\ WF_vars(PushUpdate) /\ WF_vars(StopPolling)
    /\ WF_vars(TakeUpdate) /\ WF_vars(Enqueue) /\ WF_vars(StopDispatching)
    /\ \A w \in Workers :
         WF_vars(BeginHandling(w)) /\ WF_vars(EndHandling(w)) /\ WF_vars(StopWorking(w))

FairSpec == Spec /\ Fairness

-----------------------------------------------------------------------------

TypeOK ==
    /\ chat \in [Updates -> Chats \cup {NoChat}]
    /\ base \in 0 .. confirmed /\ confirmed \in 0 .. offset
    /\ offset \in 0 .. fetched /\ fetched \in 0 .. sent /\ sent \in 0 .. MaxUpdates
    /\ polling \in BOOLEAN /\ stopping \in BOOLEAN
    /\ updates \in Seq(Updates) /\ Len(updates) <= BufferSize
    /\ hand \in Updates \cup {Idle, Gone}
    /\ queue \in [Workers -> Seq(Updates)]
    /\ \A w \in Workers : Len(queue[w]) <= QueueSize
    /\ work \in [Workers -> Updates \cup {Idle, Gone}]
    /\ handled \subseteq Updates
    /\ restarts \in 0 .. MaxRestarts

(* The updates of a chat are handled one after another in the order they   *)
(* were sent, none of them skipped or repeated as long as the process      *)
(* lives: when one begins, all before it that this process has received    *)
(* have ended, however slow their handlers were.                           *)
HandledInTurn ==
    [][\A w \in Workers, u \in Updates :
         work'[w] = u /\ work[w] # u =>
           /\ u > base /\ u \notin handled
           /\ \A v \in base + 1 .. u - 1 : chat[v] = chat[u] => v \in handled]_vars

(* Every update is handled, behind slow handlers and full queues, unless   *)
(* the bot is stopped, or dies after it has confirmed it.                  *)
EveryUpdateHandled ==
    \A u \in Updates :
        u \in base + 1 .. sent /\ chat[u] # NoChat ~> u \in handled \/ stopping \/ u <= base

(* Once the context has ended, Run returns: nobody is left who waits for   *)
(* room in a queue, for an update or for somebody else who does.           *)
AllReturn ==
    stopping ~> \/ ~polling /\ hand = Gone /\ \A w \in Workers : work[w] = Gone
                \/ ~stopping

=============================================================================
