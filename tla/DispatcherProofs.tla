--------------------------- MODULE DispatcherProofs ---------------------------
(***************************************************************************)
(* Theorems about Dispatcher, for any chats, workers, routes, capacities   *)
(* and streams of updates: a chat's updates are handled one after another  *)
(* in the order they were sent, and none is lost on the way to its handler *)
(* unless the process ends.                                                *)
(*                                                                         *)
(* An update moves from the polling goroutine's channel to the dispatcher, *)
(* to its worker's queue, to its worker, and everything behind it is newer *)
(* (InOrder).  As long as nobody stops, everything that the dispatcher has *)
(* received is still somewhere on that way (Accounted), so when a worker   *)
(* takes an update, the older ones of its chat can only be at the end.     *)
(***************************************************************************)
EXTENDS Dispatcher, TLAPS

(* The last update the dispatcher has received. *)
Received == offset - Len(updates)

(* The last one it no longer has to do with. *)
Passed == IF hand > 0 THEN hand - 1 ELSE Received

(* The channel has the updates it was given last, one after another. *)
ChannelInOrder ==
    /\ Received \in base .. offset
    /\ \A i \in 1 .. Len(updates) : updates[i] = Received + i
    /\ hand > 0 => hand = Received /\ hand > base /\ chat[hand] # NoChat

(* An update that worker w has in its queue, in work or behind it. *)
Passing(w, u) == u \in base + 1 .. Passed /\ chat[u] # NoChat /\ QueueOf(u) = w

(* A queue has updates of its worker, oldest first. *)
QueuesInOrder ==
    \A w \in Workers : \A i \in 1 .. Len(queue[w]) :
        /\ Passing(w, queue[w][i])
        /\ \A j \in 1 .. Len(queue[w]) : i < j => queue[w][i] < queue[w][j]

(* What a worker handles or has handled is older than all it has to do. *)
WorkInOrder ==
    /\ \A w \in Workers : work[w] > 0 =>
         /\ Passing(w, work[w])
         /\ \A i \in 1 .. Len(queue[w]) : work[w] < queue[w][i]
    /\ \A u \in handled : \E w \in Workers :
         /\ Passing(w, u)
         /\ work[w] > 0 => u < work[w]
         /\ \A i \in 1 .. Len(queue[w]) : u < queue[w][i]

InOrder == ChannelInOrder /\ QueuesInOrder /\ WorkInOrder

(* Where an update of a chat is once the dispatcher has received it. *)
OnItsWay(u) ==
    \/ u = hand
    \/ \E w \in Workers :
         /\ QueueOf(u) = w
         /\ u = work[w] \/ \E i \in 1 .. Len(queue[w]) : u = queue[w][i]

Accounted ==
    ~stopping =>
        \A u \in base + 1 .. Received : chat[u] # NoChat => OnItsWay(u) \/ u \in handled

DispatcherInv == TypeOK /\ InOrder /\ Accounted

-----------------------------------------------------------------------------
(* Sequences                                                               *)

(* What Append and Tail do to each element. *)
LEMMA AppendFacts ==
    ASSUME NEW S, NEW s \in Seq(S), NEW e \in S
    PROVE  /\ Append(s, e) \in Seq(S) /\ Len(Append(s, e)) = Len(s) + 1
           /\ \A i \in 1 .. Len(s) : Append(s, e)[i] = s[i]
           /\ Append(s, e)[Len(s) + 1] = e
OBVIOUS

(* Without its head, every element moves up by one. *)
LEMMA TailFacts ==
    ASSUME NEW S, NEW s \in Seq(S), s # <<>>
    PROVE  /\ Tail(s) \in Seq(S) /\ Len(s) \in Nat \ {0} /\ Len(Tail(s)) = Len(s) - 1
           /\ \A i \in 1 .. Len(Tail(s)) : Tail(s)[i] = s[i + 1]
           /\ Head(s) = s[1] /\ Head(s) \in S
OBVIOUS

-----------------------------------------------------------------------------
(* The invariant                                                           *)

(* Nothing is on its way at first. *)
LEMMA InitInv == Init => DispatcherInv
<1> SUFFICES ASSUME Init PROVE DispatcherInv
  OBVIOUS
<1> USE DispatcherAssumption DEF Init, Idle
<1>0. Len(updates) = 0 /\ \A w \in Workers : Len(queue[w]) = 0
  OBVIOUS
<1>1. <<>> \in Seq(Updates) /\ Updates \subseteq Nat
  BY DEF Updates
<1>2. TypeOK
  <2>1. /\ chat \in [Updates -> Chats \cup {NoChat}]
        /\ 0 \in 0 .. 0 /\ 0 \in 0 .. MaxUpdates /\ 0 \in 0 .. MaxRestarts
    OBVIOUS
  <2>2. Len(updates) <= BufferSize /\ \A w \in Workers : Len(queue[w]) <= QueueSize
    BY <1>0
  <2>3. updates \in Seq(Updates) /\ queue \in [Workers -> Seq(Updates)]
    BY <1>1
  <2>4. /\ hand \in Updates \cup {Idle, Gone} /\ handled \subseteq Updates
        /\ work \in [Workers -> Updates \cup {Idle, Gone}]
    OBVIOUS
  <2> HIDE DEF Idle
  <2> QED
    BY <2>1, <2>2, <2>3, <2>4 DEF TypeOK
<1>3. Received = 0
  <2>1. offset - Len(updates) = 0 - 0
    BY <1>0
  <2> QED
    BY <2>1 DEF Received
<1>4. ChannelInOrder
  BY <1>0, <1>3 DEF ChannelInOrder
<1>5. QueuesInOrder /\ WorkInOrder
  BY <1>0 DEF QueuesInOrder, WorkInOrder
<1>6. Accounted
  BY <1>3 DEF Accounted
<1> QED
  BY <1>2, <1>4, <1>5, <1>6 DEF DispatcherInv, InOrder

(* The numbers the definitions are about. *)
LEMMA Numbers ==
    ASSUME TypeOK
    PROVE  /\ base \in Nat /\ offset \in Nat /\ Len(updates) \in Nat
           /\ Received \in Int /\ Passed \in Int /\ hand \in Int
           /\ \A w \in Workers :
                work[w] \in Int /\ Len(queue[w]) \in Nat /\ queue[w] \in Seq(Updates)
           /\ \A w \in Workers : \A i \in 1 .. Len(queue[w]) : queue[w][i] \in Int
           /\ handled \subseteq Int /\ Updates \subseteq Int
BY DispatcherAssumption DEF TypeOK, Received, Passed, Updates, Idle, Gone

(* What has passed the dispatcher stays passed. *)
LEMMA PassingStays ==
    ASSUME TypeOK, TypeOK', UNCHANGED <<chat, base>>, Passed' >= Passed,
           NEW w, NEW u, Passing(w, u)
    PROVE  Passing(w, u)'
<1>1. Passed \in Int /\ Passed' \in Int /\ base \in Int
  BY Numbers DEF TypeOK, Passed, Received, Updates
<1> QED
  BY <1>1 DEF Passing, QueueOf

(* Users, Telegram, the end of the context: nothing moves. *)
LEMMA StillInv ==
    ASSUME DispatcherInv, TypeOK',
           UNCHANGED <<chat, base, offset, updates, hand, queue, work, handled>>,
           stopping' = stopping \/ stopping'
    PROVE  DispatcherInv'
<1>1. InOrder'
  BY DEF DispatcherInv, InOrder, ChannelInOrder, QueuesInOrder, WorkInOrder, Received, Passed,
         Passing, QueueOf
<1>2. Accounted'
  BY DEF DispatcherInv, Accounted, OnItsWay, Received, QueueOf
<1> QED
  BY <1>1, <1>2 DEF DispatcherInv

(* What the workers have does not change. *)
LEMMA WorkersKept ==
    ASSUME DispatcherInv, TypeOK', UNCHANGED <<chat, base, queue, work, handled>>,
           Passed' >= Passed
    PROVE  QueuesInOrder' /\ WorkInOrder'
<1>1. \A w, u : Passing(w, u) => Passing(w, u)'
  BY PassingStays DEF DispatcherInv
<1>2. QueuesInOrder /\ WorkInOrder
  BY DEF DispatcherInv, InOrder
<1> QED
  BY <1>1, <1>2 DEF QueuesInOrder, WorkInOrder

(* The channel is extended by the next number. *)
LEMMA PushInv ==
    ASSUME DispatcherInv, PushUpdate
    PROVE  DispatcherInv'
<1> USE DispatcherAssumption DEF PushUpdate, workerVars, lifeVars
<1>1. offset + 1 \in Updates /\ updates \in Seq(Updates) /\ Len(updates) \in Nat
  BY DEF DispatcherInv, TypeOK, Updates
<1>2. /\ updates' \in Seq(Updates) /\ Len(updates') = Len(updates) + 1
      /\ \A i \in 1 .. Len(updates) : updates'[i] = updates[i]
      /\ updates'[Len(updates) + 1] = offset + 1
  BY <1>1, AppendFacts
<1>3. TypeOK'
  BY <1>1, <1>2 DEF DispatcherInv, TypeOK
<1>4. Received' = Received /\ Passed' = Passed
  BY <1>1, <1>2 DEF Received, Passed, DispatcherInv, TypeOK
<1>5. ChannelInOrder'
  <2>1. ChannelInOrder /\ TypeOK
    BY DEF DispatcherInv, InOrder
  <2>2. Received' \in base' .. offset'
    BY <1>4, <2>1 DEF ChannelInOrder, TypeOK
  <2>3. ASSUME NEW i \in 1 .. Len(updates') PROVE updates'[i] = Received' + i
    <3>1. CASE i \in 1 .. Len(updates)
      BY <1>2, <1>4, <2>1, <3>1 DEF ChannelInOrder
    <3>2. CASE i = Len(updates) + 1
      BY <1>1, <1>2, <1>4, <2>1, <3>2 DEF Received, TypeOK
    <3> QED
      BY <1>1, <1>2, <3>1, <3>2
  <2> QED
    BY <1>4, <2>1, <2>2, <2>3 DEF ChannelInOrder
<1>6. QueuesInOrder' /\ WorkInOrder'
  BY <1>3, <1>4, Numbers, WorkersKept DEF DispatcherInv
<1>7. Accounted'
  BY <1>4 DEF DispatcherInv, Accounted, OnItsWay, QueueOf
<1> QED
  BY <1>3, <1>5, <1>6, <1>7 DEF DispatcherInv, InOrder

(* The dispatcher takes the oldest update of the channel, or drops it.     *)
LEMMA TakeInv ==
    ASSUME DispatcherInv, TakeUpdate
    PROVE  DispatcherInv'
<1> USE DispatcherAssumption DEF TakeUpdate, workerVars, lifeVars, pollVars
<1> DEFINE u == Head(updates)
<1>1. /\ updates \in Seq(Updates) /\ Len(updates') = Len(updates) - 1 /\ u = updates[1]
      /\ u \in Updates /\ updates' \in Seq(Updates) /\ Len(updates) \in Nat \ {0}
      /\ \A i \in 1 .. Len(updates') : updates'[i] = updates[i + 1]
  BY TailFacts DEF DispatcherInv, TypeOK
<1>2. hand' = IF chat[u] = NoChat THEN Idle ELSE u
  OBVIOUS
<1> HIDE DEF u
<1>3. TypeOK'
  BY <1>1, <1>2 DEF DispatcherInv, TypeOK
<1>4. ChannelInOrder /\ Received \in Int /\ base \in Nat /\ offset \in Nat
  BY Numbers DEF DispatcherInv, InOrder
<1>5. Received' = Received + 1 /\ u = Received + 1
  BY <1>1, <1>4 DEF Received, ChannelInOrder
<1>6. Passed' >= Passed
  BY <1>2, <1>4, <1>5 DEF Passed, Idle
<1>7. ChannelInOrder'
  <2>1. Received' \in base' .. offset'
    BY <1>1, <1>4, <1>5 DEF ChannelInOrder, Received
  <2>2. ASSUME NEW i \in 1 .. Len(updates') PROVE updates'[i] = Received' + i
    <3>1. i + 1 \in 1 .. Len(updates) /\ i \in Int
      BY <1>1
    <3>2. updates[i + 1] = Received + (i + 1)
      BY <1>4, <3>1 DEF ChannelInOrder
    <3> QED
      BY <1>1, <1>4, <1>5, <3>1, <3>2
  <2>3. hand' > 0 => hand' = Received' /\ hand' > base' /\ chat'[hand'] # NoChat
    BY <1>2, <1>4, <1>5 DEF ChannelInOrder, Idle
  <2> QED
    BY <2>1, <2>2, <2>3 DEF ChannelInOrder
<1>8. QueuesInOrder' /\ WorkInOrder'
  BY <1>3, <1>6, WorkersKept
<1>9. Accounted'
  <2> SUFFICES ASSUME ~stopping, NEW v \in base + 1 .. Received', chat[v] # NoChat
               PROVE  OnItsWay(v)' \/ v \in handled
    BY DEF Accounted
  <2>1. CASE v = u
    BY <1>2, <2>1 DEF OnItsWay
  <2>2. CASE v # u
    <3>1. v \in base + 1 .. Received
      BY <1>4, <1>5, <2>2
    <3>2. OnItsWay(v) \/ v \in handled
      BY <3>1 DEF DispatcherInv, Accounted
    <3>3. v # hand
      BY <1>4, <3>1 DEF Idle
    <3> QED
      BY <3>2, <3>3 DEF OnItsWay, QueueOf
  <2> QED
    BY <2>1, <2>2
<1> QED
  BY <1>3, <1>7, <1>8, <1>9 DEF DispatcherInv, InOrder

(* The dispatcher's update is the newest in the queue it goes to.          *)
LEMMA EnqueueInv ==
    ASSUME DispatcherInv, Enqueue
    PROVE  DispatcherInv'
<1> USE DispatcherAssumption DEF Enqueue, workerVars, lifeVars, pollVars
<1> DEFINE r == QueueOf(hand)
<1>0. TypeOK /\ ChannelInOrder /\ QueuesInOrder /\ WorkInOrder
  BY DEF DispatcherInv, InOrder
<1>1. /\ hand = Received /\ hand > base /\ chat[hand] # NoChat /\ hand \in Updates
      /\ base \in Nat /\ Received \in Int
  BY <1>0, Numbers DEF ChannelInOrder, TypeOK, Idle, Gone
<1>2. r \in Workers
  BY <1>0, <1>1 DEF QueueOf, TypeOK
<1>3. /\ queue[r] \in Seq(Updates) /\ Len(queue[r]) \in Nat
      /\ queue'[r] = Append(queue[r], hand)
      /\ \A w \in Workers \ {r} : queue'[w] = queue[w]
      /\ queue' = [queue EXCEPT ![r] = Append(queue[r], hand)]
      /\ Len(queue[r]) < QueueSize /\ hand' = Idle
  BY <1>0, <1>2 DEF TypeOK
<1>4. r = QueueOf(hand)
  OBVIOUS
<1> HIDE DEF r, Enqueue
<1>5. /\ Len(queue'[r]) = Len(queue[r]) + 1 /\ queue'[r] \in Seq(Updates)
      /\ \A i \in 1 .. Len(queue[r]) : queue'[r][i] = queue[r][i]
      /\ queue'[r][Len(queue[r]) + 1] = hand
  BY <1>1, <1>3, AppendFacts
<1>6. /\ UNCHANGED <<chat, base, offset, updates, work, handled, stopping>>
      /\ UNCHANGED <<sent, confirmed, fetched, polling, restarts>>
  BY DEF Enqueue
<1>7. TypeOK'
  BY <1>0, <1>2, <1>3, <1>5, <1>6 DEF TypeOK
<1>8. Received' = Received /\ Passed' = hand /\ Passed = hand - 1
  BY <1>1, <1>3, <1>6 DEF Received, Passed, Idle, Updates
<1>9. ChannelInOrder'
  BY <1>0, <1>3, <1>6, <1>8 DEF ChannelInOrder, Idle
<1>10. \A w, u : Passing(w, u) => Passing(w, u)'
  BY <1>0, <1>1, <1>6, <1>7, <1>8, PassingStays DEF Updates
<1>11. \A w, u : Passing(w, u) => u < hand
  BY <1>1, <1>8 DEF Passing, Updates
<1>12. \A w, u : w = r /\ u = hand => Passing(w, u)'
  BY <1>1, <1>4, <1>6, <1>8 DEF Passing, QueueOf, Updates
<1>13. QueuesInOrder'
  <2> SUFFICES ASSUME NEW w \in Workers, NEW i \in 1 .. Len(queue'[w])
               PROVE  /\ \A u : u = queue'[w][i] => Passing(w, u)'
                      /\ \A j \in 1 .. Len(queue'[w]) : i < j => queue'[w][i] < queue'[w][j]
    BY DEF QueuesInOrder, Passing, QueueOf
  <2>1. CASE w # r
    <3>1. queue'[w] = queue[w]
      BY <1>3, <2>1
    <3> QED
      BY <1>0, <1>10, <3>1 DEF QueuesInOrder
  <2>2. CASE w = r /\ i \in 1 .. Len(queue[r])
    <3>1. queue'[w][i] = queue[w][i] /\ Passing(w, queue[w][i])
      BY <1>0, <1>2, <1>5, <2>2 DEF QueuesInOrder
    <3>2. ASSUME NEW j \in 1 .. Len(queue'[w]), i < j
          PROVE  queue'[w][i] < queue'[w][j]
      <4>1. CASE j \in 1 .. Len(queue[r])
        BY <1>0, <1>2, <1>5, <2>2, <3>2, <4>1 DEF QueuesInOrder
      <4>2. CASE j = Len(queue[r]) + 1
        BY <1>5, <1>11, <2>2, <3>1, <4>2
      <4> QED
        BY <1>3, <1>5, <2>2, <4>1, <4>2
    <3> QED
      BY <1>10, <3>1, <3>2
  <2>3. CASE w = r /\ i = Len(queue[r]) + 1
    BY <1>3, <1>5, <1>12, <2>3
  <2> QED
    BY <1>3, <1>5, <2>1, <2>2, <2>3
<1>14. WorkInOrder'
  <2>1. ASSUME NEW w \in Workers, NEW u \in Int, Passing(w, u),
               \A i \in 1 .. Len(queue[w]) : u < queue[w][i]
        PROVE  Passing(w, u)' /\ \A i \in 1 .. Len(queue'[w]) : u < queue'[w][i]
    <3>1. Passing(w, u)' /\ u < hand
      BY <1>10, <1>11, <2>1
    <3>2. CASE w # r
      BY <1>3, <2>1, <3>1, <3>2
    <3>3. CASE w = r
      BY <1>3, <1>5, <2>1, <3>1, <3>3
    <3> QED
      BY <3>2, <3>3
  <2>2. /\ \A w \in Workers : work[w] \in Int
        /\ handled \subseteq Int
    BY <1>0, Numbers
  <2> QED
    BY <1>0, <1>6, <2>1, <2>2 DEF WorkInOrder
<1>15. Accounted'
  <2> SUFFICES ASSUME ~stopping, NEW v \in base + 1 .. Received, chat[v] # NoChat
               PROVE  OnItsWay(v)' \/ v \in handled
    BY <1>6, <1>8 DEF Accounted
  <2>1. OnItsWay(v) \/ v \in handled
    BY DEF DispatcherInv, Accounted
  <2>2. CASE v = hand
    <3>1. QueueOf(v)' = r
      BY <1>4, <1>6, <2>2 DEF QueueOf
    <3>2. Len(queue[r]) + 1 \in 1 .. Len(queue'[r]) /\ v = queue'[r][Len(queue[r]) + 1]
      BY <1>3, <1>5, <2>2
    <3> QED
      BY <1>2, <3>1, <3>2 DEF OnItsWay
  <2>3. ASSUME NEW w \in Workers, QueueOf(v) = w, v = work[w] PROVE OnItsWay(v)'
    BY <1>6, <2>3 DEF OnItsWay, QueueOf
  <2>4. ASSUME NEW w \in Workers, QueueOf(v) = w,
               NEW i \in 1 .. Len(queue[w]), v = queue[w][i]
        PROVE  OnItsWay(v)'
    <3>1. i \in 1 .. Len(queue'[w]) /\ queue'[w][i] = v
      <4>1. CASE w = r
        BY <1>3, <1>5, <2>4, <4>1
      <4>2. CASE w # r
        BY <1>3, <2>4, <4>2
      <4> QED
        BY <4>1, <4>2
    <3>2. QueueOf(v)' = w
      BY <1>6, <2>4 DEF QueueOf
    <3> QED
      BY <3>1, <3>2 DEF OnItsWay
  <2> QED
    BY <2>1, <2>2, <2>3, <2>4 DEF OnItsWay
<1> QED
  BY <1>7, <1>9, <1>13, <1>14, <1>15 DEF DispatcherInv, InOrder

-----------------------------------------------------------------------------
(* The workers                                                             *)

(* A queue loses its oldest update; the others stay in order. *)
LEMMA QueueShorter ==
    ASSUME DispatcherInv, NEW w \in Workers, queue[w] # <<>>,
           queue' = [queue EXCEPT ![w] = Tail(@)],
           UNCHANGED <<chat, base, offset, updates, hand>>
    PROVE  /\ queue' \in [Workers -> Seq(Updates)]
           /\ \A v \in Workers : Len(queue'[v]) <= QueueSize
           /\ Received' = Received /\ Passed' = Passed
           /\ ChannelInOrder' /\ QueuesInOrder'
           /\ \A v \in Workers : \A i \in 1 .. Len(queue'[v]) :
                \E j \in 1 .. Len(queue[v]) : queue'[v][i] = queue[v][j]
           /\ \A i \in 1 .. Len(queue'[w]) : Head(queue[w]) < queue'[w][i]
           /\ \A i \in 1 .. Len(queue[w]) :
                queue[w][i] = Head(queue[w])
                  \/ \E j \in 1 .. Len(queue'[w]) : queue'[w][j] = queue[w][i]
           /\ Passing(w, Head(queue[w])) /\ Head(queue[w]) \in Updates
<1> USE DispatcherAssumption
<1>0. TypeOK /\ ChannelInOrder /\ QueuesInOrder
  BY DEF DispatcherInv, InOrder
<1>1. /\ queue[w] \in Seq(Updates) /\ queue'[w] = Tail(queue[w])
      /\ \A v \in Workers \ {w} : queue'[v] = queue[v]
  BY <1>0 DEF TypeOK
<1>2. /\ queue'[w] \in Seq(Updates) /\ Len(queue[w]) \in Nat \ {0}
      /\ Len(queue'[w]) = Len(queue[w]) - 1
      /\ \A i \in 1 .. Len(queue'[w]) : queue'[w][i] = queue[w][i + 1]
      /\ Head(queue[w]) = queue[w][1] /\ Head(queue[w]) \in Updates
  <2> DEFINE s == queue[w]
  <2>1. s \in Seq(Updates) /\ s # <<>>
    BY <1>1
  <2> HIDE DEF s
  <2>2. /\ Tail(s) \in Seq(Updates) /\ Len(s) \in Nat \ {0} /\ Len(Tail(s)) = Len(s) - 1
        /\ \A i \in 1 .. Len(Tail(s)) : Tail(s)[i] = s[i + 1]
        /\ Head(s) = s[1] /\ Head(s) \in Updates
    BY <2>1, TailFacts
  <2> QED
    BY <1>1, <2>2 DEF s
<1>3. queue' \in [Workers -> Seq(Updates)] /\ \A v \in Workers : Len(queue'[v]) <= QueueSize
  BY <1>0, <1>1, <1>2 DEF TypeOK
<1>4. Received' = Received /\ Passed' = Passed /\ ChannelInOrder'
  BY <1>0 DEF Received, Passed, ChannelInOrder
<1>5. \A v, u : Passing(v, u) => Passing(v, u)'
  BY <1>4 DEF Passing, QueueOf
<1>6. ASSUME NEW v \in Workers, NEW i \in 1 .. Len(queue'[v])
      PROVE  \E j \in 1 .. Len(queue[v]) :
               /\ queue'[v][i] = queue[v][j]
               /\ j = IF v = w THEN i + 1 ELSE i
  <2>1. CASE v = w
    <3>1. i + 1 \in 1 .. Len(queue[w]) /\ queue'[w][i] = queue[w][i + 1]
      BY <1>2, <2>1
    <3> QED
      BY <2>1, <3>1
  <2>2. CASE v # w
    BY <1>1, <2>2
  <2> QED
    BY <2>1, <2>2
<1>7. QueuesInOrder'
  <2> SUFFICES ASSUME NEW v \in Workers, NEW i \in 1 .. Len(queue'[v])
               PROVE  /\ \A u : u = queue'[v][i] => Passing(v, u)'
                      /\ \A j \in 1 .. Len(queue'[v]) : i < j => queue'[v][i] < queue'[v][j]
    BY DEF QueuesInOrder, Passing, QueueOf
  <2>1. \A u : u = queue'[v][i] => Passing(v, u)'
    BY <1>0, <1>5, <1>6 DEF QueuesInOrder
  <2>2. ASSUME NEW j \in 1 .. Len(queue'[v]), i < j
        PROVE  queue'[v][i] < queue'[v][j]
    <3>1. PICK a \in 1 .. Len(queue[v]) :
            queue'[v][i] = queue[v][a] /\ a = IF v = w THEN i + 1 ELSE i
      BY <1>6
    <3>2. PICK b \in 1 .. Len(queue[v]) :
            queue'[v][j] = queue[v][b] /\ b = IF v = w THEN j + 1 ELSE j
      BY <1>6
    <3>3. a < b
      BY <2>2, <3>1, <3>2
    <3> QED
      BY <1>0, <3>1, <3>2, <3>3 DEF QueuesInOrder
  <2> QED
    BY <2>1, <2>2
<1>8. \A i \in 1 .. Len(queue'[w]) : Head(queue[w]) < queue'[w][i]
  BY <1>0, <1>2 DEF QueuesInOrder
<1>9. ASSUME NEW i \in 1 .. Len(queue[w])
      PROVE  queue[w][i] = Head(queue[w])
               \/ \E j \in 1 .. Len(queue'[w]) : queue'[w][j] = queue[w][i]
  <2>1. CASE i = 1
    BY <1>2, <2>1
  <2>2. CASE i # 1
    <3>1. i - 1 \in 1 .. Len(queue'[w]) /\ queue'[w][i - 1] = queue[w][(i - 1) + 1]
      BY <1>2, <2>2
    <3>2. (i - 1) + 1 = i
      OBVIOUS
    <3> QED
      BY <3>1, <3>2
  <2> QED
    BY <2>1, <2>2
<1>10. Passing(w, Head(queue[w]))
  BY <1>0, <1>2 DEF QueuesInOrder
<1> QED
  BY <1>2, <1>3, <1>4, <1>6, <1>7, <1>8, <1>9, <1>10

(* What was older than the whole queue is older than what is left of it.   *)
LEMMA OlderStays ==
    ASSUME DispatcherInv, UNCHANGED <<chat, base>>, Passed' = Passed,
           \A v \in Workers : \A i \in 1 .. Len(queue'[v]) :
             \E j \in 1 .. Len(queue[v]) : queue'[v][i] = queue[v][j],
           NEW w \in Workers, NEW u, Passing(w, u),
           \A i \in 1 .. Len(queue[w]) : u < queue[w][i]
    PROVE  Passing(w, u)' /\ \A i \in 1 .. Len(queue'[w]) : u < queue'[w][i]
BY DEF Passing, QueueOf

(* A worker begins with the oldest of its queue. *)
LEMMA BeginInv ==
    ASSUME DispatcherInv, NEW w \in Workers, BeginHandling(w)
    PROVE  DispatcherInv'
<1> USE DispatcherAssumption DEF BeginHandling, pollVars, lifeVars
<1> DEFINE u == Head(queue[w])
<1>0. TypeOK /\ WorkInOrder
  BY DEF DispatcherInv, InOrder
<1>1. /\ queue' \in [Workers -> Seq(Updates)]
      /\ \A v \in Workers : Len(queue'[v]) <= QueueSize
      /\ Received' = Received /\ Passed' = Passed
      /\ ChannelInOrder' /\ QueuesInOrder'
      /\ \A v \in Workers : \A i \in 1 .. Len(queue'[v]) :
           \E j \in 1 .. Len(queue[v]) : queue'[v][i] = queue[v][j]
      /\ \A i \in 1 .. Len(queue'[w]) : u < queue'[w][i]
      /\ \A i \in 1 .. Len(queue[w]) :
           queue[w][i] = u \/ \E j \in 1 .. Len(queue'[w]) : queue'[w][j] = queue[w][i]
      /\ Passing(w, u) /\ u \in Updates
  BY QueueShorter
<1>2. work'[w] = u /\ \A v \in Workers \ {w} : work'[v] = work[v]
  BY <1>0 DEF TypeOK
<1>3. \A v \in Workers \ {w} : queue'[v] = queue[v]
  BY <1>0 DEF TypeOK
<1>4. \A i \in 1 .. Len(queue[w]) : Passing(w, queue[w][i])
  BY DEF DispatcherInv, InOrder, QueuesInOrder
<1>5. \E i \in 1 .. Len(queue[w]) : u = queue[w][i]
  BY <1>0, TailFacts DEF TypeOK
<1>6. work[w] = Idle
  OBVIOUS
<1> HIDE DEF u
<1>7. TypeOK'
  BY <1>0, <1>1, <1>2 DEF TypeOK
<1>8. UNCHANGED <<chat, base, offset, updates, hand, handled, stopping>>
  OBVIOUS
<1> HIDE DEF BeginHandling
<1>9. WorkInOrder'
  <2>1. ASSUME NEW v \in Workers, work'[v] > 0
        PROVE  /\ \A x : x = work'[v] => Passing(v, x)'
               /\ \A i \in 1 .. Len(queue'[v]) : work'[v] < queue'[v][i]
    <3>1. CASE v = w
      <4>1. Passing(w, u) => \A x : x = u => Passing(w, x)'
        BY <1>1, <1>8 DEF Passing, QueueOf
      <4> QED
        BY <1>1, <1>2, <3>1, <4>1
    <3>2. CASE v # w
      <4>1. Passing(v, work[v]) /\ \A i \in 1 .. Len(queue[v]) : work[v] < queue[v][i]
        BY <1>0, <1>2, <2>1, <3>2 DEF WorkInOrder
      <4>2. \A x : Passing(v, x) => Passing(v, x)'
        BY <1>1, <1>8 DEF Passing, QueueOf
      <4> QED
        BY <1>2, <1>3, <3>2, <4>1, <4>2
    <3> QED
      BY <3>1, <3>2
  <2>2. ASSUME NEW x \in handled
        PROVE  \E v \in Workers :
                 /\ Passing(v, x)'
                 /\ work'[v] > 0 => x < work'[v]
                 /\ \A i \in 1 .. Len(queue'[v]) : x < queue'[v][i]
    <3>1. PICK v \in Workers :
            /\ Passing(v, x)
            /\ work[v] > 0 => x < work[v]
            /\ \A i \in 1 .. Len(queue[v]) : x < queue[v][i]
      BY <1>0 DEF WorkInOrder
    <3>2. Passing(v, x)' /\ \A i \in 1 .. Len(queue'[v]) : x < queue'[v][i]
      BY <1>1, <1>8, <3>1, OlderStays
    <3>3. work'[v] > 0 => x < work'[v]
      BY <1>2, <1>5, <3>1
    <3> QED
      BY <3>2, <3>3
  <2> QED
    BY <1>8, <2>1, <2>2 DEF WorkInOrder, Passing, QueueOf
<1>10. Accounted'
  <2> SUFFICES ASSUME ~stopping, NEW v \in base + 1 .. Received, chat[v] # NoChat
               PROVE  OnItsWay(v)' \/ v \in handled
    BY <1>1, <1>8 DEF Accounted
  <2>1. OnItsWay(v) \/ v \in handled
    BY DEF DispatcherInv, Accounted
  <2>2. \A x : QueueOf(x)' = QueueOf(x)
    BY <1>8 DEF QueueOf
  <2>3. CASE v = hand
    BY <1>8, <2>3 DEF OnItsWay
  <2>4. ASSUME NEW x \in Workers, QueueOf(v) = x, v = work[x] PROVE OnItsWay(v)'
    <3>1. x # w
      BY <1>0, <1>6, <2>4 DEF TypeOK, DispatcherInv, InOrder, ChannelInOrder, Idle
    <3> QED
      BY <1>2, <2>2, <2>4, <3>1 DEF OnItsWay
  <2>5. ASSUME NEW x \in Workers, QueueOf(v) = x,
               NEW i \in 1 .. Len(queue[x]), v = queue[x][i]
        PROVE  OnItsWay(v)'
    <3>1. v = work'[x] \/ \E j \in 1 .. Len(queue'[x]) : v = queue'[x][j]
      <4>1. CASE x = w
        <5>1. queue[w][i] = u \/ \E j \in 1 .. Len(queue'[w]) : queue'[w][j] = queue[w][i]
          BY <1>1, <2>5, <4>1
        <5> QED
          BY <1>2, <2>5, <4>1, <5>1
      <4>2. CASE x # w
        BY <1>3, <2>5, <4>2
      <4> QED
        BY <4>1, <4>2
    <3> QED
      BY <2>2, <2>5, <3>1 DEF OnItsWay
  <2> QED
    BY <2>1, <2>3, <2>4, <2>5 DEF OnItsWay
<1> QED
  BY <1>1, <1>7, <1>9, <1>10 DEF DispatcherInv, InOrder

(* What a worker has handled is older than all it will. *)
LEMMA EndInv ==
    ASSUME DispatcherInv, NEW w \in Workers, EndHandling(w)
    PROVE  DispatcherInv'
<1> USE DispatcherAssumption DEF EndHandling, pollVars, lifeVars
<1>0. TypeOK /\ WorkInOrder /\ ChannelInOrder
  BY DEF DispatcherInv, InOrder
<1>1. /\ work'[w] \in {Idle, Gone} /\ \A v \in Workers \ {w} : work'[v] = work[v]
      /\ work[w] \in Updates /\ handled' = handled \cup {work[w]}
  <2>1. work \in [Workers -> Updates \cup {Idle, Gone}] /\ stopping \in BOOLEAN
    BY <1>0 DEF TypeOK
  <2>2. work[w] \in Updates
    BY <2>1 DEF Idle, Gone
  <2> QED
    BY <2>1, <2>2
<1>2. TypeOK'
  BY <1>0, <1>1 DEF TypeOK
<1>3. UNCHANGED <<chat, base, offset, updates, hand, queue, stopping>>
  OBVIOUS
<1>4. Received' = Received /\ Passed' = Passed
  BY <1>3 DEF Received, Passed
<1>5. \A v, u : Passing(v, u) => Passing(v, u)'
  BY <1>3, <1>4 DEF Passing, QueueOf
<1>6. work[w] > 0
  OBVIOUS
<1> HIDE DEF EndHandling
<1>7. ChannelInOrder' /\ QueuesInOrder'
  BY <1>0, <1>3, <1>4, <1>5 DEF DispatcherInv, InOrder, ChannelInOrder, QueuesInOrder
<1>8. WorkInOrder'
  <2>1. \A v \in Workers : work'[v] > 0 => work'[v] = work[v]
    BY <1>1 DEF Idle, Gone
  <2>2. ASSUME NEW v \in Workers, work'[v] > 0
        PROVE  /\ \A x : x = work'[v] => Passing(v, x)'
               /\ \A i \in 1 .. Len(queue'[v]) : work'[v] < queue'[v][i]
    BY <1>0, <1>3, <1>5, <2>1, <2>2 DEF WorkInOrder
  <2>3. ASSUME NEW x \in handled'
        PROVE  \E v \in Workers :
                 /\ Passing(v, x)'
                 /\ work'[v] > 0 => x < work'[v]
                 /\ \A i \in 1 .. Len(queue'[v]) : x < queue'[v][i]
    <3>1. CASE x = work[w]
      <4>1. Passing(w, x)' /\ \A i \in 1 .. Len(queue[w]) : x < queue[w][i]
        BY <1>0, <1>5, <1>6, <3>1 DEF WorkInOrder
      <4>2. ~(work'[w] > 0)
        BY <1>1 DEF Idle, Gone
      <4> QED
        BY <1>3, <4>1, <4>2
    <3>2. CASE x \in handled
      <4>1. PICK v \in Workers :
              /\ Passing(v, x)
              /\ work[v] > 0 => x < work[v]
              /\ \A i \in 1 .. Len(queue[v]) : x < queue[v][i]
        BY <1>0, <3>2 DEF WorkInOrder
      <4> QED
        BY <1>3, <1>5, <2>1, <4>1
    <3> QED
      BY <1>1, <3>1, <3>2
  <2> QED
    BY <2>2, <2>3 DEF WorkInOrder, Passing, QueueOf
<1>9. Accounted'
  <2> SUFFICES ASSUME ~stopping, NEW v \in base + 1 .. Received, chat[v] # NoChat
               PROVE  OnItsWay(v)' \/ v \in handled'
    BY <1>3, <1>4 DEF Accounted
  <2>1. OnItsWay(v) \/ v \in handled
    BY DEF DispatcherInv, Accounted
  <2>2. ASSUME NEW x \in Workers, QueueOf(v) = x, v = work[x]
        PROVE  OnItsWay(v)' \/ v \in handled'
    BY <1>1, <1>3, <2>2 DEF OnItsWay, QueueOf
  <2> QED
    BY <1>1, <1>3, <2>1, <2>2 DEF OnItsWay, QueueOf
<1> QED
  BY <1>2, <1>7, <1>8, <1>9 DEF DispatcherInv, InOrder

(* A worker that stops may drop the oldest of its queue. *)
LEMMA StopWorkingInv ==
    ASSUME DispatcherInv, NEW w \in Workers, StopWorking(w)
    PROVE  DispatcherInv'
<1> USE DispatcherAssumption DEF StopWorking, pollVars, lifeVars
<1>0. TypeOK /\ WorkInOrder
  BY DEF DispatcherInv, InOrder
<1>1. /\ queue' \in [Workers -> Seq(Updates)]
      /\ \A v \in Workers : Len(queue'[v]) <= QueueSize
      /\ Passed' = Passed /\ ChannelInOrder' /\ QueuesInOrder'
      /\ \A v \in Workers : \A i \in 1 .. Len(queue'[v]) :
           \E j \in 1 .. Len(queue[v]) : queue'[v][i] = queue[v][j]
  <2>1. CASE queue[w] # <<>>
    BY <2>1, QueueShorter
  <2>2. CASE queue[w] = <<>>
    <3>1. queue' = queue
      BY <1>0, <2>2 DEF TypeOK
    <3>2. Passed' = Passed /\ Received' = Received
      BY DEF Passed, Received
    <3>3. ChannelInOrder' /\ QueuesInOrder'
      BY <3>1, <3>2 DEF DispatcherInv, InOrder, ChannelInOrder, QueuesInOrder, Passing, QueueOf
    <3> QED
      BY <1>0, <3>1, <3>2, <3>3 DEF TypeOK
  <2> QED
    BY <2>1, <2>2
<1>2. /\ work'[w] = Gone /\ \A v \in Workers \ {w} : work'[v] = work[v]
      /\ work' \in [Workers -> Updates \cup {Idle, Gone}]
  BY <1>0 DEF TypeOK
<1>3. UNCHANGED <<chat, base, offset, updates, hand, handled, stopping>> /\ stopping
  OBVIOUS
<1>4. TypeOK'
  BY <1>0, <1>1, <1>2 DEF TypeOK
<1> HIDE DEF StopWorking
<1>5. WorkInOrder'
  <2>1. \A v \in Workers : work'[v] > 0 => work'[v] = work[v]
    BY <1>2 DEF Gone
  <2>2. ASSUME NEW v \in Workers, work'[v] > 0
        PROVE  /\ \A x : x = work'[v] => Passing(v, x)'
               /\ \A i \in 1 .. Len(queue'[v]) : work'[v] < queue'[v][i]
    <3>1. Passing(v, work[v]) /\ \A i \in 1 .. Len(queue[v]) : work[v] < queue[v][i]
      BY <1>0, <2>1, <2>2 DEF WorkInOrder
    <3>2. \A x : Passing(v, x) => Passing(v, x)'
      BY <1>1, <1>3 DEF Passing, QueueOf
    <3> QED
      BY <1>1, <2>1, <2>2, <3>1, <3>2
  <2>3. ASSUME NEW x \in handled
        PROVE  \E v \in Workers :
                 /\ Passing(v, x)'
                 /\ work'[v] > 0 => x < work'[v]
                 /\ \A i \in 1 .. Len(queue'[v]) : x < queue'[v][i]
    <3>1. PICK v \in Workers :
            /\ Passing(v, x)
            /\ work[v] > 0 => x < work[v]
            /\ \A i \in 1 .. Len(queue[v]) : x < queue[v][i]
      BY <1>0 DEF WorkInOrder
    <3>2. Passing(v, x)' /\ \A i \in 1 .. Len(queue'[v]) : x < queue'[v][i]
      BY <1>1, <1>3, <3>1, OlderStays
    <3> QED
      BY <2>1, <3>1, <3>2
  <2> QED
    BY <1>3, <2>2, <2>3 DEF WorkInOrder, Passing, QueueOf
<1> QED
  BY <1>1, <1>3, <1>4, <1>5 DEF DispatcherInv, InOrder, Accounted

(* The dispatcher goes; what it had in hand is lost. *)
LEMMA StopDispatchingInv ==
    ASSUME DispatcherInv, StopDispatching
    PROVE  DispatcherInv'
<1> USE DispatcherAssumption DEF StopDispatching, pollVars, workerVars, lifeVars
<1>1. TypeOK'
  BY DEF DispatcherInv, TypeOK
<1>2. Received' = Received /\ Passed' >= Passed
  <2>1. hand > 0 => hand = Received
    BY DEF DispatcherInv, InOrder, ChannelInOrder
  <2>2. Received \in Int /\ hand' = Gone /\ ~(Gone > 0)
    BY Numbers DEF DispatcherInv, Gone
  <2> QED
    BY <2>1, <2>2 DEF Received, Passed
<1>3. ChannelInOrder'
  BY <1>2 DEF DispatcherInv, InOrder, ChannelInOrder, Gone
<1>4. QueuesInOrder' /\ WorkInOrder'
  BY <1>1, <1>2, WorkersKept
<1> QED
  BY <1>1, <1>3, <1>4 DEF DispatcherInv, InOrder, Accounted

(* A new process starts with empty hands behind what was confirmed. *)
LEMMA RestartInv ==
    ASSUME DispatcherInv, Restart
    PROVE  DispatcherInv'
<1> USE DispatcherAssumption DEF Restart
<1>0. /\ confirmed \in Nat /\ offset' = confirmed /\ base' = confirmed /\ updates' = <<>>
      /\ confirmed <= sent /\ hand' = 0
  BY DEF DispatcherInv, TypeOK, Idle
<1>1. /\ Len(updates') = 0 /\ \A w \in Workers : Len(queue'[w]) = 0 /\ work'[w] = 0
      /\ handled' = {}
  BY DEF Idle
<1>2. Received' = confirmed
  BY <1>0, <1>1 DEF Received
<1>3. TypeOK'
  <2>1. <<>> \in Seq(Updates)
    OBVIOUS
  <2>2. updates' \in Seq(Updates) /\ queue' \in [Workers -> Seq(Updates)]
    BY <2>1
  <2>3. restarts' \in 0 .. MaxRestarts
    BY DEF DispatcherInv, TypeOK
  <2>4. /\ work' \in [Workers -> Updates \cup {Idle, Gone}] /\ hand' \in Updates \cup {Idle, Gone}
        /\ handled' \subseteq Updates /\ polling' \in BOOLEAN /\ stopping' \in BOOLEAN
        /\ chat' \in [Updates -> Chats \cup {NoChat}]
    BY DEF DispatcherInv, TypeOK
  <2>5. /\ base' \in 0 .. confirmed' /\ confirmed' \in 0 .. offset' /\ offset' \in 0 .. fetched'
        /\ fetched' \in 0 .. sent' /\ sent' \in 0 .. MaxUpdates
    BY DEF DispatcherInv, TypeOK
  <2>6. Len(updates') <= BufferSize /\ \A w \in Workers : Len(queue'[w]) <= QueueSize
    BY <1>1
  <2> QED
    BY <2>2, <2>3, <2>4, <2>5, <2>6 DEF TypeOK
<1>4. ChannelInOrder'
  BY <1>0, <1>1, <1>2 DEF ChannelInOrder
<1>5. QueuesInOrder' /\ WorkInOrder'
  BY <1>1 DEF QueuesInOrder, WorkInOrder
<1>6. Accounted'
  BY <1>0, <1>2 DEF Accounted
<1> QED
  BY <1>3, <1>4, <1>5, <1>6 DEF DispatcherInv, InOrder

-----------------------------------------------------------------------------

(* Every step keeps the invariant. *)
LEMMA StepInv == DispatcherInv /\ [Next]_vars => DispatcherInv'
<1> SUFFICES ASSUME DispatcherInv, [Next]_vars
             PROVE  DispatcherInv'
  OBVIOUS
<1>1. CASE \/ SendUpdate
           \/ \E last \in 0 .. MaxUpdates : GetUpdates(last)
           \/ StopPolling \/ Stop
           \/ UNCHANGED vars
  <2>1. /\ UNCHANGED <<chat, base, offset, updates, hand, queue, work, handled>>
        /\ stopping' = stopping \/ stopping'
    BY <1>1 DEF SendUpdate, GetUpdates, StopPolling, Stop, vars, pollVars, workerVars, lifeVars
  <2>2. TypeOK'
    <3> USE DispatcherAssumption DEF DispatcherInv, TypeOK, pollVars, workerVars, lifeVars
    <3>1. CASE SendUpdate
      BY <3>1 DEF SendUpdate
    <3>2. CASE \E last \in 0 .. MaxUpdates : GetUpdates(last)
      BY <3>2 DEF GetUpdates
    <3>3. CASE StopPolling \/ Stop
      BY <3>3 DEF StopPolling, Stop
    <3>4. CASE UNCHANGED vars
      BY <3>4 DEF vars
    <3> QED
      BY <1>1, <3>1, <3>2, <3>3, <3>4
  <2> QED
    BY <2>1, <2>2, StillInv
<1>2. CASE PushUpdate \/ TakeUpdate \/ Enqueue
  BY <1>2, PushInv, TakeInv, EnqueueInv
<1>3. ASSUME NEW w \in Workers, BeginHandling(w) \/ EndHandling(w) \/ StopWorking(w)
      PROVE  DispatcherInv'
  BY <1>3, BeginInv, EndInv, StopWorkingInv
<1>4. CASE StopDispatching \/ Restart
  BY <1>4, StopDispatchingInv, RestartInv
<1> QED
  BY <1>1, <1>2, <1>3, <1>4 DEF Next

(* The way of an update, from Telegram to its handler. *)
THEOREM DispatcherInvariant == Spec => []DispatcherInv
<1>1. Init => DispatcherInv
  BY InitInv
<1>2. DispatcherInv /\ [Next]_vars => DispatcherInv'
  BY StepInv
<1> QED
  BY <1>1, <1>2, PTL DEF Spec

(* Every variable keeps its type, and no channel more than its capacity. *)
THEOREM TypeCorrect == Spec => []TypeOK
<1>1. DispatcherInv => TypeOK
  BY DEF DispatcherInv
<1> QED
  BY <1>1, DispatcherInvariant, PTL

(* Until its context ends, the dispatcher loses no update of a chat: each  *)
(* one it has received is in its hand, with its worker, or handled.        *)
THEOREM NothingLost == Spec => []Accounted
<1>1. DispatcherInv => Accounted
  BY DEF DispatcherInv
<1> QED
  BY <1>1, DispatcherInvariant, PTL

(* When a worker begins an update, what has come before from the same chat *)
(* was received, and can only be handled: the channel, the dispatcher and  *)
(* the rest of the queue have newer ones, and the worker has none.         *)
LEMMA BeginsInTurn ==
    ASSUME DispatcherInv, NEW w \in Workers, BeginHandling(w)
    PROVE  LET u == work'[w] IN
             /\ u > base /\ u \notin handled
             /\ \A v \in base + 1 .. u - 1 : chat[v] = chat[u] => v \in handled
<1> DEFINE u == Head(queue[w])
<1>0. TypeOK /\ WorkInOrder /\ ChannelInOrder /\ QueuesInOrder
  BY DEF DispatcherInv, InOrder
<1>1. /\ queue[w] # <<>> /\ queue[w] \in Seq(Updates) /\ work'[w] = u /\ ~stopping
      /\ work[w] = Idle
  BY <1>0 DEF BeginHandling, TypeOK
<1>2. u = queue[w][1] /\ Len(queue[w]) \in Nat \ {0} /\ u \in Updates
  BY <1>1, TailFacts
<1> HIDE DEF u
<1>3. Passing(w, u)
  BY <1>0, <1>2 DEF QueuesInOrder
<1>4. /\ u > base /\ QueueOf(u) = w /\ chat[u] # NoChat /\ u <= Passed
      /\ base \in Int /\ Passed \in Int /\ Received \in Int /\ u \in Int
  BY <1>0, <1>2, <1>3, Numbers DEF Passing
<1>5. u \notin handled
  <2> SUFFICES ASSUME u \in handled PROVE FALSE
    OBVIOUS
  <2>1. PICK v \in Workers : Passing(v, u) /\ \A i \in 1 .. Len(queue[v]) : u < queue[v][i]
    BY <1>0 DEF WorkInOrder
  <2>2. v = w
    BY <1>4, <2>1 DEF Passing
  <2>3. u < queue[w][1]
    BY <1>2, <2>1, <2>2
  <2> QED
    BY <1>2, <1>4, <2>3
<1>6. ASSUME NEW v \in base + 1 .. u - 1, chat[v] = chat[u]
      PROVE  v \in handled
  <2>1. v \in base + 1 .. Received /\ v < u /\ v \in Int
    BY <1>0, <1>4 DEF Passed, ChannelInOrder
  <2>2. OnItsWay(v) \/ v \in handled
    BY <1>1, <1>4, <1>6, <2>1 DEF DispatcherInv, Accounted
  <2>3. QueueOf(v) = w
    BY <1>4, <1>6 DEF QueueOf
  <2>4. v # hand
    <3>1. hand = v => hand > 0
      BY <1>0, <1>4, <2>1, Numbers
    <3>2. hand > 0 => u <= hand - 1 /\ hand \in Int
      BY <1>0, <1>4, Numbers DEF Passed
    <3> QED
      BY <1>4, <2>1, <3>1, <3>2
  <2>5. v # work[w]
    BY <1>0, <1>1, <1>4, <2>1, Numbers DEF Idle
  <2>6. ASSUME NEW i \in 1 .. Len(queue[w]) PROVE v # queue[w][i]
    <3>1. i = 1 \/ u < queue[w][i]
      BY <1>0, <1>2 DEF QueuesInOrder
    <3>2. queue[w][i] \in Int
      BY <1>0, Numbers
    <3> QED
      BY <1>2, <1>4, <2>1, <3>1, <3>2
  <2> QED
    BY <2>2, <2>3, <2>4, <2>5, <2>6 DEF OnItsWay
<1> QED
  BY <1>1, <1>4, <1>5, <1>6

(* The updates of a chat are handled one after another in the order they   *)
(* were sent, none skipped or repeated as long as the process lives.       *)
THEOREM InTurn == Spec => HandledInTurn
<1>1. ASSUME DispatcherInv, [Next]_vars, NEW w \in Workers, NEW u \in Updates,
             work'[w] = u, work[w] # u
      PROVE  /\ u > base /\ u \notin handled
             /\ \A v \in base + 1 .. u - 1 : chat[v] = chat[u] => v \in handled
  <2>1. work \in [Workers -> Updates \cup {Idle, Gone}] /\ u # Idle /\ u # Gone
    BY <1>1, DispatcherAssumption DEF DispatcherInv, TypeOK, Updates, Idle, Gone
  <2>2. BeginHandling(w)
    <3>1. CASE \E v \in Workers : BeginHandling(v) \/ EndHandling(v) \/ StopWorking(v)
      BY <1>1, <2>1, <3>1 DEF BeginHandling, EndHandling, StopWorking
    <3>2. CASE Restart
      BY <1>1, <2>1, <3>2 DEF Restart
    <3>3. CASE UNCHANGED work
      BY <1>1, <3>3
    <3> QED
      BY <1>1, <3>1, <3>2, <3>3
         DEF Next, SendUpdate, GetUpdates, PushUpdate, StopPolling, TakeUpdate, Enqueue,
             StopDispatching, Stop, vars, workerVars
  <2> QED
    BY <1>1, <2>2, BeginsInTurn
<1>2. DispatcherInv /\ [Next]_vars =>
        [\A w \in Workers, u \in Updates :
           work'[w] = u /\ work[w] # u =>
             /\ u > base /\ u \notin handled
             /\ \A v \in base + 1 .. u - 1 : chat[v] = chat[u] => v \in handled]_vars
  BY <1>1
<1> QED
  BY <1>2, DispatcherInvariant, PTL DEF Spec, HandledInTurn
=============================================================================
