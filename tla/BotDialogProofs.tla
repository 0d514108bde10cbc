--------------------------- MODULE BotDialogProofs ---------------------------
(***************************************************************************)
(* Theorems about BotDialog, for any chats, workers, routes and numbers of *)
(* slots and lookups.                                                      *)
(*                                                                         *)
(* The difficulty is that a session is written by the chat's worker, from  *)
(* a copy it read earlier, and by the goroutines of the chat's lookups.    *)
(* Goroutines write only a session that waits for them, so a copy is stale *)
(* only by the end of the lookup it waited for (SnapshotCurrent); and who  *)
(* waits has a lookup that still can report, is about to be launched or to *)
(* be cancelled (Attended).                                                *)
(***************************************************************************)
EXTENDS BotDialog, FiniteSetTheorems, TLAPS

Places == {"free", "clear", "text", "edit", "list", "page", "change",
           "refresh", "read", "submit", "launch", "accepted"}

Task == [chat : Chats \cup {NoChat}, sess : Session, lookup : 0 .. MaxLookups, at : Places]

Runs == {"none", "starting", "polling", "found", "lost", "report",
         "apologise", "release", "unregister", "done"}

Typed ==
    /\ session \in [Chats -> Session]
    /\ task \in [Workers -> Task]
    /\ sequence \in 0 .. MaxLookups
    /\ submitted \in [Chats -> 0 .. MaxLookups]
    /\ active \in [Chats -> 0 .. MaxLookups]
    /\ run \in [Lookups -> Runs]
    /\ owner \in [Lookups -> Chats \cup {NoChat}]
    /\ cancelled \subseteq Lookups
    /\ stopping \in BOOLEAN

(* The updates of a chat are handled by one worker, one after another. *)
InTurn ==
    \A w \in Workers :
        \/ task[w] = Free
        \/ /\ task[w].at # "free" /\ task[w].chat \in Chats
           /\ Route[task[w].chat] = w

(* A lookup that is submitted and not launched is nobody else's. *)
Fresh ==
    /\ \A w \in Workers :
         task[w].at \in {"submit", "launch"} =>
           /\ task[w].lookup \in 1 .. sequence /\ run[task[w].lookup] = "none"
           /\ \A v \in Workers \ {w} :
                task[v].at \in {"submit", "launch"} => task[v].lookup # task[w].lookup
    /\ \A l \in Lookups : run[l] # "none" => l <= sequence /\ owner[l] \in Chats

(* What a chat's entry says is true, and only launched lookups are cancelled. *)
Registered ==
    /\ \A c \in Chats :
         active[c] # 0 => run[active[c]] # "none" /\ owner[active[c]] = c
    /\ \A l \in cancelled : run[l] # "none"

(* The session still is the one the handler read, or what the end of a     *)
(* lookup has made of it.                                                  *)
Current(X, s) == s = X.sess \/ LookupEnded(X.sess, s)

SnapshotCurrent ==
    \A w \in Workers :
        /\ task[w].at \in {"text", "edit", "clear", "submit", "accepted"}
             => Current(task[w], session[task[w].chat])
        /\ task[w].at \in {"submit", "accepted"} => task[w].sess.step # "waiting_lookup"

AboutSubmitted ==
    \A c \in Chats :
        session[c].step \in {"waiting_lookup", "waiting_min_price", "waiting_max_price"}
          => session[c].lookup = submitted[c]

Clearing(c) == \E w \in Workers : task[w].chat = c /\ task[w].at = "clear"
Launching(c) ==
    \E w \in Workers : /\ task[w].chat = c /\ task[w].at = "launch"
                       /\ task[w].lookup = session[c].lookup

(* Who waits is about to be launched or cancelled, or has a lookup at work; *)
(* a lookup that has reported is not waited for any more.                   *)
Attended ==
    /\ \A c \in Chats :
         session[c].step = "waiting_lookup" /\ ~stopping =>
           \/ Clearing(c) \/ Launching(c)
           \/ active[c] = session[c].lookup /\ active[c] \in Looking \ cancelled
    /\ \A w \in Workers :
         task[w].at = "launch" => WaitsFor(task[w].chat, task[w].lookup)
    /\ \A l \in Lookups :
         run[l] \in {"release", "unregister", "done"} /\ WaitsFor(owner[l], l)
           => Ended(l)

SlotsCounted == slots = Cardinality(Looking) /\ slots <= MaxSlots

BotInv ==
    /\ Typed /\ InTurn /\ Fresh /\ Registered
    /\ SnapshotCurrent /\ AboutSubmitted /\ Attended /\ SlotsCounted

-----------------------------------------------------------------------------

(* What is known of the constants and of records made of them. *)
LEMMA Constants ==
    /\ NoChat \notin Chats /\ Route \in [Chats -> Workers]
    /\ MaxSlots \in Nat \ {0} /\ MaxLookups \in Nat /\ MaxPage \in Nat \ {0}
    /\ Empty \in Session /\ Free \in Task
    /\ Empty.step = "idle" /\ Empty.lookup = 0 /\ Empty.page = 0
    /\ Free.at = "free" /\ Free.chat = NoChat
    /\ 0 \notin Lookups /\ Lookups \subseteq Nat
BY BotAssumption DEF Empty, Session, Steps, Free, Task, Places, Lookups


(* A session is what its fields are. *)
LEMMA SameSession ==
    ASSUME NEW r \in Session, NEW s \in Session,
           r.step = s.step, r.lookup = s.lookup, r.page = s.page
    PROVE  r = s
BY DEF Session

(* A copy that waits for no lookup is not stale. *)
LEMMA CopyCurrent ==
    ASSUME BotInv, NEW w \in Workers, task[w].at \in {"text", "edit", "clear", "submit", "accepted"},
           task[w].sess.step # "waiting_lookup"
    PROVE  session[task[w].chat] = task[w].sess
BY DEF BotInv, SnapshotCurrent, Current, LookupEnded

(* A chat at work has one worker, its own. *)
LEMMA OwnWorker ==
    ASSUME BotInv, NEW w \in Workers, task[w].at # "free"
    PROVE  /\ task[w] \in Task /\ task[w].chat \in Chats /\ task[w].sess \in Session
           /\ task[w].lookup \in 0 .. MaxLookups
           /\ Route[task[w].chat] = w
           /\ \A v \in Workers : task[v].chat = task[w].chat => v = w
BY Constants DEF BotInv, Typed, InTurn, Task

-----------------------------------------------------------------------------
(* Workers. *)

(* A step that only moves the worker on, or takes an update. *)
LEMMA SilentInv ==
    ASSUME BotInv, NEW w \in Workers, NEW X \in Task,
           task' = [task EXCEPT ![w] = X], task[w].at \notin {"clear", "launch"},
           UNCHANGED <<session, sequence, submitted, lookupVars, stopping>>,
           \/ X = Free
           \/ /\ X.chat \in Chats /\ Route[X.chat] = w
              /\ X.at \notin {"free", "submit", "launch"}
              /\ X.at = "accepted" => X.sess.step # "waiting_lookup"
              /\ X.at \in {"text", "edit", "clear", "accepted"} => Current(X, session[X.chat])
    PROVE  BotInv'
<1> USE Constants
<1>1. /\ task'[w] = X /\ \A v \in Workers \ {w} : task'[v] = task[v]
      /\ UNCHANGED <<session, sequence, submitted, active, slots, run, owner, cancelled, stopping>>
  BY DEF BotInv, Typed, lookupVars
<1>2. Typed'
  BY <1>1 DEF BotInv, Typed
<1>3. InTurn'
  BY <1>1 DEF BotInv, InTurn
<1>4. Fresh'
  BY <1>1 DEF BotInv, Fresh
<1>5. Registered' /\ AboutSubmitted' /\ SlotsCounted'
  BY <1>1 DEF BotInv, Registered, AboutSubmitted, SlotsCounted, Looking
<1>6. SnapshotCurrent'
  BY <1>1 DEF BotInv, SnapshotCurrent
<1>7. Attended'
  <2>1. \A c \in Chats : (Clearing(c) => Clearing(c)') /\ (Launching(c) => Launching(c)')
    BY <1>1 DEF Clearing, Launching
  <2> QED
    BY <1>1, <2>1 DEF BotInv, Attended, WaitsFor, Ended, Looking
<1> QED
  BY <1>2, <1>3, <1>4, <1>5, <1>6, <1>7 DEF BotInv

(* The lookup of a chat's entry is cancelled and the entry goes. *)
LEMMA CancelEffect ==
    ASSUME BotInv, NEW c \in Chats, CancelLookup(c)
    PROVE  /\ active' \in [Chats -> 0 .. MaxLookups] /\ active'[c] = 0
           /\ \A d \in Chats \ {c} : active'[d] = active[d]
           /\ cancelled \subseteq cancelled' /\ cancelled' \subseteq Lookups
           /\ \A l \in cancelled' : run[l] # "none"
           /\ \A l \in Lookups : l \in cancelled' => l \in cancelled \/ owner[l] = c
<1> USE Constants
<1>1. /\ active' = [active EXCEPT ![c] = 0]
      /\ cancelled' = cancelled \cup ({active[c]} \ {0})
  BY DEF CancelLookup
<1>2. active[c] \in 0 .. MaxLookups
  BY DEF BotInv, Typed
<1>3. active[c] # 0 => active[c] \in Lookups
  BY <1>2 DEF Lookups
<1>4. /\ active' \in [Chats -> 0 .. MaxLookups] /\ active'[c] = 0
      /\ \A d \in Chats \ {c} : active'[d] = active[d]
  BY <1>1 DEF BotInv, Typed
<1> QED
  BY <1>1, <1>3, <1>4 DEF BotInv, Typed, Registered

(* Cancelling one chat's lookup leaves another chat's alone. *)
LEMMA CancelAttends ==
    ASSUME BotInv, NEW c \in Chats, CancelLookup(c), NEW d \in Chats \ {c},
           active[d] = session[d].lookup, active[d] \in Looking \ cancelled, run' = run
    PROVE  active'[d] = session[d].lookup /\ active'[d] \in (Looking \ cancelled)'
<1>1. active[d] \in Lookups
  BY DEF Looking
<1>2. owner[active[d]] = d
  BY <1>1, Constants DEF BotInv, Registered
<1> QED
  BY <1>1, <1>2, CancelEffect DEF Looking

(* Until its handler has cleared it, a cancelled chat may still wait. *)
LEMMA BeginCancelInv ==
    ASSUME BotInv, NEW w \in Workers, NEW c \in Chats, BeginCancel(w, c)
    PROVE  BotInv'
<1> USE Constants
<1> DEFINE X == [chat |-> c, at |-> "clear", sess |-> session[c], lookup |-> 0]
<1>1. /\ task[w] = Free /\ Route[c] = w /\ task' = [task EXCEPT ![w] = X] /\ CancelLookup(c)
      /\ UNCHANGED <<session, sequence, submitted, slots, run, owner, stopping>>
  BY DEF BeginCancel, Begin, Routed
<1>2. X \in Task /\ X.chat = c /\ X.at = "clear" /\ Current(X, session[c])
  BY DEF BotInv, Typed, Task, Places, Current
<1> HIDE DEF X
<1>3. task'[w] = X /\ \A v \in Workers \ {w} : task'[v] = task[v]
  BY <1>1 DEF BotInv, Typed
<1>4. Typed'
  BY <1>1, <1>2, CancelEffect DEF BotInv, Typed
<1>5. InTurn' /\ Fresh' /\ SnapshotCurrent'
  BY <1>1, <1>2, <1>3 DEF BotInv, InTurn, Fresh, SnapshotCurrent
<1>6. Registered'
  BY <1>1, CancelEffect DEF BotInv, Registered
<1>7. AboutSubmitted' /\ SlotsCounted'
  BY <1>1 DEF BotInv, AboutSubmitted, SlotsCounted, Looking
<1>8. Attended'
  <2>1. \A d \in Chats : Clearing(d) => Clearing(d)'
    BY <1>1, <1>3 DEF Clearing
  <2>2. \A d \in Chats : Launching(d) => Launching(d)'
    BY <1>1, <1>3 DEF Launching
  <2>3. Clearing(c)'
    BY <1>2, <1>3 DEF Clearing
  <2>4. ASSUME NEW d \in Chats, session'[d].step = "waiting_lookup", ~stopping'
        PROVE  \/ Clearing(d)' \/ Launching(d)'
               \/ active'[d] = session'[d].lookup /\ active'[d] \in (Looking \ cancelled)'
    BY <1>1, <2>1, <2>2, <2>3, <2>4, CancelAttends DEF BotInv, Attended
  <2>5. \A v \in Workers :
          task'[v].at = "launch" => WaitsFor(task[v].chat, task[v].lookup)'
    BY <1>1, <1>2, <1>3 DEF BotInv, Attended, WaitsFor
  <2>6. \A l \in Lookups :
          run'[l] \in {"release", "unregister", "done"} /\ WaitsFor(owner[l], l)' => Ended(l)'
    BY <1>1, CancelEffect DEF BotInv, Attended, WaitsFor, Ended
  <2> QED
    BY <2>4, <2>5, <2>6 DEF Attended
<1> QED
  BY <1>4, <1>5, <1>6, <1>7, <1>8 DEF BotInv

(* The new lookup has a number of its own; who sends an address is idle. *)
LEMMA SubmitInv ==
    ASSUME BotInv, NEW w \in Workers, SubmitURL(w)
    PROVE  BotInv'
<1> USE Constants
<1> DEFINE c == task[w].chat
           X == [task[w] EXCEPT !.at = "submit", !.lookup = sequence + 1]
<1>1. /\ task[w].at = "text" /\ task[w].sess.step = "idle" /\ sequence < MaxLookups
      /\ sequence' = sequence + 1 /\ CancelLookup(c)
      /\ task' = [task EXCEPT ![w] = X]
      /\ UNCHANGED <<session, submitted, slots, run, owner, stopping>>
  BY DEF SubmitURL, At
<1>2. /\ task[w] \in Task /\ c \in Chats /\ Route[c] = w
      /\ \A v \in Workers : task[v].chat = c => v = w
  BY <1>1, OwnWorker
<1>3. sequence \in 0 .. MaxLookups
  BY DEF BotInv, Typed
<1>4. /\ X \in Task /\ X.chat = c /\ X.at = "submit" /\ X.lookup = sequence + 1
      /\ X.sess = task[w].sess
  <2>1. "submit" \in Places /\ sequence + 1 \in 0 .. MaxLookups
    BY <1>1, <1>3 DEF Places
  <2> QED
    BY <1>2, <2>1 DEF Task
<1> HIDE DEF X
<1>5. task'[w] = X /\ \A v \in Workers \ {w} : task'[v] = task[v]
  BY <1>1 DEF BotInv, Typed
<1>6. session[c] = task[w].sess
  BY <1>1, CopyCurrent
<1>7. Typed'
  BY <1>1, <1>2, <1>3, <1>4, CancelEffect DEF BotInv, Typed
<1>8. InTurn'
  BY <1>2, <1>4, <1>5 DEF BotInv, InTurn
<1>9. Fresh'
  <2>1. sequence + 1 \in Lookups /\ run[sequence + 1] = "none"
    BY <1>1, <1>3 DEF BotInv, Fresh, Lookups
  <2>2. \A v \in Workers \ {w} :
          task[v].at \in {"submit", "launch"} => task[v].lookup # sequence + 1
    BY <1>3 DEF BotInv, Fresh
  <2>3. \A l \in Lookups : run'[l] # "none" => l <= sequence' /\ owner'[l] \in Chats
    BY <1>1, <1>3 DEF BotInv, Fresh, Lookups
  <2>4. ASSUME NEW v \in Workers, task'[v].at \in {"submit", "launch"}
        PROVE  /\ task'[v].lookup \in 1 .. sequence' /\ run'[task'[v].lookup] = "none"
               /\ \A u \in Workers \ {v} :
                    task'[u].at \in {"submit", "launch"} => task'[u].lookup # task'[v].lookup
    <3>1. CASE v = w
      BY <1>1, <1>3, <1>4, <1>5, <2>1, <2>2, <3>1
    <3>2. CASE v # w
      BY <1>1, <1>3, <1>4, <1>5, <2>2, <2>4, <3>2 DEF BotInv, Fresh
    <3> QED
      BY <3>1, <3>2
  <2> QED
    BY <2>3, <2>4 DEF Fresh
<1>10. Registered' /\ AboutSubmitted' /\ SlotsCounted'
  BY <1>1, <1>2, CancelEffect DEF BotInv, Registered, AboutSubmitted, SlotsCounted, Looking
<1>11. SnapshotCurrent'
  BY <1>1, <1>2, <1>4, <1>5, <1>6 DEF BotInv, SnapshotCurrent, Current
<1>12. Attended'
  <2>1. \A d \in Chats : (Clearing(d) => Clearing(d)') /\ (Launching(d) => Launching(d)')
    BY <1>1, <1>5 DEF Clearing, Launching
  <2>2. session[c].step # "waiting_lookup"
    BY <1>1, <1>6
  <2>3. ASSUME NEW d \in Chats, session'[d].step = "waiting_lookup", ~stopping'
        PROVE  \/ Clearing(d)' \/ Launching(d)'
               \/ active'[d] = session'[d].lookup /\ active'[d] \in (Looking \ cancelled)'
    BY <1>1, <1>2, <2>1, <2>2, <2>3, CancelAttends DEF BotInv, Attended
  <2>4. \A v \in Workers :
          task'[v].at = "launch" => WaitsFor(task[v].chat, task[v].lookup)'
    BY <1>1, <1>4, <1>5 DEF BotInv, Attended, WaitsFor
  <2>5. \A l \in Lookups :
          run'[l] \in {"release", "unregister", "done"} /\ WaitsFor(owner[l], l)' => Ended(l)'
    BY <1>1, <1>2, CancelEffect DEF BotInv, Attended, WaitsFor, Ended
  <2> QED
    BY <2>3, <2>4, <2>5 DEF Attended
<1> QED
  BY <1>7, <1>8, <1>9, <1>10, <1>11, <1>12 DEF BotInv

(* A handler writes the session of its chat: to a step that waits for no   *)
(* lookup, or without touching what the dialogue is about.                 *)
Settles(c, s) ==
    \/ s.step \notin {"waiting_lookup", "waiting_min_price", "waiting_max_price"}
    \/ /\ s.step = "waiting_max_price" /\ session[c].step = "waiting_min_price"
       /\ s.lookup = session[c].lookup
    \/ s.step = session[c].step /\ s.lookup = session[c].lookup

(* What the handlers that end by writing a session have in common. *)
LEMMA WriteInv ==
    ASSUME BotInv, NEW w \in Workers, NEW X \in Task, NEW s \in Session,
           task[w].at \notin {"free", "clear", "launch"} \/ s.step # "waiting_lookup",
           task[w].at # "free", Settles(task[w].chat, s),
           task' = [task EXCEPT ![w] = X],
           session' = [session EXCEPT ![task[w].chat] = s],
           UNCHANGED <<sequence, submitted, lookupVars, stopping>>,
           X = Free \/ (X.chat = task[w].chat /\ X.at = "refresh")
    PROVE  BotInv'
<1> USE Constants
<1> DEFINE c == task[w].chat
<1>1. /\ task'[w] = X /\ \A v \in Workers \ {w} : task'[v] = task[v]
      /\ UNCHANGED <<sequence, submitted, active, slots, run, owner, cancelled, stopping>>
  BY DEF BotInv, Typed, lookupVars
<1>2. /\ c \in Chats /\ Route[c] = w /\ \A v \in Workers : task[v].chat = c => v = w
  BY OwnWorker
<1>3. session'[c] = s /\ \A d \in Chats \ {c} : session'[d] = session[d]
  BY <1>2 DEF BotInv, Typed
<1>4. X.at \in {"free", "refresh"} /\ X.chat \in {NoChat, c}
  BY <1>1
<1> HIDE DEF c
<1>5. Typed'
  <2>1. session' \in [Chats -> Session]
    BY DEF BotInv, Typed
  <2> QED
    BY <1>1, <2>1 DEF BotInv, Typed
<1>6. InTurn'
  <2>1. task'[w] = Free \/ (task'[w].at # "free" /\ task'[w].chat = c)
    BY <1>1 DEF c
  <2> QED
    BY <1>1, <1>2, <2>1 DEF BotInv, InTurn
<1>7. Fresh' /\ Registered' /\ SlotsCounted'
  BY <1>1, <1>4 DEF BotInv, Fresh, Registered, SlotsCounted, Looking
<1>8. SnapshotCurrent'
  <2>1. \A v \in Workers \ {w} : task[v].at # "free" => session'[task[v].chat] = session[task[v].chat]
    BY <1>2, <1>3, OwnWorker DEF c
  <2> QED
    BY <1>1, <1>4, <2>1 DEF BotInv, SnapshotCurrent
<1>9. AboutSubmitted'
  <2>1. Settles(c, s)
    BY DEF c
  <2> QED
    BY <1>1, <1>2, <1>3, <2>1 DEF BotInv, AboutSubmitted, Settles
<1>10. Attended'
  <2>0. Settles(c, s)
    BY DEF c
  <2>1. ASSUME NEW d \in Chats \ {c}
        PROVE  (Clearing(d) => Clearing(d)') /\ (Launching(d) => Launching(d)')
    BY <1>1, <1>3 DEF Clearing, Launching, c
  <2>2. ASSUME NEW d \in Chats, session'[d].step = "waiting_lookup", ~stopping'
        PROVE  \/ Clearing(d)' \/ Launching(d)'
               \/ active'[d] = session'[d].lookup /\ active'[d] \in (Looking \ cancelled)'
    <3>1. CASE d # c
      BY <1>1, <1>3, <2>1, <2>2, <3>1 DEF BotInv, Attended, Looking
    <3>2. CASE d = c
      <4>1. s.step = "waiting_lookup" /\ s.step = session[c].step /\ s.lookup = session[c].lookup
        BY <1>3, <2>0, <2>2, <3>2 DEF Settles
      <4>2. ~Clearing(c) /\ ~Launching(c)
        BY <1>2, <4>1 DEF Clearing, Launching, c
      <4> QED
        BY <1>1, <1>3, <2>2, <3>2, <4>1, <4>2 DEF BotInv, Attended, Looking
    <3> QED
      BY <3>1, <3>2
  <2>3. ASSUME NEW v \in Workers, task'[v].at = "launch"
        PROVE  WaitsFor(task[v].chat, task[v].lookup)'
    <3>1. v # w /\ task'[v] = task[v] /\ task[v].chat # c /\ task[v].chat \in Chats
      BY <1>1, <1>2, <1>4, <2>3, OwnWorker
    <3> QED
      BY <1>3, <2>3, <3>1 DEF BotInv, Attended, WaitsFor
  <2>4. ASSUME NEW l \in Lookups, run'[l] \in {"release", "unregister", "done"},
               WaitsFor(owner[l], l)'
        PROVE  Ended(l)'
    <3>1. owner[l] \in Chats
      BY <1>1, <2>4 DEF BotInv, Fresh
    <3>2. WaitsFor(owner[l], l)
      BY <1>1, <1>3, <2>0, <2>4, <3>1 DEF WaitsFor, Settles
    <3> QED
      BY <1>1, <2>4, <3>2 DEF BotInv, Attended, Ended
  <2> QED
    BY <2>2, <2>3, <2>4 DEF Attended
<1> QED
  BY <1>5, <1>6, <1>7, <1>8, <1>9, <1>10 DEF BotInv

(* The session waits for a lookup that nothing can report yet. *)
LEMMA WaitInv ==
    ASSUME BotInv, NEW w \in Workers, WaitForLookup(w)
    PROVE  BotInv'
<1> USE Constants
<1> DEFINE c == task[w].chat
           l == task[w].lookup
           X == [task[w] EXCEPT !.at = "launch"]
           s == Result(c, l, "waiting_lookup")
<1>1. /\ task[w].at = "submit" /\ task' = [task EXCEPT ![w] = X]
      /\ session' = [session EXCEPT ![c] = s] /\ submitted' = [submitted EXCEPT ![c] = l]
      /\ UNCHANGED <<sequence, active, slots, run, owner, cancelled, stopping>>
  BY DEF WaitForLookup, At, GoTo, lookupVars
<1>2. /\ task[w] \in Task /\ c \in Chats /\ Route[c] = w /\ l \in 0 .. MaxLookups
      /\ \A v \in Workers : task[v].chat = c => v = w
  BY <1>1, OwnWorker
<1>3. X \in Task /\ X.chat = c /\ X.at = "launch" /\ X.lookup = l
  <2>1. "launch" \in Places
    BY DEF Places
  <2> QED
    BY <1>2, <2>1 DEF Task
<1>4. s \in Session /\ s.step = "waiting_lookup" /\ s.lookup = l
  <2>1. session[c] \in Session
    BY <1>2 DEF BotInv, Typed
  <2> QED
    BY <1>2, <2>1 DEF Result, Session, Steps
<1>5. /\ task'[w] = X /\ \A v \in Workers \ {w} : task'[v] = task[v]
      /\ session'[c] = s /\ \A d \in Chats \ {c} : session'[d] = session[d]
      /\ submitted'[c] = l /\ \A d \in Chats \ {c} : submitted'[d] = submitted[d]
  BY <1>1, <1>2 DEF BotInv, Typed
<1>6. run[l] = "none"
  BY <1>1 DEF BotInv, Fresh
<1> HIDE DEF X, s, c, l
<1>7. Typed'
  <2>1. /\ session' \in [Chats -> Session] /\ submitted' \in [Chats -> 0 .. MaxLookups]
        /\ task' \in [Workers -> Task]
    BY <1>1, <1>2, <1>3, <1>4 DEF BotInv, Typed
  <2> QED
    BY <1>1, <2>1 DEF BotInv, Typed
<1>8. InTurn' /\ AboutSubmitted'
  BY <1>2, <1>3, <1>4, <1>5 DEF BotInv, InTurn, AboutSubmitted
<1>9. Fresh'
  <2>1. \A v \in Workers :
          /\ task'[v].lookup = task[v].lookup
          /\ task'[v].at \in {"submit", "launch"} <=> task[v].at \in {"submit", "launch"}
    BY <1>1, <1>3, <1>5 DEF l
  <2> QED
    BY <1>1, <2>1 DEF BotInv, Fresh
<1>10. Registered' /\ SlotsCounted'
  BY <1>1 DEF BotInv, Registered, SlotsCounted, Looking
<1>11. SnapshotCurrent'
  <2>1. \A v \in Workers \ {w} : task[v].at # "free" => session'[task[v].chat] = session[task[v].chat]
    BY <1>2, <1>5, OwnWorker DEF c
  <2> QED
    BY <1>3, <1>5, <2>1 DEF BotInv, SnapshotCurrent
<1>12. Attended'
  <2>1. ASSUME NEW d \in Chats, d = c PROVE Launching(d)'
    BY <1>3, <1>4, <1>5, <2>1 DEF Launching
  <2>2. ASSUME NEW d \in Chats \ {c}
        PROVE  (Clearing(d) => Clearing(d)') /\ (Launching(d) => Launching(d)')
    BY <1>5, <2>2 DEF Clearing, Launching, c
  <2>3. ASSUME NEW d \in Chats, session'[d].step = "waiting_lookup", ~stopping'
        PROVE  \/ Clearing(d)' \/ Launching(d)'
               \/ active'[d] = session'[d].lookup /\ active'[d] \in (Looking \ cancelled)'
    BY <1>1, <1>5, <2>1, <2>2, <2>3 DEF BotInv, Attended, Looking
  <2>4. ASSUME NEW v \in Workers, task'[v].at = "launch"
        PROVE  WaitsFor(task[v].chat, task[v].lookup)'
    <3>1. CASE v = w
      BY <1>3, <1>4, <1>5, <3>1 DEF WaitsFor
    <3>2. CASE v # w
      <4>1. task'[v] = task[v] /\ task[v].chat # c /\ task[v].chat \in Chats
        BY <1>2, <1>5, <2>4, <3>2, OwnWorker
      <4> QED
        BY <1>5, <2>4, <4>1 DEF BotInv, Attended, WaitsFor
    <3> QED
      BY <3>1, <3>2
  <2>5. ASSUME NEW k \in Lookups, run'[k] \in {"release", "unregister", "done"},
               WaitsFor(owner[k], k)'
        PROVE  Ended(k)'
    <3>1. owner[k] \in Chats /\ k # l
      BY <1>1, <1>6, <2>5 DEF BotInv, Fresh
    <3>2. WaitsFor(owner[k], k)
      BY <1>1, <1>4, <1>5, <2>5, <3>1 DEF WaitsFor
    <3> QED
      BY <1>1, <2>5, <3>2 DEF BotInv, Attended, Ended
  <2> QED
    BY <2>3, <2>4, <2>5 DEF Attended
<1> QED
  BY <1>7, <1>8, <1>9, <1>10, <1>11, <1>12 DEF BotInv

(* A lookup starts under a number nobody has used. *)
LEMMA LaunchInv ==
    ASSUME BotInv, NEW w \in Workers, LaunchLookup(w)
    PROVE  BotInv'
<1> USE Constants
<1> DEFINE c == task[w].chat
           l == task[w].lookup
<1>1. /\ task[w].at = "launch" /\ task' = [task EXCEPT ![w] = Free]
      /\ slots < MaxSlots /\ slots' = slots + 1
      /\ active' = [active EXCEPT ![c] = l] /\ run' = [run EXCEPT ![l] = "starting"]
      /\ owner' = [owner EXCEPT ![l] = c]
      /\ UNCHANGED <<session, sequence, submitted, cancelled, stopping>>
  BY DEF LaunchLookup, At, Done
<1>2. /\ c \in Chats /\ Route[c] = w /\ \A v \in Workers : task[v].chat = c => v = w
  BY <1>1, OwnWorker
<1>3. /\ l \in 1 .. sequence /\ run[l] = "none" /\ sequence \in 0 .. MaxLookups
      /\ \A v \in Workers \ {w} : task[v].at \in {"submit", "launch"} => task[v].lookup # l
  BY <1>1 DEF BotInv, Typed, Fresh
<1>4. l \in Lookups /\ l \notin cancelled
  BY <1>3 DEF Lookups, BotInv, Registered
<1>5. WaitsFor(c, l)
  BY <1>1 DEF BotInv, Attended
<1>6. /\ task'[w] = Free /\ \A v \in Workers \ {w} : task'[v] = task[v]
      /\ active'[c] = l /\ \A d \in Chats \ {c} : active'[d] = active[d]
      /\ run'[l] = "starting" /\ \A k \in Lookups \ {l} : run'[k] = run[k]
      /\ owner'[l] = c /\ \A k \in Lookups \ {l} : owner'[k] = owner[k]
  BY <1>1, <1>2, <1>4 DEF BotInv, Typed
<1> HIDE DEF c, l
<1>7. Typed'
  <2>1. /\ active' \in [Chats -> 0 .. MaxLookups] /\ run' \in [Lookups -> Runs]
        /\ owner' \in [Lookups -> Chats \cup {NoChat}] /\ task' \in [Workers -> Task]
    BY <1>1, <1>2, <1>3, <1>4 DEF BotInv, Typed, Runs
  <2> QED
    BY <1>1, <2>1 DEF BotInv, Typed
<1>8. InTurn' /\ AboutSubmitted' /\ SnapshotCurrent'
  BY <1>1, <1>6 DEF BotInv, InTurn, AboutSubmitted, SnapshotCurrent
<1>9. Fresh'
  <2>1. ASSUME NEW v \in Workers, task'[v].at \in {"submit", "launch"}
        PROVE  /\ task'[v].lookup \in 1 .. sequence' /\ run'[task'[v].lookup] = "none"
               /\ \A u \in Workers \ {v} :
                    task'[u].at \in {"submit", "launch"} => task'[u].lookup # task'[v].lookup
    <3>1. v # w /\ task'[v] = task[v]
      BY <1>6, <2>1
    <3>2. task[v].lookup \in 1 .. sequence /\ run[task[v].lookup] = "none" /\ task[v].lookup # l
      BY <1>3, <2>1, <3>1 DEF BotInv, Fresh
    <3>3. run'[task[v].lookup] = "none"
      BY <1>3, <1>6, <3>2 DEF Lookups
    <3>4. \A u \in Workers \ {v} :
            task'[u].at \in {"submit", "launch"} => task'[u].lookup # task'[v].lookup
      BY <1>6, <2>1, <3>1 DEF BotInv, Fresh
    <3> QED
      BY <1>1, <3>1, <3>2, <3>3, <3>4
  <2>2. \A k \in Lookups : run'[k] # "none" => k <= sequence' /\ owner'[k] \in Chats
    BY <1>1, <1>2, <1>3, <1>6 DEF BotInv, Fresh
  <2> QED
    BY <2>1, <2>2 DEF Fresh
<1>10. Registered'
  <2>1. ASSUME NEW d \in Chats, active'[d] # 0
        PROVE  run'[active'[d]] # "none" /\ owner'[active'[d]] = d
    <3>1. CASE d = c
      <4>1. active'[d] = l /\ owner'[l] = d /\ run'[l] # "none"
        BY <1>6, <3>1
      <4> QED
        BY <4>1
    <3>2. CASE d # c
      <4>1. active[d] \in Lookups /\ active[d] # l /\ run[active[d]] # "none" /\ owner[active[d]] = d
        BY <1>3, <1>6, <2>1, <3>2 DEF BotInv, Typed, Registered, Lookups
      <4>2. active'[d] = active[d]
        BY <1>6, <3>2
      <4>3. run'[active[d]] = run[active[d]] /\ owner'[active[d]] = owner[active[d]]
        BY <1>6, <4>1
      <4> QED
        BY <4>1, <4>2, <4>3
    <3> QED
      BY <3>1, <3>2
  <2>2. \A k \in cancelled' : run'[k] # "none"
    BY <1>1, <1>4, <1>6 DEF BotInv, Typed, Registered
  <2> QED
    BY <2>1, <2>2 DEF Registered
<1>11. SlotsCounted'
  <2>1. Looking' = Looking \cup {l} /\ l \notin Looking
    <3>1. l \in Looking' /\ l \notin Looking
      BY <1>3, <1>4, <1>6 DEF Looking
    <3>2. \A k \in Lookups \ {l} : k \in Looking' <=> k \in Looking
      BY <1>6 DEF Looking
    <3> QED
      BY <1>4, <3>1, <3>2 DEF Looking
  <2>2. IsFiniteSet(Looking)
    <3>1. IsFiniteSet(Lookups)
      BY FS_Interval DEF Lookups
    <3> QED
      BY <3>1, FS_Subset DEF Looking
  <2>3. Cardinality(Looking') = Cardinality(Looking) + 1 /\ Cardinality(Looking) \in Nat
    BY <2>1, <2>2, FS_AddElement, FS_CardinalityType
  <2> QED
    BY <1>1, <2>3 DEF BotInv, SlotsCounted
<1>12. Attended'
  <2>1. ASSUME NEW d \in Chats, session'[d].step = "waiting_lookup", ~stopping'
        PROVE  \/ Clearing(d)' \/ Launching(d)'
               \/ active'[d] = session'[d].lookup /\ active'[d] \in (Looking \ cancelled)'
    <3>1. CASE d = c
      BY <1>1, <1>4, <1>5, <1>6, <3>1 DEF WaitsFor, Looking
    <3>2. CASE d # c
      <4>1. (Clearing(d) => Clearing(d)') /\ (Launching(d) => Launching(d)')
        BY <1>1, <1>6, <3>2 DEF Clearing, Launching, c
      <4>2. active[d] \in Looking \ cancelled => active[d] # l /\ active'[d] \in (Looking \ cancelled)'
        BY <1>1, <1>3, <1>6, <3>2 DEF Looking
      <4> QED
        BY <1>1, <1>6, <2>1, <3>2, <4>1, <4>2 DEF BotInv, Attended
    <3> QED
      BY <3>1, <3>2
  <2>2. \A v \in Workers :
          task'[v].at = "launch" => WaitsFor(task[v].chat, task[v].lookup)'
    BY <1>1, <1>6 DEF BotInv, Attended, WaitsFor
  <2>3. ASSUME NEW k \in Lookups, run'[k] \in {"release", "unregister", "done"},
               WaitsFor(owner[k], k)'
        PROVE  Ended(k)'
    BY <1>1, <1>6, <2>3 DEF BotInv, Attended, WaitsFor, Ended
  <2> QED
    BY <2>1, <2>2, <2>3 DEF Attended
<1> QED
  BY <1>7, <1>8, <1>9, <1>10, <1>11, <1>12 DEF BotInv

-----------------------------------------------------------------------------
(* Lookups. *)

(* The goroutine of a lookup goes on while it holds its slot.              *)
LEMMA RunInv ==
    ASSUME BotInv, NEW l \in Lookups, NEW to \in Runs \ {"none", "unregister", "done"},
           run[l] \notin {"none", "release", "unregister", "done"},
           run' = [run EXCEPT ![l] = to],
           UNCHANGED <<chatVars, active, slots, owner, cancelled, stopping>>,
           to = "release" => Ended(l)
    PROVE  BotInv'
<1> USE Constants
<1>1. /\ run'[l] = to /\ \A k \in Lookups \ {l} : run'[k] = run[k]
      /\ UNCHANGED <<session, task, sequence, submitted, active, slots, owner, cancelled, stopping>>
      /\ run' \in [Lookups -> Runs]
  BY DEF BotInv, Typed, chatVars
<1>2. Looking' = Looking
  BY <1>1 DEF Looking
<1>3. Typed' /\ InTurn' /\ SnapshotCurrent' /\ AboutSubmitted' /\ SlotsCounted'
  BY <1>1, <1>2 DEF BotInv, Typed, InTurn, SnapshotCurrent, AboutSubmitted, SlotsCounted
<1>4. \A k \in Lookups : run'[k] = "none" <=> run[k] = "none"
  BY <1>1
<1>5. Fresh'
  <2>1. \A v \in Workers : task[v].at \in {"submit", "launch"} => task[v].lookup \in Lookups
    BY DEF BotInv, Fresh, Typed, Lookups
  <2> QED
    BY <1>1, <1>4, <2>1 DEF BotInv, Fresh
<1>6. Registered'
  <2>1. \A c \in Chats : active[c] # 0 => active[c] \in Lookups
    BY DEF BotInv, Typed, Lookups
  <2> QED
    BY <1>1, <1>4, <2>1 DEF BotInv, Typed, Registered
<1>7. Attended'
  <2>1. \A c \in Chats : Clearing(c)' = Clearing(c) /\ Launching(c)' = Launching(c)
    BY <1>1 DEF Clearing, Launching
  <2>2. \A k \in Lookups :
          run'[k] \in {"release", "unregister", "done"} /\ WaitsFor(owner[k], k)' => Ended(k)'
    BY <1>1 DEF BotInv, Attended, WaitsFor, Ended
  <2> QED
    BY <1>1, <1>2, <2>1, <2>2 DEF BotInv, Attended, WaitsFor
<1> QED
  BY <1>3, <1>5, <1>6, <1>7 DEF BotInv

(* A result replaces the session only of a chat that waits for this lookup, *)
(* with one that no longer does.                                           *)
LEMMA ReportInv ==
    ASSUME BotInv, NEW l \in Lookups, Report(l) \/ Apologise(l)
    PROVE  BotInv'
<1> USE Constants
<1> DEFINE c == owner[l]
           new == IF Report(l) THEN Result(c, l, "waiting_min_price") ELSE Result(c, 0, "idle")
<1>1. /\ run[l] \in {"report", "apologise"} /\ run' = [run EXCEPT ![l] = "release"]
      /\ session' = IF WaitsFor(c, l) THEN [session EXCEPT ![c] = new] ELSE session
      /\ UNCHANGED <<task, sequence, submitted, active, slots, owner, cancelled, stopping>>
  BY DEF Report, Apologise, Move, CompleteLookup
<1>2. c \in Chats
  BY <1>1 DEF BotInv, Fresh
<1>3. /\ new \in Session /\ new.step \in {"waiting_min_price", "idle"}
      /\ new.step = "waiting_min_price" => new.lookup = l
      /\ WaitsFor(c, l) => LookupEnded(session[c], new)
  <2>1. session[c] \in Session /\ l \in 0 .. MaxLookups
    BY <1>2 DEF BotInv, Typed, Lookups
  <2>2. WaitsFor(c, l) =>
          /\ Result(c, l, "waiting_min_price") = [session[c] EXCEPT !.step = "waiting_min_price"]
          /\ Result(c, 0, "idle") = [session[c] EXCEPT !.step = "idle", !.lookup = 0]
    <3> SUFFICES ASSUME session[c].step = "waiting_lookup", session[c].lookup = l
                 PROVE  /\ Result(c, l, "waiting_min_price")
                              = [session[c] EXCEPT !.step = "waiting_min_price"]
                        /\ Result(c, 0, "idle") = [session[c] EXCEPT !.step = "idle", !.lookup = 0]
      BY DEF WaitsFor
    <3> DEFINE a == [session[c] EXCEPT !.step = "waiting_min_price"]
               b == [session[c] EXCEPT !.step = "idle", !.lookup = 0]
    <3>1. /\ a \in Session /\ a.step = "waiting_min_price" /\ a.lookup = l
          /\ a.page = session[c].page
          /\ b \in Session /\ b.step = "idle" /\ b.lookup = 0 /\ b.page = session[c].page
      BY <2>1 DEF Session, Steps
    <3>2. /\ Result(c, l, "waiting_min_price") \in Session /\ Result(c, 0, "idle") \in Session
      BY <2>1 DEF Result, Session, Steps
    <3> HIDE DEF a, b
    <3>3. a = Result(c, l, "waiting_min_price") /\ b = Result(c, 0, "idle")
      BY <3>1, <3>2, SameSession DEF Result
    <3> QED
      BY <3>3 DEF a, b
  <2>3. WaitsFor(c, l) => LookupEnded(session[c], new)
    BY <2>2 DEF LookupEnded, WaitsFor
  <2> QED
    BY <2>1, <2>3 DEF Result, Session, Steps
<1> HIDE DEF new, c
<1>4. /\ run'[l] = "release" /\ \A k \in Lookups \ {l} : run'[k] = run[k]
      /\ run' \in [Lookups -> Runs]
      /\ \A d \in Chats \ {c} : session'[d] = session[d]
      /\ WaitsFor(c, l) => session'[c] = new
      /\ ~WaitsFor(c, l) => session'[c] = session[c]
      /\ session' \in [Chats -> Session]
  BY <1>1, <1>2, <1>3 DEF BotInv, Typed, Runs
<1>5. Looking' = Looking
  BY <1>1, <1>4 DEF Looking
<1>6. Typed' /\ InTurn' /\ SlotsCounted'
  BY <1>1, <1>4, <1>5 DEF BotInv, Typed, InTurn, SlotsCounted
<1>7. \A k \in Lookups : run'[k] = "none" <=> run[k] = "none"
  BY <1>1, <1>4
<1>8. Fresh' /\ Registered'
  <2>1. \A v \in Workers : task[v].at \in {"submit", "launch"} => task[v].lookup \in Lookups
    BY DEF BotInv, Fresh, Typed, Lookups
  <2>2. \A d \in Chats : active[d] # 0 => active[d] \in Lookups
    BY DEF BotInv, Typed, Lookups
  <2>3. Fresh'
    BY <1>1, <1>7, <2>1 DEF BotInv, Fresh
  <2>4. Registered'
    BY <1>1, <1>7, <2>2 DEF BotInv, Typed, Registered
  <2> QED
    BY <2>3, <2>4
<1>9. SnapshotCurrent'
  <2>1. ASSUME NEW w \in Workers,
               task[w].at \in {"text", "edit", "clear", "submit", "accepted"}
        PROVE  Current(task[w], session'[task[w].chat])
    <3>1. Current(task[w], session[task[w].chat]) /\ task[w].chat \in Chats
      BY <2>1, OwnWorker DEF BotInv, SnapshotCurrent
    <3>2. CASE task[w].chat = c /\ WaitsFor(c, l)
      <4>1. session[c].step = "waiting_lookup"
        BY <3>2 DEF WaitsFor
      <4>2. ~LookupEnded(task[w].sess, session[c])
        BY <2>1, <4>1, OwnWorker DEF LookupEnded, Session
      <4> QED
        BY <1>3, <1>4, <3>1, <3>2, <4>2 DEF Current
    <3>3. CASE ~(task[w].chat = c /\ WaitsFor(c, l))
      BY <1>4, <3>1, <3>3
    <3> QED
      BY <3>2, <3>3
  <2> QED
    BY <1>1, <2>1 DEF BotInv, SnapshotCurrent
<1>10. AboutSubmitted'
  BY <1>1, <1>3, <1>4 DEF BotInv, AboutSubmitted, WaitsFor
<1>11. Attended'
  <2>1. ASSUME NEW d \in Chats, session'[d].step = "waiting_lookup"
        PROVE  session'[d] = session[d]
    BY <1>3, <1>4, <2>1
  <2>2. ASSUME NEW d \in Chats, session'[d] = session[d]
        PROVE  (Clearing(d) => Clearing(d)') /\ (Launching(d) => Launching(d)')
    BY <1>1, <2>2 DEF Clearing, Launching
  <2>3. ASSUME NEW d \in Chats, session'[d].step = "waiting_lookup", ~stopping'
        PROVE  \/ Clearing(d)' \/ Launching(d)'
               \/ active'[d] = session'[d].lookup /\ active'[d] \in (Looking \ cancelled)'
    BY <1>1, <1>5, <2>1, <2>2, <2>3 DEF BotInv, Attended
  <2>4. ASSUME NEW w \in Workers, task'[w].at = "launch"
        PROVE  WaitsFor(task[w].chat, task[w].lookup)'
    <3>1. run[task[w].lookup] = "none" /\ WaitsFor(task[w].chat, task[w].lookup)
      BY <1>1, <2>4 DEF BotInv, Fresh, Attended
    <3>2. task[w].lookup # l /\ task[w].chat \in Chats
      BY <1>1, <2>4, <3>1, OwnWorker
    <3>3. session'[task[w].chat] = session[task[w].chat]
      BY <1>4, <3>1, <3>2 DEF WaitsFor
    <3> QED
      BY <1>1, <3>1, <3>3 DEF WaitsFor
  <2>5. ASSUME NEW k \in Lookups, run'[k] \in {"release", "unregister", "done"},
               WaitsFor(owner[k], k)'
        PROVE  Ended(k)'
    <3>1. owner[k] \in Chats /\ session'[owner[k]] = session[owner[k]]
      BY <1>1, <1>7, <2>1, <2>5 DEF BotInv, Fresh, WaitsFor
    <3>2. WaitsFor(owner[k], k)
      BY <1>1, <2>5, <3>1 DEF WaitsFor
    <3>3. k # l
      BY <1>3, <1>4, <2>5, <3>1, <3>2 DEF WaitsFor, c
    <3> QED
      BY <1>1, <1>4, <2>5, <3>2, <3>3 DEF BotInv, Attended, Ended
  <2> QED
    BY <2>3, <2>4, <2>5 DEF Attended
<1> QED
  BY <1>6, <1>8, <1>9, <1>10, <1>11 DEF BotInv

(* The deferred function: the slot first, then the entry.                  *)
LEMMA WindUpInv ==
    ASSUME BotInv, NEW l \in Lookups, ReleaseSlot(l) \/ Unregister(l)
    PROVE  BotInv'
<1> USE Constants
<1>1. /\ run[l] \in {"release", "unregister"}
      /\ run' = [run EXCEPT ![l] = IF run[l] = "release" THEN "unregister" ELSE "done"]
      /\ UNCHANGED <<session, task, sequence, submitted, owner, cancelled, stopping>>
  BY DEF ReleaseSlot, Unregister, Move, chatVars
<1>2. \/ /\ run[l] = "release" /\ slots' = slots - 1 /\ active' = active
      \/ /\ run[l] = "unregister" /\ slots' = slots
         /\ active' = [active EXCEPT ![owner[l]] = IF @ = l THEN 0 ELSE @]
  BY DEF ReleaseSlot, Unregister, Move
<1>3. /\ run'[l] \in {"unregister", "done"} /\ \A k \in Lookups \ {l} : run'[k] = run[k]
      /\ run' \in [Lookups -> Runs]
  BY <1>1 DEF BotInv, Typed, Runs
<1>4. /\ active' \in [Chats -> 0 .. MaxLookups]
      /\ \A c \in Chats : \/ active'[c] = active[c]
                          \/ active'[c] = 0 /\ active[c] = l /\ run[l] = "unregister"
  BY <1>2 DEF BotInv, Typed
<1>5. \A k \in Lookups : run'[k] = "none" <=> run[k] = "none"
  BY <1>1, <1>3
<1>6. Typed' /\ InTurn' /\ SnapshotCurrent' /\ AboutSubmitted'
  BY <1>1, <1>3, <1>4 DEF BotInv, Typed, InTurn, SnapshotCurrent, AboutSubmitted
<1>7. Fresh' /\ Registered'
  <2>1. \A v \in Workers : task[v].at \in {"submit", "launch"} => task[v].lookup \in Lookups
    BY DEF BotInv, Fresh, Typed, Lookups
  <2>2. \A d \in Chats : active[d] # 0 => active[d] \in Lookups
    BY DEF BotInv, Typed, Lookups
  <2>3. Fresh'
    BY <1>1, <1>5, <2>1 DEF BotInv, Fresh
  <2>4. Registered'
    BY <1>1, <1>4, <1>5, <2>2 DEF BotInv, Typed, Registered
  <2> QED
    BY <2>3, <2>4
<1>8. Looking' = Looking \ {l}
  BY <1>3 DEF Looking
<1>9. SlotsCounted'
  <2>1. IsFiniteSet(Looking)
    <3>1. IsFiniteSet(Lookups)
      BY FS_Interval DEF Lookups
    <3> QED
      BY <3>1, FS_Subset DEF Looking
  <2>2. Cardinality(Looking) \in Nat
    BY <2>1, FS_CardinalityType
  <2>3. CASE run[l] = "release"
    <3>1. l \in Looking
      BY <2>3 DEF Looking
    <3>2. Cardinality(Looking') = Cardinality(Looking) - 1
      BY <1>8, <2>1, <3>1, FS_RemoveElement
    <3> QED
      BY <1>2, <2>2, <2>3, <3>2 DEF BotInv, SlotsCounted
  <2>4. CASE run[l] = "unregister"
    <3>1. Looking' = Looking
      BY <1>8, <2>4 DEF Looking
    <3> QED
      BY <1>2, <2>4, <3>1 DEF BotInv, SlotsCounted
  <2> QED
    BY <1>1, <2>3, <2>4
<1>10. Attended'
  <2>1. \A c \in Chats : (Clearing(c) => Clearing(c)') /\ (Launching(c) => Launching(c)')
    BY <1>1 DEF Clearing, Launching
  <2>2. ASSUME NEW d \in Chats, session'[d].step = "waiting_lookup", ~stopping'
        PROVE  \/ Clearing(d)' \/ Launching(d)'
               \/ active'[d] = session'[d].lookup /\ active'[d] \in (Looking \ cancelled)'
    <3>1. CASE Clearing(d) \/ Launching(d)
      BY <2>1, <3>1
    <3>2. CASE active[d] = session[d].lookup /\ active[d] \in Looking \ cancelled
      <4>1. active[d] # l
        <5>1. SUFFICES ASSUME active[d] = l PROVE FALSE
          OBVIOUS
        <5>2. owner[l] = d /\ run[l] = "release"
          BY <1>1, <3>2, <5>1 DEF BotInv, Registered, Looking
        <5>3. WaitsFor(owner[l], l)
          BY <1>1, <2>2, <3>2, <5>1, <5>2 DEF WaitsFor
        <5> QED
          BY <1>1, <2>2, <3>2, <5>1, <5>2, <5>3 DEF BotInv, Attended, Ended
      <4> QED
        BY <1>1, <1>4, <1>8, <3>2, <4>1
    <3> QED
      BY <1>1, <2>2, <3>1, <3>2 DEF BotInv, Attended
  <2>3. \A k \in Lookups :
          run'[k] \in {"release", "unregister", "done"} /\ WaitsFor(owner[k], k)' => Ended(k)'
    BY <1>1, <1>3 DEF BotInv, Attended, WaitsFor, Ended
  <2> QED
    BY <1>1, <2>2, <2>3 DEF BotInv, Attended, WaitsFor
<1> QED
  BY <1>6, <1>7, <1>9, <1>10 DEF BotInv

-----------------------------------------------------------------------------

(* A message whose handler only answers, asks the Gateway, or takes it up. *)
LEMMA QuietHandlers ==
    ASSUME BotInv, NEW w \in Workers,
           \/ \E c \in Chats : BeginUpdate(w, c)
           \/ GiveUp(w) \/ EnterMaxPrice(w) \/ ChangeSubscription(w)
    PROVE  BotInv'
<1> USE Constants
<1>1. ASSUME NEW c \in Chats, BeginUpdate(w, c)
      PROVE  BotInv'
  <2>1. PICK a \in {"text", "edit", "list", "page", "change", "read"} : Begin(w, c, a)
    BY <1>1 DEF BeginUpdate
  <2> DEFINE X == [chat |-> c, at |-> a, sess |-> session[c], lookup |-> 0]
  <2>2. task' = [task EXCEPT ![w] = X] /\ task[w] = Free /\ Route[c] = w
    BY <2>1 DEF Begin, Routed
  <2>3. X \in Task /\ X.chat = c /\ X.at = a /\ Current(X, session[c])
    BY DEF BotInv, Typed, Task, Places, Current
  <2>4. UNCHANGED <<session, sequence, submitted, lookupVars, stopping>>
    BY <1>1 DEF BeginUpdate
  <2> HIDE DEF X
  <2> QED
    BY <2>1, <2>2, <2>3, <2>4, SilentInv
<1>2. CASE GiveUp(w)
  BY <1>2, SilentInv DEF GiveUp, Done
<1>3. CASE EnterMaxPrice(w) \/ ChangeSubscription(w)
  <2> DEFINE a == IF task[w].at = "text" THEN "accepted" ELSE "refresh"
             X == [task[w] EXCEPT !.at = a]
  <2>1. /\ task[w].at \in {"text", "change"} /\ task' = [task EXCEPT ![w] = X]
        /\ task[w].at = "text" => task[w].sess.step \in {"waiting_max_price", "editing_max_price"}
        /\ UNCHANGED <<session, sequence, submitted, lookupVars, stopping>>
    BY <1>3 DEF EnterMaxPrice, ChangeSubscription, GoTo, At
  <2>2. task[w] \in Task /\ task[w].chat \in Chats /\ Route[task[w].chat] = w
    BY <2>1, OwnWorker
  <2>3. a \in Places /\ a \in {"accepted", "refresh"} /\ (a = "accepted" => task[w].at = "text")
    BY DEF Places
  <2> HIDE DEF a
  <2>4. X \in Task /\ X.chat = task[w].chat /\ X.at = a /\ X.sess = task[w].sess
    BY <2>2, <2>3 DEF Task
  <2>5. a = "accepted" => Current(X, session[X.chat]) /\ X.sess.step # "waiting_lookup"
    BY <2>1, <2>3, <2>4 DEF BotInv, SnapshotCurrent, Current
  <2> HIDE DEF X
  <2> QED
    BY <2>1, <2>2, <2>3, <2>4, <2>5, SilentInv
<1> QED
  BY <1>1, <1>2, <1>3

(* The handlers that end by writing the session.                           *)
LEMMA WritingHandlers ==
    ASSUME BotInv, NEW w \in Workers,
           \/ Clear(w) \/ RefuseLookup(w) \/ EnterMinPrice(w) \/ FinishDialogue(w)
           \/ StartEdit(w) \/ ShowList(w) \/ TurnPage(w)
    PROVE  BotInv'
<1> USE Constants
<1> DEFINE c == task[w].chat
<1>0. /\ task[w].at # "free" /\ UNCHANGED <<sequence, submitted, lookupVars, stopping>>
  BY DEF Clear, RefuseLookup, EnterMinPrice, FinishDialogue, StartEdit, ShowList, TurnPage, At
<1>1. /\ task[w] \in Task /\ c \in Chats /\ Route[c] = w
      /\ session[c] \in Session /\ task[w].sess \in Session
  BY <1>0, OwnWorker DEF BotInv, Typed
<1>2. CASE Clear(w)
  <2>1. /\ session' = [session EXCEPT ![c] = Empty] /\ task' = [task EXCEPT ![w] = Free]
    BY <1>2 DEF Clear, Done
  <2>2. Settles(c, Empty) /\ Empty.step # "waiting_lookup"
    BY DEF Settles
  <2> QED
    BY <1>0, <2>1, <2>2, WriteInv
<1>3. CASE RefuseLookup(w)
  <2> DEFINE s == Result(c, 0, "idle")
  <2>1. WaitsFor(c, task[w].lookup)
    BY <1>3 DEF RefuseLookup, At, BotInv, Attended
  <2>2. /\ session' = [session EXCEPT ![c] = s] /\ task' = [task EXCEPT ![w] = Free]
    BY <1>3, <2>1 DEF RefuseLookup, Done, CompleteLookup
  <2>3. s \in Session /\ s.step = "idle"
    BY <1>1 DEF Result, Session, Steps
  <2> HIDE DEF s
  <2>4. Settles(c, s)
    BY <2>3 DEF Settles
  <2> QED
    BY <1>0, <2>2, <2>3, <2>4, WriteInv
<1>4. CASE EnterMinPrice(w)
  <2> DEFINE s == [task[w].sess EXCEPT !.step = Following[task[w].sess.step]]
  <2>1. /\ task[w].at = "text" /\ task[w].sess.step \in {"waiting_min_price", "editing_min_price"}
        /\ session' = [session EXCEPT ![c] = s] /\ task' = [task EXCEPT ![w] = Free]
    BY <1>4 DEF EnterMinPrice, Done, At, Following
  <2>2. session[c] = task[w].sess
    BY <2>1, CopyCurrent
  <2>3. /\ Following["waiting_min_price"] = "waiting_max_price"
        /\ Following["editing_min_price"] = "editing_max_price"
    BY DEF Following
  <2>4. /\ s \in Session /\ s.lookup = task[w].sess.lookup
        /\ s.step = Following[task[w].sess.step]
    BY <1>1, <2>1, <2>3 DEF Session, Steps
  <2> HIDE DEF s
  <2>5. s.step # "waiting_lookup" /\ Settles(c, s)
    BY <2>1, <2>2, <2>3, <2>4 DEF Settles
  <2> QED
    BY <1>0, <2>1, <2>4, <2>5, WriteInv
<1>5. CASE FinishDialogue(w)
  <2> DEFINE s == [Empty EXCEPT !.page = task[w].sess.page]
  <2>1. /\ session' = [session EXCEPT ![c] = s] /\ task' = [task EXCEPT ![w] = Free]
    BY <1>5 DEF FinishDialogue, Done
  <2>2. s \in Session /\ s.step = "idle"
    BY <1>1 DEF Session, Empty, Steps
  <2> HIDE DEF s
  <2>3. Settles(c, s) /\ s.step # "waiting_lookup"
    BY <2>2 DEF Settles
  <2> QED
    BY <1>0, <2>1, <2>2, <2>3, WriteInv
<1>6. CASE StartEdit(w)
  <2> DEFINE s == Result(c, 0, "editing_min_price")
  <2>1. /\ session' = [session EXCEPT ![c] = s] /\ task' = [task EXCEPT ![w] = Free]
    BY <1>6 DEF StartEdit, Done
  <2>2. s \in Session /\ s.step = "editing_min_price"
    BY <1>1 DEF Result, Session, Steps
  <2> HIDE DEF s
  <2>3. Settles(c, s) /\ s.step # "waiting_lookup"
    BY <2>2 DEF Settles
  <2> QED
    BY <1>0, <2>1, <2>2, <2>3, WriteInv
<1>7. CASE ShowList(w) \/ TurnPage(w)
  <2>1. /\ task[w].at \in {"list", "refresh", "page"}
        /\ \E p \in 0 .. MaxPage : session' = [session EXCEPT ![c].page = p]
    <3>1. CASE TurnPage(w)
      <4>1. PICK p \in 1 .. MaxPage : session' = [session EXCEPT ![c].page = p]
        BY <3>1 DEF TurnPage, SetPage
      <4>2. task[w].at = "page" /\ p \in 0 .. MaxPage
        BY <3>1 DEF TurnPage, At
      <4> QED
        BY <4>1, <4>2
    <3>2. CASE ShowList(w)
      <4>1. session[c].page \in 0 .. MaxPage
        BY <1>1 DEF Session
      <4>2. Shown(c) \subseteq 0 .. MaxPage
        BY <4>1 DEF Shown
      <4>3. 0 \in 0 .. MaxPage
        OBVIOUS
      <4>4. PICK p \in Shown(c) \cup {0} : session' = [session EXCEPT ![c].page = p]
        BY <3>2 DEF ShowList, SetPage
      <4>5. task[w].at \in {"list", "refresh"} /\ p \in 0 .. MaxPage
        BY <3>2, <4>2, <4>3 DEF ShowList
      <4> QED
        BY <4>4, <4>5
    <3> QED
      BY <1>7, <3>1, <3>2
  <2>2. PICK p \in 0 .. MaxPage : session' = [session EXCEPT ![c].page = p]
    BY <2>1
  <2> DEFINE s == [session[c] EXCEPT !.page = p]
             X == IF TurnPage(w) THEN [task[w] EXCEPT !.at = "refresh"] ELSE Free
  <2>3. session' = [session EXCEPT ![c] = s]
    BY <2>2
  <2>4. s \in Session /\ s.step = session[c].step /\ s.lookup = session[c].lookup
    BY <1>1 DEF Session
  <2>5. task' = [task EXCEPT ![w] = X]
    BY <1>7 DEF ShowList, TurnPage, Done, GoTo
  <2>6. X \in Task /\ (X = Free \/ (X.chat = c /\ X.at = "refresh"))
    <3>1. "refresh" \in Places
      BY DEF Places
    <3> QED
      BY <1>1, <3>1 DEF Task
  <2> HIDE DEF s, X
  <2>7. Settles(c, s)
    BY <2>4 DEF Settles
  <2> QED
    BY <1>0, <2>1, <2>3, <2>4, <2>5, <2>6, <2>7, WriteInv
<1> QED
  BY <1>2, <1>3, <1>4, <1>5, <1>6, <1>7

(* Every step of a lookup's goroutine.                                     *)
LEMMA LookInv ==
    ASSUME BotInv, NEW l \in Lookups, Look(l)
    PROVE  BotInv'
<1>1. CASE StartLookup(l) \/ PollFinds(l) \/ LookupFails(l) \/ CheckContext(l)
  <2>1. PICK to \in {"polling", "found", "lost", "report", "apologise", "release"} :
          /\ run[l] \in {"starting", "polling", "found", "lost"}
          /\ run' = [run EXCEPT ![l] = to]
          /\ to = "release" => Ended(l)
    BY <1>1 DEF StartLookup, PollFinds, LookupFails, CheckContext, Move
  <2>2. UNCHANGED <<chatVars, active, slots, owner, cancelled, stopping>>
    BY <1>1 DEF StartLookup, PollFinds, LookupFails, CheckContext
  <2>3. to \in Runs \ {"none", "unregister", "done"}
    BY <2>1 DEF Runs
  <2> QED
    BY <2>1, <2>2, <2>3, RunInv
<1> QED
  BY <1>1, ReportInv, WindUpInv DEF Look

(* When the context ends nothing is promised to who waits.                 *)
LEMMA StopInv == BotInv /\ Stop => BotInv'
<1> SUFFICES ASSUME BotInv, Stop PROVE BotInv'
  OBVIOUS
<1>1. /\ stopping' = TRUE
      /\ UNCHANGED <<session, task, sequence, submitted, active, slots, run, owner, cancelled>>
  BY DEF Stop, chatVars, lookupVars
<1>2. Typed'
  BY <1>1 DEF BotInv, Typed
<1>3. InTurn' /\ Fresh' /\ Registered' /\ SnapshotCurrent' /\ AboutSubmitted' /\ SlotsCounted'
  BY <1>1 DEF BotInv, InTurn, Fresh, Registered, SnapshotCurrent, AboutSubmitted,
     SlotsCounted, Looking
<1>4. Attended'
  BY <1>1 DEF BotInv, Attended, WaitsFor, Ended
<1> QED
  BY <1>2, <1>3, <1>4 DEF BotInv

(* At first nobody waits and nothing runs.                                 *)
LEMMA BotInit == Init => BotInv
<1> SUFFICES ASSUME Init PROVE BotInv
  OBVIOUS
<1> USE Constants
<1>1. /\ \A c \in Chats : session[c] = Empty /\ active[c] = 0
      /\ \A w \in Workers : task[w] = Free
      /\ \A l \in Lookups : run[l] = "none"
      /\ cancelled = {} /\ slots = 0
  BY DEF Init
<1>2. Typed
  <2>1. /\ session \in [Chats -> Session] /\ task \in [Workers -> Task]
        /\ sequence \in 0 .. MaxLookups /\ submitted \in [Chats -> 0 .. MaxLookups]
        /\ active \in [Chats -> 0 .. MaxLookups]
    BY DEF Init
  <2>2. run \in [Lookups -> Runs] /\ owner \in [Lookups -> Chats \cup {NoChat}]
    BY DEF Init, Runs
  <2>3. cancelled \subseteq Lookups /\ stopping \in BOOLEAN
    BY DEF Init
  <2> QED
    BY <2>1, <2>2, <2>3 DEF Typed
<1>3. InTurn /\ Fresh /\ Registered /\ SnapshotCurrent /\ AboutSubmitted /\ Attended
  BY <1>1 DEF InTurn, Fresh, Registered, SnapshotCurrent, AboutSubmitted, Attended
<1>4. Looking = {}
  BY <1>1 DEF Looking
<1>5. SlotsCounted
  BY <1>1, <1>4, FS_EmptySet DEF SlotsCounted
<1> QED
  BY <1>2, <1>3, <1>5 DEF BotInv

(* BotInv is inductive.                                                    *)
LEMMA BotStep == BotInv /\ [Next]_vars => BotInv'
<1> SUFFICES ASSUME BotInv, [Next]_vars PROVE BotInv'
  OBVIOUS
<1>1. CASE \E w \in Workers, c \in Chats : BeginCancel(w, c) \/ BeginUpdate(w, c)
  BY <1>1, BeginCancelInv, QuietHandlers
<1>2. CASE \E w \in Workers : Handle(w)
  BY <1>2, QuietHandlers, WritingHandlers, SubmitInv, WaitInv, LaunchInv DEF Handle
<1>3. CASE \E l \in Lookups : Look(l)
  BY <1>3, LookInv
<1>4. CASE UNCHANGED vars
  <2>1. UNCHANGED <<session, task, sequence, submitted, active, slots, run, owner, cancelled, stopping>>
    BY <1>4 DEF vars, chatVars, lookupVars
  <2>2. Typed'
    BY <2>1 DEF BotInv, Typed
  <2>3. InTurn' /\ Fresh' /\ Registered' /\ SnapshotCurrent' /\ AboutSubmitted' /\ SlotsCounted'
    BY <2>1 DEF BotInv, InTurn, Fresh, Registered, SnapshotCurrent, AboutSubmitted,
       SlotsCounted, Looking
  <2>4. Attended'
    BY <2>1 DEF BotInv, Attended, WaitsFor, Ended, Clearing, Launching, Looking
  <2> QED
    BY <2>2, <2>3, <2>4 DEF BotInv
<1> QED
  BY <1>1, <1>2, <1>3, <1>4, StopInv DEF Next

-----------------------------------------------------------------------------

(* The inductive invariant of the dialogues.                               *)
THEOREM BotInvariant == Spec => []BotInv
BY BotInit, BotStep, PTL DEF Spec

(* The state keeps its type, and the slots in use are those of the lookups *)
(* at work, however they end.                                              *)
THEOREM BotTypeCorrect == Spec => []TypeOK
<1>1. BotInv => TypeOK
  BY DEF BotInv, Typed, SlotsCounted, TypeOK, Task, Places, Runs
<1> QED
  BY <1>1, BotInvariant, PTL

(* The thresholds asked for are those of the product sent last.            *)
THEOREM LastProduct == Spec => []AsksAboutLastProduct
<1>1. BotInv => AsksAboutLastProduct
  BY DEF BotInv, AboutSubmitted, AsksAboutLastProduct
<1> QED
  BY <1>1, BotInvariant, PTL

(* A chat that waits has a lookup at work, which /cancel can find.         *)
THEOREM WaitersAttended == Spec => []WaitingHasLookup
<1>1. BotInv => WaitingHasLookup
  BY DEF BotInv, Attended, WaitingHasLookup, Clearing, Launching
<1> QED
  BY <1>1, BotInvariant, PTL


(* A worker moves nobody but itself.                                       *)
LEMMA OthersKept ==
    ASSUME BotInv, NEW v \in Workers, NEW w \in Workers \ {v}, Handle(v)
    PROVE  task'[w] = task[w]
<1>1. CASE GiveUp(v) \/ Clear(v) \/ LaunchLookup(v) \/ RefuseLookup(v) \/ EnterMinPrice(v)
           \/ FinishDialogue(v) \/ StartEdit(v) \/ ShowList(v)
  BY <1>1 DEF BotInv, Typed, GiveUp, Clear, LaunchLookup, RefuseLookup, EnterMinPrice,
     FinishDialogue, StartEdit, ShowList, Done
<1>2. CASE SubmitURL(v) \/ WaitForLookup(v) \/ EnterMaxPrice(v) \/ ChangeSubscription(v)
           \/ TurnPage(v)
  BY <1>2 DEF BotInv, Typed, SubmitURL, WaitForLookup, EnterMaxPrice, ChangeSubscription,
     TurnPage, GoTo
<1> QED
  BY <1>1, <1>2 DEF Handle

(* Sessions are written by handlers, each that of its chat, and by the     *)
(* goroutines of lookups, which keep the page.                             *)
LEMMA SessionWriters ==
    ASSUME BotInv, [Next]_vars, NEW c \in Chats, session'[c] # session[c]
    PROVE  \/ task' = task /\ session'[c].page = session[c].page
           \/ \E v \in Workers : Handle(v) /\ task[v].chat = c
<1>1. CASE \E w \in Workers, d \in Chats : BeginCancel(w, d) \/ BeginUpdate(w, d)
  BY <1>1 DEF BeginCancel, BeginUpdate
<1>2. CASE \E w \in Workers : Handle(w)
  <2>1. PICK w \in Workers : Handle(w)
    BY <1>2
  <2>2. \/ UNCHANGED session
        \/ \E s : session' = [session EXCEPT ![task[w].chat] = s]
    <3>1. CASE RefuseLookup(w)
      BY <3>1 DEF RefuseLookup, CompleteLookup
    <3>2. CASE ShowList(w) \/ TurnPage(w)
      BY <3>2 DEF ShowList, TurnPage, SetPage
    <3> QED
      BY <2>1, <3>1, <3>2 DEF Handle, GiveUp, Clear, SubmitURL, WaitForLookup, LaunchLookup,
         EnterMinPrice, EnterMaxPrice, FinishDialogue, StartEdit, ChangeSubscription
  <2>3. task[w].chat = c
    BY <2>2 DEF BotInv, Typed
  <2> QED
    BY <2>1, <2>3
<1>3. CASE \E l \in Lookups : Look(l)
  <2>1. PICK l \in Lookups : Report(l) \/ Apologise(l)
    BY <1>3 DEF Look, StartLookup, PollFinds, LookupFails, CheckContext, ReleaseSlot,
       Unregister, chatVars
  <2>2. task' = task
    BY <2>1 DEF Report, Apologise
  <2>3. \/ session' = session
        \/ session' = [session EXCEPT ![owner[l]] = Result(owner[l], l, "waiting_min_price")]
        \/ session' = [session EXCEPT ![owner[l]] = Result(owner[l], 0, "idle")]
    BY <2>1 DEF Report, Apologise, CompleteLookup
  <2>4. session'[c].page = session[c].page
    BY <2>3 DEF Result, BotInv, Typed
  <2> QED
    BY <2>2, <2>4
<1>4. CASE Stop \/ UNCHANGED vars
  BY <1>4 DEF Stop, vars, chatVars
<1> QED
  BY <1>1, <1>2, <1>3, <1>4 DEF Next

(* Of what came in since a handler read its session, it replaces only what *)
(* the end of a lookup made of it, and only at /start, /cancel or the      *)
(* start of an edit.                                                       *)
THEOREM SessionsNotLost == Spec => NoLostSession
<1> DEFINE Keeps(w) ==
             LET c == task[w].chat
                 read == task[w].sess
             IN task[w] # Free /\ task'[w] # task[w] /\ session'[c] # session[c] =>
                  \/ session[c] = read
                  \/ /\ task[w].at \in {"list", "page", "refresh"}
                     /\ session'[c] = [session[c] EXCEPT !.page = session'[c].page]
                  \/ task[w].at = "launch" /\ WaitsFor(c, task[w].lookup)
                  \/ task[w].at \in {"clear", "edit"} /\ LookupEnded(read, session[c])
<1>1. ASSUME BotInv, [Next]_vars, NEW w \in Workers
      PROVE  Keeps(w)
  <2> DEFINE c == task[w].chat
  <2> SUFFICES ASSUME task[w] # Free, task'[w] # task[w], session'[c] # session[c]
               PROVE  \/ session[c] = task[w].sess
                      \/ /\ task[w].at \in {"list", "page", "refresh"}
                         /\ session'[c] = [session[c] EXCEPT !.page = session'[c].page]
                      \/ task[w].at = "launch" /\ WaitsFor(c, task[w].lookup)
                      \/ task[w].at \in {"clear", "edit"} /\ LookupEnded(task[w].sess, session[c])
    OBVIOUS
  <2>1. c \in Chats /\ session \in [Chats -> Session]
    BY <1>1 DEF BotInv, Typed, InTurn
  <2>2. Handle(w)
    BY <1>1, <2>1, SessionWriters, OthersKept
  <2>3. CASE Clear(w) \/ StartEdit(w)
    BY <1>1, <2>3 DEF Clear, StartEdit, At, BotInv, SnapshotCurrent, Current
  <2>4. CASE WaitForLookup(w) \/ EnterMinPrice(w) \/ FinishDialogue(w)
    <3>1. /\ task[w].at \in {"text", "submit", "accepted"}
          /\ task[w].at = "text" => task[w].sess.step \in {"waiting_min_price", "editing_min_price"}
      BY <2>4 DEF WaitForLookup, EnterMinPrice, FinishDialogue, At, Following
    <3>2. task[w].sess.step # "waiting_lookup"
      BY <1>1, <3>1 DEF BotInv, SnapshotCurrent
    <3> QED
      BY <1>1, <3>1, <3>2, CopyCurrent
  <2>5. CASE RefuseLookup(w)
    BY <1>1, <2>5 DEF RefuseLookup, At, BotInv, Attended
  <2>6. CASE ShowList(w) \/ TurnPage(w)
    <3>1. task[w].at \in {"list", "page", "refresh"}
      BY <2>6 DEF ShowList, TurnPage, At
    <3>2. PICK p : session' = [session EXCEPT ![c].page = p]
      BY <2>6 DEF ShowList, TurnPage, SetPage
    <3>3. session'[c] = [session[c] EXCEPT !.page = p]
      BY <2>1, <3>2
    <3>4. session'[c].page = p
      BY <2>1, <3>3 DEF Session
    <3> QED
      BY <3>1, <3>3, <3>4
  <2>7. ~GiveUp(w) /\ ~SubmitURL(w) /\ ~LaunchLookup(w) /\ ~EnterMaxPrice(w)
        /\ ~ChangeSubscription(w)
    BY DEF GiveUp, SubmitURL, LaunchLookup, EnterMaxPrice, ChangeSubscription
  <2> QED
    BY <2>2, <2>3, <2>4, <2>5, <2>6, <2>7 DEF Handle
<1>2. BotInv /\ [Next]_vars => [\A w \in Workers : Keeps(w)]_vars
  BY <1>1
<1> QED
  BY <1>2, BotInvariant, PTL DEF Spec, NoLostSession

(* Only the list itself and /start change the page of the list.            *)
THEOREM PagesSurvive == Spec => PageSurvives
<1> DEFINE Kept(c) ==
             session'[c].page # session[c].page =>
               \E w \in Workers :
                 task[w].chat = c /\ task[w].at \in {"clear", "list", "page", "refresh"}
<1>1. ASSUME BotInv, [Next]_vars, NEW c \in Chats
      PROVE  Kept(c)
  <2> SUFFICES ASSUME session'[c].page # session[c].page
               PROVE  \E w \in Workers :
                        task[w].chat = c /\ task[w].at \in {"clear", "list", "page", "refresh"}
    OBVIOUS
  <2>1. PICK w \in Workers : Handle(w) /\ task[w].chat = c
    BY <1>1, SessionWriters
  <2>2. ASSUME NEW s, session' = [session EXCEPT ![c] = s]
        PROVE  s.page # session[c].page
    BY <1>1, <2>2 DEF BotInv, Typed
  <2>3. \A l, st : Result(c, l, st).page = session[c].page
    BY DEF Result
  <2>4. ~WaitForLookup(w)
    BY <2>1, <2>2, <2>3 DEF WaitForLookup
  <2>5. ~RefuseLookup(w)
    BY <2>1, <2>2, <2>3 DEF RefuseLookup, CompleteLookup
  <2>6. ~StartEdit(w)
    BY <2>1, <2>2, <2>3 DEF StartEdit
  <2>7. ~EnterMinPrice(w)
    <3> SUFFICES ASSUME EnterMinPrice(w) PROVE FALSE
      OBVIOUS
    <3>1. /\ session[c] = task[w].sess
          /\ session' = [session EXCEPT ![c] =
                           [task[w].sess EXCEPT !.step = Following[task[w].sess.step]]]
      BY <1>1, <2>1, CopyCurrent DEF EnterMinPrice, At, Following
    <3>2. [task[w].sess EXCEPT !.step = Following[task[w].sess.step]].page = task[w].sess.page
      BY <1>1, <3>1 DEF BotInv, Typed, Session
    <3> QED
      BY <2>2, <3>1, <3>2
  <2>8. ~FinishDialogue(w)
    <3> SUFFICES ASSUME FinishDialogue(w) PROVE FALSE
      OBVIOUS
    <3>1. /\ session[c] = task[w].sess
          /\ session' = [session EXCEPT ![c] = [Empty EXCEPT !.page = task[w].sess.page]]
      BY <1>1, <2>1, CopyCurrent DEF FinishDialogue, At, BotInv, SnapshotCurrent
    <3>2. [Empty EXCEPT !.page = task[w].sess.page].page = task[w].sess.page
      BY DEF Empty
    <3> QED
      BY <2>2, <3>1, <3>2
  <2>9. ~GiveUp(w) /\ ~SubmitURL(w) /\ ~LaunchLookup(w) /\ ~EnterMaxPrice(w)
        /\ ~ChangeSubscription(w)
    BY DEF GiveUp, SubmitURL, LaunchLookup, EnterMaxPrice, ChangeSubscription
  <2>10. Clear(w) \/ ShowList(w) \/ TurnPage(w)
    BY <2>1, <2>4, <2>5, <2>6, <2>7, <2>8, <2>9 DEF Handle
  <2> QED
    BY <2>1, <2>10 DEF Clear, ShowList, TurnPage, At
<1>2. BotInv /\ [Next]_vars => [\A c \in Chats : Kept(c)]_vars
  BY <1>1
<1> QED
  BY <1>2, BotInvariant, PTL DEF Spec, PageSurvives
=============================================================================
