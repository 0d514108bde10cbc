----------------------------- MODULE BotDialog -----------------------------
(***************************************************************************)
(* The bot's dialogues: the workers that handle the updates of the chats,  *)
(* the goroutine behind each product lookup, and what they share: the      *)
(* sessions, the table of active lookups and the lookup slots.             *)
(*                                                                         *)
(* A chat may send anything at any time, so what waits in a worker's queue *)
(* is not kept (Dispatcher has the queues): a worker gets the updates of   *)
(* its chats one after another.  A handler is split where it calls the     *)
(* Gateway or Telegram, or looks at shared state a second time.  A product *)
(* is worth the lookup that found it; prices, names and texts are left out.*)
(***************************************************************************)
EXTENDS Integers, FiniteSets

CONSTANTS
    Chats,
    NoChat,       \* of a worker or lookup without one
    Workers,      \* dispatcherWorkers
    Route,        \* the worker of a chat, by its hash
    MaxSlots,     \* capacity of lookupSlots
    MaxLookups,   \* bound on lookupSequence, for TLC
    MaxPage       \* pages of a list

ASSUME BotAssumption ==
    /\ NoChat \notin Chats
    /\ Route \in [Chats -> Workers]
    /\ MaxSlots \in Nat \ {0}
    /\ MaxLookups \in Nat /\ MaxPage \in Nat \ {0}

VARIABLES
    session,     \* sessions by chat; one that is not stored is Empty
    task,        \* what each worker does: chat, place in the handler, copy of the session
    sequence,    \* lookupSequence
    submitted,   \* the last lookup a chat asked for, not stored
    active,      \* activeLookups, 0 for no entry
    slots,       \* lookupSlots in use
    run,         \* where the goroutine of each lookup is
    owner,       \* its chat
    cancelled,   \* lookups whose context cancelLookup has cancelled
    stopping     \* has the bot's context ended?

chatVars == <<session, task, sequence, submitted>>
lookupVars == <<active, slots, run, owner, cancelled>>
vars == <<chatVars, lookupVars, stopping>>

Lookups == 1 .. MaxLookups
Steps == {"idle", "waiting_lookup", "waiting_min_price", "waiting_max_price",
          "editing_min_price", "editing_max_price"}
Session == [step : Steps, lookup : 0 .. MaxLookups, page : 0 .. MaxPage]
Empty == [step |-> "idle", lookup |-> 0, page |-> 0]
Free == [chat |-> NoChat, at |-> "free", sess |-> Empty, lookup |-> 0]

Init ==
    /\ session = [c \in Chats |-> Empty]
    /\ task = [w \in Workers |-> Free]
    /\ sequence = 0
    /\ submitted = [c \in Chats |-> 0]
    /\ active = [c \in Chats |-> 0]
    /\ slots = 0
    /\ run = [l \in Lookups |-> "none"]
    /\ owner = [l \in Lookups |-> NoChat]
    /\ cancelled = {}
    /\ stopping = FALSE

(* Fault: the chat whose result it is waits, for this lookup or another. *)
WaitsForAny(c, l) == session[c].step = "waiting_lookup"

WaitsFor(c, l) == session[c].step = "waiting_lookup" /\ session[c].lookup = l

(* Fault: the page is that of a new session. *)
PagelessResult(c, l, s) == [step |-> s, lookup |-> l, page |-> 0]

Result(c, l, s) == [step |-> s, lookup |-> l, page |-> session[c].page]

(* state.CompleteLookup: only the session that waits for l is replaced. *)
CompleteLookup(c, l, new) ==
    session' = IF WaitsFor(c, l) THEN [session EXCEPT ![c] = new] ELSE session

(* cancelLookup: the entry goes, then its context is cancelled. *)
CancelLookup(c) ==
    /\ active' = [active EXCEPT ![c] = 0]
    /\ cancelled' = cancelled \cup ({active[c]} \ {0})

-----------------------------------------------------------------------------
(* Workers.                                                                *)

(* Fault: updates of a chat go to whatever worker is free. *)
AnyWorker(w, c) == TRUE

Routed(w, c) == Route[c] = w

Begin(w, c, a) ==
    /\ ~stopping /\ task[w] = Free /\ Routed(w, c)
    /\ task' = [task EXCEPT ![w] =
                  [chat |-> c, at |-> a, sess |-> session[c], lookup |-> 0]]

GoTo(w, a) == task' = [task EXCEPT ![w].at = a]

Done(w) == task' = [task EXCEPT ![w] = Free]

At(w, a) == task[w].at = a

(* An update that needs no more than an answer, a call of the Gateway that *)
(* fails, a text that is no price: the handler changes nothing.            *)
GiveUp(w) ==
    /\ task[w] # Free /\ task[w].at \in {"text", "edit", "list", "change", "refresh", "read"}
    /\ Done(w)
    /\ UNCHANGED <<session, sequence, submitted, lookupVars, stopping>>

(* /start and /cancel. *)
BeginCancel(w, c) ==
    /\ Begin(w, c, "clear")
    /\ CancelLookup(c)
    /\ UNCHANGED <<session, sequence, submitted, slots, run, owner, stopping>>

Clear(w) ==
    /\ At(w, "clear")
    /\ session' = [session EXCEPT ![task[w].chat] = Empty]
    /\ Done(w)
    /\ UNCHANGED <<sequence, submitted, lookupVars, stopping>>

(* A text whose meaning depends on the session, or one of the callbacks:   *)
(* "change" pauses, resumes or deletes a subscription, "read" shows the    *)
(* history of one or forces a check.                                       *)
BeginUpdate(w, c) ==
    /\ \E a \in {"text", "edit", "list", "page", "change", "read"} : Begin(w, c, a)
    /\ UNCHANGED <<session, sequence, submitted, lookupVars, stopping>>

(* pauseSubscription, resumeSubscription and deleteSubscription. *)
ChangeSubscription(w) ==
    /\ At(w, "change")
    /\ GoTo(w, "refresh")
    /\ UNCHANGED <<session, sequence, submitted, lookupVars, stopping>>

(* handleURLSubmit. *)
SubmitURL(w) ==
    /\ At(w, "text") /\ task[w].sess.step = "idle"
    /\ sequence < MaxLookups
    /\ sequence' = sequence + 1
    /\ CancelLookup(task[w].chat)
    /\ task' = [task EXCEPT ![w].at = "submit", ![w].lookup = sequence + 1]
    /\ UNCHANGED <<session, submitted, slots, run, owner, stopping>>

WaitForLookup(w) ==
    LET c == task[w].chat
        l == task[w].lookup
    IN /\ At(w, "submit")
       /\ session' = [session EXCEPT ![c] = Result(c, l, "waiting_lookup")]
       /\ submitted' = [submitted EXCEPT ![c] = l]
       /\ GoTo(w, "launch")
       /\ UNCHANGED <<sequence, lookupVars, stopping>>

LaunchLookup(w) ==
    LET c == task[w].chat
        l == task[w].lookup
    IN /\ At(w, "launch") /\ slots < MaxSlots
       /\ slots' = slots + 1
       /\ active' = [active EXCEPT ![c] = l]
       /\ run' = [run EXCEPT ![l] = "starting"]
       /\ owner' = [owner EXCEPT ![l] = c]
       /\ Done(w)
       /\ UNCHANGED <<session, sequence, submitted, cancelled, stopping>>

(* Fault: the user is told and the session goes on waiting. *)
SilentRefusal(w) ==
    /\ At(w, "launch") /\ slots = MaxSlots
    /\ Done(w)
    /\ UNCHANGED <<session, sequence, submitted, lookupVars, stopping>>

(* No slot is free: back to idle. *)
RefuseLookup(w) ==
    LET c == task[w].chat
        l == task[w].lookup
    IN /\ At(w, "launch") /\ slots = MaxSlots
       /\ CompleteLookup(c, l, Result(c, 0, "idle"))
       /\ Done(w)
       /\ UNCHANGED <<sequence, submitted, lookupVars, stopping>>

Following == [waiting_min_price |-> "waiting_max_price",
              editing_min_price |-> "editing_max_price"]

(* handleMinPrice and handleEditMinPrice write back the session they read. *)
EnterMinPrice(w) ==
    LET c == task[w].chat
        s == task[w].sess
    IN /\ At(w, "text") /\ s.step \in DOMAIN Following
       /\ session' = [session EXCEPT ![c] = [s EXCEPT !.step = Following[s.step]]]
       /\ Done(w)
       /\ UNCHANGED <<sequence, submitted, lookupVars, stopping>>

(* handleMaxPrice and handleEditMaxPrice: the Gateway accepts .. *)
EnterMaxPrice(w) ==
    /\ At(w, "text") /\ task[w].sess.step \in {"waiting_max_price", "editing_max_price"}
    /\ GoTo(w, "accepted")
    /\ UNCHANGED <<session, sequence, submitted, lookupVars, stopping>>

(* .. and the dialogue ends. *)
FinishDialogue(w) ==
    /\ At(w, "accepted")
    /\ session' = [session EXCEPT ![task[w].chat] = [Empty EXCEPT !.page = task[w].sess.page]]
    /\ Done(w)
    /\ UNCHANGED <<sequence, submitted, lookupVars, stopping>>

(* startEditSubscription, also in the middle of a lookup, which goes on. *)
StartEdit(w) ==
    LET c == task[w].chat
    IN /\ At(w, "edit")
       /\ session' = [session EXCEPT ![c] = Result(c, 0, "editing_min_price")]
       /\ Done(w)
       /\ UNCHANGED <<sequence, submitted, lookupVars, stopping>>

SetPage(c, p) == session' = [session EXCEPT ![c].page = p]

(* The page as buildMyListPage clamps it. *)
Shown(c) == 1 .. (IF session[c].page < 1 THEN 1 ELSE session[c].page)

(* handleMyList; refreshMyList forgets the page of a list that got empty. *)
ShowList(w) ==
    /\ task[w].at \in {"list", "refresh"}
    /\ \E p \in Shown(task[w].chat) \cup (IF At(w, "refresh") THEN {0} ELSE {}) :
         SetPage(task[w].chat, p)
    /\ Done(w)
    /\ UNCHANGED <<sequence, submitted, lookupVars, stopping>>

TurnPage(w) ==
    /\ At(w, "page")
    /\ \E p \in 1 .. MaxPage : SetPage(task[w].chat, p)
    /\ GoTo(w, "refresh")
    /\ UNCHANGED <<sequence, submitted, lookupVars, stopping>>

-----------------------------------------------------------------------------
(* Lookups.                                                                *)

Ended(l) == l \in cancelled \/ stopping

Move(l, from, to) == run[l] = from /\ run' = [run EXCEPT ![l] = to]

StartLookup(l) ==
    /\ Move(l, "starting", "polling")
    /\ UNCHANGED <<chatVars, active, slots, owner, cancelled, stopping>>

PollFinds(l) ==
    /\ Move(l, "polling", "found")
    /\ UNCHANGED <<chatVars, active, slots, owner, cancelled, stopping>>

(* An error, a failed lookup, 90 seconds, or the end of the context. *)
LookupFails(l) ==
    /\ Move(l, "starting", "lost") \/ Move(l, "polling", "lost")
    /\ UNCHANGED <<chatVars, active, slots, owner, cancelled, stopping>>

(* ctx.Err() is looked at before the session is, in another step. *)
CheckContext(l) ==
    /\ \/ ~Ended(l) /\ (Move(l, "found", "report") \/ Move(l, "lost", "apologise"))
       \/ Ended(l) /\ (Move(l, "found", "release") \/ Move(l, "lost", "release"))
    /\ UNCHANGED <<chatVars, active, slots, owner, cancelled, stopping>>

(* The product was found: its thresholds are asked for. *)
Report(l) ==
    LET c == owner[l]
    IN /\ Move(l, "report", "release")
       /\ CompleteLookup(c, l, Result(c, l, "waiting_min_price"))
       /\ UNCHANGED <<task, sequence, submitted, active, slots, owner, cancelled, stopping>>

Apologise(l) ==
    LET c == owner[l]
    IN /\ Move(l, "apologise", "release")
       /\ CompleteLookup(c, l, Result(c, 0, "idle"))
       /\ UNCHANGED <<task, sequence, submitted, active, slots, owner, cancelled, stopping>>

(* Fault: a cancelled lookup returns without giving its slot back. *)
LeakSlot(l) ==
    /\ Move(l, "release", "unregister")
    /\ slots' = IF Ended(l) THEN slots ELSE slots - 1
    /\ UNCHANGED <<chatVars, active, owner, cancelled, stopping>>

ReleaseSlot(l) ==
    /\ Move(l, "release", "unregister")
    /\ slots' = slots - 1
    /\ UNCHANGED <<chatVars, active, owner, cancelled, stopping>>

(* Fault: the entry of the chat goes, whoever it belongs to. *)
UnregisterChat(l) ==
    /\ Move(l, "unregister", "done")
    /\ active' = [active EXCEPT ![owner[l]] = 0]
    /\ UNCHANGED <<chatVars, slots, owner, cancelled, stopping>>

(* Fault: a lookup without an entry returns early. *)
UnregisterOwnOnly(l) ==
    /\ Move(l, "unregister", "done")
    /\ active[owner[l]] = l
    /\ active' = [active EXCEPT ![owner[l]] = 0]
    /\ UNCHANGED <<chatVars, slots, owner, cancelled, stopping>>

(* The entry goes if it is still this lookup's, and the wait group is told. *)
Unregister(l) ==
    /\ Move(l, "unregister", "done")
    /\ active' = [active EXCEPT ![owner[l]] = IF @ = l THEN 0 ELSE @]
    /\ UNCHANGED <<chatVars, slots, owner, cancelled, stopping>>

(* The bot's context ends; running handlers and lookups wind up. *)
Stop ==
    /\ ~stopping
    /\ stopping' = TRUE
    /\ UNCHANGED <<chatVars, lookupVars>>

Handle(w) ==
    \/ GiveUp(w) \/ Clear(w)
    \/ SubmitURL(w) \/ WaitForLookup(w) \/ LaunchLookup(w) \/ RefuseLookup(w)
    \/ EnterMinPrice(w) \/ EnterMaxPrice(w) \/ FinishDialogue(w)
    \/ StartEdit(w) \/ ChangeSubscription(w) \/ ShowList(w) \/ TurnPage(w)

Look(l) ==
    \/ StartLookup(l) \/ PollFinds(l) \/ LookupFails(l) \/ CheckContext(l)
    \/ Report(l) \/ Apologise(l) \/ ReleaseSlot(l) \/ Unregister(l)

Next ==
    \/ \E w \in Workers, c \in Chats : BeginCancel(w, c) \/ BeginUpdate(w, c)
    \/ \E w \in Workers : Handle(w)
    \/ \E l \in Lookups : Look(l)
    \/ Stop

Spec == Init /\ [][Next]_vars

(* Every call has a timeout, so handlers and lookups run to their ends. *)
FairSpec ==
    /\ Spec
    /\ \A w \in Workers : WF_vars(Handle(w))
    /\ \A l \in Lookups : WF_vars(Look(l))

-----------------------------------------------------------------------------

Looking == {l \in Lookups : run[l] \notin {"none", "unregister", "done"}}

TypeOK ==
    /\ session \in [Chats -> Session]
    /\ task \in [Workers ->
         [chat : Chats \cup {NoChat}, sess : Session, lookup : 0 .. MaxLookups,
          at : {"free", "clear", "text", "edit", "list", "page", "change",
                "refresh", "read", "submit", "launch", "accepted"}]]
    /\ sequence \in 0 .. MaxLookups
    /\ submitted \in [Chats -> 0 .. MaxLookups]
    /\ active \in [Chats -> 0 .. MaxLookups]
    /\ run \in [Lookups -> {"none", "starting", "polling", "found", "lost", "report",
                            "apologise", "release", "unregister", "done"}]
    /\ owner \in [Lookups -> Chats \cup {NoChat}]
    /\ cancelled \subseteq Lookups
    /\ stopping \in BOOLEAN
    /\ slots = Cardinality(Looking) /\ slots <= MaxSlots

(* The thresholds a user is asked for are those of the product he sent     *)
(* last: a lookup that finishes after it was cancelled, or next to an      *)
(* edit, never takes the place of a newer one.                             *)
AsksAboutLastProduct ==
    \A c \in Chats :
        session[c].step \in {"waiting_min_price", "waiting_max_price"}
          => session[c].lookup = submitted[c]

(* A chat that waits has a lookup at work that nobody cancelled and that   *)
(* /cancel can find, whatever earlier lookups of the chat are still doing. *)
WaitingHasLookup ==
    \A c \in Chats :
        session[c].step = "waiting_lookup" /\ ~stopping
        /\ (\A w \in Workers : task[w].chat # c)
          => /\ active[c] = session[c].lookup
             /\ active[c] \in Looking \ cancelled

(* What a lookup that ends makes of the session that waited for it. *)
LookupEnded(read, s) ==
    /\ read.step = "waiting_lookup"
    /\ s \in {[read EXCEPT !.step = "waiting_min_price"],
              [read EXCEPT !.step = "idle", !.lookup = 0]}

(* A handler that writes a session overwrites nothing that came in since   *)
(* it read it, however long its calls of the Gateway and Telegram take:    *)
(* the session still is the one it read, the write touches only the page,  *)
(* or it takes back the wait this handler began.  The one exception is     *)
(* what a lookup reported meanwhile, which /start, /cancel and the start   *)
(* of an edit replace.                                                     *)
NoLostSession ==
    [][\A w \in Workers :
         LET c == task[w].chat
             read == task[w].sess
         IN task[w] # Free /\ task'[w] # task[w] /\ session'[c] # session[c] =>
              \/ session[c] = read
              \/ /\ task[w].at \in {"list", "page", "refresh"}
                 /\ session'[c] = [session[c] EXCEPT !.page = session'[c].page]
              \/ task[w].at = "launch" /\ WaitsFor(c, task[w].lookup)
              \/ task[w].at \in {"clear", "edit"} /\ LookupEnded(read, session[c])]_vars

(* The page of the list a chat is on survives lookups, edits and new       *)
(* subscriptions: only the list itself and /start change it.               *)
PageSurvives ==
    [][\A c \in Chats :
         session'[c].page # session[c].page =>
           \E w \in Workers :
               task[w].chat = c /\ task[w].at \in {"clear", "list", "page", "refresh"}]_vars

(* Nobody waits for ever, be it that the slots are full, that the lookup   *)
(* fails or that an edit came in between.                                  *)
EveryWaitEnds ==
    \A c \in Chats, l \in Lookups : WaitsFor(c, l) ~> (stopping \/ ~WaitsFor(c, l))

(* Run returns: all handlers end and the wait group of lookups drains. *)
Stops ==
    stopping ~> /\ \A w \in Workers : task[w] = Free
                /\ \A l \in Lookups : run[l] \in {"none", "done"}

=============================================================================
