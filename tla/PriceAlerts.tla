---------------------------- MODULE PriceAlerts ----------------------------
(***************************************************************************)
(* What a price result does in the Gateway (store/results.go), together    *)
(* with the subscription operations that touch the same rows               *)
(* (store/monitoring.go).  Each of them locks the product first and        *)
(* commits once, so each is one action; GatewayMonitoring has the locks.   *)
(*                                                                         *)
(* Results come from a queue that repeats and reorders them, and a scraper *)
(* task that is run again yields another result under the same TaskID, so  *)
(* the environment may deliver any result at any time.                     *)
(*                                                                         *)
(* Money is in thousandths.  Thresholds are stored in NUMERIC(12,2) and    *)
(* come back rounded to hundredths; 0 is no threshold.                     *)
(***************************************************************************)
EXTENDS Integers

CONSTANTS
    Users, Products,
    Tasks,            \* TaskIDs
    Amounts,          \* prices and thresholds that occur
    Times,            \* scraped_at values that occur, 0 the zero time
    NoRequest,        \* requests of a task nobody asked for
    MaxAlertVersion   \* bound on alert_version at an edit, for TLC

ASSUME AlertsAssumption ==
    /\ Amounts \subseteq Nat
    /\ Times \subseteq Nat
    /\ NoRequest \notin Users \X Products
    /\ MaxAlertVersion \in Nat

VARIABLES
    known,       \* <<user, product>> pairs with a row in subscriptions
    active,      \* rows with active = true
    paused,      \* rows with paused = true
    low, high,   \* min_price and max_price
    state,       \* alert_state, "none" for ''
    ver,         \* alert_version
    asked,       \* thresholds as the user last typed them, not stored
    latest,      \* products.latest_result_at, 0 for NULL
    processed,   \* processed_price_results
    history,     \* price_history: task, product and scraped_at
    requests,    \* force_requests: who asked for which product
    answers,     \* "force-result:<task>" events and their recipient
    alerts       \* "alert:<sub>:<version>" events, with scraped_at of their cause

subVars == <<known, active, paused, low, high, asked>>
alertVars == <<state, ver, alerts>>
resultVars == <<latest, processed, history, answers>>
vars == <<subVars, alertVars, resultVars, requests>>

Subs == Users \X Products
Found == [task : Tasks, product : Products, force : BOOLEAN,
          success : {TRUE}, price : Amounts, at : Times]

(* Of a failed result nobody reads the price or the time. *)
Failed == [task : Tasks, product : Products, force : BOOLEAN,
           success : {FALSE}, price : {0}, at : {0}]
Result == Found \cup Failed
Alert == [sub : Subs, version : Nat, direction : {"up", "down"}, at : Nat]
Scrape == [task : Tasks, product : Products, at : Nat]

Init ==
    /\ known = {} /\ active = {} /\ paused = {}
    /\ low = [s \in Subs |-> 0]
    /\ high = [s \in Subs |-> 0]
    /\ state = [s \in Subs |-> "none"]
    /\ ver = [s \in Subs |-> 0]
    /\ asked = [s \in Subs |-> <<0, 0>>]
    /\ latest = [p \in Products |-> 0]
    /\ processed = {} /\ history = {}
    /\ requests = [t \in Tasks |-> NoRequest]
    /\ answers = {} /\ alerts = {}

(* NUMERIC(12,2): round half up to hundredths. *)
Stored(x) == ((x + 5) \div 10) * 10

-----------------------------------------------------------------------------
(* Subscriptions.                                                          *)

(* Fault: the reset leaves alert_version alone. *)
UnversionedReset(s) ==
    /\ state' = [state EXCEPT ![s] = "none"]
    /\ UNCHANGED <<ver, alerts>>

(* alert_state = '', alert_version + 1: the next alert is a new one. *)
ResetAlert(s) ==
    /\ ver[s] < MaxAlertVersion
    /\ state' = [state EXCEPT ![s] = "none"]
    /\ ver' = [ver EXCEPT ![s] = @ + 1]
    /\ UNCHANGED alerts

SetThresholds(s, lo, hi) ==
    /\ low' = [low EXCEPT ![s] = Stored(lo)]
    /\ high' = [high EXCEPT ![s] = Stored(hi)]
    /\ asked' = [asked EXCEPT ![s] = <<lo, hi>>]

(* The stored thresholds are compared with the ones asked for, unrounded. *)
Differ(s, lo, hi) == low[s] # lo \/ high[s] # hi

ResetsAlert(s, lo, hi) == s \notin active \/ Differ(s, lo, hi)

(* postSubscription, then CreateSubscription: insert, or revive the row. *)
Create(s, lo, hi) ==
    /\ lo < hi
    /\ known' = known \cup {s}
    /\ active' = active \cup {s}
    /\ paused' = paused \ {s}
    /\ SetThresholds(s, lo, hi)
    /\ IF s \in known /\ ResetsAlert(s, lo, hi)
         THEN ResetAlert(s)
         ELSE UNCHANGED alertVars
    /\ UNCHANGED <<resultVars, requests>>

(* UPDATE .. WHERE thresholds IS DISTINCT FROM the new ones. *)
UpdateThresholds(s, lo, hi) ==
    /\ lo < hi /\ s \in active
    /\ SetThresholds(s, lo, hi)
    /\ IF Differ(s, lo, hi) THEN ResetAlert(s) ELSE UNCHANGED alertVars
    /\ UNCHANGED <<known, active, paused, resultVars, requests>>

Pause(s) ==
    /\ s \in active
    /\ paused' = paused \cup {s}
    /\ UNCHANGED <<known, active, low, high, asked, alertVars, resultVars, requests>>

Resume(s) ==
    /\ s \in active
    /\ paused' = paused \ {s}
    /\ UNCHANGED <<known, active, low, high, asked, alertVars, resultVars, requests>>

Delete(s) ==
    /\ s \in active
    /\ active' = active \ {s}
    /\ UNCHANGED <<known, paused, low, high, asked, alertVars, resultVars, requests>>

(* Allowed while paused; the TaskID is new.  The subscription was active    *)
(* before QueueForce waited for the product row, and may be deleted by now. *)
QueueForce(t, s) ==
    /\ s \in known
    /\ requests[t] = NoRequest /\ t \notin processed
    /\ requests' = [requests EXCEPT ![t] = s]
    /\ UNCHANGED <<subVars, alertVars, resultVars>>

-----------------------------------------------------------------------------
(* Results.                                                                *)

Classify(price, lo, hi) ==
    CASE lo > 0 /\ price < lo -> "down"
      [] ~(lo > 0 /\ price < lo) /\ hi > 0 /\ price > hi -> "up"
      [] OTHER -> "none"

Requested(r) == requests[r.task] # NoRequest

(* Fault: results are taken in the order of arrival. *)
NeverStale(r) == FALSE
Stale(r) == latest[r.product] # 0 /\ r.at < latest[r.product]

Watchers(p) == {s \in active \ paused : s[2] = p}

Next(s, r) == Classify(r.price, low[s], high[s])
Moved(r) == {s \in Watchers(r.product) : Next(s, r) # state[s]}

SameKey(a, b) == a.sub = b.sub /\ a.version = b.version

(* INSERT .. ON CONFLICT(event_key) DO NOTHING. *)
Enqueued(S) == alerts \cup {a \in S : \A b \in alerts : ~SameKey(a, b)}

(* Fault: the new version is used and not stored. *)
UnsavedVersion(r) ==
    /\ state' = [s \in Subs |-> IF s \in Moved(r) THEN Next(s, r) ELSE state[s]]
    /\ alerts' = Enqueued({[sub |-> s, version |-> ver[s] + 1,
                            direction |-> Next(s, r), at |-> r.at] :
                           s \in {m \in Moved(r) : Next(m, r) # "none"}})
    /\ UNCHANGED ver

(* Every watcher whose price zone changed gets a new version, and an alert *)
(* under that version unless the price came back into the range.           *)
MoveZones(r) ==
    /\ state' = [s \in Subs |-> IF s \in Moved(r) THEN Next(s, r) ELSE state[s]]
    /\ ver' = [s \in Subs |-> IF s \in Moved(r) THEN ver[s] + 1 ELSE ver[s]]
    /\ alerts' = Enqueued({[sub |-> s, version |-> ver'[s],
                            direction |-> Next(s, r), at |-> r.at] :
                           s \in {m \in Moved(r) : Next(m, r) # "none"}})

(* Fault: only a new price is answered. *)
AnswerFresh(r) == r.success /\ ~Stale(r) /\ Requested(r)

(* The requester is answered whether the check failed, succeeded or came   *)
(* too late, paused or not.                                                *)
Answerable(r) == Requested(r)

(* A result of a forced check nobody has a record of: only its TaskID is kept. *)
Orphan(r) == r.force /\ ~Requested(r)

(* ErrInvalidResult: the message is dropped and nothing changes. *)
Invalid(r) ==
    \/ Requested(r) /\ requests[r.task][2] # r.product
    \/ r.success /\ r.at = 0

RecordOrphan(r) ==
    /\ r.task \notin processed /\ Orphan(r)
    /\ processed' = processed \cup {r.task}
    /\ UNCHANGED <<subVars, alertVars, latest, history, answers, requests>>

(* A repeated TaskID commits without a change.  A forced check moves       *)
(* latest_result_at and alerts nobody.                                     *)
ProcessPriceResult(r) ==
    /\ r.task \notin processed /\ ~Orphan(r) /\ ~Invalid(r)
    /\ processed' = processed \cup {r.task}
    /\ history' = IF r.success
                    THEN history \cup {[task |-> r.task, product |-> r.product, at |-> r.at]}
                    ELSE history
    /\ latest' = IF r.success /\ ~Stale(r)
                   THEN [latest EXCEPT ![r.product] = r.at]
                   ELSE latest
    /\ answers' = IF Answerable(r)
                    THEN answers \cup {<<r.task, requests[r.task][1]>>}
                    ELSE answers
    /\ IF r.success /\ ~Stale(r) /\ ~Requested(r)
         THEN MoveZones(r)
         ELSE UNCHANGED alertVars
    /\ UNCHANGED <<subVars, requests>>

-----------------------------------------------------------------------------

NextStep ==
    \/ \E s \in Subs, lo, hi \in Amounts : Create(s, lo, hi) \/ UpdateThresholds(s, lo, hi)
    \/ \E s \in Subs : Pause(s) \/ Resume(s) \/ Delete(s)
    \/ \E t \in Tasks, s \in Subs : QueueForce(t, s)
    \/ \E r \in Result : RecordOrphan(r) \/ ProcessPriceResult(r)

Spec == Init /\ [][NextStep]_vars

-----------------------------------------------------------------------------

TypeOK ==
    /\ known \subseteq Subs
    /\ active \subseteq known
    /\ paused \subseteq known
    /\ low \in [Subs -> Nat] /\ high \in [Subs -> Nat]
    /\ state \in [Subs -> {"none", "up", "down"}]
    /\ ver \in [Subs -> Nat]
    /\ asked \in [Subs -> Nat \X Nat]
    /\ latest \in [Products -> Nat]
    /\ processed \subseteq Tasks
    /\ history \subseteq Scrape
    /\ requests \in [Tasks -> Subs \cup {NoRequest}]
    /\ answers \subseteq Tasks \X Users
    /\ alerts \subseteq Alert
    /\ \A a \in alerts : a.version <= ver[a.sub]

(* A subscription that says "last alert was up" was told so: the outbox    *)
(* holds that alert under the current version, never one swallowed because *)
(* an earlier alert already had its key.                                   *)
AlertStateBacked ==
    \A s \in Subs :
        state[s] # "none" =>
          \E a \in alerts :
              a.sub = s /\ a.version = ver[s] /\ a.direction = state[s]

(* A user is not told the same thing twice: two alerts of one direction    *)
(* have another version between them, a return into the range, the other   *)
(* direction or new thresholds.                                            *)
NoRepeatedAlert ==
    \A a, b \in alerts :
        a.sub = b.sub /\ b.version = a.version + 1 => a.direction # b.direction

(* Alerts of a subscription follow the order in which prices were scraped, *)
(* however late or out of order the results arrive.                        *)
AlertsInScrapeOrder ==
    \A a, b \in alerts :
        a.sub = b.sub /\ a.version < b.version => a.at <= b.at

(* The result of a check somebody asked for is answered to that user, also *)
(* when it failed or was overtaken; results of other checks to nobody.     *)
RequesterAnswered ==
    \A t \in Tasks, u \in Users :
        <<t, u>> \in answers <=>
          t \in processed /\ requests[t] # NoRequest /\ requests[t][1] = u

(* Asking again for the very thresholds one has keeps the alert state, so  *)
(* a client that repeats a request it believes lost causes no new alert.   *)
IdenticalCreateKeepsAlertState ==
    [][\A s \in active :
         Create(s, asked[s][1], asked[s][2])
           => state'[s] = state[s]]_vars

=============================================================================
