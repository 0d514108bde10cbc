------------------------- MODULE PriceAlertsProofs -------------------------
(***************************************************************************)
(* Theorems about PriceAlerts, for any users, products, TaskIDs, amounts   *)
(* and times.                                                              *)
(*                                                                         *)
(* Versions of alerts never run ahead of their subscription's, so an alert *)
(* under the next version is never swallowed.  The alert under the current *)
(* version, when there is one, says what alert_state says, so the next one *)
(* says something else; and no alert is younger than latest_result_at.     *)
(***************************************************************************)
EXTENDS PriceAlerts, TLAPS

AlertTypeOK ==
    /\ active \subseteq Subs
    /\ state \in [Subs -> {"none", "up", "down"}]
    /\ ver \in [Subs -> Nat]
    /\ latest \in [Products -> Nat]
    /\ alerts \subseteq Alert

(* The alert under the current version is the one alert_state tells of. *)
StateIsLastAlert ==
    \A a \in alerts : a.version = ver[a.sub] => a.direction = state[a.sub]

VersionsBehind == \A a \in alerts : a.version <= ver[a.sub]

(* The result behind an alert has been counted in latest_result_at. *)
CausesCounted == \A a \in alerts : a.at <= latest[a.sub[2]]

AlertInv ==
    /\ AlertTypeOK
    /\ StateIsLastAlert
    /\ VersionsBehind
    /\ CausesCounted
    /\ AlertStateBacked
    /\ NoRepeatedAlert
    /\ AlertsInScrapeOrder

AnswerInv ==
    /\ requests \in [Tasks -> Subs \cup {NoRequest}]
    /\ RequesterAnswered

-----------------------------------------------------------------------------
(* An alert and what is known of its subscription. *)
LEMMA AlertFields ==
    ASSUME AlertInv, NEW a \in alerts
    PROVE  /\ a \in Alert /\ a.sub \in Subs /\ a.sub[2] \in Products
           /\ a.version \in Nat /\ ver[a.sub] \in Nat /\ a.version <= ver[a.sub]
           /\ a.at \in Nat /\ latest[a.sub[2]] \in Nat /\ a.at <= latest[a.sub[2]]
<1>1. a \in Alert
  BY DEF AlertInv, AlertTypeOK
<1>2. a.sub \in Subs /\ a.version \in Nat /\ a.at \in Nat
  BY <1>1 DEF Alert
<1>3. a.sub[2] \in Products
  BY <1>2 DEF Subs
<1>4. ver[a.sub] \in Nat /\ latest[a.sub[2]] \in Nat
  BY <1>2, <1>3 DEF AlertInv, AlertTypeOK
<1> QED
  BY <1>1, <1>2, <1>3, <1>4 DEF AlertInv, VersionsBehind, CausesCounted

(* Alerts.                                                                 *)

(* Without a subscription nobody was alerted. *)
LEMMA InitAlerts == Init => AlertInv
BY DEF Init, AlertInv, AlertTypeOK, StateIsLastAlert, VersionsBehind, CausesCounted,
       AlertStateBacked, NoRepeatedAlert, AlertsInScrapeOrder

(* Price results of forced checks, stale and failed ones: latest_result_at *)
(* may move, forward only, and alerts stay.                                *)
LEMMA QuietKeepsAlerts ==
    ASSUME AlertInv, UNCHANGED alertVars, active' \subseteq Subs,
           latest' \in [Products -> Nat],
           \A p \in Products : latest[p] <= latest'[p]
    PROVE  AlertInv'
<1>1. AlertTypeOK'
  BY DEF AlertInv, AlertTypeOK, alertVars
<1>2. CausesCounted'
  <2> SUFFICES ASSUME NEW a \in alerts
               PROVE  a.at <= latest'[a.sub[2]]
    BY DEF CausesCounted, alertVars
  <2>1. a.sub[2] \in Products /\ a.at \in Nat
    BY DEF AlertInv, AlertTypeOK, Alert, Subs
  <2>2. a.at <= latest[a.sub[2]]
    BY DEF AlertInv, CausesCounted
  <2>3. latest[a.sub[2]] \in Nat /\ latest'[a.sub[2]] \in Nat
    BY <2>1 DEF AlertInv, AlertTypeOK
  <2> QED
    BY <2>1, <2>2, <2>3
<1> QED
  BY <1>1, <1>2 DEF AlertInv, alertVars, StateIsLastAlert, VersionsBehind,
                    AlertStateBacked, NoRepeatedAlert, AlertsInScrapeOrder

(* New thresholds leave all alerts of the subscription behind its version. *)
LEMMA ResetKeepsAlerts ==
    ASSUME AlertInv, NEW s \in Subs, ResetAlert(s), active' \subseteq Subs, UNCHANGED latest
    PROVE  AlertInv'
<1>1. AlertTypeOK'
  <2>1. state' \in [Subs -> {"none", "up", "down"}]
    BY DEF AlertInv, AlertTypeOK, ResetAlert
  <2>2. ver' \in [Subs -> Nat]
    <3>1. ver[s] + 1 \in Nat
      BY DEF AlertInv, AlertTypeOK
    <3> QED
      BY <3>1 DEF AlertInv, AlertTypeOK, ResetAlert
  <2> QED
    BY <2>1, <2>2 DEF AlertInv, AlertTypeOK, ResetAlert
<1>2. \A a \in alerts : /\ a.sub \in Subs /\ a.version \in Nat
                        /\ a.version <= ver[a.sub] /\ ver[a.sub] \in Nat
  BY AlertFields
<1>3. StateIsLastAlert' /\ VersionsBehind'
  <2> SUFFICES ASSUME NEW a \in alerts
               PROVE  /\ a.version = ver'[a.sub] => a.direction = state'[a.sub]
                      /\ a.version <= ver'[a.sub]
    BY DEF StateIsLastAlert, VersionsBehind, ResetAlert
  <2>1. CASE a.sub = s
    <3>1. ver'[s] = ver[s] + 1
      BY DEF AlertInv, AlertTypeOK, ResetAlert
    <3> QED
      BY <1>2, <2>1, <3>1
  <2>2. CASE a.sub # s
    BY <1>2, <2>2 DEF AlertInv, AlertTypeOK, StateIsLastAlert, ResetAlert
  <2> QED
    BY <2>1, <2>2
<1>4. AlertStateBacked'
  BY DEF AlertInv, AlertTypeOK, AlertStateBacked, ResetAlert
<1> QED
  BY <1>1, <1>3, <1>4 DEF AlertInv, CausesCounted, NoRepeatedAlert, AlertsInScrapeOrder, ResetAlert

(* A fresh result: every moved subscription gets the next version, which   *)
(* no alert has yet, and a direction it did not have before.               *)
LEMMA MoveKeepsAlerts ==
    ASSUME AlertInv, NEW r \in Found, ~Stale(r), MoveZones(r), active' = active,
           latest' = [latest EXCEPT ![r.product] = r.at], Times \subseteq Nat
    PROVE  AlertInv'
<1> DEFINE moved == Moved(r)
<1>1. moved \subseteq Subs /\ \A s \in moved : s[2] = r.product /\ Next(s, r) # state[s]
  BY DEF AlertInv, AlertTypeOK, Moved, Watchers
<1>2. \A s \in Subs : Next(s, r) \in {"none", "up", "down"}
  BY DEF Next, Classify
<1>3. /\ state' = [s \in Subs |-> IF s \in moved THEN Next(s, r) ELSE state[s]]
      /\ ver' = [s \in Subs |-> IF s \in moved THEN ver[s] + 1 ELSE ver[s]]
  BY DEF MoveZones
<1> DEFINE new(s) == [sub |-> s, version |-> ver'[s], direction |-> Next(s, r), at |-> r.at]
<1>4. \A a \in alerts : /\ a \in Alert /\ a.sub \in Subs /\ a.version \in Nat /\ a.at \in Nat
                        /\ a.version <= ver[a.sub] /\ ver[a.sub] \in Nat
                        /\ a.sub[2] \in Products /\ a.at <= latest[a.sub[2]]
  BY AlertFields
<1>5. r.at \in Nat /\ r.product \in Products /\ latest[r.product] <= r.at
  <2>1. r.at \in Times /\ r.product \in Products
    BY DEF Found
  <2>2. latest[r.product] \in Nat /\ r.at \in Nat
    BY <2>1 DEF AlertInv, AlertTypeOK
  <2> QED
    BY <2>1, <2>2 DEF Stale
<1>6. \A s \in moved : ver[s] \in Nat /\ ver'[s] = ver[s] + 1 /\ state'[s] = Next(s, r)
  BY <1>1, <1>3 DEF AlertInv, AlertTypeOK
<1>7. alerts' = alerts \cup {new(s) : s \in {m \in moved : Next(m, r) # "none"}}
  <2>1. \A s \in moved : \A b \in alerts : ~SameKey(new(s), b)
    BY <1>4, <1>6 DEF SameKey
  <2> QED
    BY <2>1 DEF MoveZones, Enqueued
<1> HIDE DEF moved
<1>8. ASSUME NEW a \in alerts', a \notin alerts
      PROVE  /\ a.sub \in moved /\ a.sub \in Subs /\ a.sub[2] = r.product
             /\ a.version = ver[a.sub] + 1 /\ ver[a.sub] \in Nat
             /\ ver'[a.sub] = a.version
             /\ a.direction = state'[a.sub] /\ a.direction # state[a.sub]
             /\ a.direction \in {"up", "down"}
             /\ a.at = r.at
             /\ a \in Alert
  <2>1. PICK s \in moved : a = new(s) /\ Next(s, r) # "none"
    BY <1>7, <1>8
  <2>2. s \in Subs
    BY <1>1
  <2> QED
    BY <1>1, <1>2, <1>5, <1>6, <2>1, <2>2 DEF Alert
<1> HIDE DEF new
<1>9. AlertTypeOK'
  <2>1. alerts' \subseteq Alert
    BY <1>4, <1>8
  <2>2. state' \in [Subs -> {"none", "up", "down"}] /\ ver' \in [Subs -> Nat]
    BY <1>2, <1>3 DEF AlertInv, AlertTypeOK
  <2> QED
    BY <1>5, <2>1, <2>2 DEF AlertInv, AlertTypeOK
<1>10. \A a \in alerts : \/ a.sub \notin moved /\ ver'[a.sub] = ver[a.sub]
                                               /\ state'[a.sub] = state[a.sub]
                         \/ a.sub \in moved /\ a.version < ver'[a.sub]
  BY <1>3, <1>4, <1>6
<1>11. StateIsLastAlert' /\ VersionsBehind'
  <2> SUFFICES ASSUME NEW a \in alerts'
               PROVE  /\ a.version = ver'[a.sub] => a.direction = state'[a.sub]
                      /\ a.version <= ver'[a.sub]
    BY DEF StateIsLastAlert, VersionsBehind
  <2>1. CASE a \in alerts
    BY <1>4, <1>6, <1>10, <2>1 DEF AlertInv, StateIsLastAlert
  <2>2. CASE a \notin alerts
    BY <1>8, <2>2
  <2> QED
    BY <2>1, <2>2
<1>12. \A p \in Products : latest[p] \in Nat /\ latest'[p] \in Nat /\ latest[p] <= latest'[p]
  BY <1>5 DEF AlertInv, AlertTypeOK
<1>13. CausesCounted'
  <2> SUFFICES ASSUME NEW a \in alerts'
               PROVE  a.at <= latest'[a.sub[2]]
    BY DEF CausesCounted
  <2>1. CASE a \in alerts
    BY <1>4, <1>12, <2>1
  <2>2. CASE a \notin alerts
    BY <1>5, <1>8, <2>2 DEF AlertInv, AlertTypeOK
  <2> QED
    BY <2>1, <2>2
<1>14. AlertStateBacked'
  <2> SUFFICES ASSUME NEW s \in Subs, state'[s] # "none"
               PROVE  \E a \in alerts' :
                        a.sub = s /\ a.version = ver'[s] /\ a.direction = state'[s]
    BY DEF AlertStateBacked
  <2>1. CASE s \in moved
    <3>1. Next(s, r) # "none" /\ state'[s] = Next(s, r)
      BY <1>6, <2>1
    <3>2. new(s) \in alerts'
      BY <1>7, <2>1, <3>1
    <3>3. new(s).sub = s /\ new(s).version = ver'[s] /\ new(s).direction = Next(s, r)
      BY DEF new
    <3> QED
      BY <3>1, <3>2, <3>3
  <2>2. CASE s \notin moved
    BY <1>3, <1>7, <2>2 DEF AlertInv, AlertStateBacked
  <2> QED
    BY <2>1, <2>2
<1>15. NoRepeatedAlert'
  <2> SUFFICES ASSUME NEW a \in alerts', NEW b \in alerts',
                      a.sub = b.sub, b.version = a.version + 1
               PROVE  a.direction # b.direction
    BY DEF NoRepeatedAlert
  <2>1. CASE a \in alerts /\ b \in alerts
    BY <2>1 DEF AlertInv, NoRepeatedAlert
  <2>2. CASE a \in alerts /\ b \notin alerts
    <3>1. a.version = ver[a.sub]
      BY <1>4, <1>8, <2>2
    <3> QED
      BY <1>8, <2>2, <3>1 DEF AlertInv, StateIsLastAlert
  <2>3. CASE a \notin alerts
    <3>1. b.version <= a.version /\ a.version \in Nat
      <4>1. CASE b \in alerts
        BY <1>4, <1>8, <2>3, <4>1
      <4>2. CASE b \notin alerts
        BY <1>8, <2>3, <4>2
      <4> QED
        BY <4>1, <4>2
    <3> QED
      BY <1>4, <1>8, <2>3, <3>1
  <2> QED
    BY <2>1, <2>2, <2>3
<1>16. AlertsInScrapeOrder'
  <2> SUFFICES ASSUME NEW a \in alerts', NEW b \in alerts',
                      a.sub = b.sub, a.version < b.version
               PROVE  a.at <= b.at
    BY DEF AlertsInScrapeOrder
  <2>1. CASE a \in alerts /\ b \in alerts
    BY <2>1 DEF AlertInv, AlertsInScrapeOrder
  <2>2. CASE a \in alerts /\ b \notin alerts
    <3>1. a.at <= latest[r.product] /\ b.at = r.at
      BY <1>4, <1>8, <2>2
    <3> QED
      BY <1>4, <1>5, <2>2, <3>1 DEF AlertInv, AlertTypeOK
  <2>3. CASE a \notin alerts
    <3>1. b.version <= a.version /\ a.version \in Nat /\ b.version \in Nat
      <4>1. CASE b \in alerts
        BY <1>4, <1>8, <2>3, <4>1
      <4>2. CASE b \notin alerts
        BY <1>8, <2>3, <4>2
      <4> QED
        BY <4>1, <4>2
    <3> QED
      BY <3>1
  <2> QED
    BY <2>1, <2>2, <2>3
<1> QED
  BY <1>9, <1>11, <1>13, <1>14, <1>15, <1>16 DEF AlertInv

-----------------------------------------------------------------------------
(* Answers.                                                                *)

(* Nobody has asked for anything yet. *)
LEMMA InitAnswers == Init => AnswerInv
BY DEF Init, AnswerInv, RequesterAnswered

(* A TaskID that is asked for is new, so it has no result to be answered;  *)
(* a result is answered to whoever asked, as it is recorded.               *)
LEMMA StepAnswers ==
    ASSUME AnswerInv, [NextStep]_vars
    PROVE  AnswerInv'
<1>1. CASE UNCHANGED <<processed, requests, answers>>
  BY <1>1 DEF AnswerInv, RequesterAnswered
<1>2. ASSUME NEW t \in Tasks, NEW s \in Subs, QueueForce(t, s)
      PROVE  AnswerInv'
  <2>1. /\ requests' = [requests EXCEPT ![t] = s] /\ t \notin processed
        /\ UNCHANGED <<processed, answers>>
    BY <1>2 DEF QueueForce, alertVars, subVars, resultVars
  <2>2. requests' \in [Tasks -> Subs \cup {NoRequest}]
    BY <2>1 DEF AnswerInv
  <2>3. ASSUME NEW v \in Tasks, NEW u \in Users
        PROVE  <<v, u>> \in answers' <=>
                 v \in processed' /\ requests'[v] # NoRequest /\ requests'[v][1] = u
    BY <2>1 DEF AnswerInv, RequesterAnswered
  <2> QED
    BY <2>2, <2>3 DEF AnswerInv, RequesterAnswered
<1>3. ASSUME NEW r \in Result, RecordOrphan(r)
      PROVE  AnswerInv'
  <2>1. /\ processed' = processed \cup {r.task} /\ requests[r.task] = NoRequest
        /\ UNCHANGED <<requests, answers>>
    BY <1>3 DEF RecordOrphan, Orphan, Requested
  <2> QED
    BY <2>1 DEF AnswerInv, RequesterAnswered
<1>4. ASSUME NEW r \in Result, ProcessPriceResult(r)
      PROVE  AnswerInv'
  <2>1. /\ r.task \notin processed /\ processed' = processed \cup {r.task}
        /\ UNCHANGED requests
        /\ answers' = IF requests[r.task] # NoRequest
                        THEN answers \cup {<<r.task, requests[r.task][1]>>}
                        ELSE answers
    BY <1>4 DEF ProcessPriceResult, Answerable, Requested
  <2>2. ASSUME NEW v \in Tasks, NEW u \in Users
        PROVE  <<v, u>> \in answers' <=>
                 v \in processed' /\ requests'[v] # NoRequest /\ requests'[v][1] = u
    <3>1. <<v, u>> \in answers <=>
            v \in processed /\ requests[v] # NoRequest /\ requests[v][1] = u
      BY DEF AnswerInv, RequesterAnswered
    <3>2. CASE requests[r.task] = NoRequest
      BY <2>1, <3>1, <3>2
    <3>3. CASE requests[r.task] # NoRequest
      BY <2>1, <3>1, <3>3
    <3> QED
      BY <3>2, <3>3
  <2> QED
    BY <2>1, <2>2 DEF AnswerInv, RequesterAnswered
<1>5. CASE UNCHANGED vars
  BY <1>1, <1>5 DEF vars, resultVars
<1>6. ASSUME NEW s \in Subs, NEW lo \in Amounts, NEW hi \in Amounts,
             Create(s, lo, hi) \/ UpdateThresholds(s, lo, hi)
      PROVE  AnswerInv'
  BY <1>1, <1>6 DEF Create, UpdateThresholds, resultVars
<1>7. ASSUME NEW s \in Subs, Pause(s) \/ Resume(s) \/ Delete(s)
      PROVE  AnswerInv'
  BY <1>1, <1>7 DEF Pause, Resume, Delete, resultVars
<1> QED
  BY <1>2, <1>3, <1>4, <1>5, <1>6, <1>7 DEF NextStep

-----------------------------------------------------------------------------

(* Edits of a subscription reset its alert or leave it; a result moves the *)
(* zones of its product's watchers, or only latest_result_at, or neither.  *)
LEMMA StepAlerts ==
    ASSUME AlertInv, [NextStep]_vars, AlertsAssumption
    PROVE  AlertInv'
<1>0. Times \subseteq Nat /\ \A p \in Products : latest[p] <= latest[p]
  BY DEF AlertsAssumption, AlertInv, AlertTypeOK
<1>1. ASSUME NEW s \in Subs, NEW lo \in Amounts, NEW hi \in Amounts, Create(s, lo, hi)
      PROVE  AlertInv'
  <2>1. active' \subseteq Subs /\ UNCHANGED latest
    BY <1>1 DEF Create, resultVars, AlertInv, AlertTypeOK
  <2>2. ResetAlert(s) \/ UNCHANGED alertVars
    BY <1>1 DEF Create
  <2> QED
    BY <1>0, <2>1, <2>2, ResetKeepsAlerts, QuietKeepsAlerts DEF AlertInv, AlertTypeOK
<1>2. ASSUME NEW s \in Subs, NEW lo \in Amounts, NEW hi \in Amounts, UpdateThresholds(s, lo, hi)
      PROVE  AlertInv'
  <2>1. active' \subseteq Subs /\ UNCHANGED latest
    BY <1>2 DEF UpdateThresholds, resultVars, AlertInv, AlertTypeOK
  <2>2. ResetAlert(s) \/ UNCHANGED alertVars
    BY <1>2 DEF UpdateThresholds
  <2> QED
    BY <1>0, <2>1, <2>2, ResetKeepsAlerts, QuietKeepsAlerts DEF AlertInv, AlertTypeOK
<1>3. ASSUME UNCHANGED <<alertVars, latest>>, active' \subseteq active
      PROVE  AlertInv'
  BY <1>0, <1>3, QuietKeepsAlerts DEF AlertInv, AlertTypeOK
<1>4. ASSUME NEW s \in Subs, Pause(s) \/ Resume(s) \/ Delete(s)
      PROVE  AlertInv'
  BY <1>3, <1>4 DEF Pause, Resume, Delete, resultVars
<1>5. ASSUME NEW t \in Tasks, NEW s \in Subs, QueueForce(t, s)
      PROVE  AlertInv'
  BY <1>3, <1>5 DEF QueueForce, subVars, resultVars
<1>6. ASSUME NEW r \in Result, RecordOrphan(r)
      PROVE  AlertInv'
  BY <1>3, <1>6 DEF RecordOrphan, subVars
<1>7. ASSUME NEW r \in Result, ProcessPriceResult(r)
      PROVE  AlertInv'
  <2>1. active' = active
    BY <1>7 DEF ProcessPriceResult, subVars
  <2>2. CASE r.success /\ ~Stale(r)
    <3>1. r \in Found
      BY <2>2 DEF Result, Failed
    <3>2. latest' = [latest EXCEPT ![r.product] = r.at]
      BY <1>7, <2>2 DEF ProcessPriceResult
    <3>3. CASE Requested(r)
      <4>1. UNCHANGED alertVars
        BY <1>7, <3>3 DEF ProcessPriceResult
      <4>2. r.product \in Products /\ r.at \in Nat /\ latest \in [Products -> Nat]
        BY <1>0, <3>1 DEF Found, AlertInv, AlertTypeOK
      <4>3. latest[r.product] <= r.at
        BY <2>2, <4>2 DEF Stale
      <4>4. latest' \in [Products -> Nat] /\ \A p \in Products : latest[p] <= latest'[p]
        BY <3>2, <4>2, <4>3
      <4> QED
        BY <2>1, <4>1, <4>4, QuietKeepsAlerts DEF AlertInv, AlertTypeOK
    <3>4. CASE ~Requested(r)
      <4>1. MoveZones(r)
        BY <1>7, <2>2, <3>4 DEF ProcessPriceResult
      <4> QED
        BY <1>0, <2>1, <2>2, <3>1, <3>2, <4>1, MoveKeepsAlerts
    <3> QED
      BY <3>3, <3>4
  <2>3. CASE ~(r.success /\ ~Stale(r))
    <3>1. UNCHANGED <<alertVars, latest>>
      BY <1>7, <2>3 DEF ProcessPriceResult
    <3> QED
      BY <1>3, <2>1, <3>1
  <2> QED
    BY <2>2, <2>3
<1>8. CASE UNCHANGED vars
  BY <1>3, <1>8 DEF vars, subVars, resultVars
<1> QED
  BY <1>1, <1>2, <1>4, <1>5, <1>6, <1>7, <1>8 DEF NextStep

(* What alert_state and alert_version have to do with the alerts sent.     *)
THEOREM AlertInvariant == Spec => []AlertInv
<1>1. Init => AlertInv
  BY InitAlerts
<1>2. AlertInv /\ [NextStep]_vars => AlertInv'
  BY StepAlerts, AlertsAssumption
<1> QED
  BY <1>1, <1>2, PTL DEF Spec

(* A subscription that says it was alerted was, and not by an alert that   *)
(* the event key swallowed.                                                *)
THEOREM AlertBacked == Spec => []AlertStateBacked
<1>1. AlertInv => AlertStateBacked
  BY DEF AlertInv
<1> QED
  BY <1>1, AlertInvariant, PTL

(* Consecutive alerts of a subscription say different things. *)
THEOREM NoAlertTwice == Spec => []NoRepeatedAlert
<1>1. AlertInv => NoRepeatedAlert
  BY DEF AlertInv
<1> QED
  BY <1>1, AlertInvariant, PTL

(* Results in any order, and repeated, alert in the order of the scrapes.  *)
THEOREM AlertsOrdered == Spec => []AlertsInScrapeOrder
<1>1. AlertInv => AlertsInScrapeOrder
  BY DEF AlertInv
<1> QED
  BY <1>1, AlertInvariant, PTL

(* The answers sent are those to the processed checks somebody asked for.  *)
THEOREM Answered == Spec => []RequesterAnswered
<1>1. AnswerInv /\ [NextStep]_vars => AnswerInv'
  BY StepAnswers
<1>2. AnswerInv => RequesterAnswered
  BY DEF AnswerInv
<1> QED
  BY <1>1, <1>2, InitAnswers, PTL DEF Spec
=============================================================================
