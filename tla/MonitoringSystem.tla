-------------------------- MODULE MonitoringSystem --------------------------
(***************************************************************************)
(* The Gateway and the Scheduler together.  gateway_outbox, its worker and *)
(* the durable queue track_requests between them deliver every command at  *)
(* least once, in any order, and again after any number of crashes, lost   *)
(* confirmations and requeues: a command that was once enqueued may be     *)
(* delivered at any later time.                                            *)
(***************************************************************************)
EXTENDS GatewayMonitoring, SchedulerStore, Sequences

systemVars == <<gatewayVars, schedulerVars>>

Init == GatewayInit /\ SchedulerInit

GatewayStep == GatewayNext /\ UNCHANGED schedulerVars

DeliverSnapshot(s) ==
    /\ s \in snapshots
    /\ ApplySnapshot(s)
    /\ UNCHANGED gatewayVars

DeliverForce(c) ==
    /\ c \in forces
    /\ EnqueueForce(c)
    /\ UNCHANGED gatewayVars

SchedulerTick == Tick /\ UNCHANGED gatewayVars

CommitChecks(w) == CommitDue(w) /\ UNCHANGED gatewayVars

Next ==
    \/ GatewayStep
    \/ \E s \in snapshots : DeliverSnapshot(s)
    \/ \E c \in forces : DeliverForce(c)
    \/ SchedulerTick

(* A delivery is attempted until it is acknowledged, and an open EnqueueDue *)
(* ends; it may fail now and then, not always.                              *)
Fairness ==
    /\ \A p \in Products, v \in 1 .. MaxVersion :
         SF_systemVars(\E s \in snapshots :
                         s.product = p /\ s.version = v /\ DeliverSnapshot(s))
    /\ \A f \in ForceIds :
         SF_systemVars(\E c \in forces : c.task = f /\ DeliverForce(c))
    /\ \A w \in Replicas : WF_systemVars(CommitChecks(w))

Spec == Init /\ [][Next]_systemVars

FairSpec == Spec /\ Fairness

-----------------------------------------------------------------------------

(* The history of wishes is the sequence of a product's snapshots, and the *)
(* Scheduler is where the version of its row says.                         *)
History(p) ==
    [v \in 1 .. version[p] |->
       (CHOOSE s \in snapshots : s.product = p /\ s.version = v).active]

Service == INSTANCE MonitoringService WITH
    wanted <- [p \in Products |-> Monitored(active, paused, p)],
    history <- [p \in Products |-> History(p)],
    position <- [p \in Products |-> schedule[p].version],
    monitored <- [p \in Products |-> schedule[p].active]

(* Gateway, outbox and Scheduler together keep the promise of              *)
(* MonitoringService: through duplicated and reordered snapshots the       *)
(* Scheduler only moves forward along the history of what was wanted.      *)
FollowsHistory == Service!Safety

(* .. and never stays behind a version that was published. *)
CatchesUp == Service!Spec

(* The Scheduler never rejects, and so never drops, what the Gateway sends. *)
NothingRejected ==
    /\ \A s \in snapshots : Accepted(s)
    /\ \A c \in forces : SameIdentity(c)

(* When the Scheduler has seen the newest version of a product and queues  *)
(* a periodic check of it, somebody is watching the product at that moment. *)
ChecksOnlyWhatIsWatched ==
    [][\A p \in Products :
         periodic'[p] > periodic[p] /\ schedule[p].version = version[p]
           => Monitored(active, paused, p)]_systemVars

(* A forced check the Gateway accepted becomes exactly one scraper task,   *)
(* whatever happens to the subscription after that.                        *)
ForcedChecksHappen ==
    \A f \in ForceIds :
        (\E c \in forces : c.task = f) ~> [](forced[f] = 1)

=============================================================================
