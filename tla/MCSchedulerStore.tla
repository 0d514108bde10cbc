-------------------------- MODULE MCSchedulerStore --------------------------
(* SchedulerStore under a queue that holds every command of a small set,   *)
(* contradictory ones included, and delivers each any number of times in   *)
(* any order: what the consumer must withstand by itself.                  *)
EXTENDS SchedulerStore, TLC

CONSTANT Versions   \* versions of the commands

Snapshots == [product : Products, version : Versions, url : URLs, active : BOOLEAN]
Forces == [task : ForceIds, product : Products, url : URLs]

MCNext ==
    \/ \E c \in Snapshots : ApplySnapshot(c)
    \/ \E c \in Forces : EnqueueForce(c)
    \/ Tick

MCSpec == SchedulerInit /\ [][MCNext]_schedulerVars

Interchangeable ==
    Permutations(Products) \cup Permutations(URLs) \cup Permutations(Replicas)
=============================================================================
