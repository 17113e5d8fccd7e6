-------------------------- MODULE MCNotifications --------------------------
(* The notification service on a small instance: two replicas, and two       *)
(* partitions, one of which gets both events.                                *)
EXTENDS Notifications, TLC

CONSTANTS t1, t2, p1, p2, r1, r2

MCPartitionOf == t1 :> p1 @@ t2 :> p1
=============================================================================
