----------------------------- MODULE MCElector -----------------------------
(***************************************************************************)
(* Instances of Elector and ElectorLive: clusters of three monitors.       *)
(***************************************************************************)
EXTENDS ElectorLive

(* All have the required features and have been in a quorum before. *)
Plain == [lack_con |-> {}, lack_mon |-> {}, ever_joined |-> {0, 1, 2}, calm |-> FALSE]
PlainCluster == {Plain}

(* A new cluster with two monitors that lack features, one of each kind. *)
MixedFeatures == [lack_con |-> {2}, lack_mon |-> {1}, ever_joined |-> {}, calm |-> TRUE]
EveryCluster == {Plain, MixedFeatures}

(* The monitor that would lead lacks monitor features. *)
OldLeader == [lack_con |-> {}, lack_mon |-> {0}, ever_joined |-> {0, 1, 2}, calm |-> FALSE]
OldLeaderCluster == {OldLeader}
=============================================================================
