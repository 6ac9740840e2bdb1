----------------------------- MODULE MonQuorum -----------------------------
(***************************************************************************)
(* What the election of a Ceph monitor quorum promises to the rest of the  *)
(* monitor (Paxos and the services above it), independently of how the     *)
(* Elector brings it about.                                                *)
(*                                                                         *)
(* Every monitor keeps an election epoch.  It is either outside any quorum *)
(* (probing, electing, crashed), the leader of a quorum, or a peon that    *)
(* follows a leader.  Monitors leave their quorum at will; a monitor that  *)
(* declares victory is the lowest rank of a majority whose members all     *)
(* reached the election epoch just below; and a peon only follows a        *)
(* victory that was declared, that names it, and that is newer than        *)
(* anything it has seen.                                                   *)
(*                                                                         *)
(* A definition Op_Variant is a faulty variant of Op, kept to show that    *)
(* the properties notice the fault; no action uses one.                    *)
(***************************************************************************)
EXTENDS Naturals, FiniteSets

CONSTANTS Mon,       \* the ranks of the monitors in the monmap
          MaxEpoch   \* bound on the election epochs explored

ASSUME MonAssumption == IsFiniteSet(Mon) /\ Mon \subseteq Nat
ASSUME MaxEpochAssumption == MaxEpoch \in Nat \ {0}

VARIABLES epoch,     \* epoch[m]: m's election epoch, kept in its store
          role,      \* role[m]: "out", "leader" or "peon"
          won,       \* history: the victories declared so far
          joined     \* history: who followed whom, and in which epoch

vars == <<epoch, role, won, joined>>

Epoch == 1 .. MaxEpoch

Majority(Q) == 2 * Cardinality(Q) > Cardinality(Mon)

VictoryRec == [epoch : Epoch, leader : Mon, quorum : SUBSET Mon]
JoinRec == [mon : Mon, epoch : Epoch, leader : Mon]

Init_NoDefaultEpoch ==
  /\ epoch = [m \in Mon |-> 0]
  /\ role = [m \in Mon |-> "out"]
  /\ won = {}
  /\ joined = {}

Init ==
  /\ epoch = [m \in Mon |-> 1]
  /\ role = [m \in Mon |-> "out"]
  /\ won = {}
  /\ joined = {}

(* m stops leading or following: Monitor::bootstrap(), start_election(),
   join_election(), or a crash.  Its epoch never goes back. *)
Leave(m) ==
  /\ \E e \in Epoch : e >= epoch[m] /\ epoch' = [epoch EXCEPT ![m] = e]
  /\ role' = [role EXCEPT ![m] = "out"]
  /\ UNCHANGED <<won, joined>>

WinElection_AnyQuorum(m, e, Q) ==
  /\ e % 2 = 0
  /\ e > epoch[m]
  /\ m \in Q
  /\ \A q \in Q : m <= q /\ epoch[q] + 1 >= e
  /\ epoch' = [epoch EXCEPT ![m] = e]
  /\ role' = [role EXCEPT ![m] = "leader"]
  /\ won' = won \union {[epoch |-> e, leader |-> m, quorum |-> Q]}
  /\ joined' = joined \union {[mon |-> m, epoch |-> e, leader |-> m]}

(* m declares victory: Elector::victory() and Monitor::win_election(). *)
WinElection(m, e, Q) ==
  /\ e % 2 = 0
  /\ e > epoch[m]
  /\ m \in Q
  /\ Majority(Q)
  /\ \A q \in Q : m <= q /\ epoch[q] + 1 >= e
  /\ epoch' = [epoch EXCEPT ![m] = e]
  /\ role' = [role EXCEPT ![m] = "leader"]
  /\ won' = won \union {[epoch |-> e, leader |-> m, quorum |-> Q]}
  /\ joined' = joined \union {[mon |-> m, epoch |-> e, leader |-> m]}

LoseElection_SameEpoch(m, v) ==
  /\ v.epoch >= epoch[m]
  /\ m \in v.quorum
  /\ epoch' = [epoch EXCEPT ![m] = v.epoch]
  /\ role' = [role EXCEPT ![m] = "peon"]
  /\ joined' = joined \union {[mon |-> m, epoch |-> v.epoch, leader |-> v.leader]}
  /\ UNCHANGED won

LoseElection_NotNamed(m, v) ==
  /\ v.epoch > epoch[m]
  /\ epoch' = [epoch EXCEPT ![m] = v.epoch]
  /\ role' = [role EXCEPT ![m] = "peon"]
  /\ joined' = joined \union {[mon |-> m, epoch |-> v.epoch, leader |-> v.leader]}
  /\ UNCHANGED won

(* m follows the victory v: Elector::handle_victory() and
   Monitor::lose_election(). *)
LoseElection(m, v) ==
  /\ v.epoch > epoch[m]
  /\ m \in v.quorum
  /\ epoch' = [epoch EXCEPT ![m] = v.epoch]
  /\ role' = [role EXCEPT ![m] = "peon"]
  /\ joined' = joined \union {[mon |-> m, epoch |-> v.epoch, leader |-> v.leader]}
  /\ UNCHANGED won

Next ==
  \E m \in Mon :
    \/ Leave(m)
    \/ \E e \in Epoch, Q \in SUBSET Mon : WinElection(m, e, Q)
    \/ \E v \in won : LoseElection(m, v)

Spec == Init /\ [][Next]_vars

-----------------------------------------------------------------------------

TypeOK ==
  /\ epoch \in [Mon -> Epoch]
  /\ role \in [Mon -> {"out", "leader", "peon"}]
  /\ won \subseteq VictoryRec
  /\ joined \subseteq JoinRec

Joined(m, e, l) == [mon |-> m, epoch |-> e, leader |-> l] \in joined

(* A monitor follows at most one leader in an epoch, however victories are
   delayed or repeated, and whatever it did in between: two candidates may both
   declare victory for the same epoch, because a peon may acknowledge both at
   the same odd epoch before either of them finishes. *)
OneLeaderPerEpoch ==
  \A j, k \in joined : j.mon = k.mon /\ j.epoch = k.epoch => j.leader = k.leader

(* The quorum named by victory v is complete: everyone in it followed. *)
Complete(v) == \A q \in v.quorum : Joined(q, v.epoch, v.leader)

(* Of the victories declared for an epoch only one leader's can ever be
   complete.  Paxos needs an answer from every member of the quorum before a
   leader does anything, so at most one leader per epoch gets to act. *)
OneCompleteQuorum ==
  \A v, w \in won :
    v.epoch = w.epoch /\ Complete(v) /\ Complete(w) => v.leader = w.leader

(* A leader or peon entered its current quorum in its current, even epoch. *)
ServingIsRecorded ==
  \A m \in Mon : role[m] # "out" =>
    /\ epoch[m] % 2 = 0
    /\ \E v \in won : v.epoch = epoch[m] /\ m \in v.quorum /\ Joined(m, v.epoch, v.leader)

=============================================================================
