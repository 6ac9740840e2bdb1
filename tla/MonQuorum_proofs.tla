-------------------------- MODULE MonQuorum_proofs --------------------------
(***************************************************************************)
(* The promises of MonQuorum hold for every set of monitors and every      *)
(* bound on the epochs.                                                    *)
(***************************************************************************)
EXTENDS MonQuorum, FiniteSetTheorems, TLAPS

(* What happened to a monitor so far lies at or below its epoch. *)
JoinedBelow == \A j \in joined : j.epoch <= epoch[j.mon]

(* A victory is for an even epoch and names a majority. *)
WonByMajority == \A v \in won : v.epoch % 2 = 0 /\ Majority(v.quorum)

(* The inductive invariant: that a monitor follows one leader per epoch is kept
   because it only ever joins an epoch above all it has joined before, and that
   only one quorum is complete follows from the majorities. *)
IInv ==
  /\ TypeOK
  /\ JoinedBelow
  /\ WonByMajority
  /\ OneLeaderPerEpoch
  /\ ServingIsRecorded

-----------------------------------------------------------------------------

(* Two majorities of the monmap have a monitor in common. *)
LEMMA MajoritiesMeet ==
  ASSUME NEW Q \in SUBSET Mon, NEW R \in SUBSET Mon, Majority(Q), Majority(R)
  PROVE  Q \cap R # {}
<1>1. IsFiniteSet(Q) /\ IsFiniteSet(R)
  BY MonAssumption, FS_Subset
<1>2. Cardinality(Q) \in Nat /\ Cardinality(R) \in Nat /\ Cardinality(Mon) \in Nat
  BY <1>1, MonAssumption, FS_CardinalityType
<1>3. Cardinality(Q) + Cardinality(R) > Cardinality(Mon)
  BY <1>2 DEF Majority
<1>. QED BY <1>3, MonAssumption, FS_MajoritiesIntersect

(* The initial state: every monitor out of the quorum at epoch 1. *)
LEMMA InitIInv == Init => IInv
<1>. SUFFICES ASSUME Init PROVE IInv
  OBVIOUS
<1>1. TypeOK
  BY MaxEpochAssumption DEF Init, TypeOK, Epoch
<1>2. JoinedBelow /\ WonByMajority /\ OneLeaderPerEpoch /\ ServingIsRecorded
  BY DEF Init, JoinedBelow, WonByMajority, OneLeaderPerEpoch, ServingIsRecorded
<1>. QED BY <1>1, <1>2 DEF IInv

(* Leaving a quorum keeps the invariant: nothing is recorded, and the epoch
   does not go back. *)
LEMMA LeaveIInv == ASSUME IInv, NEW m \in Mon, Leave(m) PROVE IInv'
<1>. USE DEF IInv
<1>1. PICK e \in Epoch : e >= epoch[m] /\ epoch' = [epoch EXCEPT ![m] = e]
  BY DEF Leave
<1>2. TypeOK'
  BY <1>1 DEF TypeOK, Leave
<1>3. JoinedBelow'
  <2>. SUFFICES ASSUME NEW j \in joined PROVE j.epoch <= epoch'[j.mon]
    BY DEF JoinedBelow, Leave
  <2>1. j \in JoinRec /\ j.epoch <= epoch[j.mon] BY DEF TypeOK, JoinedBelow
  <2>. QED BY <1>1, <2>1, MaxEpochAssumption DEF TypeOK, JoinRec, Epoch
<1>4. WonByMajority' /\ OneLeaderPerEpoch'
  BY DEF WonByMajority, OneLeaderPerEpoch, Leave, Majority
<1>5. ServingIsRecorded'
  <2>. SUFFICES ASSUME NEW q \in Mon, role'[q] # "out"
                PROVE  /\ epoch'[q] % 2 = 0
                       /\ \E v \in won : /\ v.epoch = epoch'[q]
                                         /\ q \in v.quorum
                                         /\ Joined(q, v.epoch, v.leader)
    BY DEF ServingIsRecorded, Leave, Joined
  <2>1. q # m BY DEF Leave, TypeOK
  <2>2. epoch'[q] = epoch[q] /\ role'[q] = role[q] BY <1>1, <2>1 DEF Leave, TypeOK
  <2>. QED BY <2>2 DEF ServingIsRecorded
<1>. QED BY <1>2, <1>3, <1>4, <1>5

(* Recording that m joined epoch e under l, above all it has joined before,
   keeps what is recorded consistent. *)
LEMMA JoinKeeps ==
  ASSUME TypeOK, JoinedBelow, OneLeaderPerEpoch,
         NEW m \in Mon, NEW e \in Epoch, NEW l \in Mon, e > epoch[m],
         epoch' = [epoch EXCEPT ![m] = e],
         joined' = joined \union {[mon |-> m, epoch |-> e, leader |-> l]}
  PROVE  JoinedBelow' /\ OneLeaderPerEpoch'
<1>1. \A j \in joined : j \in JoinRec /\ j.epoch <= epoch[j.mon]
  BY DEF TypeOK, JoinedBelow
<1>2. \A q \in Mon : epoch[q] \in Nat /\ epoch'[q] = IF q = m THEN e ELSE epoch[q]
  BY MaxEpochAssumption DEF TypeOK, Epoch
<1>3. e \in Nat BY MaxEpochAssumption DEF Epoch
<1>4. JoinedBelow'
  <2>. SUFFICES ASSUME NEW j \in joined' PROVE j.epoch <= epoch'[j.mon]
    BY DEF JoinedBelow
  <2>1. CASE j \in joined
    BY <1>1, <1>2, <1>3, <2>1, MaxEpochAssumption DEF JoinRec, Epoch
  <2>2. CASE j = [mon |-> m, epoch |-> e, leader |-> l]
    BY <1>2, <1>3, <2>2
  <2>. QED BY <2>1, <2>2
<1>5. OneLeaderPerEpoch'
  <2>. SUFFICES ASSUME NEW j \in joined', NEW k \in joined',
                       j.mon = k.mon, j.epoch = k.epoch
                PROVE  j.leader = k.leader
    BY DEF OneLeaderPerEpoch
  <2>. DEFINE r == [mon |-> m, epoch |-> e, leader |-> l]
  <2>1. \A i \in joined : ~(i.mon = m /\ i.epoch = e)
    BY <1>1, <1>2, <1>3, MaxEpochAssumption DEF JoinRec, Epoch
  <2>2. CASE j \in joined /\ k \in joined
    BY <2>2 DEF OneLeaderPerEpoch
  <2>3. CASE j = r \/ k = r
    BY <2>1, <2>3
  <2>. QED BY <2>2, <2>3
<1>. QED BY <1>4, <1>5

(* A monitor that serves is still covered by the records after others were
   added, if its own role and epoch did not change. *)
LEMMA OthersStayRecorded ==
  ASSUME ServingIsRecorded, NEW q \in Mon, role'[q] = role[q], epoch'[q] = epoch[q],
         won \subseteq won', joined \subseteq joined', role'[q] # "out"
  PROVE  /\ epoch'[q] % 2 = 0
         /\ \E v \in won' : /\ v.epoch = epoch'[q]
                            /\ q \in v.quorum
                            /\ Joined(q, v.epoch, v.leader)'
BY DEF ServingIsRecorded, Joined

(* Declaring a victory keeps the invariant. *)
LEMMA WinIInv ==
  ASSUME IInv, NEW m \in Mon, NEW e \in Epoch, NEW Q \in SUBSET Mon, WinElection(m, e, Q)
  PROVE  IInv'
<1>. USE DEF IInv
<1>. DEFINE w == [epoch |-> e, leader |-> m, quorum |-> Q]
<1>1. TypeOK'
  BY DEF TypeOK, WinElection, VictoryRec, JoinRec
<1>2. JoinedBelow' /\ OneLeaderPerEpoch'
  BY JoinKeeps DEF WinElection
<1>3. WonByMajority'
  BY DEF WonByMajority, WinElection, Majority
<1>4. ServingIsRecorded'
  <2>. SUFFICES ASSUME NEW q \in Mon, role'[q] # "out"
                PROVE  /\ epoch'[q] % 2 = 0
                       /\ \E v \in won' : /\ v.epoch = epoch'[q]
                                          /\ q \in v.quorum
                                          /\ Joined(q, v.epoch, v.leader)'
    BY DEF ServingIsRecorded, Joined
  <2>1. CASE q = m
    <3>1. epoch'[m] = e /\ w \in won' /\ Joined(m, e, m)'
      BY DEF WinElection, TypeOK, Joined
    <3>. QED BY <2>1, <3>1 DEF WinElection
  <2>2. CASE q # m
    BY <2>2, OthersStayRecorded DEF WinElection, TypeOK
  <2>. QED BY <2>1, <2>2
<1>. QED BY <1>1, <1>2, <1>3, <1>4

(* Following a victory keeps the invariant. *)
LEMMA LoseIInv ==
  ASSUME IInv, NEW m \in Mon, NEW w \in won, LoseElection(m, w)
  PROVE  IInv'
<1>. USE DEF IInv
<1>0. w \in VictoryRec /\ w.epoch \in Epoch /\ w.leader \in Mon
  BY DEF TypeOK, VictoryRec
<1>1. TypeOK'
  BY <1>0 DEF TypeOK, LoseElection, JoinRec
<1>2. JoinedBelow' /\ OneLeaderPerEpoch'
  BY <1>0, JoinKeeps DEF LoseElection
<1>3. WonByMajority'
  BY DEF WonByMajority, LoseElection, Majority
<1>4. ServingIsRecorded'
  <2>. SUFFICES ASSUME NEW q \in Mon, role'[q] # "out"
                PROVE  /\ epoch'[q] % 2 = 0
                       /\ \E v \in won' : /\ v.epoch = epoch'[q]
                                          /\ q \in v.quorum
                                          /\ Joined(q, v.epoch, v.leader)'
    BY DEF ServingIsRecorded, Joined
  <2>1. CASE q = m
    <3>1. epoch'[m] = w.epoch /\ w \in won' /\ Joined(m, w.epoch, w.leader)'
      BY DEF LoseElection, TypeOK, Joined
    <3>2. w.epoch % 2 = 0 BY DEF WonByMajority
    <3>. QED BY <2>1, <3>1, <3>2 DEF LoseElection
  <2>2. CASE q # m
    BY <2>2, OthersStayRecorded DEF LoseElection, TypeOK
  <2>. QED BY <2>1, <2>2
<1>. QED BY <1>1, <1>2, <1>3, <1>4

(* The invariant is inductive. *)
LEMMA NextIInv == IInv /\ [Next]_vars => IInv'
<1>. SUFFICES ASSUME IInv, [Next]_vars PROVE IInv'
  OBVIOUS
<1>1. CASE UNCHANGED vars
  BY <1>1 DEF vars, IInv, TypeOK, JoinedBelow, WonByMajority, OneLeaderPerEpoch,
              ServingIsRecorded, Joined, Majority
<1>2. ASSUME NEW m \in Mon, Leave(m) PROVE IInv'
  BY <1>2, LeaveIInv
<1>3. ASSUME NEW m \in Mon, NEW e \in Epoch, NEW Q \in SUBSET Mon, WinElection(m, e, Q)
      PROVE  IInv'
  BY <1>3, WinIInv
<1>4. ASSUME NEW m \in Mon, NEW v \in won, LoseElection(m, v) PROVE IInv'
  BY <1>4, LoseIInv
<1>. QED BY <1>1, <1>2, <1>3, <1>4 DEF Next

-----------------------------------------------------------------------------

(* What the invariant says of complete quorums: two of them share a member, and
   that member followed one leader. *)
LEMMA IInvComplete == IInv => OneCompleteQuorum
<1>. SUFFICES ASSUME IInv, NEW v \in won, NEW w \in won,
                     v.epoch = w.epoch, Complete(v), Complete(w)
              PROVE  v.leader = w.leader
  BY DEF OneCompleteQuorum
<1>1. v.quorum \in SUBSET Mon /\ w.quorum \in SUBSET Mon
  BY DEF IInv, TypeOK, VictoryRec
<1>2. PICK q \in v.quorum : q \in w.quorum
  BY <1>1, MajoritiesMeet DEF IInv, WonByMajority
<1>. DEFINE j == [mon |-> q, epoch |-> v.epoch, leader |-> v.leader]
            k == [mon |-> q, epoch |-> w.epoch, leader |-> w.leader]
<1>3. j \in joined /\ k \in joined
  BY <1>2 DEF Complete, Joined
<1>4. j.mon = k.mon /\ j.epoch = k.epoch
  OBVIOUS
<1>5. j.leader = k.leader
  BY <1>3, <1>4 DEF IInv, OneLeaderPerEpoch
<1>. QED BY <1>5

(* The invariant holds in every state of the election. *)
THEOREM Invariance == Spec => []IInv
BY InitIInv, NextIInv, PTL DEF Spec

(* Epochs, roles and records stay well formed. *)
THEOREM TypeCorrect == Spec => []TypeOK
<1>1. IInv => TypeOK BY DEF IInv
<1>. QED BY <1>1, Invariance, PTL

(* However victories are delayed or repeated (Elector::handle_victory), a
   monitor follows at most one leader in an epoch. *)
THEOREM FollowsOneLeader == Spec => []OneLeaderPerEpoch
<1>1. IInv => OneLeaderPerEpoch BY DEF IInv
<1>. QED BY <1>1, Invariance, PTL

(* Of all the victories that Elector::victory() declares for an epoch, only one
   leader's is ever followed by its whole quorum. *)
THEOREM CompletesOneQuorum == Spec => []OneCompleteQuorum
BY IInvComplete, Invariance, PTL

(* A leader or peon serves in the even epoch of a victory that names it. *)
THEOREM ServesARecordedVictory == Spec => []ServingIsRecorded
<1>1. IInv => ServingIsRecorded BY DEF IInv
<1>. QED BY <1>1, Invariance, PTL

=============================================================================
