----------------------------- MODULE PaxosVotes -----------------------------
(***************************************************************************)
(* Why the logs of the monitors agree.  A monitor votes for a value when   *)
(* it stores it as uncommitted: begin() and handle_begin() do.  A vote is  *)
(* for a version, under a proposal number.  A leader commits a value only  *)
(* when its whole quorum has voted for it, and makes sure in recovery that *)
(* no other value can get a majority under a lower number: its quorum has  *)
(* promised not to vote under lower numbers any more, and what the members *)
(* have voted for so far is in their answers.                              *)
(*                                                                         *)
(* The argument needs that a promise is kept.  A promise a leader made to  *)
(* itself in collect() is not in its store: after a restart it follows     *)
(* leaders with a lower number (Paxos.tla, the finding in MCPaxos).  The   *)
(* theorems here are about the behaviours in which that does not happen.   *)
(***************************************************************************)
EXTENDS Paxos_proofs

(* The number up to which a monitor takes part in no proposal any more; it is
   in force if the Paxos code compares with it. *)
Level(s) == Larger(s.last_pn, s.accepted_pn)
InForce(s) == s.last_pn <= s.accepted_pn

(* A promise counts the numbers of one's own collects. *)
KeepsPromise ==
  \A m \in Mon : px'[m].accepted_pn > px[m].accepted_pn => px'[m].accepted_pn >= Promised(m)

-----------------------------------------------------------------------------
(* Votes: V is the set of all votes so far, <<monitor, number, version, value>>,
   W the monitors and M the messages under way, <<from, to, message>>. *)

Votes == Mon \X Nat \X Version \X Value
Parcels == Mon \X Mon \X LooseMessage

Voted(V, q, c, v, X) == <<q, c, v, X>> \in V
Unvoted(V, q, c, v) == \A X \in Value : ~Voted(V, q, c, v, X)

(* Under number b nothing but X gets a majority for v, now or later. *)
SafeAt(V, W, b, v, X) ==
  \E Q \in Majorities : \A q \in Q :
    Voted(V, q, b, v, X) \/ (Unvoted(V, q, b, v) /\ b < Level(W[q].s))

(* What holds of every vote for X: the monitor that made the number has
   proposed X, which is safe, and proposed nothing else. *)
Ballot(V, W, c, v, X) ==
  /\ X # NoValue
  /\ Voted(V, c % 100, c, v, X)
  /\ \A b \in Nat : b < c => SafeAt(V, W, b, v, X)
  /\ \A q \in Mon, Y \in Value : Voted(V, q, c, v, Y) => Y = X

Chosen(V, c, v, X) == \E Q \in Majorities : \A q \in Q : Voted(V, q, c, v, X)

(* X has a majority for v, and the leader that got it has committed it. *)
Knows(A, c, v) == A.role = "leader" /\ A.s.accepted_pn = c => v <= A.s.last_committed
Decided(V, W, v, X) ==
  \E c \in Nat : Chosen(V, c, v, X) /\ \A o \in Mon : o = c % 100 => Knows(W[o], c, v)

(* A monitor in state s has in its store its last vote for the next version and
   what was decided before it. *)
Own(V, W, m, s) ==
  /\ \A c \in Nat, v \in Version, X \in Value : Voted(V, m, c, v, X) =>
       /\ c <= Level(s) /\ v <= s.last_committed + 1
       /\ v = s.last_committed + 1 => s.values[v] # NoValue /\ c <= s.pending_pn
  /\ \A v \in Version : v = s.last_committed + 1 /\ s.values[v] # NoValue =>
       Voted(V, m, s.pending_pn, v, s.values[v])
  /\ \A v \in Version : v <= s.last_committed => Decided(V, W, v, s.values[v])
  /\ s.accepted_pn \in {s.stored_pn, s.last_pn}

(* B keeps the promise it gave to i in epoch e as long as it is there. *)
Steady(B, i, e) == (Follows(B, i, e) /\ InForce(B.s)) \/ Gone(B, e)

(* A leader in state s takes an earlier vote under c for v into account. *)
Heeded(s, c, v) ==
  \/ v <= s.last_committed
  \/ v = s.last_committed + 1 /\ s.state \in {"updating_previous", "writing_previous"}
  \/ /\ v = s.last_committed + 1 /\ s.state = "recovering"
     /\ s.uncommitted_v = v /\ c <= s.uncommitted_pn

(* The best uncommitted value that recovery has found is somebody's vote. *)
Best(V, s) ==
  /\ s.uncommitted_v = 0 => s.uncommitted_pn = 0
  /\ s.uncommitted_v # 0 =>
       /\ s.uncommitted_v = s.last_committed + 1
       /\ \E q \in Mon : Voted(V, q, s.uncommitted_pn, s.uncommitted_v, s.uncommitted_value)

(* q, now node B, was counted by the leader m in state s of epoch e. *)
Promises(V, B, q, m, s, e) ==
  /\ s.accepted_pn <= Level(B.s)
  /\ q # m => Steady(B, m, e)
  /\ \A c \in Nat, v \in Version, X \in Value :
       Voted(V, q, c, v, X) /\ c < s.accepted_pn => Heeded(s, c, v)

(* A leader m, node A. *)
Leads(V, W, m, A) ==
  /\ A.s.quorum \in Majorities /\ A.s.accepted_pn = A.s.last_pn /\ A.s.accepted_pn % 100 = m
  /\ m \in A.T /\ A.T \subseteq A.s.quorum /\ A.s.num_last = Cardinality(A.T)
  /\ A.s.state # "recovering" => A.T = A.s.quorum
  /\ \A v \in Version, X \in Value : Voted(V, m, A.s.accepted_pn, v, X) =>
       A.s.state # "recovering" /\ (v <= A.s.last_committed \/ A.s.state \in Proposing)
  /\ \A q \in A.T : Promises(V, W[q], q, m, A.s, A.epoch)
  /\ A.s.state = "recovering" => Best(V, A.s)
  /\ A.s.state \in Proposing =>
       /\ A.s.committing \subseteq A.s.new_value
       /\ \A q \in A.s.accepted :
            Voted(V, q, A.s.accepted_pn, A.s.last_committed + 1, A.s.new_value)
  /\ A.s.state \notin Proposing => A.s.committing = NoValue

(* What a last from node A of i tells about the votes of i. *)
Reports(V, A, B, i, j, x) ==
  /\ x.pn <= Level(A.s)
  /\ x.pn % 100 = j => Steady(A, j, x.epoch)
  /\ \A c \in Nat, v \in Version, X \in Value : Voted(V, i, c, v, X) /\ c < x.pn =>
       \/ v <= x.last_committed \/ v <= B.s.last_committed
       \/ v = x.last_committed + 1 /\ x.uncommitted_pn # 0 /\ c <= x.uncommitted_pn
  /\ x.uncommitted_pn # 0 =>
       Voted(V, i, x.uncommitted_pn, x.last_committed + 1, At(x.values, x.last_committed + 1))

(* A message x from i to j. *)
Carried(V, W, i, j, x) ==
  /\ i # j
  /\ \A v \in Version : v <= x.last_committed /\ x.values[v] # NoValue =>
       Decided(V, W, v, x.values[v])
  /\ x.op = "begin" =>
       /\ Voted(V, i, x.pn, x.last_committed + 1, At(x.values, x.last_committed + 1))
       /\ Steady(W[j], i, x.epoch)
  /\ x.op = "accept" => \E X \in Value : Voted(V, i, x.pn, x.last_committed + 1, X)
  /\ x.op = "collect" => (W[i].role = "leader" => j \notin W[i].T)
  /\ x.op = "last" => /\ W[j].role = "leader" => i \notin W[j].T
                      /\ Reports(V, W[i], W[j], i, j, x)

Durable(V, W, ack) ==
  \A o \in ack : \E v \in Version, X \in Value : o \in X /\ Decided(V, W, v, X)

Lawful(V, W, M, ack) ==
  /\ V \subseteq Votes /\ W \in Worlds /\ M \subseteq Parcels
  /\ \A q \in Mon, c \in Nat, v \in Version, X \in Value :
       Voted(V, q, c, v, X) => Ballot(V, W, c, v, X)
  /\ \A m \in Mon : Own(V, W, m, W[m].s)
  /\ \A m \in Mon : W[m].role = "leader" => Leads(V, W, m, W[m])
  /\ \A i, j \in Mon, x \in LooseMessage : <<i, j, x>> \in M => Carried(V, W, i, j, x)
  /\ Durable(V, W, ack)

-----------------------------------------------------------------------------
(* What the law is good for *)

LEMMA MajoritiesMeet ==
  ASSUME NEW Q \in Majorities, NEW R \in Majorities
  PROVE  \E q \in Q \intersect R : q \in Mon
<1>1. Q \in SUBSET Mon /\ R \in SUBSET Mon /\ 2 * Cardinality(Q) > N /\ 2 * Cardinality(R) > N
  BY DEF Majorities, Majority
<1>2. IsFiniteSet(Mon) /\ Cardinality(Mon) = N
  <2>1. N \in Nat /\ N - 1 \in Int /\ 0 \in Int
    BY NAssumption
  <2>2. IsFiniteSet(0 .. N - 1) /\ Cardinality(0 .. N - 1) = IF 0 > N - 1 THEN 0 ELSE (N - 1) - 0 + 1
    BY <2>1, FS_Interval
  <2>. QED BY <2>2, NAssumption DEF Mon
<1>3. IsFiniteSet(Q) /\ IsFiniteSet(R)
  BY <1>1, <1>2, FS_Subset
<1>4. Cardinality(Q) \in Nat /\ Cardinality(R) \in Nat
  BY <1>3, FS_CardinalityType
<1>5. Cardinality(Q) + Cardinality(R) > Cardinality(Mon)
  BY <1>1, <1>2, <1>4, NAssumption
<1>6. Q \intersect R # {}
  BY <1>1, <1>2, <1>5, FS_MajoritiesIntersect
<1>. QED BY <1>1, <1>6

LEMMA VoteTypes ==
  ASSUME NEW V, V \subseteq Votes, NEW q, NEW c, NEW v, NEW X, Voted(V, q, c, v, X)
  PROVE  q \in Mon /\ c \in Nat /\ v \in Version /\ X \in Value
  BY DEF Votes, Voted

LEMMA LevelIs ==
  ASSUME NEW s \in LooseState
  PROVE  Level(s) \in Nat /\ s.last_pn <= Level(s) /\ s.accepted_pn <= Level(s)
         /\ (InForce(s) => Level(s) = s.accepted_pn)
         /\ Level(s) \in {s.last_pn, s.accepted_pn}
<1>1. s.last_pn \in Nat /\ s.accepted_pn \in Nat
  BY DEF LooseState
<1>. QED BY <1>1 DEF Level, Larger, InForce

(* A value that a majority has voted for is the one of every vote under a
   higher number. *)
LEMMA ChosenStays ==
  ASSUME NEW V, NEW W, NEW M, NEW ack, Lawful(V, W, M, ack),
         NEW b, NEW v, NEW X, Chosen(V, b, v, X),
         NEW q, NEW c, NEW Y, Voted(V, q, c, v, Y), b <= c
  PROVE  X = Y
<1>1. V \subseteq Votes
  BY DEF Lawful
<1>2. PICK Q \in Majorities : \A r \in Q : Voted(V, r, b, v, X)
  BY DEF Chosen
<1>3. q \in Mon /\ c \in Nat /\ v \in Version /\ Y \in Value
  BY <1>1, VoteTypes
<1>4. PICK r0 \in Q : Voted(V, r0, b, v, X)
  BY <1>2, MajoritiesMeet
<1>5. b \in Nat /\ X \in Value /\ r0 \in Mon
  BY <1>1, <1>4, VoteTypes
<1>6. Ballot(V, W, c, v, Y)
  BY <1>3 DEF Lawful
<1>7. CASE b = c
  BY <1>4, <1>5, <1>6, <1>7 DEF Ballot
<1>8. CASE b < c
  <2>1. SafeAt(V, W, b, v, Y)
    BY <1>5, <1>6, <1>8 DEF Ballot
  <2>2. PICK R \in Majorities : \A r \in R :
          Voted(V, r, b, v, Y) \/ (Unvoted(V, r, b, v) /\ b < Level(W[r].s))
    BY <2>1 DEF SafeAt
  <2>3. PICK r \in Q \intersect R : r \in Mon
    BY MajoritiesMeet
  <2>4. Voted(V, r, b, v, X) /\ ~Unvoted(V, r, b, v)
    BY <1>2, <1>5, <2>3 DEF Unvoted
  <2>5. Voted(V, r, b, v, Y)
    BY <2>2, <2>3, <2>4
  <2>6. Ballot(V, W, b, v, Y)
    BY <1>3, <1>5, <2>3, <2>5 DEF Lawful
  <2>. QED BY <1>5, <2>3, <2>4, <2>6 DEF Ballot
<1>. QED BY <1>3, <1>5, <1>7, <1>8

LEMMA DecidedOnce ==
  ASSUME NEW V, NEW W, NEW M, NEW ack, Lawful(V, W, M, ack),
         NEW v, NEW X, NEW Y, Decided(V, W, v, X), Decided(V, W, v, Y)
  PROVE  X = Y
<1>1. PICK b \in Nat : Chosen(V, b, v, X)
  BY DEF Decided
<1>2. PICK c \in Nat : Chosen(V, c, v, Y)
  BY DEF Decided
<1>3. PICK q : Voted(V, q, b, v, X)
  BY <1>1, MajoritiesMeet DEF Chosen
<1>4. PICK r : Voted(V, r, c, v, Y)
  BY <1>2, MajoritiesMeet DEF Chosen
<1>5. CASE b <= c
  BY <1>1, <1>4, <1>5, ChosenStays
<1>6. CASE c <= b
  BY <1>2, <1>3, <1>6, ChosenStays
<1>. QED BY <1>5, <1>6

-----------------------------------------------------------------------------
(* What a step of some monitors leaves as it is *)

(* A monitor moves on from node A to node A2. *)
Moves(A, A2) ==
  /\ Level(A.s) <= Level(A2.s) /\ A.s.last_committed <= A2.s.last_committed
  /\ A2.role = "leader" => \/ A.role = "leader" /\ A2.s.accepted_pn = A.s.accepted_pn
                           \/ A2.s.accepted_pn > Level(A.s)
  /\ \A i \in Mon, e \in Nat : Steady(A, i, e) => Steady(A2, i, e)

(* The monitors move from W to W2, and vote under numbers they have promised. *)
Turns(V, W, V2, W2) ==
  /\ V \subseteq V2 /\ V2 \subseteq Votes /\ W2 \in Worlds
  /\ \A q \in Mon : Moves(W[q], W2[q])
  /\ \A q \in Mon, c \in Nat, v \in Version, X \in Value :
       Voted(V2, q, c, v, X) => Voted(V, q, c, v, X) \/ Level(W[q].s) <= c

NoNewVotes(V, V2, q) ==
  \A c \in Nat, v \in Version, X \in Value : Voted(V2, q, c, v, X) => Voted(V, q, c, v, X)

LEMMA StillVoted ==
  ASSUME NEW V, NEW W, NEW V2, NEW W2, Turns(V, W, V2, W2), NEW q, NEW c, NEW v, NEW X,
         Voted(V, q, c, v, X)
  PROVE  Voted(V2, q, c, v, X)
  BY DEF Turns, Voted

LEMMA LevelsAre ==
  ASSUME NEW W \in Worlds, NEW q \in Mon
  PROVE  /\ Level(W[q].s) \in Nat /\ W[q].s.last_committed \in Nat /\ W[q].s.accepted_pn \in Nat
         /\ W[q].s \in LooseState /\ W[q].epoch \in Nat /\ W[q].T \in SUBSET Mon
         /\ W[q].s.accepted_pn <= Level(W[q].s)
<1>1. W[q] \in Node
  BY DEF Worlds
<1>. QED BY <1>1, NodeTypes, LevelIs

LEMMA StillSafe ==
  ASSUME NEW V, NEW W, NEW M, NEW ack, NEW V2, NEW W2, Lawful(V, W, M, ack), Turns(V, W, V2, W2),
         NEW b \in Nat, NEW v \in Version, NEW X, SafeAt(V, W, b, v, X)
  PROVE  SafeAt(V2, W2, b, v, X)
<1>1. W \in Worlds /\ W2 \in Worlds
  BY DEF Lawful, Turns
<1>2. PICK Q \in Majorities : \A q \in Q :
        Voted(V, q, b, v, X) \/ (Unvoted(V, q, b, v) /\ b < Level(W[q].s))
  BY DEF SafeAt
<1>3. Q \subseteq Mon
  BY DEF Majorities
<1>4. ASSUME NEW q \in Q
      PROVE  Voted(V2, q, b, v, X) \/ (Unvoted(V2, q, b, v) /\ b < Level(W2[q].s))
  <2>1. CASE Voted(V, q, b, v, X)
    BY <2>1, StillVoted
  <2>2. CASE Unvoted(V, q, b, v) /\ b < Level(W[q].s)
    <3>1. q \in Mon /\ Level(W[q].s) \in Nat /\ Level(W2[q].s) \in Nat
      BY <1>1, <1>3, LevelsAre
    <3>2. Level(W[q].s) <= Level(W2[q].s)
      BY <3>1 DEF Turns, Moves
    <3>3. ASSUME NEW Y \in Value PROVE ~Voted(V2, q, b, v, Y)
      <4>1. ~Voted(V, q, b, v, Y) /\ ~(Level(W[q].s) <= b)
        BY <2>2, <3>1 DEF Unvoted
      <4>. QED BY <3>1, <4>1 DEF Turns
    <3>. QED BY <2>2, <3>1, <3>2, <3>3 DEF Unvoted
  <2>. QED BY <1>2, <2>1, <2>2
<1>. QED BY <1>4 DEF SafeAt

LEMMA StillDecided ==
  ASSUME NEW V, NEW W, NEW M, NEW ack, NEW V2, NEW W2, Lawful(V, W, M, ack), Turns(V, W, V2, W2),
         NEW v, NEW X, Decided(V, W, v, X)
  PROVE  Decided(V2, W2, v, X)
<1>1. W \in Worlds /\ W2 \in Worlds /\ V \subseteq Votes
  BY DEF Lawful, Turns
<1>2. PICK c \in Nat : Chosen(V, c, v, X) /\ \A o \in Mon : o = c % 100 => Knows(W[o], c, v)
  BY DEF Decided
<1>3. Chosen(V2, c, v, X)
  <2>1. PICK Q \in Majorities : \A q \in Q : Voted(V, q, c, v, X)
    BY <1>2 DEF Chosen
  <2>2. \A q \in Q : Voted(V2, q, c, v, X)
    BY <2>1, StillVoted
  <2>. QED BY <2>2 DEF Chosen
<1>4. ASSUME NEW o \in Mon, o = c % 100 PROVE Knows(W2[o], c, v)
  <2>. SUFFICES ASSUME W2[o].role = "leader", W2[o].s.accepted_pn = c
                PROVE  v <= W2[o].s.last_committed
    BY DEF Knows
  <2>1. PICK q : Voted(V, q, c, v, X)
    BY <1>2, MajoritiesMeet DEF Chosen
  <2>2. q \in Mon /\ v \in Version /\ X \in Value
    BY <1>1, <2>1, VoteTypes
  <2>3. Voted(V, o, c, v, X)
    BY <1>4, <2>1, <2>2 DEF Lawful, Ballot
  <2>4. c <= Level(W[o].s)
    BY <2>2, <2>3 DEF Lawful, Own
  <2>5. /\ Level(W[o].s) \in Nat /\ W[o].s.last_committed \in Nat /\ W2[o].s.last_committed \in Nat
    BY <1>1, LevelsAre
  <2>6. W[o].role = "leader" /\ W[o].s.accepted_pn = c /\ W[o].s.last_committed <= W2[o].s.last_committed
    BY <2>4, <2>5 DEF Turns, Moves
  <2>7. v <= W[o].s.last_committed
    BY <1>2, <1>4, <2>6 DEF Knows
  <2>. QED BY <2>2, <2>5, <2>6, <2>7, MonTypes
<1>. QED BY <1>3, <1>4 DEF Decided

LEMMA StillOwn ==
  ASSUME NEW V, NEW W, NEW M, NEW ack, NEW V2, NEW W2, Lawful(V, W, M, ack), Turns(V, W, V2, W2),
         NEW q \in Mon, W2[q].s = W[q].s, NoNewVotes(V, V2, q)
  PROVE  Own(V2, W2, q, W2[q].s)
<1>1. PICK s : s = W[q].s
  OBVIOUS
<1>2. Own(V, W, q, s)
  BY <1>1 DEF Lawful
<1>3. \A v \in Version : v <= s.last_committed => Decided(V2, W2, v, s.values[v])
  BY <1>2, StillDecided DEF Own
<1>4. \A v \in Version : v = s.last_committed + 1 /\ s.values[v] # NoValue =>
        Voted(V2, q, s.pending_pn, v, s.values[v])
  BY <1>2, StillVoted DEF Own
<1>5. \A c \in Nat, v \in Version, X \in Value : Voted(V2, q, c, v, X) =>
       /\ c <= Level(s) /\ v <= s.last_committed + 1
       /\ v = s.last_committed + 1 => s.values[v] # NoValue /\ c <= s.pending_pn
  BY <1>2 DEF Own, NoNewVotes
<1>6. s.accepted_pn \in {s.stored_pn, s.last_pn}
  BY <1>2 DEF Own
<1>7. Own(V2, W2, q, s)
  BY <1>3, <1>4, <1>5, <1>6 DEF Own
<1>. QED BY <1>1, <1>7

(* A leader sees its members keep their promises. *)
LEMMA StillPromises ==
  ASSUME NEW V, NEW W, NEW V2, NEW W2, W \in Worlds, Turns(V, W, V2, W2),
         NEW q \in Mon, NEW m \in Mon, NEW s, s.accepted_pn \in Nat, NEW e \in Nat,
         Promises(V, W[q], q, m, s, e)
  PROVE  Promises(V2, W2[q], q, m, s, e)
<1>1. W2 \in Worlds /\ Moves(W[q], W2[q])
  BY DEF Turns
<1>2. Level(W[q].s) \in Nat /\ Level(W2[q].s) \in Nat
  BY <1>1, LevelsAre
<1>3. s.accepted_pn <= Level(W2[q].s) /\ s.accepted_pn <= Level(W[q].s)
  BY <1>1, <1>2 DEF Moves, Promises
<1>4. q # m => Steady(W2[q], m, e)
  BY <1>1 DEF Moves, Promises
<1>5. ASSUME NEW c \in Nat, NEW v \in Version, NEW X \in Value, Voted(V2, q, c, v, X), c < s.accepted_pn
      PROVE  Heeded(s, c, v)
  <2>1. ~(Level(W[q].s) <= c)
    BY <1>2, <1>3, <1>5
  <2>2. Voted(V, q, c, v, X)
    BY <1>5, <2>1 DEF Turns
  <2>. QED BY <1>5, <2>2 DEF Promises
<1>. QED BY <1>3, <1>4, <1>5 DEF Promises

LEMMA StillLeads ==
  ASSUME NEW V, NEW W, NEW M, NEW ack, NEW V2, NEW W2, Lawful(V, W, M, ack), Turns(V, W, V2, W2),
         NEW m \in Mon, W2[m] = W[m], W[m].role = "leader", NoNewVotes(V, V2, m)
  PROVE  Leads(V2, W2, m, W2[m])
<1>1. PICK A : A = W[m]
  OBVIOUS
<1>2. Leads(V, W, m, A) /\ W \in Worlds
  BY <1>1 DEF Lawful
<1>3. A.s.accepted_pn \in Nat /\ A.epoch \in Nat /\ A.T \subseteq Mon
  BY <1>1, <1>2, LevelsAre
<1>4. \A q \in A.T : Promises(V2, W2[q], q, m, A.s, A.epoch)
  <2>. SUFFICES ASSUME NEW q \in A.T PROVE Promises(V2, W2[q], q, m, A.s, A.epoch)
    OBVIOUS
  <2>1. PICK s : s = A.s
    OBVIOUS
  <2>2. PICK e : e = A.epoch
    OBVIOUS
  <2>3. q \in Mon /\ s.accepted_pn \in Nat /\ e \in Nat /\ Promises(V, W[q], q, m, s, e)
    BY <1>2, <1>3, <2>1, <2>2 DEF Leads
  <2>. QED BY <1>2, <2>1, <2>2, <2>3, StillPromises
<1>5. \A v \in Version, X \in Value : Voted(V2, m, A.s.accepted_pn, v, X) =>
       A.s.state # "recovering" /\ (v <= A.s.last_committed \/ A.s.state \in Proposing)
  BY <1>2, <1>3 DEF Leads, NoNewVotes
<1>6. A.s.state = "recovering" => Best(V2, A.s)
  <2>1. A.s.state = "recovering" => Best(V, A.s)
    BY <1>2 DEF Leads
  <2>2. Best(V, A.s) => Best(V2, A.s)
    BY StillVoted DEF Best
  <2>. QED BY <2>1, <2>2
<1>7. A.s.state \in Proposing =>
       /\ A.s.committing \subseteq A.s.new_value
       /\ \A q \in A.s.accepted :
            Voted(V2, q, A.s.accepted_pn, A.s.last_committed + 1, A.s.new_value)
  BY <1>2, StillVoted DEF Leads
<1>8. Leads(V2, W2, m, A)
  BY <1>2, <1>4, <1>5, <1>6, <1>7 DEF Leads
<1>. QED BY <1>1, <1>8

(* Nobody counts the sender of a last or the receiver of a collect twice. *)
Uncounted(W, i, j, x) ==
  /\ x.op = "collect" => (W[i].role = "leader" => j \notin W[i].T)
  /\ x.op = "last" => (W[j].role = "leader" => i \notin W[j].T)

LEMMA StillCarried ==
  ASSUME NEW V, NEW W, NEW M, NEW ack, NEW V2, NEW W2, Lawful(V, W, M, ack), Turns(V, W, V2, W2),
         NEW i \in Mon, NEW j \in Mon, NEW x \in LooseMessage, <<i, j, x>> \in M,
         Uncounted(W2, i, j, x)
  PROVE  Carried(V2, W2, i, j, x)
<1>1. Carried(V, W, i, j, x) /\ W \in Worlds /\ W2 \in Worlds
  BY DEF Lawful, Turns
<1>2. x.pn \in Nat /\ x.epoch \in Nat /\ x.last_committed \in Nat
  BY MonTypes DEF LooseMessage
<1>3. \A v \in Version : v <= x.last_committed /\ x.values[v] # NoValue =>
       Decided(V2, W2, v, x.values[v])
  BY <1>1, StillDecided DEF Carried
<1>4. \A e \in Nat : /\ Steady(W[j], i, e) => Steady(W2[j], i, e)
                     /\ Steady(W[i], j, e) => Steady(W2[i], j, e)
  BY DEF Turns, Moves
<1>5. x.op = "begin" =>
       /\ Voted(V2, i, x.pn, x.last_committed + 1, At(x.values, x.last_committed + 1))
       /\ Steady(W2[j], i, x.epoch)
  BY <1>1, <1>2, <1>4, StillVoted DEF Carried
<1>6. x.op = "accept" => \E X \in Value : Voted(V2, i, x.pn, x.last_committed + 1, X)
  BY <1>1, StillVoted DEF Carried
<1>7. ASSUME x.op = "last" PROVE Reports(V2, W2[i], W2[j], i, j, x)
  <2>1. Reports(V, W[i], W[j], i, j, x)
    BY <1>1, <1>7 DEF Carried
  <2>2. /\ Level(W[i].s) \in Nat /\ Level(W2[i].s) \in Nat
        /\ W[j].s.last_committed \in Nat /\ W2[j].s.last_committed \in Nat
    BY <1>1, LevelsAre
  <2>3. Level(W[i].s) <= Level(W2[i].s) /\ W[j].s.last_committed <= W2[j].s.last_committed
    BY DEF Turns, Moves
  <2>4. x.pn <= Level(W2[i].s) /\ x.pn <= Level(W[i].s)
    BY <1>2, <2>1, <2>2, <2>3 DEF Reports
  <2>5. x.pn % 100 = j => Steady(W2[i], j, x.epoch)
    BY <1>2, <1>4, <2>1 DEF Reports
  <2>6. ASSUME NEW c \in Nat, NEW v \in Version, NEW X \in Value, Voted(V2, i, c, v, X), c < x.pn
        PROVE  \/ v <= x.last_committed \/ v <= W2[j].s.last_committed
               \/ v = x.last_committed + 1 /\ x.uncommitted_pn # 0 /\ c <= x.uncommitted_pn
    <3>1. ~(Level(W[i].s) <= c)
      BY <1>2, <2>2, <2>4, <2>6
    <3>2. Voted(V, i, c, v, X)
      BY <2>6, <3>1 DEF Turns
    <3>3. \/ v <= x.last_committed \/ v <= W[j].s.last_committed
          \/ v = x.last_committed + 1 /\ x.uncommitted_pn # 0 /\ c <= x.uncommitted_pn
      BY <2>1, <2>6, <3>2 DEF Reports
    <3>. QED BY <2>2, <2>3, <3>3, MonTypes
  <2>7. x.uncommitted_pn # 0 =>
       Voted(V2, i, x.uncommitted_pn, x.last_committed + 1, At(x.values, x.last_committed + 1))
    BY <2>1, StillVoted DEF Reports
  <2>. QED BY <2>4, <2>5, <2>6, <2>7 DEF Reports
<1>. QED BY <1>1, <1>3, <1>5, <1>6, <1>7 DEF Carried, Uncounted

LEMMA StillDurable ==
  ASSUME NEW V, NEW W, NEW M, NEW ack, NEW V2, NEW W2, Lawful(V, W, M, ack), Turns(V, W, V2, W2)
  PROVE  Durable(V2, W2, ack)
  BY StillDecided DEF Lawful, Durable

(* The votes that are new. *)
NewBallots(V, V2, W2) ==
  \A q \in Mon, c \in Nat, v \in Version, X \in Value :
    Voted(V2, q, c, v, X) /\ ~Voted(V, q, c, v, X) => Ballot(V2, W2, c, v, X)

LEMMA StillBallots ==
  ASSUME NEW V, NEW W, NEW M, NEW ack, NEW V2, NEW W2, Lawful(V, W, M, ack), Turns(V, W, V2, W2),
         NewBallots(V, V2, W2),
         NEW q \in Mon, NEW c \in Nat, NEW v \in Version, NEW X \in Value, Voted(V2, q, c, v, X)
  PROVE  Ballot(V2, W2, c, v, X)
<1>. SUFFICES ASSUME Voted(V, q, c, v, X) PROVE Ballot(V2, W2, c, v, X)
  BY DEF NewBallots
<1>1. Ballot(V, W, c, v, X)
  BY DEF Lawful
<1>2. X # NoValue /\ Voted(V2, c % 100, c, v, X)
  BY <1>1, StillVoted DEF Ballot
<1>3. \A b \in Nat : b < c => SafeAt(V2, W2, b, v, X)
  BY <1>1, StillSafe DEF Ballot
<1>4. ASSUME NEW r \in Mon, NEW Y \in Value, Voted(V2, r, c, v, Y) PROVE Y = X
  <2>1. CASE Voted(V, r, c, v, Y)
    BY <1>1, <2>1 DEF Ballot
  <2>2. CASE ~Voted(V, r, c, v, Y)
    <3>1. Ballot(V2, W2, c, v, Y)
      BY <1>4, <2>2 DEF NewBallots
    <3>. QED BY <3>1 DEF Ballot
  <2>. QED BY <2>1, <2>2
<1>. QED BY <1>2, <1>3, <1>4 DEF Ballot

(* The monitors that moved are in order again. *)
InOrderAgain(V, W, V2, W2) ==
  \A q \in Mon : \/ W2[q] = W[q] /\ NoNewVotes(V, V2, q)
                 \/ /\ Own(V2, W2, q, W2[q].s)
                    /\ W2[q].role = "leader" => Leads(V2, W2, q, W2[q])

(* Messages are dropped, or sent by the rules. *)
Exchanged(M, V2, W2, M2) ==
  /\ M2 \subseteq Parcels
  /\ \A i, j \in Mon, x \in LooseMessage : <<i, j, x>> \in M2 =>
       \/ <<i, j, x>> \in M /\ Uncounted(W2, i, j, x)
       \/ Carried(V2, W2, i, j, x)

LEMMA StillLawful ==
  ASSUME NEW V, NEW W, NEW M, NEW ack, NEW V2, NEW W2, NEW M2,
         Lawful(V, W, M, ack), Turns(V, W, V2, W2), NewBallots(V, V2, W2),
         InOrderAgain(V, W, V2, W2), Exchanged(M, V2, W2, M2)
  PROVE  Lawful(V2, W2, M2, ack)
<1>1. V2 \subseteq Votes /\ W2 \in Worlds /\ M2 \subseteq Parcels
  BY DEF Turns, Exchanged
<1>2. \A q \in Mon, c \in Nat, v \in Version, X \in Value :
        Voted(V2, q, c, v, X) => Ballot(V2, W2, c, v, X)
  BY StillBallots
<1>3. \A m \in Mon : Own(V2, W2, m, W2[m].s)
  BY StillOwn DEF InOrderAgain
<1>4. \A m \in Mon : W2[m].role = "leader" => Leads(V2, W2, m, W2[m])
  BY StillLeads DEF InOrderAgain
<1>5. \A i, j \in Mon, x \in LooseMessage : <<i, j, x>> \in M2 => Carried(V2, W2, i, j, x)
  BY StillCarried DEF Exchanged
<1>6. Durable(V2, W2, ack)
  BY StillDurable
<1>. QED BY <1>1, <1>2, <1>3, <1>4, <1>5, <1>6 DEF Lawful

-----------------------------------------------------------------------------
(* Inside a handler *)

(* The monitors, where m is in a handler that has come to c, with T counted. *)
Now(m, c, T, W) == [W EXCEPT ![m] = NodeOf(c, T)]

(* The messages that the handler has sent. *)
Posted(m, c) ==
  {z \in Parcels : z[1] = m /\ \E k \in DOMAIN c.out[z[2]] : z[3] = c.out[z[2]][k]}

(* As Sound in Paxos_proofs: R are the messages that were under way before. *)
Law(m, c, T, V, W, R, ack) ==
  /\ c \in Contexts /\ T \in SUBSET Mon /\ W \in Worlds
  /\ Lawful(V, Now(m, c, T, W), R \union Posted(m, c), ack)

LEMMA NowIs ==
  ASSUME NEW m \in Mon, NEW c \in Contexts, NEW T \in SUBSET Mon, NEW W \in Worlds
  PROVE  /\ Now(m, c, T, W) \in Worlds /\ Now(m, c, T, W)[m] = NodeOf(c, T)
         /\ \A q \in Mon \ {m} : Now(m, c, T, W)[q] = W[q]
         /\ Now(m, c, T, W)[m].s = c.s /\ Now(m, c, T, W)[m].role = c.role
         /\ Now(m, c, T, W)[m].epoch = c.epoch /\ Now(m, c, T, W)[m].T = T
<1>1. NodeOf(c, T) \in Node
  BY NodeIs
<1>. QED BY <1>1, NodeIs DEF Now, Worlds

(* m votes for nothing new under a number below n. *)
Casts(V, V2, m, n) ==
  /\ V \subseteq V2 /\ V2 \subseteq Votes
  /\ \A q \in Mon, c \in Nat, v \in Version, X \in Value :
       Voted(V2, q, c, v, X) => Voted(V, q, c, v, X) \/ (q = m /\ n <= c)

Quiet(m, j, M) ==
  \A x \in LooseMessage : /\ <<m, j, x>> \in M => x.op # "collect"
                          /\ <<j, m, x>> \in M => x.op # "last"

(* Who is counted anew has no collect before it and no last under way. *)
Recounts(m, c, T, d, T2, M) ==
  d.role = "leader" =>
    \A j \in T2 : (c.role = "leader" /\ j \in T) \/ j = m \/ Quiet(m, j, M)

Posts(m, c, i, j, y) == <<i, j, y>> \in Posted(m, c)

LEMMA PostedIs ==
  ASSUME NEW m \in Mon, NEW c \in Contexts, NEW d \in Contexts,
         NEW to \in SUBSET (Mon \ {m}), NEW x \in [Mon -> LooseMessage], Sends(c, d, to, x),
         NEW i \in Mon, NEW j \in Mon, NEW y \in LooseMessage, Posts(m, d, i, j, y)
  PROVE  i = m /\ (Posts(m, c, i, j, y) \/ (j \in to /\ y = x[j]))
<1>. USE DEF Posts
<1>1. i = m /\ \E k \in DOMAIN d.out[j] : y = d.out[j][k]
  BY DEF Posted
<1>2. PICK k \in DOMAIN d.out[j] : y = d.out[j][k]
  BY <1>1
<1>3. PICK w : w = c.out[j]
  OBVIOUS
<1>4. w \in Seq(LooseMessage) /\ x[j] \in LooseMessage
  BY <1>3 DEF Contexts, Messages
<1>5. ASSUME NEW l \in DOMAIN w, y = w[l] PROVE <<i, j, y>> \in Posted(m, c)
  BY <1>1, <1>3, <1>5 DEF Posted, Parcels
<1>6. CASE j \notin to
  <2>1. d.out[j] = w
    BY <1>3, <1>6 DEF Sends
  <2>. QED BY <1>1, <1>2, <1>5, <2>1
<1>7. CASE j \in to
  <2>1. d.out[j] = Append(w, x[j])
    BY <1>3, <1>7 DEF Sends
  <2>2. PICK w2 : w2 = Append(w, x[j])
    OBVIOUS
  <2>3. /\ w2 \in Seq(LooseMessage) /\ Len(w2) = Len(w) + 1
        /\ \A l \in 1 .. Len(w) : w2[l] = w[l]
        /\ w2[Len(w) + 1] = x[j]
    BY <1>4, <2>2, AppendProperties
  <2>4. Len(w) \in Nat /\ DOMAIN w = 1 .. Len(w) /\ DOMAIN w2 = 1 .. Len(w2)
    BY <1>4, <2>3, LenProperties
  <2>5. k \in DOMAIN w \/ k = Len(w) + 1
    BY <1>2, <2>1, <2>2, <2>3, <2>4
  <2>6. CASE k \in DOMAIN w
    <3>1. y = w[k]
      BY <1>2, <2>1, <2>2, <2>3, <2>4, <2>6
    <3>. QED BY <1>1, <1>5, <2>6, <3>1
  <2>7. CASE k = Len(w) + 1
    <3>1. y = w2[k] /\ w2[k] = x[j]
      BY <1>2, <2>1, <2>2, <2>3, <2>7
    <3>2. y = x[j]
      BY <3>1
    <3>. QED BY <1>1, <1>7, <3>2
  <2>. QED BY <2>5, <2>6, <2>7
<1>. QED BY <1>6, <1>7

(* A step of a handler keeps the law when what it casts, keeps, counts and sends
   is right. *)
LEMMA LawStep ==
  ASSUME NEW m \in Mon, NEW c, NEW T, NEW V, NEW W, NEW R, NEW ack,
         NEW d \in Contexts, NEW T2 \in SUBSET Mon, NEW V2, NEW W2, NEW R2,
         NEW to \in SUBSET (Mon \ {m}), NEW x \in [Mon -> LooseMessage],
         Law(m, c, T, V, W, R, ack), W2 = Now(m, d, T2, W),
         Casts(V, V2, m, Level(c.s)), Moves(NodeOf(c, T), NodeOf(d, T2)),
         NewBallots(V, V2, W2), Own(V2, W2, m, d.s),
         d.role = "leader" => Leads(V2, W2, m, NodeOf(d, T2)),
         R2 \subseteq R, Sends(c, d, to, x),
         \A j \in to : Carried(V2, W2, m, j, x[j]),
         Recounts(m, c, T, d, T2, R2 \union Posted(m, c))
  PROVE  Law(m, d, T2, V2, W, R2, ack)
<1>1. PICK W1 : W1 = Now(m, c, T, W)
  OBVIOUS
<1>2. c \in Contexts /\ T \in SUBSET Mon /\ W \in Worlds
  BY DEF Law
<1>3. /\ W1 \in Worlds /\ W1[m] = NodeOf(c, T) /\ \A q \in Mon \ {m} : W1[q] = W[q]
      /\ W1[m].s = c.s /\ W1[m].role = c.role /\ W1[m].epoch = c.epoch /\ W1[m].T = T
  BY <1>1, <1>2, NowIs
<1>4. /\ W2 \in Worlds /\ W2[m] = NodeOf(d, T2) /\ \A q \in Mon \ {m} : W2[q] = W[q]
      /\ W2[m].s = d.s /\ W2[m].role = d.role /\ W2[m].epoch = d.epoch /\ W2[m].T = T2
  BY <1>2, NowIs
<1>5. PICK M : M = R \union Posted(m, c)
  OBVIOUS
<1>6. PICK M2 : M2 = R2 \union Posted(m, d)
  OBVIOUS
<1>7. Lawful(V, W1, M, ack)
  BY <1>1, <1>5 DEF Law
<1>8. Turns(V, W1, V2, W2)
  <2>1. ASSUME NEW q \in Mon PROVE Moves(W1[q], W2[q])
    <3>1. CASE q = m
      BY <1>3, <1>4, <3>1
    <3>2. CASE q # m
      <4>1. W2[q] = W1[q]
        BY <1>3, <1>4, <3>2
      <4>2. Level(W1[q].s) \in Nat /\ W1[q].s.last_committed \in Nat
        BY <1>3, LevelsAre
      <4>. QED BY <4>1, <4>2 DEF Moves
    <3>. QED BY <3>1, <3>2
  <2>2. \A q \in Mon, n \in Nat, v \in Version, X \in Value :
          Voted(V2, q, n, v, X) => Voted(V, q, n, v, X) \/ Level(W1[q].s) <= n
    BY <1>3 DEF Casts
  <2>. QED BY <1>4, <2>1, <2>2 DEF Turns, Casts
<1>9. InOrderAgain(V, W1, V2, W2)
  <2>1. ASSUME NEW q \in Mon \ {m} PROVE W2[q] = W1[q] /\ NoNewVotes(V, V2, q)
    BY <1>3, <1>4 DEF Casts, NoNewVotes
  <2>2. Own(V2, W2, m, W2[m].s) /\ (W2[m].role = "leader" => Leads(V2, W2, m, W2[m]))
    BY <1>4
  <2>. QED BY <2>1, <2>2 DEF InOrderAgain
<1>10. Exchanged(M, V2, W2, M2)
  <2>1. M2 \subseteq Parcels
    <3>1. R \subseteq Parcels
      BY <1>5, <1>7 DEF Lawful
    <3>. QED BY <1>6, <3>1 DEF Posted
  <2>2. ASSUME NEW i \in Mon, NEW j \in Mon, NEW y \in LooseMessage, <<i, j, y>> \in R2 \union Posted(m, c)
        PROVE  <<i, j, y>> \in M /\ Uncounted(W2, i, j, y)
    <3>1. <<i, j, y>> \in M
      BY <1>5, <2>2
    <3>2. Carried(V, W1, i, j, y)
      BY <1>7, <3>1 DEF Lawful
    <3>3. i # j /\ Uncounted(W1, i, j, y)
      BY <3>2 DEF Carried, Uncounted
    <3>4. CASE i # m /\ j # m
      BY <1>3, <1>4, <3>1, <3>3, <3>4 DEF Uncounted
    <3>5. CASE i = m
      BY <1>3, <1>4, <2>2, <3>1, <3>3, <3>5 DEF Uncounted, Recounts, Quiet
    <3>6. CASE j = m
      BY <1>3, <1>4, <2>2, <3>1, <3>3, <3>6 DEF Uncounted, Recounts, Quiet
    <3>. QED BY <3>4, <3>5, <3>6
  <2>3. ASSUME NEW i \in Mon, NEW j \in Mon, NEW y \in LooseMessage, <<i, j, y>> \in Posted(m, d)
        PROVE  \/ <<i, j, y>> \in R2 \union Posted(m, c)
               \/ Carried(V2, W2, i, j, y)
    <3>1. Posts(m, d, i, j, y)
      BY <2>3 DEF Posts
    <3>2. i = m /\ (Posts(m, c, i, j, y) \/ (j \in to /\ y = x[j]))
      BY <1>2, <3>1, PostedIs
    <3>. QED BY <3>2 DEF Posts
  <2>. QED BY <1>6, <2>1, <2>2, <2>3 DEF Exchanged
<1>11. Lawful(V2, W2, M2, ack)
  BY <1>7, <1>8, <1>9, <1>10, StillLawful
<1>. QED BY <1>2, <1>6, <1>11 DEF Law

LEMMA NoVotes ==
  ASSUME NEW V, V \subseteq Votes, NEW m, NEW n, NEW W2
  PROVE  Casts(V, V, m, n) /\ NewBallots(V, V, W2)
  BY DEF Casts, NewBallots

Nothing == [j \in Mon |-> [op |-> "lease", epoch |-> 0, pn |-> 0, last_committed |-> 0,
                           values |-> NoValues, uncommitted_pn |-> 0, quorum |-> {}]]

LEMMA SendsNothing ==
  ASSUME NEW c \in Contexts, NEW d, d.out = c.out
  PROVE  Sends(c, d, {}, Nothing) /\ Nothing \in [Mon -> LooseMessage]
<1>1. c.out = [j \in Mon |-> c.out[j]]
  BY DEF Contexts
<1>2. NoValues \in [Version -> Value]
  BY DEF NoValues, NoValue, Value
<1>3. 0 \in 0 .. MaxOp
  BY MonTypes
<1>. QED BY <1>1, <1>2, <1>3 DEF Sends, Nothing, LooseMessage

LawIs(m, c, T, V, W, R, ack, W1) ==
  /\ c \in Contexts /\ T \in SUBSET Mon /\ W \in Worlds /\ V \subseteq Votes
  /\ c.s \in LooseState /\ c.epoch \in Nat /\ c.s.last_committed \in Nat
  /\ c.s.accepted_pn \in Nat /\ Level(c.s) \in Nat
  /\ W1 \in Worlds /\ W1[m] = NodeOf(c, T) /\ W1[m].s = c.s
  /\ \A q \in Mon \ {m} : W1[q] = W[q]
  /\ Lawful(V, W1, R \union Posted(m, c), ack)
  /\ Own(V, W1, m, c.s)
  /\ c.role = "leader" => Leads(V, W1, m, NodeOf(c, T))

LEMMA LawFacts ==
  ASSUME NEW m \in Mon, NEW c, NEW T, NEW V, NEW W, NEW R, NEW ack, NEW W1,
         Law(m, c, T, V, W, R, ack), W1 = Now(m, c, T, W)
  PROVE  LawIs(m, c, T, V, W, R, ack, W1)
<1>1. c \in Contexts /\ T \in SUBSET Mon /\ W \in Worlds
  BY DEF Law
<1>2. Lawful(V, W1, R \union Posted(m, c), ack)
  BY DEF Law
<1>3. /\ W1 \in Worlds /\ W1[m] = NodeOf(c, T) /\ W1[m].s = c.s /\ W1[m].role = c.role
      /\ \A q \in Mon \ {m} : W1[q] = W[q]
  <2>1. /\ Now(m, c, T, W) \in Worlds /\ Now(m, c, T, W)[m] = NodeOf(c, T)
        /\ \A q \in Mon \ {m} : Now(m, c, T, W)[q] = W[q]
        /\ Now(m, c, T, W)[m].s = c.s /\ Now(m, c, T, W)[m].role = c.role
    BY <1>1, NowIs
  <2>. QED BY <2>1
<1>4. Own(V, W1, m, c.s) /\ (c.role = "leader" => Leads(V, W1, m, NodeOf(c, T)))
  <2>1. Own(V, W1, m, W1[m].s) /\ (W1[m].role = "leader" => Leads(V, W1, m, W1[m]))
    BY <1>2 DEF Lawful
  <2>. QED BY <1>3, <2>1
<1>5. c.s \in LooseState /\ c.epoch \in Nat
  BY <1>1, ContextTypes
<1>6. c.s.last_committed \in Nat /\ c.s.accepted_pn \in Nat /\ Level(c.s) \in Nat
  <2>1. c.s.last_committed \in Nat /\ c.s.accepted_pn \in Nat
    BY <1>5, MonTypes DEF LooseState
  <2>. QED BY <1>5, <2>1, LevelIs
<1>7. V \subseteq Votes
  BY <1>2 DEF Lawful
<1>. QED BY <1>1, <1>2, <1>3, <1>4, <1>5, <1>6, <1>7 DEF LawIs

LEMMA LawTurns ==
  ASSUME NEW m \in Mon, NEW c, NEW T, NEW V, NEW W, NEW R, NEW ack, NEW W1,
         NEW d \in Contexts, NEW T2 \in SUBSET Mon, NEW V2, NEW W2,
         Law(m, c, T, V, W, R, ack), W1 = Now(m, c, T, W), W2 = Now(m, d, T2, W),
         Casts(V, V2, m, Level(c.s)), Moves(NodeOf(c, T), NodeOf(d, T2))
  PROVE  Turns(V, W1, V2, W2)
<1>0. LawIs(m, c, T, V, W, R, ack, W1)
  BY LawFacts
<1>1. /\ W \in Worlds /\ W1 \in Worlds /\ W1[m] = NodeOf(c, T) /\ \A q \in Mon \ {m} : W1[q] = W[q]
      /\ W1[m].s = c.s
  BY <1>0 DEF LawIs
<1>2. /\ W2 \in Worlds /\ W2[m] = NodeOf(d, T2) /\ \A q \in Mon \ {m} : W2[q] = W[q]
  BY <1>1, NowIs
<1>3. ASSUME NEW q \in Mon PROVE Moves(W1[q], W2[q])
  <2>1. CASE q = m
    BY <1>1, <1>2, <2>1
  <2>2. CASE q # m
    <3>1. W2[q] = W1[q]
      BY <1>1, <1>2, <2>2
    <3>2. Level(W1[q].s) \in Nat /\ W1[q].s.last_committed \in Nat
      BY <1>1, LevelsAre
    <3>. QED BY <3>1, <3>2 DEF Moves
  <2>. QED BY <2>1, <2>2
<1>4. \A q \in Mon, n \in Nat, v \in Version, X \in Value :
        Voted(V2, q, n, v, X) => Voted(V, q, n, v, X) \/ Level(W1[q].s) <= n
  BY <1>1 DEF Casts
<1>. QED BY <1>2, <1>3, <1>4 DEF Turns, Casts

(* The numbers stay and the log grows. *)
SameNumbers(s, t) == t.last_pn = s.last_pn /\ t.stored_pn = s.stored_pn /\ t.accepted_pn = s.accepted_pn

LEMMA MovesSame ==
  ASSUME NEW c \in Contexts, NEW T \in SUBSET Mon, NEW d \in Contexts, NEW T2 \in SUBSET Mon,
         d.role = c.role, d.epoch = c.epoch, d.s.leader = c.s.leader, SameNumbers(c.s, d.s),
         c.s.last_committed <= d.s.last_committed
  PROVE  Moves(NodeOf(c, T), NodeOf(d, T2)) /\ Level(d.s) = Level(c.s)
<1>1. PICK A : A = NodeOf(c, T)
  OBVIOUS
<1>2. PICK A2 : A2 = NodeOf(d, T2)
  OBVIOUS
<1>3. A.role = c.role /\ A.epoch = c.epoch /\ A.s = c.s
  BY <1>1, NodeIs
<1>4. A2.role = d.role /\ A2.epoch = d.epoch /\ A2.s = d.s
  BY <1>2, NodeIs
<1>5. Level(d.s) = Level(c.s) /\ InForce(d.s) = InForce(c.s)
  BY DEF Level, InForce, SameNumbers
<1>6. Level(c.s) \in Nat
  BY ContextTypes, LevelIs
<1>7. Moves(A, A2)
  BY <1>3, <1>4, <1>5, <1>6 DEF Moves, Steady, Follows, Gone, SameNumbers
<1>. QED BY <1>1, <1>2, <1>5, <1>7

(* A leader goes on from state s to state t. *)
LEMMA PromisesOn ==
  ASSUME NEW V, NEW W, NEW V2, NEW W2, W \in Worlds, Turns(V, W, V2, W2),
         NEW q \in Mon, NEW m \in Mon, NEW s, NEW t, s.accepted_pn \in Nat, NEW e \in Nat,
         Promises(V, W[q], q, m, s, e), t.accepted_pn = s.accepted_pn,
         \A c \in Nat, v \in Version : Heeded(s, c, v) => Heeded(t, c, v)
  PROVE  Promises(V2, W2[q], q, m, t, e)
<1>1. Promises(V2, W2[q], q, m, s, e)
  BY StillPromises
<1>. QED BY <1>1 DEF Promises

Pledged(V, W, T, m, s, e) == \A q \in T : Promises(V, W[q], q, m, s, e)
HeedsOn(s, t) == \A c \in Nat, v \in Version : Heeded(s, c, v) => Heeded(t, c, v)

LEMMA AllPromise ==
  ASSUME NEW V, NEW W, NEW V2, NEW W2, W \in Worlds, Turns(V, W, V2, W2),
         NEW m \in Mon, NEW T \in SUBSET Mon, NEW s, NEW t, s.accepted_pn \in Nat, NEW e \in Nat,
         Pledged(V, W, T, m, s, e), t.accepted_pn = s.accepted_pn, HeedsOn(s, t)
  PROVE  Pledged(V2, W2, T, m, t, e)
  BY PromisesOn DEF Pledged, HeedsOn

(* What a vote is about does not change. *)
SameStore(s, t) ==
  /\ SameNumbers(s, t) /\ t.leader = s.leader
  /\ t.last_committed = s.last_committed /\ t.values = s.values /\ t.pending_pn = s.pending_pn

SameRecovery(s, t) ==
  /\ t.quorum = s.quorum /\ t.state = s.state /\ t.num_last = s.num_last
  /\ s.state = "recovering" => SameFound(s, t)
  /\ t.accepted = s.accepted /\ t.new_value = s.new_value /\ t.committing = s.committing

(* A message that only carries what was decided. *)
Harmless(V, W, x) ==
  /\ x.op \in {"victory", "commit", "lease", "lease_ack"}
  /\ \A v \in Version : v <= x.last_committed /\ x.values[v] # NoValue => Decided(V, W, v, x.values[v])

LEMMA OwnOn ==
  ASSUME NEW V, NEW W, NEW M, NEW ack, NEW V2, NEW W2, Lawful(V, W, M, ack), Turns(V, W, V2, W2),
         NEW m \in Mon, NEW s, NEW t, Own(V, W, m, s), SameStore(s, t), NoNewVotes(V, V2, m)
  PROVE  Own(V2, W2, m, t)
<1>0. Level(t) = Level(s)
  BY DEF SameStore, SameNumbers, Level
<1>1. \A v \in Version : v <= t.last_committed => Decided(V2, W2, v, t.values[v])
  BY StillDecided DEF Own, SameStore
<1>2. \A v \in Version : v = t.last_committed + 1 /\ t.values[v] # NoValue =>
        Voted(V2, m, t.pending_pn, v, t.values[v])
  BY StillVoted DEF Own, SameStore
<1>3. \A c \in Nat, v \in Version, X \in Value : Voted(V2, m, c, v, X) =>
       /\ c <= Level(t) /\ v <= t.last_committed + 1
       /\ v = t.last_committed + 1 => t.values[v] # NoValue /\ c <= t.pending_pn
  BY <1>0 DEF Own, SameStore, NoNewVotes
<1>. QED BY <1>1, <1>2, <1>3 DEF Own, SameStore, SameNumbers

LEMMA LeadsOn ==
  ASSUME NEW V, NEW W, NEW W2, NEW m \in Mon, NEW A, NEW A2, W \in Worlds, Turns(V, W, V, W2),
         Leads(V, W, m, A), A.T \in SUBSET Mon, A.s.accepted_pn \in Nat, A.epoch \in Nat,
         A2.T = A.T, A2.epoch = A.epoch, SameStore(A.s, A2.s), SameRecovery(A.s, A2.s)
  PROVE  Leads(V, W2, m, A2)
<1>1. \A q \in A.T : Promises(V, W2[q], q, m, A2.s, A.epoch)
  <2>1. PICK s : s = A.s
    OBVIOUS
  <2>2. PICK t : t = A2.s
    OBVIOUS
  <2>3. HeedsOn(s, t)
    BY <2>1, <2>2 DEF HeedsOn, Heeded, SameStore, SameRecovery, SameFound
  <2>4. t.accepted_pn = s.accepted_pn /\ s.accepted_pn \in Nat
    BY <2>1, <2>2 DEF SameStore, SameNumbers
  <2>5. PICK T : T = A.T
    OBVIOUS
  <2>6. PICK e : e = A.epoch
    OBVIOUS
  <2>7. T \in SUBSET Mon /\ e \in Nat /\ Pledged(V, W, T, m, s, e)
    BY <2>1, <2>5, <2>6 DEF Leads, Pledged
  <2>8. Pledged(V, W2, T, m, t, e)
    BY <2>3, <2>4, <2>7, AllPromise
  <2>. QED BY <2>2, <2>5, <2>6, <2>8 DEF Pledged
<1>2. A.s.state = "recovering" => Best(V, A2.s)
  BY DEF Leads, Best, SameStore, SameRecovery, SameFound
<1>3. /\ A2.s.quorum \in Majorities /\ A2.s.accepted_pn = A2.s.last_pn /\ A2.s.accepted_pn % 100 = m
      /\ m \in A2.T /\ A2.T \subseteq A2.s.quorum /\ A2.s.num_last = Cardinality(A2.T)
      /\ A2.s.state # "recovering" => A2.T = A2.s.quorum
  BY DEF Leads, SameStore, SameNumbers, SameRecovery
<1>4. /\ \A v \in Version, X \in Value : Voted(V, m, A2.s.accepted_pn, v, X) =>
           A2.s.state # "recovering" /\ (v <= A2.s.last_committed \/ A2.s.state \in Proposing)
      /\ A2.s.state \in Proposing =>
           /\ A2.s.committing \subseteq A2.s.new_value
           /\ \A q \in A2.s.accepted :
                Voted(V, q, A2.s.accepted_pn, A2.s.last_committed + 1, A2.s.new_value)
      /\ A2.s.state \notin Proposing => A2.s.committing = NoValue
  BY DEF Leads, SameStore, SameNumbers, SameRecovery
<1>5. A2.s.state = A.s.state
  BY DEF SameRecovery
<1>. QED BY <1>1, <1>2, <1>3, <1>4, <1>5 DEF Leads

(* A step that changes nothing the law is about. *)
SameNode(c, d) ==
  /\ d \in Contexts /\ d.role = c.role /\ d.epoch = c.epoch
  /\ SameStore(c.s, d.s) /\ (d.role = "leader" => SameRecovery(c.s, d.s))

LEMMA LawQuiet ==
  ASSUME NEW m \in Mon, NEW c, NEW T, NEW V, NEW W, NEW R, NEW ack, NEW d, NEW R2,
         NEW to \in SUBSET (Mon \ {m}), NEW x \in [Mon -> LooseMessage],
         Law(m, c, T, V, W, R, ack), SameNode(c, d), R2 \subseteq R, Sends(c, d, to, x),
         \A j \in to : Harmless(V, Now(m, c, T, W), x[j])
  PROVE  Law(m, d, T, V, W, R2, ack)
<1>1. PICK W1 : W1 = Now(m, c, T, W)
  OBVIOUS
<1>2. PICK W2 : W2 = Now(m, d, T, W)
  OBVIOUS
<1>3. /\ c \in Contexts /\ T \in SUBSET Mon /\ W \in Worlds /\ V \subseteq Votes
      /\ c.epoch \in Nat /\ c.s.last_committed \in Nat /\ c.s.accepted_pn \in Nat
      /\ W1 \in Worlds /\ Lawful(V, W1, R \union Posted(m, c), ack)
      /\ Own(V, W1, m, c.s)
      /\ c.role = "leader" => Leads(V, W1, m, NodeOf(c, T))
  <2>1. LawIs(m, c, T, V, W, R, ack, W1)
    BY <1>1, LawFacts
  <2>. QED BY <2>1 DEF LawIs
<1>4. d \in Contexts /\ d.role = c.role /\ d.epoch = c.epoch /\ SameStore(c.s, d.s)
  BY DEF SameNode
<1>5. Moves(NodeOf(c, T), NodeOf(d, T))
  <2>1. d.s.leader = c.s.leader /\ SameNumbers(c.s, d.s) /\ c.s.last_committed <= d.s.last_committed
    BY <1>3, <1>4 DEF SameStore
  <2>. QED BY <1>3, <1>4, <2>1, MovesSame
<1>6. Casts(V, V, m, Level(c.s)) /\ NewBallots(V, V, W2)
  BY <1>3, NoVotes
<1>7. Turns(V, W1, V, W2)
  BY <1>1, <1>2, <1>3, <1>4, <1>5, <1>6, LawTurns
<1>8. Own(V, W2, m, d.s)
  <2>1. NoNewVotes(V, V, m)
    BY DEF NoNewVotes
  <2>. QED BY <1>3, <1>4, <1>7, <2>1, OwnOn
<1>9. ASSUME d.role = "leader" PROVE Leads(V, W2, m, NodeOf(d, T))
  <2>1. PICK A : A = NodeOf(c, T)
    OBVIOUS
  <2>2. PICK A2 : A2 = NodeOf(d, T)
    OBVIOUS
  <2>3. /\ A.s = c.s /\ A2.s = d.s /\ A.T = T /\ A2.T = T /\ A.epoch = c.epoch /\ A2.epoch = c.epoch
    BY <1>3, <1>4, <2>1, <2>2, NodeIs
  <2>4. Leads(V, W1, m, A) /\ SameRecovery(A.s, A2.s) /\ SameStore(A.s, A2.s)
        /\ A.T \in SUBSET Mon /\ A.s.accepted_pn \in Nat /\ A.epoch \in Nat
    BY <1>3, <1>4, <1>9, <2>1, <2>3 DEF SameNode
  <2>5. Leads(V, W2, m, A2)
    BY <1>3, <1>7, <2>3, <2>4, LeadsOn
  <2>. QED BY <2>2, <2>5
<1>10. ASSUME NEW j \in to PROVE Carried(V, W2, m, j, x[j])
  <2>1. Harmless(V, W1, x[j]) /\ m # j
    BY <1>1
  <2>2. \A v \in Version : v <= x[j].last_committed /\ x[j].values[v] # NoValue =>
          Decided(V, W2, v, x[j].values[v])
    BY <1>3, <1>7, <2>1, StillDecided DEF Harmless
  <2>3. x[j].op \notin {"begin", "accept", "collect", "last"}
    BY <2>1 DEF Harmless
  <2>. QED BY <2>1, <2>2, <2>3 DEF Carried
<1>11. Recounts(m, c, T, d, T, R2 \union Posted(m, c))
  BY <1>4 DEF Recounts
<1>. QED BY <1>2, <1>3, <1>4, <1>5, <1>6, <1>8, <1>9, <1>10, <1>11, LawStep

-----------------------------------------------------------------------------
(* A leader is done with recovery, or proposes *)

(* g is c, but active. *)
Opens(c, g) ==
  /\ g \in Contexts /\ g.role = c.role /\ g.epoch = c.epoch /\ g.out = c.out
  /\ SameStore(c.s, g.s) /\ g.s.quorum = c.s.quorum /\ g.s.num_last = c.s.num_last
  /\ g.s.committing = c.s.committing /\ g.s.state = "active"

LEMMA NothingFound ==
  ASSUME NEW V, NEW W, NEW M, NEW ack, NEW s \in LooseState, Lawful(V, W, M, ack), Best(V, s), ~Unfinished(s)
  PROVE  s.uncommitted_v # s.last_committed + 1
<1>. SUFFICES ASSUME s.uncommitted_v = s.last_committed + 1 PROVE FALSE
  OBVIOUS
<1>1. s.last_committed \in Nat
  BY MonTypes DEF LooseState
<1>2. s.uncommitted_v # 0
  BY <1>1
<1>3. PICK q \in Mon : Voted(V, q, s.uncommitted_pn, s.uncommitted_v, s.uncommitted_value)
  BY <1>2 DEF Best
<1>4. PICK n, v, X : n = s.uncommitted_pn /\ v = s.uncommitted_v /\ X = s.uncommitted_value
  OBVIOUS
<1>5. Voted(V, q, n, v, X) /\ V \subseteq Votes
  BY <1>3, <1>4 DEF Lawful
<1>6. n \in Nat /\ v \in Version /\ X \in Value
  BY <1>5, VoteTypes
<1>7. Ballot(V, W, n, v, X)
  BY <1>5, <1>6 DEF Lawful
<1>. QED BY <1>4, <1>7 DEF Ballot, Unfinished

LEMMA LawActivate ==
  ASSUME NEW m \in Mon, NEW c, NEW T, NEW V, NEW W, NEW R, NEW ack, NEW g,
         Law(m, c, T, V, W, R, ack), c.role = "leader", c.s.state = "recovering", T = c.s.quorum,
         ~Unfinished(c.s), Opens(c, g)
  PROVE  Law(m, g, T, V, W, R, ack)
<1>1. PICK W1 : W1 = Now(m, c, T, W)
  OBVIOUS
<1>2. PICK W2 : W2 = Now(m, g, T, W)
  OBVIOUS
<1>0. LawIs(m, c, T, V, W, R, ack, W1)
  BY <1>1, LawFacts
<1>3. /\ c \in Contexts /\ T \in SUBSET Mon /\ W \in Worlds /\ V \subseteq Votes /\ c.s \in LooseState
      /\ c.epoch \in Nat /\ c.s.last_committed \in Nat /\ c.s.accepted_pn \in Nat
      /\ W1 \in Worlds /\ Lawful(V, W1, R \union Posted(m, c), ack)
      /\ Own(V, W1, m, c.s) /\ Leads(V, W1, m, NodeOf(c, T))
  BY <1>0 DEF LawIs
<1>4. g \in Contexts /\ g.role = c.role /\ g.epoch = c.epoch /\ SameStore(c.s, g.s)
  BY DEF Opens
<1>5. Moves(NodeOf(c, T), NodeOf(g, T))
  <2>1. g.s.leader = c.s.leader /\ SameNumbers(c.s, g.s) /\ c.s.last_committed <= g.s.last_committed
    BY <1>3, <1>4 DEF SameStore
  <2>. QED BY <1>3, <1>4, <2>1, MovesSame
<1>6. Casts(V, V, m, Level(c.s)) /\ NewBallots(V, V, W2)
  BY <1>3, NoVotes
<1>7. Turns(V, W1, V, W2)
  BY <1>1, <1>2, <1>3, <1>4, <1>5, <1>6, LawTurns
<1>8. Own(V, W2, m, g.s)
  <2>1. NoNewVotes(V, V, m)
    BY DEF NoNewVotes
  <2>. QED BY <1>3, <1>4, <1>7, <2>1, OwnOn
<1>9. Leads(V, W2, m, NodeOf(g, T))
  <2>1. PICK A : A = NodeOf(c, T)
    OBVIOUS
  <2>2. PICK A2 : A2 = NodeOf(g, T)
    OBVIOUS
  <2>3. A.s = c.s /\ A2.s = g.s /\ A.T = T /\ A2.T = T /\ A.epoch = c.epoch /\ A2.epoch = c.epoch
    BY <1>3, <1>4, <2>1, <2>2, NodeIs
  <2>4. Leads(V, W1, m, A)
    BY <1>3, <2>1
  <2>5. Best(V, c.s)
    BY <2>3, <2>4 DEF Leads
  <2>6. c.s.uncommitted_v # c.s.last_committed + 1
    BY <1>3, <2>5, NothingFound
  <2>7. HeedsOn(c.s, g.s)
    BY <1>4, <2>6 DEF HeedsOn, Heeded, SameStore, Opens
  <2>8. Pledged(V, W1, T, m, c.s, c.epoch)
    BY <2>3, <2>4 DEF Leads, Pledged
  <2>9. Pledged(V, W2, T, m, g.s, c.epoch)
    <3>1. PICK s, t, e : s = c.s /\ t = g.s /\ e = c.epoch
      OBVIOUS
    <3>2. s.accepted_pn \in Nat /\ t.accepted_pn = s.accepted_pn /\ e \in Nat
      BY <1>3, <1>4, <3>1 DEF SameStore, SameNumbers
    <3>3. Pledged(V, W2, T, m, t, e)
      BY <1>3, <1>7, <2>7, <2>8, <3>1, <3>2, AllPromise
    <3>. QED BY <3>1, <3>3
  <2>10. \A v \in Version, X \in Value : ~Voted(V, m, g.s.accepted_pn, v, X)
    BY <1>4, <2>3, <2>4 DEF Leads, SameStore, SameNumbers
  <2>11. /\ g.s.quorum \in Majorities /\ g.s.accepted_pn = g.s.last_pn /\ g.s.accepted_pn % 100 = m
         /\ m \in T /\ T \subseteq g.s.quorum /\ g.s.num_last = Cardinality(T)
         /\ T = g.s.quorum /\ g.s.committing = NoValue
    BY <1>4, <2>3, <2>4 DEF Leads, SameStore, SameNumbers, Opens, Proposing, Updating, InWriting
  <2>12. g.s.state # "recovering" /\ g.s.state \notin Proposing
    BY DEF Opens, Proposing, Updating, InWriting
  <2>13. Leads(V, W2, m, A2)
    BY <2>3, <2>9, <2>10, <2>11, <2>12 DEF Leads, Pledged
  <2>. QED BY <2>2, <2>13
<1>10. Recounts(m, c, T, g, T, R \union Posted(m, c))
  BY <1>4 DEF Recounts
<1>11. Sends(c, g, {}, Nothing) /\ Nothing \in [Mon -> LooseMessage] /\ {} \in SUBSET (Mon \ {m})
  BY <1>3, SendsNothing DEF Opens
<1>. QED BY <1>2, <1>3, <1>4, <1>5, <1>6, <1>8, <1>9, <1>10, <1>11, LawStep

Advances(m, c, T, V, d, T2, V2, W2) ==
  /\ d \in Contexts /\ T2 \in SUBSET Mon
  /\ Casts(V, V2, m, Level(c.s)) /\ Moves(NodeOf(c, T), NodeOf(d, T2))
  /\ NewBallots(V, V2, W2) /\ Own(V2, W2, m, d.s)
  /\ d.role = "leader" => Leads(V2, W2, m, NodeOf(d, T2))

Delivers(m, c, T, d, T2, V2, W2, R, R2, to, x) ==
  /\ to \in SUBSET (Mon \ {m}) /\ x \in [Mon -> LooseMessage]
  /\ R2 \subseteq R /\ Sends(c, d, to, x)
  /\ \A j \in to : Carried(V2, W2, m, j, x[j])
  /\ Recounts(m, c, T, d, T2, R2 \union Posted(m, c))

LEMMA LawStepped ==
  ASSUME NEW m \in Mon, NEW c, NEW T, NEW V, NEW W, NEW R, NEW ack,
         NEW d, NEW T2, NEW V2, NEW W2, NEW R2, NEW to, NEW x,
         Law(m, c, T, V, W, R, ack), W2 = Now(m, d, T2, W),
         Advances(m, c, T, V, d, T2, V2, W2), Delivers(m, c, T, d, T2, V2, W2, R, R2, to, x)
  PROVE  Law(m, d, T2, V2, W, R2, ack)
<1>1. d \in Contexts /\ T2 \in SUBSET Mon /\ to \in SUBSET (Mon \ {m}) /\ x \in [Mon -> LooseMessage]
  BY DEF Advances, Delivers
<1>2. /\ Casts(V, V2, m, Level(c.s)) /\ Moves(NodeOf(c, T), NodeOf(d, T2))
      /\ NewBallots(V, V2, W2) /\ Own(V2, W2, m, d.s)
      /\ d.role = "leader" => Leads(V2, W2, m, NodeOf(d, T2))
  BY DEF Advances
<1>3. /\ R2 \subseteq R /\ Sends(c, d, to, x)
      /\ \A j \in to : Carried(V2, W2, m, j, x[j])
      /\ Recounts(m, c, T, d, T2, R2 \union Posted(m, c))
  BY DEF Delivers
<1>. QED BY <1>1, <1>2, <1>3, LawStep

(* One vote more. *)
OneMore(V, V2, m, a, v, Y) ==
  /\ V \subseteq V2 /\ V2 \subseteq Votes
  /\ \A q, n, w, X : Voted(V2, q, n, w, X) <=>
       Voted(V, q, n, w, X) \/ (q = m /\ n = a /\ w = v /\ X = Y)

LEMMA CastIs ==
  ASSUME NEW V, V \subseteq Votes, NEW m \in Mon, NEW a \in Nat, NEW v \in Version, NEW Y \in Value,
         NEW V2, V2 = V \union {<<m, a, v, Y>>}
  PROVE  OneMore(V, V2, m, a, v, Y)
  BY DEF OneMore, Votes, Voted

(* The leader may propose value as version v. *)
Free(V, W, m, s, v, value) ==
  /\ \A b \in Nat : b < s.accepted_pn => SafeAt(V, W, b, v, value)
  /\ Unvoted(V, m, s.accepted_pn, v)

Begins(c, m, v, value, d) ==
  /\ d \in Contexts /\ d.role = c.role /\ d.epoch = c.epoch
  /\ SameNumbers(c.s, d.s) /\ d.s.leader = c.s.leader /\ d.s.last_committed = c.s.last_committed
  /\ d.s.values = [c.s.values EXCEPT ![v] = value] /\ d.s.pending_pn = c.s.accepted_pn
  /\ d.s.quorum = c.s.quorum /\ d.s.num_last = c.s.num_last
  /\ d.s.accepted = {m} /\ d.s.new_value = value /\ d.s.state \in Updating
  /\ d.s.committing \subseteq value
  /\ v = c.s.last_committed + 1 /\ v \in Version /\ value \in Value /\ value # NoValue

BeginMsg(c, v, value, x) ==
  /\ x \in LooseMessage /\ x.op = "begin" /\ x.pn = c.s.accepted_pn /\ x.epoch = c.epoch
  /\ x.last_committed = c.s.last_committed
  /\ x.values[v] = value /\ \A w \in Version : w # v => x.values[w] = NoValue

LEMMA LawBegin ==
  ASSUME NEW m \in Mon, NEW c, NEW T, NEW V, NEW W, NEW R, NEW ack, NEW d, NEW V2,
         NEW v, NEW value, NEW x,
         Law(m, c, T, V, W, R, ack), c.role = "leader", T = c.s.quorum,
         Begins(c, m, v, value, d), BeginMsg(c, v, value, x),
         Sends(c, d, c.s.quorum \ {m}, ToAll(x)),
         Free(V, Now(m, c, T, W), m, c.s, v, value), HeedsOn(c.s, d.s),
         V2 = V \union {<<m, c.s.accepted_pn, v, value>>}
  PROVE  Law(m, d, T, V2, W, R, ack)
<1>1. PICK W1 : W1 = Now(m, c, T, W)
  OBVIOUS
<1>2. PICK W2 : W2 = Now(m, d, T, W)
  OBVIOUS
<1>0. LawIs(m, c, T, V, W, R, ack, W1)
  BY <1>1, LawFacts
<1>3. /\ c \in Contexts /\ T \in SUBSET Mon /\ W \in Worlds /\ V \subseteq Votes /\ c.s \in LooseState
      /\ c.epoch \in Nat /\ c.s.last_committed \in Nat /\ c.s.accepted_pn \in Nat /\ Level(c.s) \in Nat
      /\ W1 \in Worlds /\ Lawful(V, W1, R \union Posted(m, c), ack)
      /\ Own(V, W1, m, c.s) /\ Leads(V, W1, m, NodeOf(c, T))
      /\ \A q \in Mon \ {m} : W1[q] = W[q]
  BY <1>0 DEF LawIs
<1>4. /\ d \in Contexts /\ d.role = c.role /\ d.epoch = c.epoch /\ SameNumbers(c.s, d.s)
      /\ d.s.last_committed = c.s.last_committed
      /\ v = c.s.last_committed + 1 /\ v \in Version /\ value \in Value /\ value # NoValue /\ v \in Nat
  BY MonTypes DEF Begins
<1>5. PICK a : a = c.s.accepted_pn
  OBVIOUS
<1>6. /\ V \subseteq V2 /\ V2 \subseteq Votes
      /\ \A q, n, w, X : Voted(V2, q, n, w, X) <=>
           Voted(V, q, n, w, X) \/ (q = m /\ n = a /\ w = v /\ X = value)
  <2>1. V2 = V \union {<<m, a, v, value>>} /\ a \in Nat
    BY <1>3, <1>5
  <2>2. OneMore(V, V2, m, a, v, value)
    BY <1>3, <1>4, <2>1, CastIs
  <2>. QED BY <2>2 DEF OneMore
<1>7. PICK A : A = NodeOf(c, T)
  OBVIOUS
<1>8. PICK A2 : A2 = NodeOf(d, T)
  OBVIOUS
<1>9. A.s = c.s /\ A2.s = d.s /\ A.T = T /\ A2.T = T /\ A.epoch = c.epoch /\ A2.epoch = c.epoch
  BY <1>3, <1>4, <1>7, <1>8, NodeIs
<1>10. Leads(V, W1, m, A)
  BY <1>3, <1>7
<1>11. c.s.accepted_pn = c.s.last_pn /\ c.s.accepted_pn % 100 = m /\ a % 100 = m /\ a \in Nat
       /\ c.s.quorum \in Majorities /\ m \in T
  BY <1>3, <1>5, <1>9, <1>10 DEF Leads
<1>12. Level(c.s) = a /\ Level(d.s) = a
  BY <1>3, <1>4, <1>5, <1>11 DEF Level, Larger, SameNumbers
<1>13. Casts(V, V2, m, Level(c.s))
  <2>1. ASSUME NEW q \in Mon, NEW n \in Nat, NEW w \in Version, NEW X \in Value, Voted(V2, q, n, w, X)
        PROVE  Voted(V, q, n, w, X) \/ (q = m /\ a <= n)
    BY <1>6, <1>11, <2>1
  <2>2. Casts(V, V2, m, a)
    BY <1>6, <2>1 DEF Casts
  <2>. QED BY <1>12, <2>2
<1>14. Moves(NodeOf(c, T), NodeOf(d, T))
  <2>1. d.s.leader = c.s.leader /\ c.s.last_committed <= d.s.last_committed
    BY <1>3, <1>4 DEF Begins
  <2>. QED BY <1>3, <1>4, <2>1, MovesSame
<1>15. Turns(V, W1, V2, W2)
  BY <1>1, <1>2, <1>3, <1>4, <1>13, <1>14, LawTurns
<1>16. NewBallots(V, V2, W2)
  <2>1. Voted(V2, a % 100, a, v, value)
    BY <1>6, <1>11
  <2>2. \A b \in Nat : b < a => SafeAt(V2, W2, b, v, value)
    <3>1. \A b \in Nat : b < a => SafeAt(V, W1, b, v, value)
      BY <1>1, <1>5 DEF Free
    <3>. QED BY <1>3, <1>4, <1>15, <3>1, StillSafe
  <2>3. ASSUME NEW q \in Mon, NEW Y \in Value, Voted(V2, q, a, v, Y) PROVE Y = value
    <3>1. CASE Voted(V, q, a, v, Y)
      <4>1. Ballot(V, W1, a, v, Y)
        BY <1>3, <1>4, <1>11, <3>1 DEF Lawful
      <4>2. Voted(V, m, a, v, Y)
        BY <1>11, <4>1 DEF Ballot
      <4>. QED BY <1>5, <4>2 DEF Free, Unvoted
    <3>2. CASE ~Voted(V, q, a, v, Y)
      BY <1>6, <2>3, <3>2
    <3>. QED BY <3>1, <3>2
  <2>4. Ballot(V2, W2, a, v, value)
    BY <1>4, <2>1, <2>2, <2>3 DEF Ballot
  <2>. QED BY <1>6, <2>4 DEF NewBallots
<1>17. Own(V2, W2, m, d.s)
  <2>0. /\ c.s.values \in [Version -> Value] /\ d.s.values = [c.s.values EXCEPT ![v] = value]
        /\ d.s.pending_pn = a
    BY <1>3, <1>5 DEF Begins, LooseState
  <2>1. d.s.values[v] = value /\ \A w \in Version : w # v => d.s.values[w] = c.s.values[w]
    BY <1>4, <2>0
  <2>2. ASSUME NEW n \in Nat, NEW w \in Version, NEW X \in Value, Voted(V2, m, n, w, X)
        PROVE  /\ n <= Level(d.s) /\ w <= d.s.last_committed + 1
               /\ w = d.s.last_committed + 1 => d.s.values[w] # NoValue /\ n <= d.s.pending_pn
    <3>1. CASE Voted(V, m, n, w, X)
      <4>1. n <= a /\ w <= c.s.last_committed + 1
        BY <1>3, <1>12, <3>1 DEF Own
      <4>. QED BY <1>4, <1>12, <2>0, <2>1, <4>1
    <3>2. CASE n = a /\ w = v /\ X = value
      BY <1>4, <1>11, <1>12, <2>0, <2>1, <3>2
    <3>. QED BY <1>6, <2>2, <3>1, <3>2
  <2>3. \A w \in Version : w = d.s.last_committed + 1 /\ d.s.values[w] # NoValue =>
         Voted(V2, m, d.s.pending_pn, w, d.s.values[w])
    BY <1>4, <1>6, <2>0, <2>1
  <2>4. ASSUME NEW w \in Version, w <= d.s.last_committed PROVE Decided(V2, W2, w, d.s.values[w])
    <3>1. w # v /\ w <= c.s.last_committed
      BY <1>3, <1>4, <2>4
    <3>2. Decided(V, W1, w, c.s.values[w])
      BY <1>3, <3>1 DEF Own
    <3>3. Decided(V2, W2, w, c.s.values[w])
      BY <1>3, <1>15, <3>2, StillDecided
    <3>. QED BY <2>1, <3>1, <3>3
  <2>5. d.s.accepted_pn \in {d.s.stored_pn, d.s.last_pn}
    BY <1>4, <1>11 DEF SameNumbers
  <2>. QED BY <2>2, <2>3, <2>4, <2>5 DEF Own
<1>18. Leads(V2, W2, m, NodeOf(d, T))
  <2>1. Pledged(V, W1, T, m, c.s, c.epoch)
    BY <1>9, <1>10 DEF Leads, Pledged
  <2>2. Pledged(V2, W2, T, m, d.s, c.epoch)
    <3>1. PICK s, t, e : s = c.s /\ t = d.s /\ e = c.epoch
      OBVIOUS
    <3>2. s.accepted_pn \in Nat /\ t.accepted_pn = s.accepted_pn /\ e \in Nat
      BY <1>3, <1>4, <3>1 DEF SameNumbers
    <3>3. Pledged(V2, W2, T, m, t, e)
      BY <1>3, <1>15, <2>1, <3>1, <3>2, AllPromise
    <3>. QED BY <3>1, <3>3
  <2>3. /\ d.s.quorum \in Majorities /\ d.s.accepted_pn = d.s.last_pn /\ d.s.accepted_pn % 100 = m
        /\ m \in T /\ T \subseteq d.s.quorum /\ d.s.num_last = Cardinality(T) /\ T = d.s.quorum
    BY <1>4, <1>9, <1>10, <1>11 DEF Leads, SameNumbers, Begins
  <2>4. d.s.state # "recovering" /\ d.s.state \in Proposing
    BY DEF Begins, Proposing, Updating
  <2>5. /\ d.s.committing \subseteq d.s.new_value
        /\ \A q \in d.s.accepted : Voted(V2, q, d.s.accepted_pn, d.s.last_committed + 1, d.s.new_value)
    BY <1>4, <1>5, <1>6 DEF Begins, SameNumbers
  <2>6. Leads(V2, W2, m, A2)
    BY <1>9, <2>2, <2>3, <2>4, <2>5 DEF Leads, Pledged
  <2>. QED BY <1>8, <2>6
<1>19. ASSUME NEW j \in c.s.quorum \ {m} PROVE Carried(V2, W2, m, j, ToAll(x)[j])
  <2>1. j \in Mon /\ ToAll(x)[j] = x
    BY <1>11 DEF ToAll, Majorities
  <2>2. \A w \in Version : ~(w <= x.last_committed /\ x.values[w] # NoValue)
    BY <1>3, <1>4, MonTypes DEF BeginMsg
  <2>3. x.pn = a /\ x.last_committed + 1 = v /\ At(x.values, v) = value /\ x.epoch = c.epoch /\ x.op = "begin"
    BY <1>4, <1>5 DEF BeginMsg, At
  <2>4. Voted(V2, m, x.pn, x.last_committed + 1, At(x.values, x.last_committed + 1))
    BY <1>6, <2>3
  <2>5. Steady(W2[j], m, x.epoch)
    <3>1. Promises(V, W1[j], j, m, c.s, c.epoch)
      BY <1>9, <1>10 DEF Leads
    <3>2. Steady(W1[j], m, c.epoch)
      BY <3>1 DEF Promises
    <3>. QED BY <1>3, <1>15, <2>1, <2>3, <3>2 DEF Turns, Moves
  <2>6. Carried(V2, W2, m, j, x)
    BY <2>2, <2>3, <2>4, <2>5 DEF Carried
  <2>. QED BY <2>1, <2>6
<1>20. Recounts(m, c, T, d, T, R \union Posted(m, c))
  BY <1>4 DEF Recounts
<1>21. c.s.quorum \ {m} \in SUBSET (Mon \ {m}) /\ ToAll(x) \in [Mon -> LooseMessage]
  BY <1>11 DEF Majorities, ToAll, BeginMsg
<1>22. PICK to, xx : to = c.s.quorum \ {m} /\ xx = ToAll(x)
  OBVIOUS
<1>23. /\ to \in SUBSET (Mon \ {m}) /\ xx \in [Mon -> LooseMessage] /\ Sends(c, d, to, xx)
       /\ \A j \in to : Carried(V2, W2, m, j, xx[j])
  BY <1>19, <1>21, <1>22
<1>24. Advances(m, c, T, V, d, T, V2, W2)
  BY <1>3, <1>4, <1>13, <1>14, <1>16, <1>17, <1>18 DEF Advances
<1>25. Delivers(m, c, T, d, T, V2, W2, R, R, to, xx)
  BY <1>20, <1>23 DEF Delivers
<1>. QED BY <1>2, <1>24, <1>25, LawStepped

(* A leader that is done with recovery may propose what it likes. *)
LEMMA FreeActive ==
  ASSUME NEW V, NEW W, NEW M, NEW ack, NEW m \in Mon, NEW A, NEW v \in Version, NEW value,
         Lawful(V, W, M, ack), Leads(V, W, m, A), A.s.state = "active",
         v = A.s.last_committed + 1, A.s.last_committed \in Nat, A.s.accepted_pn \in Nat
  PROVE  Free(V, W, m, A.s, v, value)
<1>1. A.s.quorum \in Majorities /\ A.T = A.s.quorum /\ "active" \notin Proposing
  BY DEF Leads, Proposing, Updating, InWriting
<1>2. ASSUME NEW b \in Nat, b < A.s.accepted_pn PROVE SafeAt(V, W, b, v, value)
  <2>1. ASSUME NEW q \in A.s.quorum PROVE Unvoted(V, q, b, v) /\ b < Level(W[q].s)
    <3>1. q \in Mon /\ Promises(V, W[q], q, m, A.s, A.epoch)
      BY <1>1 DEF Leads, Majorities
    <3>2. ASSUME NEW X \in Value, Voted(V, q, b, v, X) PROVE FALSE
      <4>1. Heeded(A.s, b, v)
        BY <1>2, <3>1, <3>2 DEF Promises
      <4>. QED BY <4>1 DEF Heeded
    <3>3. A.s.accepted_pn <= Level(W[q].s) /\ Level(W[q].s) \in Nat
      BY <3>1, LevelsAre DEF Promises, Lawful
    <3>. QED BY <1>2, <3>2, <3>3 DEF Unvoted
  <2>. QED BY <1>1, <2>1 DEF SafeAt
<1>3. Unvoted(V, m, A.s.accepted_pn, v)
  BY <1>1 DEF Leads, Unvoted
<1>. QED BY <1>2, <1>3 DEF Free

(* A leader proposes the value it has found. *)
LEMMA FreePrevious ==
  ASSUME NEW V, NEW W, NEW M, NEW ack, NEW m \in Mon, NEW A, NEW v \in Version, NEW value,
         Lawful(V, W, M, ack), Leads(V, W, m, A), A.s.state = "recovering", A.T = A.s.quorum,
         v = A.s.last_committed + 1, A.s.last_committed \in Nat, A.s.accepted_pn \in Nat,
         Unfinished(A.s), value = A.s.uncommitted_value
  PROVE  Free(V, W, m, A.s, v, value)
<1>1. A.s.quorum \in Majorities /\ V \subseteq Votes
  BY DEF Leads, Lawful
<1>2. PICK u : u = A.s.uncommitted_pn
  OBVIOUS
<1>3. PICK p \in Mon : Voted(V, p, u, v, value)
  BY <1>2 DEF Leads, Best, Unfinished
<1>4. u \in Nat /\ value \in Value
  BY <1>1, <1>3, VoteTypes
<1>5. Ballot(V, W, u, v, value)
  BY <1>3, <1>4 DEF Lawful
<1>6. ASSUME NEW b \in Nat, b < A.s.accepted_pn PROVE SafeAt(V, W, b, v, value)
  <2>1. CASE b < u
    BY <1>5, <2>1 DEF Ballot
  <2>2. CASE ~(b < u)
    <3>1. ASSUME NEW q \in A.s.quorum
          PROVE  Voted(V, q, b, v, value) \/ (Unvoted(V, q, b, v) /\ b < Level(W[q].s))
      <4>1. q \in Mon /\ Promises(V, W[q], q, m, A.s, A.epoch)
        BY <1>1 DEF Leads, Majorities
      <4>2. ASSUME NEW X \in Value, Voted(V, q, b, v, X) PROVE Voted(V, q, b, v, value)
        <5>1. Heeded(A.s, b, v)
          BY <1>6, <4>1, <4>2 DEF Promises
        <5>2. b <= u
          BY <1>2, <5>1 DEF Heeded
        <5>3. b = u
          BY <1>4, <2>2, <5>2
        <5>4. X = value
          BY <1>5, <4>1, <4>2, <5>3 DEF Ballot
        <5>. QED BY <4>2, <5>4
      <4>3. A.s.accepted_pn <= Level(W[q].s) /\ Level(W[q].s) \in Nat
        BY <4>1, LevelsAre DEF Promises, Lawful
      <4>4. b < Level(W[q].s)
        BY <1>6, <4>3
      <4>. QED BY <4>2, <4>4 DEF Unvoted
    <3>. QED BY <1>1, <3>1 DEF SafeAt
  <2>. QED BY <2>1, <2>2
<1>7. Unvoted(V, m, A.s.accepted_pn, v)
  BY DEF Leads, Unvoted
<1>. QED BY <1>6, <1>7 DEF Free

(* begin(), from a context h that differs from c in what no vote is about. *)
LEMMA BeginsBy ==
  ASSUME NEW c \in Contexts, NEW h \in Contexts, NEW m \in Mon, NEW value \in Value, NEW d, NEW v \in Version,
         h.role = c.role, h.epoch = c.epoch, h.out = c.out, AlikeFields(c.s, h.s),
         h.s.state \in Updating, value # NoValue, h.s.committing \subseteq value,
         v = c.s.last_committed + 1, d = Begin(h, m, value)
  PROVE  \E x : /\ Begins(c, m, v, value, d) /\ BeginMsg(c, v, value, x)
                /\ Sends(c, d, c.s.quorum \ {m}, ToAll(x)) /\ d.s.state = h.s.state
<1>1. v = h.s.last_committed + 1 /\ h.s.accepted_pn = c.s.accepted_pn
  BY DEF AlikeFields
<1>2. BeginDoes(h, m, value, v, d)
  BY <1>1, BeginIs
<1>3. h.s \in LooseState /\ h.s.values \in [Version -> Value] /\ h.s.timers \in [Timer -> Nat]
  BY ContextTypes DEF LooseState
<1>4. d.s = [h.s EXCEPT !.accepted = {m}, !.new_value = value, !.values[v] = value,
                        !.pending_v = v, !.pending_pn = h.s.accepted_pn,
                        !.timers["accept"] = @ + 1]
  BY <1>2 DEF BeginDoes
<1>5. /\ d.s.last_pn = h.s.last_pn /\ d.s.stored_pn = h.s.stored_pn /\ d.s.accepted_pn = h.s.accepted_pn
      /\ d.s.leader = h.s.leader /\ d.s.last_committed = h.s.last_committed
      /\ d.s.pending_pn = h.s.accepted_pn /\ d.s.quorum = h.s.quorum /\ d.s.num_last = h.s.num_last
      /\ d.s.accepted = {m} /\ d.s.new_value = value /\ d.s.state = h.s.state
      /\ d.s.committing = h.s.committing
  BY <1>3, <1>4 DEF LooseState
<1>6. d.s.values = [h.s.values EXCEPT ![v] = value]
  BY <1>3, <1>4 DEF LooseState
<1>7. PICK x : x = [Msg(h, "begin") EXCEPT !.values[v] = value, !.pn = h.s.accepted_pn]
  OBVIOUS
<1>8. /\ Msg(h, "begin") \in LooseMessage
      /\ Msg(h, "begin").op = "begin" /\ Msg(h, "begin").epoch = h.epoch
      /\ Msg(h, "begin").last_committed = h.s.last_committed /\ Msg(h, "begin").values = NoValues
  BY MsgIs
<1>9. /\ x \in LooseMessage /\ x.op = "begin" /\ x.pn = h.s.accepted_pn /\ x.epoch = h.epoch
      /\ x.last_committed = h.s.last_committed
      /\ x.values = [NoValues EXCEPT ![v] = value]
  <2>1. h.s.accepted_pn \in Nat
    BY <1>3 DEF LooseState
  <2>2. [NoValues EXCEPT ![v] = value] \in [Version -> Value]
    BY DEF NoValues, NoValue, Value
  <2>. QED BY <1>7, <1>8, <2>1, <2>2 DEF LooseMessage
<1>10. x.values[v] = value /\ \A w \in Version : w # v => x.values[w] = NoValue
  BY <1>9 DEF NoValues
<1>11. BeginMsg(c, v, value, x)
  BY <1>9, <1>10 DEF BeginMsg, AlikeFields
<1>12. Sends(c, d, c.s.quorum \ {m}, ToAll(x))
  BY <1>2, <1>7 DEF BeginDoes, Sends, AlikeFields
<1>13. d \in Contexts /\ d.role = c.role /\ d.epoch = c.epoch
  BY <1>2 DEF BeginDoes
<1>14. Begins(c, m, v, value, d)
  BY <1>5, <1>6, <1>13 DEF Begins, SameNumbers, AlikeFields
<1>. QED BY <1>5, <1>11, <1>12, <1>14

(* Every step of a handler may add votes. *)
Lawfully(m, d, T, W, R, ack) == \E V : Law(m, d, T, V, W, R, ack)

LEMMA LawPropose ==
  ASSUME NEW m \in Mon, NEW c, NEW T, NEW V, NEW W, NEW R, NEW ack, NEW h \in Contexts, NEW d,
         NEW value \in Value,
         Law(m, c, T, V, W, R, ack), c.role = "leader",
         \/ c.s.state = "active"
         \/ /\ c.s.state = "recovering" /\ T = c.s.quorum /\ Unfinished(c.s)
            /\ value = c.s.uncommitted_value /\ h.s.state = "updating_previous",
         h.role = c.role, h.epoch = c.epoch, h.out = c.out, AlikeFields(c.s, h.s),
         h.s.state \in Updating, value # NoValue, h.s.committing \subseteq value,
         d = Begin(h, m, value), d.s.pending_v <= MaxOp
  PROVE  Lawfully(m, d, T, W, R, ack)
<1>1. PICK W1 : W1 = Now(m, c, T, W)
  OBVIOUS
<1>0. LawIs(m, c, T, V, W, R, ack, W1)
  BY <1>1, LawFacts
<1>3. /\ c \in Contexts /\ T \in SUBSET Mon /\ W \in Worlds /\ V \subseteq Votes /\ c.s \in LooseState
      /\ c.s.last_committed \in Nat /\ c.s.accepted_pn \in Nat
      /\ W1 \in Worlds /\ Lawful(V, W1, R \union Posted(m, c), ack)
      /\ Leads(V, W1, m, NodeOf(c, T))
  BY <1>0 DEF LawIs
<1>4. PICK v : v = c.s.last_committed + 1
  OBVIOUS
<1>5. v \in Version
  <2>1. h.s.last_committed + 1 \in Version
    BY BeginVersion
  <2>. QED BY <1>4, <2>1 DEF AlikeFields
<1>6. PICK x : /\ Begins(c, m, v, value, d) /\ BeginMsg(c, v, value, x)
               /\ Sends(c, d, c.s.quorum \ {m}, ToAll(x)) /\ d.s.state = h.s.state
  BY <1>3, <1>4, <1>5, BeginsBy
<1>7. PICK A : A = NodeOf(c, T)
  OBVIOUS
<1>8. A.s = c.s /\ A.T = T /\ Leads(V, W1, m, A)
  BY <1>3, <1>7, NodeIs
<1>9. T = c.s.quorum
  BY <1>8 DEF Leads
<1>10. Free(V, W1, m, c.s, v, value)
  <2>1. CASE c.s.state = "active"
    <3>1. A.s.state = "active" /\ v = A.s.last_committed + 1 /\ A.s.last_committed \in Nat /\ A.s.accepted_pn \in Nat
      BY <1>3, <1>4, <1>8, <2>1
    <3>2. Free(V, W1, m, A.s, v, value)
      BY <1>3, <1>5, <1>8, <3>1, FreeActive
    <3>. QED BY <1>8, <3>2
  <2>2. CASE c.s.state # "active"
    <3>1. /\ A.s.state = "recovering" /\ A.T = A.s.quorum
          /\ v = A.s.last_committed + 1 /\ A.s.last_committed \in Nat /\ A.s.accepted_pn \in Nat
          /\ Unfinished(A.s) /\ value = A.s.uncommitted_value
      BY <1>3, <1>4, <1>8, <2>2
    <3>2. Free(V, W1, m, A.s, v, value)
      BY <1>3, <1>5, <1>8, <3>1, FreePrevious
    <3>. QED BY <1>8, <3>2
  <2>. QED BY <2>1, <2>2
<1>11. HeedsOn(c.s, d.s)
  <2>1. d.s.last_committed = c.s.last_committed
    BY <1>6 DEF Begins
  <2>. QED BY <1>6, <2>1 DEF HeedsOn, Heeded
<1>12. PICK V2 : V2 = V \union {<<m, c.s.accepted_pn, v, value>>}
  OBVIOUS
<1>13. Law(m, d, T, V2, W, R, ack)
  BY <1>1, <1>6, <1>9, <1>10, <1>11, <1>12, LawBegin
<1>. QED BY <1>13 DEF Lawfully
(* propose_pending() *)
LEMMA LawProposePending ==
  ASSUME NEW m \in Mon, NEW c, NEW T, NEW V, NEW W, NEW R, NEW ack, NEW d,
         Law(m, c, T, V, W, R, ack), c.role = "leader", c.s.state = "active",
         c.s.pending_proposal # NoValue, d = ProposePending(c, m), d.s.pending_v <= MaxOp
  PROVE  Lawfully(m, d, T, W, R, ack)
<1>1. c \in Contexts /\ c.s \in LooseState /\ c.s.pending_proposal \in Value
  BY ContextTypes DEF Law, LooseState
<1>2. PICK c1 : c1 = Check(c, c.s.state = "active" /\ c.s.pending_proposal # NoValue)
  OBVIOUS
<1>3. c1 = c
  BY <1>1, <1>2, CheckIs
<1>4. PICK c2 : c2 = CancelEvents(c)
  OBVIOUS
<1>5. OnlyTimers(c, c2)
  BY <1>1, <1>4, CancelEventsIs
<1>6. c2 \in Contexts /\ c2.s \in LooseState /\ c2.role = c.role /\ c2.epoch = c.epoch /\ c2.out = c.out
  BY <1>5, ContextTypes DEF OnlyTimers
<1>7. PICK h : h = [c2 EXCEPT !.s = [c2.s EXCEPT !.committing = c2.s.pending_proposal,
                                                !.pending_proposal = NoValue,
                                                !.state = "updating"]]
  OBVIOUS
<1>8. PICK s1 : s1 = [c2.s EXCEPT !.committing = c2.s.pending_proposal,
                                  !.pending_proposal = NoValue, !.state = "updating"]
  OBVIOUS
<1>9. s1 \in LooseState /\ s1.state = "updating" /\ s1.committing = c2.s.pending_proposal
  BY <1>6, <1>8 DEF LooseState, State, Value, NoValue
<1>10. AlikeFields(c2.s, s1)
  BY <1>6, <1>8 DEF LooseState, AlikeFields
<1>11. h \in Contexts /\ h.s = s1 /\ h.role = c.role /\ h.epoch = c.epoch /\ h.out = c.out
  BY <1>6, <1>7, <1>8, <1>9 DEF Contexts
<1>12. AlikeFields(c.s, h.s) /\ h.s.state \in Updating /\ h.s.committing = c.s.pending_proposal
  BY <1>5, <1>9, <1>10, <1>11 DEF AlikeFields, OnlyTimers, ButTimers, Updating
<1>13. PICK value : value = c.s.pending_proposal
  OBVIOUS
<1>14. d = Begin(h, m, value) /\ value \in Value /\ value # NoValue /\ h.s.committing \subseteq value
  BY <1>1, <1>2, <1>3, <1>4, <1>7, <1>12, <1>13 DEF ProposePending
<1>. QED BY <1>11, <1>12, <1>14, LawPropose

(* A message without values. *)
LEMMA EmptyHarmless ==
  ASSUME NEW V, NEW W, NEW c \in Contexts, NEW op \in {"victory", "commit", "lease", "lease_ack"}
  PROVE  Harmless(V, W, Msg(c, op)) /\ Msg(c, op) \in LooseMessage
<1>1. Msg(c, op) \in LooseMessage /\ Msg(c, op).op = op /\ Msg(c, op).values = NoValues
  BY MsgIs
<1>. QED BY <1>1 DEF Harmless, NoValues

(* extend_lease() and finish_round() *)
LEMMA LawFinish ==
  ASSUME NEW m \in Mon, NEW c, NEW T, NEW V, NEW W, NEW R, NEW ack, NEW h \in Contexts, NEW d,
         Law(m, c, T, V, W, R, ack), c.role = "leader", c.s.state = "active",
         h.role = c.role, h.epoch = c.epoch, h.out = c.out, AlikeFields(c.s, h.s),
         h.s.committing = NoValue,
         d = FinishRound(ExtendLease(h, m), m), d.s.pending_v <= MaxOp
  PROVE  Lawfully(m, d, T, W, R, ack)
<1>1. PICK W1 : W1 = Now(m, c, T, W)
  OBVIOUS
<1>0. LawIs(m, c, T, V, W, R, ack, W1)
  BY <1>1, LawFacts
<1>2. /\ c \in Contexts /\ T \in SUBSET Mon /\ Leads(V, W1, m, NodeOf(c, T))
  BY <1>0 DEF LawIs
<1>3. NodeOf(c, T).s = c.s
  BY <1>2, NodeIs
<1>4. c.s.quorum \in SUBSET Mon /\ c.s.committing = NoValue
  BY <1>2, <1>3 DEF Leads, Majorities, Proposing, Updating, InWriting
<1>5. PICK e : e = ExtendLease(h, m)
  OBVIOUS
<1>6. LeaseDoes(h, m, e)
  BY <1>5, LeaseIs
<1>7. e \in Contexts /\ e.role = c.role /\ e.epoch = c.epoch
      /\ AlikeFields(h.s, e.s) /\ e.s.committing = h.s.committing
      /\ Sends(h, e, h.s.quorum \ {m}, ToAll(Msg(h, "lease")))
  BY <1>6 DEF LeaseDoes
<1>8. PICK g : g = [Check(e, e.role = "leader") EXCEPT !.s.state = "active"]
  OBVIOUS
<1>9. Check(e, e.role = "leader") = e
  BY <1>7, CheckIs
<1>10. WithState(e, "active", g)
  <2>1. "active" \in State
    BY DEF State
  <2>. QED BY <1>7, <1>8, <1>9, <2>1, StateIs
<1>11. /\ g \in Contexts /\ g.role = c.role /\ g.epoch = c.epoch /\ g.out = e.out
       /\ AlikeFields(c.s, g.s) /\ g.s.state = "active" /\ g.s.committing = c.s.committing
  BY <1>4, <1>7, <1>10 DEF WithState, AlikeFields
<1>12. SameNode(c, g)
  <2>1. SameStore(c.s, g.s)
    BY <1>11 DEF SameStore, SameNumbers, AlikeFields
  <2>2. SameRecovery(c.s, g.s)
    BY <1>11 DEF SameRecovery, AlikeFields
  <2>. QED BY <1>11, <2>1, <2>2 DEF SameNode
<1>13. PICK to, x : to = c.s.quorum \ {m} /\ x = ToAll(Msg(h, "lease"))
  OBVIOUS
<1>14. Harmless(V, W1, Msg(h, "lease")) /\ Msg(h, "lease") \in LooseMessage
  BY EmptyHarmless
<1>15. /\ to \in SUBSET (Mon \ {m}) /\ x \in [Mon -> LooseMessage]
       /\ \A j \in to : Harmless(V, Now(m, c, T, W), x[j])
  BY <1>1, <1>4, <1>13, <1>14 DEF ToAll
<1>16. Sends(c, g, to, x)
  BY <1>7, <1>11, <1>13 DEF Sends, AlikeFields
<1>17. Law(m, g, T, V, W, R, ack)
  <2>1. R \subseteq R
    OBVIOUS
  <2>. QED BY <1>12, <1>15, <1>16, <2>1, LawQuiet
<1>18. d = IF g.s.pending_proposal # NoValue THEN ProposePending(g, m) ELSE g
  BY <1>5, <1>8 DEF FinishRound
<1>19. CASE g.s.pending_proposal # NoValue
  BY <1>11, <1>17, <1>18, <1>19, LawProposePending
<1>20. CASE g.s.pending_proposal = NoValue
  BY <1>17, <1>18, <1>20 DEF Lawfully
<1>. QED BY <1>19, <1>20

(* The last answer is in. *)
LEMMA LawAllIn ==
  ASSUME NEW m \in Mon, NEW c, NEW T, NEW V, NEW W, NEW R, NEW ack, NEW f, NEW d,
         Law(m, c, T, V, W, R, ack), c.role = "leader", c.s.state = "recovering",
         T = c.s.quorum, AllIn(c, f), d.s.pending_v <= MaxOp,
         \/ /\ Unfinished(f.s)
            /\ d = Begin([f EXCEPT !.s.state = "updating_previous"], m, f.s.uncommitted_value)
         \/ ~Unfinished(f.s) /\ d = FinishRound(ExtendLease(f, m), m)
  PROVE  Lawfully(m, d, T, W, R, ack)
<1>1. PICK W1 : W1 = Now(m, c, T, W)
  OBVIOUS
<1>0. LawIs(m, c, T, V, W, R, ack, W1)
  BY <1>1, LawFacts
<1>2. c \in Contexts /\ T \in SUBSET Mon /\ Leads(V, W1, m, NodeOf(c, T))
  BY <1>0 DEF LawIs
<1>3. NodeOf(c, T).s = c.s
  BY <1>2, NodeIs
<1>4. c.s.committing = NoValue
  BY <1>2, <1>3 DEF Leads, Proposing, Updating, InWriting
<1>5. /\ f \in Contexts /\ f.role = "leader" /\ f.s.state = "recovering" /\ T = f.s.quorum
      /\ f.s.committing = NoValue /\ f.out = c.out
  BY <1>4 DEF AllIn
<1>6. Law(m, f, T, V, W, R, ack)
  <2>1. SameStore(c.s, f.s) /\ SameRecovery(c.s, f.s)
    BY DEF AllIn, SameStore, SameNumbers, SameRecovery
  <2>2. SameNode(c, f)
    BY <2>1 DEF SameNode, AllIn
  <2>3. Sends(c, f, {}, Nothing) /\ Nothing \in [Mon -> LooseMessage] /\ {} \in SUBSET (Mon \ {m})
    BY <1>2, <1>5, SendsNothing
  <2>4. R \subseteq R
    OBVIOUS
  <2>. QED BY <2>2, <2>3, <2>4, LawQuiet
<1>7. CASE Unfinished(f.s) /\ d = Begin([f EXCEPT !.s.state = "updating_previous"], m, f.s.uncommitted_value)
  <2>1. PICK h : h = [f EXCEPT !.s.state = "updating_previous"]
    OBVIOUS
  <2>2. WithState(f, "updating_previous", h)
    <3>1. "updating_previous" \in State
      BY DEF State
    <3>. QED BY <1>5, <2>1, <3>1, StateIs
  <2>3. PICK value : value = f.s.uncommitted_value
    OBVIOUS
  <2>4. value \in Value /\ value # NoValue /\ d = Begin(h, m, value)
    BY <1>7, <2>1, <2>3 DEF AllIn, Unfinished
  <2>5. h.s.committing \subseteq value
    BY <1>5, <2>2 DEF WithState, NoValue
  <2>6. /\ h \in Contexts /\ h.role = f.role /\ h.epoch = f.epoch /\ h.out = f.out
        /\ AlikeFields(f.s, h.s) /\ h.s.state \in Updating /\ h.s.state = "updating_previous"
    BY <2>2 DEF WithState, Updating
  <2>. QED BY <1>5, <1>6, <1>7, <2>3, <2>4, <2>5, <2>6, LawPropose
<1>8. CASE ~Unfinished(f.s) /\ d = FinishRound(ExtendLease(f, m), m)
  <2>1. PICK g : g = [f EXCEPT !.s.state = "active"]
    OBVIOUS
  <2>2. WithState(f, "active", g)
    <3>1. "active" \in State
      BY DEF State
    <3>. QED BY <1>5, <2>1, <3>1, StateIs
  <2>3. Opens(f, g)
    BY <2>2 DEF WithState, Opens, SameStore, SameNumbers, AlikeFields
  <2>4. Law(m, g, T, V, W, R, ack)
    BY <1>5, <1>6, <1>8, <2>3, LawActivate
  <2>5. /\ f.role = g.role /\ f.epoch = g.epoch /\ f.out = g.out /\ AlikeFields(g.s, f.s)
        /\ g.s.state = "active" /\ g.role = "leader"
    BY <1>5, <2>2 DEF WithState, AlikeFields
  <2>. QED BY <1>5, <1>8, <2>4, <2>5, LawFinish
<1>. QED BY <1>7, <1>8

-----------------------------------------------------------------------------
(* What a message brings *)

Imparted(V, W, x) ==
  \A v \in Version : v <= x.last_committed /\ x.values[v] # NoValue => Decided(V, W, v, x.values[v])

(* store_state() *)
LEMMA LawStore ==
  ASSUME NEW m \in Mon, NEW c, NEW T, NEW V, NEW W, NEW R, NEW ack, NEW msg, NEW d,
         Law(m, c, T, V, W, R, ack), StoreDoes(c, msg, d), Logged(c.s), msg.last_committed \in Nat,
         c.role = "leader" => c.s.state = "recovering",
         Imparted(V, Now(m, c, T, W), msg)
  PROVE  Law(m, d, T, V, W, R, ack)
<1>1. PICK W1 : W1 = Now(m, c, T, W)
  OBVIOUS
<1>2. PICK W2 : W2 = Now(m, d, T, W)
  OBVIOUS
<1>0. LawIs(m, c, T, V, W, R, ack, W1)
  BY <1>1, LawFacts
<1>3. /\ c \in Contexts /\ T \in SUBSET Mon /\ W \in Worlds /\ V \subseteq Votes /\ c.s \in LooseState
      /\ c.epoch \in Nat /\ c.s.last_committed \in Nat /\ c.s.accepted_pn \in Nat
      /\ W1 \in Worlds /\ Lawful(V, W1, R \union Posted(m, c), ack)
      /\ Own(V, W1, m, c.s)
      /\ c.role = "leader" => Leads(V, W1, m, NodeOf(c, T))
  BY <1>0 DEF LawIs
<1>4. PICK lc, lc2 : lc = c.s.last_committed /\ lc2 = d.s.last_committed
  OBVIOUS
<1>5. /\ d \in Contexts /\ d.role = c.role /\ d.epoch = c.epoch /\ d.out = c.out
      /\ ButLog(c.s, d.s) /\ Outdates(c.s, d.s) /\ lc <= lc2 /\ Learns(lc, lc2, msg)
      /\ \A v \in Version : d.s.values[v] = IF v > lc /\ v <= lc2 THEN msg.values[v] ELSE c.s.values[v]
      /\ \A v \in Version : v > lc /\ v <= lc2 => msg.values[v] # NoValue
  BY <1>4 DEF StoreDoes
<1>6. d.s \in LooseState /\ lc \in Nat /\ lc2 \in Nat
  <2>1. d.s \in LooseState
    BY <1>5, ContextTypes
  <2>. QED BY <1>3, <1>4, <2>1, MonTypes DEF LooseState
<1>7. SameNumbers(c.s, d.s) /\ d.s.leader = c.s.leader /\ d.s.pending_pn = c.s.pending_pn
  BY <1>5 DEF ButLog, SameNumbers
<1>8. Moves(NodeOf(c, T), NodeOf(d, T)) /\ Level(d.s) = Level(c.s)
  <2>1. c.s.last_committed <= d.s.last_committed
    BY <1>4, <1>5
  <2>. QED BY <1>3, <1>5, <1>7, <2>1, MovesSame
<1>9. Casts(V, V, m, Level(c.s)) /\ NewBallots(V, V, W2)
  BY <1>3, NoVotes
<1>10. Turns(V, W1, V, W2)
  BY <1>1, <1>2, <1>3, <1>5, <1>8, <1>9, LawTurns
<1>11. Own(V, W2, m, d.s)
  <2>1. ASSUME NEW n \in Nat, NEW v \in Version, NEW X \in Value, Voted(V, m, n, v, X)
        PROVE  /\ n <= Level(d.s) /\ v <= lc2 + 1
               /\ v = lc2 + 1 => d.s.values[v] # NoValue /\ n <= d.s.pending_pn
    <3>1. /\ n <= Level(c.s) /\ v <= lc + 1
          /\ v = lc + 1 => c.s.values[v] # NoValue /\ n <= c.s.pending_pn
      BY <1>3, <1>4, <2>1 DEF Own
    <3>2. v \in Nat
      BY MonTypes
    <3>. QED BY <1>5, <1>6, <1>7, <1>8, <3>1, <3>2
  <2>2. ASSUME NEW v \in Version, v = lc2 + 1, d.s.values[v] # NoValue
        PROVE  Voted(V, m, d.s.pending_pn, v, d.s.values[v])
    <3>1. d.s.values[v] = c.s.values[v] /\ v \in Nat
      BY <1>5, <1>6, <2>2, MonTypes
    <3>2. v = lc + 1
      <4>1. ~(v > lc + 1)
        BY <1>4, <2>2, <3>1 DEF Logged
      <4>. QED BY <1>5, <1>6, <2>2, <4>1
    <3>. QED BY <1>3, <1>4, <1>7, <2>2, <3>1, <3>2 DEF Own
  <2>3. ASSUME NEW v \in Version, v <= lc2 PROVE Decided(V, W2, v, d.s.values[v])
    <3>1. v \in Nat
      BY MonTypes
    <3>2. Decided(V, W1, v, d.s.values[v])
      <4>1. CASE v <= lc
        <5>1. d.s.values[v] = c.s.values[v]
          BY <1>5, <1>6, <3>1, <4>1
        <5>. QED BY <1>3, <1>4, <4>1, <5>1 DEF Own
      <4>2. CASE ~(v <= lc)
        <5>1. d.s.values[v] = msg.values[v] /\ msg.values[v] # NoValue
          BY <1>5, <1>6, <2>3, <3>1, <4>2
        <5>2. v <= msg.last_committed
          BY <1>5, <1>6, <2>3, <3>1, <4>2 DEF Learns
        <5>. QED BY <1>1, <5>1, <5>2 DEF Imparted
      <4>. QED BY <4>1, <4>2
    <3>. QED BY <1>3, <1>10, <3>2, StillDecided
  <2>4. d.s.accepted_pn \in {d.s.stored_pn, d.s.last_pn}
    BY <1>3, <1>7 DEF Own, SameNumbers
  <2>. QED BY <1>4, <2>1, <2>2, <2>3, <2>4 DEF Own
<1>12. ASSUME d.role = "leader" PROVE Leads(V, W2, m, NodeOf(d, T))
  <2>1. PICK A : A = NodeOf(c, T)
    OBVIOUS
  <2>2. PICK A2 : A2 = NodeOf(d, T)
    OBVIOUS
  <2>3. A.s = c.s /\ A2.s = d.s /\ A.T = T /\ A2.T = T /\ A.epoch = c.epoch /\ A2.epoch = c.epoch
    BY <1>3, <1>5, <2>1, <2>2, NodeIs
  <2>4. Leads(V, W1, m, A) /\ c.s.state = "recovering" /\ d.s.state = "recovering"
    BY <1>3, <1>5, <1>12, <2>1 DEF ButLog
  <2>5. Best(V, c.s)
    BY <2>3, <2>4 DEF Leads
  <2>6. c.s.uncommitted_v \in Nat /\ d.s.uncommitted_v \in Nat
    BY <1>3, <1>6 DEF LooseState
  <2>7. HeedsOn(c.s, d.s)
    <3>1. ASSUME NEW n \in Nat, NEW v \in Version, Heeded(c.s, n, v) PROVE Heeded(d.s, n, v)
      <4>1. v \in Nat
        BY MonTypes
      <4>2. CASE v <= lc2
        BY <1>4, <4>2 DEF Heeded
      <4>3. CASE ~(v <= lc2)
        <5>1. /\ v = lc + 1 /\ c.s.uncommitted_v = v /\ n <= c.s.uncommitted_pn
          BY <1>4, <1>5, <1>6, <2>4, <3>1, <4>1, <4>3 DEF Heeded
        <5>2. v = lc2 + 1
          BY <1>5, <1>6, <4>1, <4>3, <5>1
        <5>3. d.s.uncommitted_v = v /\ d.s.uncommitted_pn = c.s.uncommitted_pn
          BY <1>4, <1>5, <2>6, <4>3, <5>1 DEF Outdates
        <5>. QED BY <1>4, <2>4, <5>1, <5>2, <5>3 DEF Heeded
      <4>. QED BY <4>2, <4>3
    <3>. QED BY <3>1 DEF HeedsOn
  <2>8. Best(V, d.s)
    <3>1. d.s.uncommitted_v = 0 => d.s.uncommitted_pn = 0
      BY <1>5, <2>5 DEF Outdates, Best
    <3>2. ASSUME d.s.uncommitted_v # 0
          PROVE  /\ d.s.uncommitted_v = d.s.last_committed + 1
                 /\ \E q \in Mon : Voted(V, q, d.s.uncommitted_pn, d.s.uncommitted_v, d.s.uncommitted_value)
      <4>1. /\ c.s.uncommitted_v > lc2 \/ lc2 = lc
            /\ d.s.uncommitted_v = c.s.uncommitted_v /\ d.s.uncommitted_pn = c.s.uncommitted_pn
            /\ d.s.uncommitted_value = c.s.uncommitted_value
        BY <1>4, <1>5, <3>2 DEF Outdates
      <4>2. /\ c.s.uncommitted_v = lc + 1
            /\ \E q \in Mon : Voted(V, q, c.s.uncommitted_pn, c.s.uncommitted_v, c.s.uncommitted_value)
        BY <1>4, <2>5, <3>2, <4>1 DEF Best
      <4>3. lc2 = lc
        BY <1>5, <1>6, <4>1, <4>2
      <4>. QED BY <1>4, <4>1, <4>2, <4>3
    <3>. QED BY <3>1, <3>2 DEF Best
  <2>9. Pledged(V, W2, T, m, d.s, c.epoch)
    <3>1. PICK s, t, e : s = c.s /\ t = d.s /\ e = c.epoch
      OBVIOUS
    <3>2. s.accepted_pn \in Nat /\ t.accepted_pn = s.accepted_pn /\ e \in Nat
      BY <1>3, <1>7, <3>1 DEF SameNumbers
    <3>3. Pledged(V, W1, T, m, s, e)
      BY <2>3, <2>4, <3>1 DEF Leads, Pledged
    <3>4. Pledged(V, W2, T, m, t, e)
      BY <1>3, <1>10, <2>7, <3>1, <3>2, <3>3, AllPromise
    <3>. QED BY <3>1, <3>4
  <2>10. \A v \in Version, X \in Value : ~Voted(V, m, d.s.accepted_pn, v, X)
    BY <1>7, <2>3, <2>4 DEF Leads, SameNumbers
  <2>11. /\ d.s.quorum \in Majorities /\ d.s.accepted_pn = d.s.last_pn /\ d.s.accepted_pn % 100 = m
         /\ m \in T /\ T \subseteq d.s.quorum /\ d.s.num_last = Cardinality(T) /\ d.s.committing = NoValue
    BY <1>5, <1>7, <2>3, <2>4 DEF Leads, SameNumbers, ButLog, Proposing, Updating, InWriting
  <2>12. d.s.state \notin Proposing
    BY <2>4 DEF Proposing, Updating, InWriting
  <2>13. Leads(V, W2, m, A2)
    BY <2>3, <2>4, <2>8, <2>9, <2>10, <2>11, <2>12 DEF Leads, Pledged
  <2>. QED BY <2>2, <2>13
<1>13. Recounts(m, c, T, d, T, R \union Posted(m, c))
  BY <1>5 DEF Recounts
<1>14. Sends(c, d, {}, Nothing) /\ Nothing \in [Mon -> LooseMessage] /\ {} \in SUBSET (Mon \ {m})
  BY <1>3, <1>5, SendsNothing
<1>15. Advances(m, c, T, V, d, T, V, W2)
  BY <1>3, <1>5, <1>8, <1>9, <1>11, <1>12 DEF Advances
<1>16. Delivers(m, c, T, d, T, V, W2, R, R, {}, Nothing)
  BY <1>13, <1>14 DEF Delivers
<1>. QED BY <1>2, <1>15, <1>16, LawStepped

(* share_state() with the peers that are behind *)
LEMMA LawShare ==
  ASSUME NEW m \in Mon, NEW c, NEW T, NEW V, NEW W, NEW R, NEW ack, NEW d,
         Law(m, c, T, V, W, R, ack), Logged(c.s), c.s.peer_last_committed[m] = -1,
         d = ShareWithPeers(c)
  PROVE  /\ Law(m, d, T, V, W, R, ack) /\ d.s = c.s /\ d.role = c.role /\ d.epoch = c.epoch
         /\ Sends(c, d, Behind(c.s), Catchup(c)) /\ Behind(c.s) \in SUBSET (Mon \ {m})
<1>1. PICK W1 : W1 = Now(m, c, T, W)
  OBVIOUS
<1>0. LawIs(m, c, T, V, W, R, ack, W1)
  BY <1>1, LawFacts
<1>2. c \in Contexts /\ c.s \in LooseState /\ Own(V, W1, m, c.s)
  BY <1>0 DEF LawIs
<1>3. /\ d \in Contexts /\ d.s = c.s /\ d.ok = c.ok /\ d.role = c.role /\ d.epoch = c.epoch
      /\ Sends(c, d, Behind(c.s), Catchup(c))
      /\ Catchup(c) \in [Mon -> LooseMessage]
  BY <1>2, ShareIs
<1>4. SameNode(c, d)
  BY <1>3 DEF SameNode, SameStore, SameNumbers, SameRecovery, SameFound
<1>5. Behind(c.s) \in SUBSET (Mon \ {m})
  BY DEF Behind
<1>6. ASSUME NEW j \in Behind(c.s) PROVE Harmless(V, W1, Catchup(c)[j])
  <2>1. PICK x : x = Catchup(c)[j]
    OBVIOUS
  <2>2. j \in Mon
    BY <1>5
  <2>3. x.op = "commit" /\ x.last_committed = c.s.last_committed
    BY <1>2, <2>1, <2>2, CatchupIs
  <2>4. x.values = Share(c.s, c.s.peer_last_committed[j] + 1, c.s.last_committed)
    <3>1. Msg(c, "commit") \in LooseMessage
      BY <1>2, MsgIs
    <3>. QED BY <2>1, <2>2, <3>1 DEF Catchup, LooseMessage
  <2>5. \A v \in Version : x.values[v] \in {c.s.values[v], NoValue}
    BY <2>4 DEF Share
  <2>6. Harmless(V, W1, x)
    BY <1>2, <2>3, <2>5 DEF Harmless, Own
  <2>. QED BY <2>1, <2>6
<1>7. PICK to, xx : to = Behind(c.s) /\ xx = Catchup(c)
  OBVIOUS
<1>8. /\ to \in SUBSET (Mon \ {m}) /\ xx \in [Mon -> LooseMessage] /\ Sends(c, d, to, xx)
      /\ \A j \in to : Harmless(V, Now(m, c, T, W), xx[j])
  BY <1>1, <1>3, <1>5, <1>6, <1>7
<1>9. Law(m, d, T, V, W, R, ack)
  <2>1. R \subseteq R
    OBVIOUS
  <2>. QED BY <1>4, <1>8, <2>1, LawQuiet
<1>. QED BY <1>3, <1>5, <1>9

(* What handle_last() has done to c when it has looked at the committed values. *)
HeardLaw(m, c, msg, d) ==
  /\ c.s.last_committed <= d.s.last_committed
  /\ (\A v \in c.s.last_committed + 1 .. msg.last_committed : msg.values[v] # NoValue) =>
       msg.last_committed <= d.s.last_committed
  /\ \A i, j \in Mon, y \in LooseMessage : Posts(m, d, i, j, y) => Posts(m, c, i, j, y) \/ y.op = "commit"
  /\ Logged(d.s)

LEMMA LawHear ==
  ASSUME NEW m \in Mon, NEW c, NEW T, NEW V, NEW W, NEW R, NEW ack, NEW from \in Mon \ {m},
         NEW msg \in LooseMessage, NEW d,
         Law(m, c, T, V, W, R, ack), Logged(c.s), c.s.peer_last_committed[m] = -1, NoGap(msg),
         c.role = "leader", c.s.state = "recovering",
         Imparted(V, Now(m, c, T, W), msg), Hearing(c, from, msg, d)
  PROVE  Law(m, d, T, V, W, R, ack) /\ HeardLaw(m, c, msg, d)
<1>1. PICK W1 : W1 = Now(m, c, T, W)
  OBVIOUS
<1>0. LawIs(m, c, T, V, W, R, ack, W1)
  BY <1>1, LawFacts
<1>2. c \in Contexts /\ c.s \in LooseState /\ T \in SUBSET Mon /\ W \in Worlds
  BY <1>0 DEF LawIs
<1>3. msg.last_committed \in 0 .. MaxOp /\ msg.last_committed \in Nat /\ msg.last_committed \in Int
  BY MonTypes DEF LooseMessage
<1>5. PICK s1 : s1 = [c.s EXCEPT !.peer_last_committed[from] = msg.last_committed]
  OBVIOUS
<1>6. /\ s1 \in LooseState
      /\ s1.peer_last_committed = [c.s.peer_last_committed EXCEPT ![from] = msg.last_committed]
  BY <1>2, <1>3, <1>5 DEF LooseState
<1>7. /\ s1.leader = c.s.leader /\ s1.last_pn = c.s.last_pn /\ s1.stored_pn = c.s.stored_pn
      /\ s1.state = c.s.state /\ s1.accepted_pn = c.s.accepted_pn
      /\ s1.quorum = c.s.quorum /\ s1.num_last = c.s.num_last
      /\ s1.accepted = c.s.accepted /\ s1.new_value = c.s.new_value
      /\ s1.committing = c.s.committing
      /\ s1.last_committed = c.s.last_committed /\ s1.values = c.s.values
      /\ s1.pending_v = c.s.pending_v /\ s1.pending_pn = c.s.pending_pn
      /\ SameFound(c.s, s1)
  BY <1>2, <1>5 DEF LooseState, SameFound
<1>8. PICK c1 : c1 = [c EXCEPT !.s.peer_last_committed[from] = msg.last_committed]
  OBVIOUS
<1>9. c1 \in Contexts /\ c1.s = s1 /\ c1.role = c.role /\ c1.epoch = c.epoch /\ c1.out = c.out
  BY <1>2, <1>5, <1>6, <1>8 DEF Contexts
<1>10. Law(m, c1, T, V, W, R, ack)
  <2>1. SameStore(c.s, c1.s) /\ SameRecovery(c.s, c1.s)
    BY <1>7, <1>9 DEF SameStore, SameNumbers, SameRecovery
  <2>2. SameNode(c, c1)
    BY <1>9, <2>1 DEF SameNode
  <2>3. Sends(c, c1, {}, Nothing) /\ Nothing \in [Mon -> LooseMessage] /\ {} \in SUBSET (Mon \ {m})
    BY <1>2, <1>9, SendsNothing
  <2>4. R \subseteq R
    OBVIOUS
  <2>. QED BY <2>2, <2>3, <2>4, LawQuiet
<1>11. PICK c2 : c2 = StoreState(c1, msg)
  OBVIOUS
<1>12. StoreDoes(c1, msg, c2)
  BY <1>9, <1>11, StoreIs
<1>13. Logged(c1.s) /\ c1.role = "leader" /\ c1.s.state = "recovering"
  BY <1>7, <1>9 DEF Logged
<1>14. Imparted(V, Now(m, c1, T, W), msg)
  <2>1. PICK W0 : W0 = Now(m, c1, T, W)
    OBVIOUS
  <2>2. Turns(V, W1, V, W0)
    <3>1. Casts(V, V, m, Level(c.s))
      BY <1>0, NoVotes DEF LawIs
    <3>2. c.s.last_committed <= c1.s.last_committed /\ SameNumbers(c.s, c1.s) /\ c1.s.leader = c.s.leader
      BY <1>0, <1>7, <1>9 DEF SameNumbers, LawIs
    <3>3. Moves(NodeOf(c, T), NodeOf(c1, T))
      BY <1>2, <1>9, <3>2, MovesSame
    <3>. QED BY <1>1, <1>2, <1>9, <2>1, <3>1, <3>3, LawTurns
  <2>3. Lawful(V, W1, R \union Posted(m, c), ack)
    BY <1>0 DEF LawIs
  <2>4. Imparted(V, W0, msg)
    BY <1>1, <2>2, <2>3, StillDecided DEF Imparted
  <2>. QED BY <2>1, <2>4
<1>15. Law(m, c2, T, V, W, R, ack)
  BY <1>3, <1>10, <1>12, <1>13, <1>14, LawStore
<1>16. Logged(c2.s) /\ c2.s.peer_last_committed[m] = -1
  <2>1. Logged(c2.s)
    BY <1>9, <1>12, <1>13, StoreKeepsLog
  <2>2. c2.s.peer_last_committed = s1.peer_last_committed
    BY <1>9, <1>12 DEF StoreDoes, ButLog
  <2>3. s1.peer_last_committed[m] = -1
    BY <1>2, <1>6 DEF LooseState
  <2>. QED BY <2>1, <2>2, <2>3
<1>17. d = ShareWithPeers(c2)
  BY <1>8, <1>11 DEF Hearing
<1>18. /\ Law(m, d, T, V, W, R, ack) /\ d.s = c2.s /\ d.role = c2.role /\ d.epoch = c2.epoch
       /\ Sends(c2, d, Behind(c2.s), Catchup(c2)) /\ Behind(c2.s) \in SUBSET (Mon \ {m})
  BY <1>15, <1>16, <1>17, LawShare
<1>19. c.s.last_committed <= d.s.last_committed
  BY <1>7, <1>9, <1>12, <1>18 DEF StoreDoes
<1>20. ASSUME \A v \in c.s.last_committed + 1 .. msg.last_committed : msg.values[v] # NoValue
       PROVE  msg.last_committed <= d.s.last_committed
  <2>1. Learns(c.s.last_committed, d.s.last_committed, msg)
    BY <1>7, <1>9, <1>12, <1>18 DEF StoreDoes
  <2>2. c.s.last_committed \in Nat
    BY <1>0 DEF LawIs
  <2>. QED BY <1>3, <1>19, <1>20, <2>1, <2>2 DEF Learns
<1>21. ASSUME NEW i \in Mon, NEW j \in Mon, NEW y \in LooseMessage, Posts(m, d, i, j, y)
       PROVE  Posts(m, c, i, j, y) \/ y.op = "commit"
  <2>1. c2 \in Contexts /\ d \in Contexts /\ c2.out = c.out
    BY <1>9, <1>12, <1>18 DEF StoreDoes, Law
  <2>2. Catchup(c2) \in [Mon -> LooseMessage]
    BY <1>16, <2>1, ShareIs
  <2>3. PICK to, xx : to = Behind(c2.s) /\ xx = Catchup(c2)
    OBVIOUS
  <2>4. to \in SUBSET (Mon \ {m}) /\ xx \in [Mon -> LooseMessage] /\ Sends(c2, d, to, xx)
    BY <1>18, <2>2, <2>3
  <2>5. Posts(m, c2, i, j, y) \/ (j \in to /\ y = xx[j])
    BY <1>21, <2>1, <2>4, PostedIs
  <2>6. CASE Posts(m, c2, i, j, y)
    BY <2>1, <2>6 DEF Posts, Posted
  <2>7. CASE y = xx[j]
    BY <1>16, <2>1, <2>3, <2>7, CatchupIs
  <2>. QED BY <2>5, <2>6, <2>7
<1>. QED BY <1>16, <1>18, <1>19, <1>20, <1>21 DEF HeardLaw

(* handle_last() remembers an uncommitted value. *)
Learnt(s, msg, t) ==
  LET v == msg.last_committed + 1
  IN  \/ /\ msg.uncommitted_pn # 0 /\ msg.uncommitted_pn >= s.uncommitted_pn
         /\ msg.last_committed >= s.last_committed /\ v >= s.uncommitted_v
         /\ t.uncommitted_v = v /\ t.uncommitted_pn = msg.uncommitted_pn
         /\ t.uncommitted_value = At(msg.values, v)
      \/ /\ \/ msg.uncommitted_pn = 0 \/ ~(msg.uncommitted_pn >= s.uncommitted_pn)
            \/ ~(msg.last_committed >= s.last_committed) \/ ~(v >= s.uncommitted_v)
         /\ SameFound(s, t)

LEMMA LearntIs ==
  ASSUME NEW c \in Contexts, NEW msg \in LooseMessage, NEW d,
         d = Learn([c EXCEPT !.s.num_last = @ + 1], msg)
  PROVE  Learnt(c.s, msg, d.s)
<1>1. c.s \in LooseState
  BY ContextTypes
<1>2. PICK g : g = [c EXCEPT !.s.num_last = @ + 1]
  OBVIOUS
<1>3. PICK s1 : s1 = [c.s EXCEPT !.num_last = @ + 1]
  OBVIOUS
<1>4. s1 \in LooseState
  <2>1. c.s.num_last + 1 \in Nat
    BY <1>1 DEF LooseState
  <2>. QED BY <1>1, <1>3, <2>1 DEF LooseState
<1>5. SameFound(c.s, s1) /\ s1.last_committed = c.s.last_committed
  BY <1>1, <1>3 DEF LooseState, SameFound
<1>6. g.s = s1 /\ g \in Contexts
  BY <1>2, <1>3, <1>4 DEF Contexts
<1>7. PICK v : v = msg.last_committed + 1
  OBVIOUS
<1>8. PICK takes \in BOOLEAN : takes = (/\ msg.uncommitted_pn # 0 /\ msg.uncommitted_pn >= s1.uncommitted_pn
                                        /\ msg.last_committed >= s1.last_committed /\ v >= s1.uncommitted_v)
  OBVIOUS
<1>9. CASE takes
  <2>1. d = [g EXCEPT !.s = [s1 EXCEPT !.uncommitted_v = v, !.uncommitted_pn = msg.uncommitted_pn,
                                       !.uncommitted_value = At(msg.values, v)]]
    BY <1>2, <1>6, <1>7, <1>8, <1>9 DEF Learn
  <2>2. d.s = [s1 EXCEPT !.uncommitted_v = v, !.uncommitted_pn = msg.uncommitted_pn,
                         !.uncommitted_value = At(msg.values, v)]
    BY <1>6, <2>1 DEF Contexts
  <2>3. d.s.uncommitted_v = v /\ d.s.uncommitted_pn = msg.uncommitted_pn
        /\ d.s.uncommitted_value = At(msg.values, v)
    BY <1>4, <2>2 DEF LooseState
  <2>. QED BY <1>5, <1>7, <1>8, <1>9, <2>3 DEF Learnt, SameFound
<1>10. CASE ~takes
  <2>1. d = g
    BY <1>2, <1>6, <1>7, <1>8, <1>10 DEF Learn
  <2>2. SameFound(c.s, d.s)
    BY <1>5, <1>6, <2>1
  <2>. QED BY <1>5, <1>7, <1>8, <1>10, <2>2 DEF Learnt, SameFound
<1>. QED BY <1>9, <1>10

LEMMA CountHeeds ==
  ASSUME NEW V, NEW s \in LooseState, NEW msg \in LooseMessage, NEW t, NEW n \in Nat, NEW v \in Version,
         Best(V, s), Learnt(s, msg, t), t.last_committed = s.last_committed,
         s.state = "recovering", t.state = "recovering", msg.last_committed <= s.last_committed,
         \/ Heeded(s, n, v)
         \/ v <= msg.last_committed
         \/ v = msg.last_committed + 1 /\ msg.uncommitted_pn # 0 /\ n <= msg.uncommitted_pn
  PROVE  Heeded(t, n, v)
<1>1. /\ s.last_committed \in Nat /\ msg.last_committed \in Nat /\ v \in Nat
      /\ s.uncommitted_v \in Nat /\ s.uncommitted_pn \in Nat /\ msg.uncommitted_pn \in Nat
  BY MonTypes DEF LooseState, LooseMessage
<1>2. PICK lc, ml, u, w, mu : lc = s.last_committed /\ ml = msg.last_committed /\ u = s.uncommitted_pn
                        /\ w = s.uncommitted_v /\ mu = msg.uncommitted_pn
  OBVIOUS
<1>3. w = 0 \/ w = lc + 1
  BY <1>2 DEF Best
<1>4. w = 0 => u = 0
  BY <1>2 DEF Best
<1>5. CASE v <= lc
  BY <1>2, <1>5 DEF Heeded
<1>6. CASE ~(v <= lc)
  <2>1. v = lc + 1 /\ ((w = v /\ n <= u) \/ (ml = lc /\ mu # 0 /\ n <= mu))
    BY <1>1, <1>2, <1>6 DEF Heeded
  <2>2. CASE /\ mu # 0 /\ mu >= u /\ ml >= lc /\ ml + 1 >= w
             /\ t.uncommitted_v = ml + 1 /\ t.uncommitted_pn = mu
    <3>1. t.uncommitted_v = v /\ n <= t.uncommitted_pn
      BY <1>1, <1>2, <2>1, <2>2
    <3>. QED BY <1>2, <2>1, <3>1 DEF Heeded
  <2>3. CASE /\ mu = 0 \/ ~(mu >= u) \/ ~(ml >= lc) \/ ~(ml + 1 >= w)
             /\ t.uncommitted_v = w /\ t.uncommitted_pn = u
    <3>1. t.uncommitted_v = v /\ n <= t.uncommitted_pn
      BY <1>1, <1>2, <1>3, <1>4, <2>1, <2>3
    <3>. QED BY <1>2, <2>1, <3>1 DEF Heeded
  <2>. QED BY <1>2, <2>2, <2>3 DEF Learnt, SameFound
<1>. QED BY <1>5, <1>6

(* The answer of from counts. *)
Counts(m, c, T, W, R, from, msg, R2) ==
  /\ from \in c.s.quorum /\ from # m /\ from \in Mon /\ msg \in LooseMessage
  /\ <<from, m, msg>> \in R /\ msg.op = "last" /\ msg.epoch = c.epoch
  /\ msg.pn = c.s.accepted_pn /\ msg.last_committed <= c.s.last_committed
  /\ R2 \subseteq R /\ Quiet(m, from, R2 \union Posted(m, c))

LEMMA LawCount ==
  ASSUME NEW m \in Mon, NEW c, NEW T, NEW V, NEW W, NEW R, NEW ack, NEW from, NEW msg, NEW d, NEW R2,
         Law(m, c, T, V, W, R, ack), c.role = "leader", c.s.state = "recovering",
         Counts(m, c, T, W, R, from, msg, R2), Counted(c, d), Learnt(c.s, msg, d.s)
  PROVE  Law(m, d, T \union {from}, V, W, R2, ack)
<1>1. PICK W1 : W1 = Now(m, c, T, W)
  OBVIOUS
<1>2. PICK T2 : T2 = T \union {from}
  OBVIOUS
<1>3. PICK W2 : W2 = Now(m, d, T2, W)
  OBVIOUS
<1>0. LawIs(m, c, T, V, W, R, ack, W1)
  BY <1>1, LawFacts
<1>4. /\ c \in Contexts /\ T \in SUBSET Mon /\ W \in Worlds /\ V \subseteq Votes /\ c.s \in LooseState
      /\ c.epoch \in Nat /\ c.s.last_committed \in Nat /\ c.s.accepted_pn \in Nat
      /\ W1 \in Worlds /\ Lawful(V, W1, R \union Posted(m, c), ack)
      /\ Own(V, W1, m, c.s) /\ Leads(V, W1, m, NodeOf(c, T))
      /\ W1[m] = NodeOf(c, T) /\ W1[m].s = c.s
  BY <1>0 DEF LawIs
<1>5. /\ from \in c.s.quorum /\ from # m /\ from \in Mon /\ msg \in LooseMessage
      /\ <<from, m, msg>> \in R /\ msg.op = "last" /\ msg.epoch = c.epoch
      /\ msg.pn = c.s.accepted_pn /\ msg.last_committed <= c.s.last_committed
      /\ R2 \subseteq R /\ Quiet(m, from, R2 \union Posted(m, c))
  BY DEF Counts
<1>6. /\ d \in Contexts /\ d.role = c.role /\ d.epoch = c.epoch /\ d.out = c.out /\ T2 \in SUBSET Mon
      /\ ButLearnt(c.s, d.s)
  BY <1>2, <1>4, <1>5 DEF Counted
<1>7. SameStore(c.s, d.s)
  BY <1>6 DEF SameStore, SameNumbers, ButLearnt
<1>8. Moves(NodeOf(c, T), NodeOf(d, T2))
  <2>1. SameNumbers(c.s, d.s) /\ d.s.leader = c.s.leader /\ c.s.last_committed <= d.s.last_committed
    BY <1>4, <1>7 DEF SameStore
  <2>. QED BY <1>4, <1>6, <2>1, MovesSame
<1>9. Casts(V, V, m, Level(c.s)) /\ NewBallots(V, V, W2)
  BY <1>4, NoVotes
<1>10. Turns(V, W1, V, W2)
  BY <1>1, <1>3, <1>4, <1>6, <1>8, <1>9, LawTurns
<1>11. Own(V, W2, m, d.s)
  <2>1. NoNewVotes(V, V, m)
    BY DEF NoNewVotes
  <2>. QED BY <1>4, <1>7, <1>10, <2>1, OwnOn
<1>12. PICK A : A = NodeOf(c, T)
  OBVIOUS
<1>13. PICK A2 : A2 = NodeOf(d, T2)
  OBVIOUS
<1>14. A.s = c.s /\ A2.s = d.s /\ A.T = T /\ A2.T = T2 /\ A.epoch = c.epoch /\ A2.epoch = c.epoch
       /\ A.role = "leader"
  BY <1>4, <1>6, <1>12, <1>13, NodeIs
<1>15. Leads(V, W1, m, A)
  BY <1>4, <1>12
<1>16. Carried(V, W1, from, m, msg)
  BY <1>4, <1>5 DEF Lawful
<1>17. from \notin T /\ Reports(V, W1[from], W1[m], from, m, msg)
  BY <1>4, <1>5, <1>12, <1>14, <1>16 DEF Carried
<1>18. d.s.state = "recovering" /\ d.s.last_committed = c.s.last_committed /\ d.s.accepted_pn = c.s.accepted_pn
       /\ d.s.quorum = c.s.quorum /\ d.s.num_last = c.s.num_last + 1 /\ d.s.committing = c.s.committing
       /\ d.s.last_pn = c.s.last_pn
  BY <1>6 DEF ButLearnt
<1>19. Best(V, c.s)
  BY <1>14, <1>15 DEF Leads
<1>20. HeedsOn(c.s, d.s)
  BY <1>4, <1>5, <1>18, <1>19, CountHeeds DEF HeedsOn
<1>21. Pledged(V, W2, T, m, d.s, c.epoch)
  <2>1. PICK s, t, e : s = c.s /\ t = d.s /\ e = c.epoch
    OBVIOUS
  <2>2. s.accepted_pn \in Nat /\ t.accepted_pn = s.accepted_pn /\ e \in Nat
    BY <1>4, <1>18, <2>1
  <2>3. Pledged(V, W1, T, m, s, e)
    BY <1>14, <1>15, <2>1 DEF Leads, Pledged
  <2>4. Pledged(V, W2, T, m, t, e)
    BY <1>4, <1>10, <1>20, <2>1, <2>2, <2>3, AllPromise
  <2>. QED BY <2>1, <2>4
<1>22. Promises(V, W1[from], from, m, d.s, c.epoch)
  <2>1. d.s.accepted_pn <= Level(W1[from].s)
    BY <1>5, <1>17, <1>18 DEF Reports
  <2>2. Steady(W1[from], m, c.epoch)
    <3>1. c.s.accepted_pn % 100 = m
      BY <1>14, <1>15 DEF Leads
    <3>. QED BY <1>5, <1>17, <3>1 DEF Reports
  <2>3. ASSUME NEW n \in Nat, NEW v \in Version, NEW X \in Value, Voted(V, from, n, v, X), n < d.s.accepted_pn
        PROVE  Heeded(d.s, n, v)
    <3>1. \/ v <= msg.last_committed \/ v <= c.s.last_committed
          \/ v = msg.last_committed + 1 /\ msg.uncommitted_pn # 0 /\ n <= msg.uncommitted_pn
      BY <1>4, <1>5, <1>17, <1>18, <2>3 DEF Reports
    <3>2. CASE v <= c.s.last_committed
      BY <1>18, <3>2 DEF Heeded
    <3>3. CASE ~(v <= c.s.last_committed)
      BY <1>4, <1>5, <1>18, <1>19, <3>1, <3>3, CountHeeds
    <3>. QED BY <3>2, <3>3
  <2>. QED BY <2>1, <2>2, <2>3 DEF Promises
<1>23. Promises(V, W2[from], from, m, d.s, c.epoch)
  <2>1. PICK t, e : t = d.s /\ e = c.epoch
    OBVIOUS
  <2>2. t.accepted_pn \in Nat /\ e \in Nat /\ Promises(V, W1[from], from, m, t, e)
    BY <1>4, <1>18, <1>22, <2>1
  <2>3. Promises(V, W2[from], from, m, t, e)
    BY <1>4, <1>5, <1>10, <2>2, StillPromises
  <2>. QED BY <2>1, <2>3
<1>24. Best(V, d.s)
  <2>1. CASE SameFound(c.s, d.s)
    BY <1>18, <1>19, <2>1 DEF Best, SameFound
  <2>2. CASE ~SameFound(c.s, d.s)
    <3>1. PICK v : v = msg.last_committed + 1
      OBVIOUS
    <3>2. /\ msg.uncommitted_pn # 0 /\ msg.last_committed >= c.s.last_committed
          /\ d.s.uncommitted_v = v /\ d.s.uncommitted_pn = msg.uncommitted_pn
          /\ d.s.uncommitted_value = At(msg.values, v)
      BY <2>2, <3>1 DEF Learnt
    <3>3. Voted(V, from, d.s.uncommitted_pn, d.s.uncommitted_v, d.s.uncommitted_value)
      BY <1>17, <3>1, <3>2 DEF Reports
    <3>4. msg.last_committed \in Nat
      BY <1>5, MonTypes DEF LooseMessage
    <3>5. d.s.uncommitted_v = d.s.last_committed + 1 /\ d.s.uncommitted_v # 0
      BY <1>4, <1>5, <1>18, <3>1, <3>2, <3>4
    <3>. QED BY <1>5, <3>3, <3>5 DEF Best
  <2>. QED BY <2>1, <2>2
<1>25. d.s.num_last = Cardinality(T2)
  <2>1. IsFiniteSet(T)
    BY <1>4, MonFinite, FS_Subset
  <2>2. Cardinality(T2) = Cardinality(T) + 1
    BY <1>2, <1>17, <2>1, FS_AddElement
  <2>. QED BY <1>14, <1>15, <1>18, <2>2 DEF Leads
<1>26. Leads(V, W2, m, NodeOf(d, T2))
  <2>1. \A q \in T2 : Promises(V, W2[q], q, m, d.s, c.epoch)
    BY <1>2, <1>21, <1>23 DEF Pledged
  <2>2. /\ d.s.quorum \in Majorities /\ d.s.accepted_pn = d.s.last_pn /\ d.s.accepted_pn % 100 = m
        /\ m \in T2 /\ T2 \subseteq d.s.quorum
        /\ \A v \in Version, X \in Value : ~Voted(V, m, d.s.accepted_pn, v, X)
    BY <1>2, <1>5, <1>14, <1>15, <1>18 DEF Leads
  <2>3. d.s.state \notin Proposing /\ d.s.committing = NoValue
    BY <1>14, <1>15, <1>18 DEF Leads, Proposing, Updating, InWriting
  <2>4. Leads(V, W2, m, A2)
    BY <1>14, <1>18, <1>24, <1>25, <2>1, <2>2, <2>3 DEF Leads
  <2>. QED BY <1>13, <2>4
<1>27. Recounts(m, c, T, d, T2, R2 \union Posted(m, c))
  BY <1>2, <1>5 DEF Recounts
<1>28. Sends(c, d, {}, Nothing) /\ Nothing \in [Mon -> LooseMessage] /\ {} \in SUBSET (Mon \ {m})
  BY <1>4, <1>6, SendsNothing
<1>29. Advances(m, c, T, V, d, T2, V, W2)
  BY <1>6, <1>8, <1>9, <1>11, <1>26 DEF Advances
<1>30. Delivers(m, c, T, d, T2, V, W2, R, R2, {}, Nothing)
  BY <1>5, <1>27, <1>28 DEF Delivers
<1>31. Law(m, d, T2, V, W, R2, ack)
  BY <1>3, <1>29, <1>30, LawStepped
<1>. QED BY <1>2, <1>31

-----------------------------------------------------------------------------
(* collect() *)

AsksWith(m, c, pn, d) ==
  /\ d \in Contexts /\ d.role = "leader" /\ c.role # "peon"
  /\ (c.role = "leader" /\ d.epoch = c.epoch) \/ d.epoch > c.epoch
  /\ pn \in Nat /\ pn > c.s.last_pn /\ pn > c.s.accepted_pn /\ pn % 100 = m
  /\ d.s.last_pn = pn /\ d.s.accepted_pn = pn
  /\ d.s.last_committed = c.s.last_committed /\ d.s.values = c.s.values
  /\ d.s.pending_pn = c.s.pending_pn /\ Finds(c.s, d.s)
  /\ d.s.quorum \in Majorities /\ m \in d.s.quorum /\ d.s.num_last = 1
  /\ d.s.state = "recovering" /\ d.s.committing = NoValue

AsksFor(m, c, d, x) ==
  /\ x \in LooseMessage /\ x.op = "collect" /\ x.values = NoValues
  /\ Sends(c, d, d.s.quorum \ {m}, ToAll(x))

LEMMA LawCollect ==
  ASSUME NEW m \in Mon, NEW c, NEW T, NEW V, NEW W, NEW R, NEW ack, NEW d, NEW pn, NEW x, NEW R2,
         Law(m, c, T, V, W, R, ack), Logged(c.s), AsksWith(m, c, pn, d), AsksFor(m, c, d, x),
         R2 \subseteq R
  PROVE  Law(m, d, {m}, V, W, R2, ack)
<1>1. PICK W1 : W1 = Now(m, c, T, W)
  OBVIOUS
<1>2. PICK T2 : T2 = {m}
  OBVIOUS
<1>3. PICK W2 : W2 = Now(m, d, T2, W)
  OBVIOUS
<1>0. LawIs(m, c, T, V, W, R, ack, W1)
  BY <1>1, LawFacts
<1>4. /\ c \in Contexts /\ T \in SUBSET Mon /\ W \in Worlds /\ V \subseteq Votes /\ c.s \in LooseState
      /\ c.epoch \in Nat /\ c.s.last_committed \in Nat /\ c.s.accepted_pn \in Nat /\ Level(c.s) \in Nat
      /\ W1 \in Worlds /\ Lawful(V, W1, R \union Posted(m, c), ack)
      /\ Own(V, W1, m, c.s) /\ T2 \in SUBSET Mon
  BY <1>0, <1>2 DEF LawIs
<1>5. /\ d \in Contexts /\ d.role = "leader" /\ c.role # "peon"
      /\ (c.role = "leader" /\ d.epoch = c.epoch) \/ d.epoch > c.epoch
      /\ pn \in Nat /\ pn > c.s.last_pn /\ pn > c.s.accepted_pn /\ pn % 100 = m
      /\ d.s.last_pn = pn /\ d.s.accepted_pn = pn
      /\ d.s.last_committed = c.s.last_committed /\ d.s.values = c.s.values
      /\ d.s.pending_pn = c.s.pending_pn /\ Finds(c.s, d.s)
      /\ d.s.quorum \in Majorities /\ m \in d.s.quorum /\ d.s.num_last = 1
      /\ d.s.state = "recovering" /\ d.s.committing = NoValue
  BY DEF AsksWith
<1>6. Level(c.s) < pn /\ Level(d.s) = pn /\ Level(c.s) <= Level(d.s)
  <2>1. Level(c.s) \in {c.s.last_pn, c.s.accepted_pn}
    BY <1>4, LevelIs
  <2>2. Level(d.s) = pn
    BY <1>5 DEF Level, Larger
  <2>. QED BY <1>4, <1>5, <2>1, <2>2
<1>7. PICK A : A = NodeOf(c, T)
  OBVIOUS
<1>8. PICK A2 : A2 = NodeOf(d, T2)
  OBVIOUS
<1>9. /\ A.s = c.s /\ A2.s = d.s /\ A.T = T /\ A2.T = T2 /\ A.epoch = c.epoch /\ A2.epoch = d.epoch
      /\ A.role = c.role /\ A2.role = d.role
  BY <1>4, <1>5, <1>7, <1>8, NodeIs
<1>10. Moves(NodeOf(c, T), NodeOf(d, T2))
  <2>1. ASSUME NEW i \in Mon, NEW e \in Nat, Steady(A, i, e) PROVE Steady(A2, i, e)
    <3>1. Gone(A, e)
      BY <1>5, <1>9, <2>1 DEF Steady, Follows
    <3>2. d.epoch \in Nat
      BY <1>5, ContextTypes
    <3>3. Gone(A2, e)
      BY <1>4, <1>5, <1>9, <3>1, <3>2 DEF Gone
    <3>. QED BY <3>3 DEF Steady
  <2>2. Moves(A, A2)
    BY <1>4, <1>5, <1>6, <1>9, <2>1 DEF Moves
  <2>. QED BY <1>7, <1>8, <2>2
<1>11. Casts(V, V, m, Level(c.s)) /\ NewBallots(V, V, W2)
  BY <1>4, NoVotes
<1>12. Turns(V, W1, V, W2)
  BY <1>1, <1>3, <1>4, <1>5, <1>10, <1>11, LawTurns
<1>13. \A n \in Nat, v \in Version, X \in Value : Voted(V, m, n, v, X) =>
         /\ n < pn /\ v <= c.s.last_committed + 1
         /\ v = c.s.last_committed + 1 => c.s.values[v] # NoValue /\ n <= c.s.pending_pn
  BY <1>4, <1>5, <1>6 DEF Own
<1>14. Own(V, W2, m, d.s)
  <2>1. \A v \in Version : v <= d.s.last_committed => Decided(V, W2, v, d.s.values[v])
    BY <1>4, <1>5, <1>12, StillDecided DEF Own
  <2>2. \A v \in Version : v = d.s.last_committed + 1 /\ d.s.values[v] # NoValue =>
          Voted(V, m, d.s.pending_pn, v, d.s.values[v])
    BY <1>4, <1>5 DEF Own
  <2>3. \A n \in Nat, v \in Version, X \in Value : Voted(V, m, n, v, X) =>
         /\ n <= Level(d.s) /\ v <= d.s.last_committed + 1
         /\ v = d.s.last_committed + 1 => d.s.values[v] # NoValue /\ n <= d.s.pending_pn
    BY <1>5, <1>6, <1>13
  <2>. QED BY <1>5, <2>1, <2>2, <2>3 DEF Own
<1>15. PICK lv : lv = c.s.last_committed + 1
  OBVIOUS
<1>16. /\ At(c.s.values, lv) # NoValue => /\ d.s.uncommitted_v = lv /\ d.s.uncommitted_pn = c.s.pending_pn
                                          /\ d.s.uncommitted_value = c.s.values[lv] /\ lv \in Version
                                          /\ c.s.values[lv] # NoValue
       /\ At(c.s.values, lv) = NoValue => d.s.uncommitted_v = 0 /\ d.s.uncommitted_pn = 0
  BY <1>5, <1>15 DEF Finds, Logged, PendingPn, At
<1>17. Leads(V, W2, m, NodeOf(d, T2))
  <2>1. ASSUME NEW n \in Nat, NEW v \in Version, NEW X \in Value, Voted(V, m, n, v, X), n < d.s.accepted_pn
        PROVE  Heeded(d.s, n, v)
    <3>1. v <= lv /\ (v = lv => c.s.values[v] # NoValue /\ n <= c.s.pending_pn) /\ v \in Nat
      BY <1>13, <1>15, <2>1, MonTypes
    <3>2. CASE v = lv
      <4>1. At(c.s.values, lv) # NoValue
        BY <3>1, <3>2 DEF At
      <4>. QED BY <1>5, <1>15, <1>16, <3>1, <3>2, <4>1 DEF Heeded
    <3>3. CASE v # lv
      <4>1. v <= d.s.last_committed
        BY <1>4, <1>5, <1>15, <3>1, <3>3
      <4>. QED BY <4>1 DEF Heeded
    <3>. QED BY <3>2, <3>3
  <2>2. Promises(V, W2[m], m, m, d.s, d.epoch)
    <3>1. W2[m].s = d.s
      BY <1>3, <1>4, <1>5, NowIs
    <3>. QED BY <1>5, <1>6, <2>1, <3>1 DEF Promises
  <2>3. Best(V, d.s)
    <3>1. CASE At(c.s.values, lv) # NoValue
      <4>1. Voted(V, m, c.s.pending_pn, lv, c.s.values[lv])
        BY <1>4, <1>15, <1>16, <3>1 DEF Own
      <4>2. Voted(V, m, d.s.uncommitted_pn, d.s.uncommitted_v, d.s.uncommitted_value)
        BY <1>16, <3>1, <4>1
      <4>3. d.s.uncommitted_v = d.s.last_committed + 1 /\ d.s.uncommitted_v # 0
        BY <1>4, <1>5, <1>15, <1>16, <3>1
      <4>. QED BY <4>2, <4>3 DEF Best
    <3>2. CASE At(c.s.values, lv) = NoValue
      BY <1>16, <3>2 DEF Best
    <3>. QED BY <3>1, <3>2
  <2>4. \A v \in Version, X \in Value : ~Voted(V, m, d.s.accepted_pn, v, X)
    BY <1>5, <1>13
  <2>5. Cardinality(T2) = 1
    BY <1>2, FS_Singleton
  <2>6. d.s.state \notin Proposing
    BY <1>5 DEF Proposing, Updating, InWriting
  <2>7. Leads(V, W2, m, A2)
    BY <1>2, <1>5, <1>9, <2>2, <2>3, <2>4, <2>5, <2>6 DEF Leads
  <2>. QED BY <1>8, <2>7
<1>18. d.s.quorum \ {m} \in SUBSET (Mon \ {m})
  BY <1>5 DEF Majorities
<1>19. PICK to, xx : to = d.s.quorum \ {m} /\ xx = ToAll(x)
  OBVIOUS
<1>20. to \in SUBSET (Mon \ {m}) /\ xx \in [Mon -> LooseMessage] /\ Sends(c, d, to, xx)
       /\ \A j \in to : xx[j] = x
  BY <1>18, <1>19 DEF ToAll, AsksFor
<1>21. ASSUME NEW j \in to PROVE Carried(V, W2, m, j, xx[j])
  <2>1. j # m /\ j \in Mon /\ xx[j] = x
    BY <1>20
  <2>2. x.op = "collect" /\ \A v \in Version : x.values[v] = NoValue
    BY DEF AsksFor, NoValues
  <2>3. W2[m].T = T2 /\ j \notin T2
    <3>0. d \in Contexts /\ T2 \in SUBSET Mon /\ W \in Worlds
      BY <1>4, <1>5
    <3>1. Now(m, d, T2, W)[m].T = T2
      BY <3>0, NowIs
    <3>. QED BY <1>2, <1>3, <2>1, <3>1
  <2>4. Carried(V, W2, m, j, x)
    BY <2>1, <2>2, <2>3 DEF Carried
  <2>. QED BY <2>1, <2>4
<1>22. Recounts(m, c, T, d, T2, R2 \union Posted(m, c))
  BY <1>2 DEF Recounts
<1>23. Advances(m, c, T, V, d, T2, V, W2)
  BY <1>4, <1>5, <1>10, <1>11, <1>14, <1>17 DEF Advances
<1>24. Delivers(m, c, T, d, T2, V, W2, R, R2, to, xx)
  BY <1>20, <1>21, <1>22 DEF Delivers
<1>25. Law(m, d, T2, V, W, R2, ack)
  BY <1>3, <1>23, <1>24, LawStepped
<1>. QED BY <1>2, <1>25

-----------------------------------------------------------------------------
(* handle_collect() *)

Promising(m, c, W, R, from, msg) ==
  /\ c.role = "peon" /\ c.s.leader = from /\ from \in Mon \ {m} /\ msg \in LooseMessage
  /\ <<from, m, msg>> \in R /\ msg.op = "collect"
  /\ msg.last_committed <= W[from].s.last_committed
  /\ c.s.accepted_pn % 100 = from => c.s.accepted_pn < msg.pn
  /\ msg.pn > c.s.accepted_pn => msg.pn >= Level(c.s)
  /\ Logged(c.s)

LEMMA LawPromise ==
  ASSUME NEW m \in Mon, NEW c, NEW T, NEW V, NEW W, NEW R, NEW ack, NEW d, NEW from, NEW msg, NEW x, NEW R2,
         Law(m, c, T, V, W, R, ack), Promising(m, c, W, R, from, msg),
         CollectHandled(c, from, msg, d, x), R2 \subseteq R
  PROVE  Law(m, d, T, V, W, R2, ack)
<1>1. PICK W1 : W1 = Now(m, c, T, W)
  OBVIOUS
<1>2. PICK W2 : W2 = Now(m, d, T, W)
  OBVIOUS
<1>0. LawIs(m, c, T, V, W, R, ack, W1)
  BY <1>1, LawFacts
<1>3. /\ c \in Contexts /\ T \in SUBSET Mon /\ W \in Worlds /\ V \subseteq Votes /\ c.s \in LooseState
      /\ c.epoch \in Nat /\ c.s.last_committed \in Nat /\ c.s.accepted_pn \in Nat /\ Level(c.s) \in Nat
      /\ W1 \in Worlds /\ Lawful(V, W1, R \union Posted(m, c), ack)
      /\ Own(V, W1, m, c.s) /\ \A q \in Mon \ {m} : W1[q] = W[q]
  BY <1>0 DEF LawIs
<1>4. /\ c.role = "peon" /\ c.s.leader = from /\ from \in Mon \ {m} /\ msg \in LooseMessage
      /\ <<from, m, msg>> \in R /\ msg.op = "collect"
      /\ msg.last_committed <= W[from].s.last_committed
      /\ c.s.accepted_pn % 100 = from => c.s.accepted_pn < msg.pn
      /\ msg.pn > c.s.accepted_pn => msg.pn >= Level(c.s)
      /\ Logged(c.s)
  BY DEF Promising
<1>5. /\ d \in Contexts /\ d.role = "peon" /\ d.epoch = c.epoch /\ d.s.leader = from
      /\ d.s.last_committed = c.s.last_committed /\ d.s.values = c.s.values
      /\ d.s.pending_pn = c.s.pending_pn /\ d.s.last_pn = c.s.last_pn
      /\ d.s.accepted_pn = Larger(c.s.accepted_pn, msg.pn)
      /\ d.s.stored_pn = IF msg.pn > c.s.accepted_pn THEN msg.pn ELSE c.s.stored_pn
      /\ x \in LooseMessage /\ x.op = "last" /\ x.epoch = c.epoch /\ x.pn = d.s.accepted_pn
      /\ x.last_committed = c.s.last_committed
      /\ Sends(c, d, {from}, ToAll(x))
  BY <1>4 DEF CollectHandled, PeonFields
<1>6. msg.pn \in Nat /\ c.s.last_pn \in Nat /\ msg.last_committed \in Nat /\ d.s \in LooseState
  BY <1>3, <1>4, <1>5, ContextTypes, MonTypes DEF LooseMessage, LooseState
<1>7. c.s.last_pn <= Level(c.s)
  BY <1>3, LevelIs
<1>8. /\ c.s.accepted_pn <= d.s.accepted_pn /\ Level(c.s) <= Level(d.s)
      /\ InForce(c.s) => InForce(d.s)
      /\ msg.pn > c.s.accepted_pn => InForce(d.s)
      /\ d.s.accepted_pn <= Level(d.s)
  BY <1>3, <1>4, <1>5, <1>6, <1>7 DEF Level, Larger, InForce
<1>9. PICK A : A = NodeOf(c, T)
  OBVIOUS
<1>10. PICK A2 : A2 = NodeOf(d, T)
  OBVIOUS
<1>11. /\ A.s = c.s /\ A2.s = d.s /\ A.epoch = c.epoch /\ A2.epoch = d.epoch
       /\ A.role = c.role /\ A2.role = d.role
  BY <1>3, <1>5, <1>9, <1>10, NodeIs
<1>12. Moves(NodeOf(c, T), NodeOf(d, T))
  <2>1. ASSUME NEW i \in Mon, NEW e \in Nat, Steady(A, i, e) PROVE Steady(A2, i, e)
    BY <1>4, <1>5, <1>8, <1>11, <2>1 DEF Steady, Follows, Gone
  <2>2. Moves(A, A2)
    BY <1>3, <1>5, <1>8, <1>11, <2>1 DEF Moves
  <2>. QED BY <1>9, <1>10, <2>2
<1>13. Casts(V, V, m, Level(c.s)) /\ NewBallots(V, V, W2)
  BY <1>3, NoVotes
<1>14. Turns(V, W1, V, W2)
  BY <1>1, <1>2, <1>3, <1>5, <1>12, <1>13, LawTurns
<1>15. Own(V, W2, m, d.s)
  <2>1. \A v \in Version : v <= d.s.last_committed => Decided(V, W2, v, d.s.values[v])
    BY <1>3, <1>5, <1>14, StillDecided DEF Own
  <2>2. \A v \in Version : v = d.s.last_committed + 1 /\ d.s.values[v] # NoValue =>
          Voted(V, m, d.s.pending_pn, v, d.s.values[v])
    BY <1>3, <1>5 DEF Own
  <2>3. ASSUME NEW n \in Nat, NEW v \in Version, NEW X \in Value, Voted(V, m, n, v, X)
        PROVE  /\ n <= Level(d.s) /\ v <= d.s.last_committed + 1
               /\ v = d.s.last_committed + 1 => d.s.values[v] # NoValue /\ n <= d.s.pending_pn
    <3>1. /\ n <= Level(c.s) /\ v <= c.s.last_committed + 1
          /\ v = c.s.last_committed + 1 => c.s.values[v] # NoValue /\ n <= c.s.pending_pn
      BY <1>3, <2>3 DEF Own
    <3>2. Level(d.s) \in Nat
      BY <1>6, LevelIs
    <3>3. n <= Level(d.s)
      BY <1>3, <1>8, <3>1, <3>2
    <3>. QED BY <1>5, <3>1, <3>3
  <2>4. d.s.accepted_pn \in {d.s.stored_pn, d.s.last_pn}
    BY <1>3, <1>5, <1>6 DEF Own, Larger
  <2>. QED BY <2>1, <2>2, <2>3, <2>4 DEF Own
<1>16. W2[m] = A2 /\ W2[from] = W[from] /\ W1[from] = W[from] /\ W2 \in Worlds
  <2>0. d \in Contexts /\ T \in SUBSET Mon /\ W \in Worlds
    BY <1>3, <1>5
  <2>1. Now(m, d, T, W)[m] = NodeOf(d, T) /\ Now(m, d, T, W) \in Worlds
        /\ \A q \in Mon \ {m} : Now(m, d, T, W)[q] = W[q]
    BY <2>0, NowIs
  <2>. QED BY <1>2, <1>3, <1>4, <1>10, <2>1
<1>17. W[from].s.last_committed \in Nat
  BY <1>3, <1>4, LevelsAre
<1>18. PICK lv : lv = c.s.last_committed + 1
  OBVIOUS
<1>19. /\ \A w \in Version : w <= c.s.last_committed => x.values[w] \in {c.s.values[w], NoValue}
       /\ msg.last_committed <= c.s.last_committed /\ At(c.s.values, lv) # NoValue =>
            x.uncommitted_pn = c.s.pending_pn /\ c.s.pending_pn # 0 /\ x.values[lv] = c.s.values[lv]
       /\ ~(msg.last_committed <= c.s.last_committed /\ At(c.s.values, lv) # NoValue) => x.uncommitted_pn = 0
  BY <1>4, <1>18 DEF CollectHandled, Offers, PendingPn, Logged
<1>20. Reports(V, W2[m], W2[from], m, from, x)
  <2>1. x.pn <= Level(d.s)
    BY <1>5, <1>8
  <2>2. ASSUME x.pn % 100 = from PROVE Steady(A2, from, x.epoch)
    <3>1. InForce(d.s)
      BY <1>3, <1>4, <1>5, <1>6, <1>8, <2>2 DEF Larger
    <3>. QED BY <1>5, <1>11, <3>1 DEF Steady, Follows
  <2>3. ASSUME NEW n \in Nat, NEW v \in Version, NEW X \in Value, Voted(V, m, n, v, X), n < x.pn
        PROVE  \/ v <= x.last_committed \/ v <= W2[from].s.last_committed
               \/ v = x.last_committed + 1 /\ x.uncommitted_pn # 0 /\ n <= x.uncommitted_pn
    <3>1. v <= lv /\ (v = lv => c.s.values[v] # NoValue /\ n <= c.s.pending_pn) /\ v \in Nat
      BY <1>3, <1>18, <2>3, MonTypes DEF Own
    <3>2. CASE v = lv /\ msg.last_committed <= c.s.last_committed
      <4>1. At(c.s.values, lv) # NoValue
        BY <3>1, <3>2 DEF At
      <4>. QED BY <1>5, <1>18, <1>19, <3>1, <3>2, <4>1
    <3>3. CASE v = lv /\ ~(msg.last_committed <= c.s.last_committed)
      BY <1>3, <1>4, <1>6, <1>16, <1>17, <1>18, <3>3
    <3>4. CASE v # lv
      BY <1>3, <1>5, <1>18, <3>1, <3>4
    <3>. QED BY <3>2, <3>3, <3>4
  <2>4. ASSUME x.uncommitted_pn # 0
        PROVE  Voted(V, m, x.uncommitted_pn, x.last_committed + 1, At(x.values, x.last_committed + 1))
    <3>1. At(c.s.values, lv) # NoValue /\ x.uncommitted_pn = c.s.pending_pn /\ x.values[lv] = c.s.values[lv]
      BY <1>19, <2>4
    <3>2. lv \in Version /\ c.s.values[lv] # NoValue
      BY <3>1 DEF At
    <3>3. Voted(V, m, c.s.pending_pn, lv, c.s.values[lv])
      BY <1>3, <1>18, <3>2 DEF Own
    <3>. QED BY <1>5, <1>18, <3>1, <3>2, <3>3 DEF At
  <2>5. W2[m].s = d.s
    BY <1>11, <1>16
  <2>. QED BY <1>16, <2>1, <2>2, <2>3, <2>4, <2>5 DEF Reports
<1>21. Carried(V, W2, m, from, x)
  <2>1. \A v \in Version : v <= x.last_committed /\ x.values[v] # NoValue => Decided(V, W2, v, x.values[v])
    BY <1>5, <1>15, <1>19 DEF Own
  <2>2. Carried(V, W1, from, m, msg)
    BY <1>3, <1>4 DEF Lawful
  <2>3. W2[from].role = "leader" => m \notin W2[from].T
    BY <1>4, <1>16, <2>2 DEF Carried
  <2>. QED BY <1>4, <1>5, <1>20, <2>1, <2>3 DEF Carried
<1>22. PICK to, xx : to = {from} /\ xx = ToAll(x)
  OBVIOUS
<1>23. to \in SUBSET (Mon \ {m}) /\ xx \in [Mon -> LooseMessage] /\ Sends(c, d, to, xx)
       /\ \A j \in to : j = from /\ xx[j] = x
  BY <1>4, <1>5, <1>22 DEF ToAll
<1>24. \A j \in to : Carried(V, W2, m, j, xx[j])
  BY <1>21, <1>23
<1>25. Recounts(m, c, T, d, T, R2 \union Posted(m, c))
  BY <1>5 DEF Recounts
<1>26. Advances(m, c, T, V, d, T, V, W2)
  BY <1>3, <1>5, <1>12, <1>13, <1>15 DEF Advances
<1>27. Delivers(m, c, T, d, T, V, W2, R, R2, to, xx)
  BY <1>23, <1>24, <1>25 DEF Delivers
<1>. QED BY <1>2, <1>26, <1>27, LawStepped

-----------------------------------------------------------------------------
(* handle_begin() *)

Voting(m, c, R, from, msg, v) ==
  /\ c.role = "peon" /\ c.s.leader = from /\ from \in Mon \ {m} /\ msg \in LooseMessage
  /\ <<from, m, msg>> \in R /\ msg.op = "begin" /\ msg.epoch = c.epoch
  /\ msg.pn = c.s.accepted_pn /\ msg.last_committed = c.s.last_committed
  /\ v = c.s.last_committed + 1 /\ v \in Version

(* A follower votes for what its leader has voted for. *)
LEMMA LawVote ==
  ASSUME NEW m \in Mon, NEW c, NEW T, NEW V, NEW W, NEW R, NEW ack, NEW d, NEW from, NEW msg, NEW v,
         NEW x, NEW R2,
         Law(m, c, T, V, W, R, ack), Voting(m, c, R, from, msg, v),
         BeginHandled(c, from, msg, v, d, x), R2 \subseteq R
  PROVE  Lawfully(m, d, T, W, R2, ack)
<1>1. PICK W1 : W1 = Now(m, c, T, W)
  OBVIOUS
<1>2. PICK W2 : W2 = Now(m, d, T, W)
  OBVIOUS
<1>0. LawIs(m, c, T, V, W, R, ack, W1)
  BY <1>1, LawFacts
<1>3. /\ c \in Contexts /\ T \in SUBSET Mon /\ W \in Worlds /\ V \subseteq Votes /\ c.s \in LooseState
      /\ c.epoch \in Nat /\ c.s.last_committed \in Nat /\ c.s.accepted_pn \in Nat /\ Level(c.s) \in Nat
      /\ W1 \in Worlds /\ W1[m] = NodeOf(c, T) /\ Lawful(V, W1, R \union Posted(m, c), ack)
      /\ Own(V, W1, m, c.s)
  BY <1>0 DEF LawIs
<1>4. /\ c.role = "peon" /\ c.s.leader = from /\ from \in Mon \ {m} /\ msg \in LooseMessage
      /\ <<from, m, msg>> \in R /\ msg.op = "begin" /\ msg.epoch = c.epoch
      /\ msg.pn = c.s.accepted_pn /\ msg.last_committed = c.s.last_committed
      /\ v = c.s.last_committed + 1 /\ v \in Version /\ v \in Nat
  BY MonTypes DEF Voting
<1>5. /\ d \in Contexts /\ d.role = c.role /\ d.epoch = c.epoch /\ d.s.leader = c.s.leader
      /\ d.s.last_committed = c.s.last_committed /\ SameNumbers(c.s, d.s)
      /\ d.s.values = [c.s.values EXCEPT ![v] = msg.values[v]] /\ d.s.pending_pn = c.s.accepted_pn
      /\ x \in LooseMessage /\ x.op = "accept" /\ x.pn = c.s.accepted_pn
      /\ x.last_committed = c.s.last_committed /\ x.values = NoValues
      /\ Sends(c, d, {from}, ToAll(x))
  BY <1>4 DEF BeginHandled, PeonFields, SameNumbers
<1>6. PICK a, value : a = c.s.accepted_pn /\ value = msg.values[v]
  OBVIOUS
<1>7. a \in Nat /\ value \in Value
  BY <1>3, <1>4, <1>6 DEF LooseMessage
<1>8. Carried(V, W1, from, m, msg)
  BY <1>3, <1>4 DEF Lawful
<1>9. Voted(V, from, a, v, value) /\ Steady(W1[m], from, c.epoch)
  BY <1>4, <1>6, <1>8 DEF Carried, At
<1>10. Ballot(V, W1, a, v, value)
  BY <1>3, <1>4, <1>7, <1>9 DEF Lawful
<1>11. InForce(c.s)
  <2>1. W1[m].s = c.s /\ W1[m].epoch = c.epoch /\ W1[m].role = "peon"
    BY <1>3, <1>4, NodeIs
  <2>2. ~Gone(W1[m], c.epoch)
    BY <1>3, <2>1 DEF Gone
  <2>. QED BY <1>9, <2>1, <2>2 DEF Steady
<1>12. Level(c.s) = a /\ Level(d.s) = a
  BY <1>3, <1>5, <1>6, <1>11, LevelIs DEF Level, SameNumbers
<1>13. PICK V2 : V2 = V \union {<<m, a, v, value>>}
  OBVIOUS
<1>14. /\ V \subseteq V2 /\ V2 \subseteq Votes
       /\ \A q, n, w, X : Voted(V2, q, n, w, X) <=>
            Voted(V, q, n, w, X) \/ (q = m /\ n = a /\ w = v /\ X = value)
  <2>1. OneMore(V, V2, m, a, v, value)
    BY <1>3, <1>4, <1>7, <1>13, CastIs
  <2>. QED BY <2>1 DEF OneMore
<1>15. Casts(V, V2, m, Level(c.s))
  <2>1. ASSUME NEW q \in Mon, NEW n \in Nat, NEW w \in Version, NEW X \in Value, Voted(V2, q, n, w, X)
        PROVE  Voted(V, q, n, w, X) \/ (q = m /\ a <= n)
    BY <1>7, <1>14, <2>1
  <2>2. Casts(V, V2, m, a)
    BY <1>14, <2>1 DEF Casts
  <2>. QED BY <1>12, <2>2
<1>16. Moves(NodeOf(c, T), NodeOf(d, T))
  <2>1. d.s.leader = c.s.leader /\ c.s.last_committed <= d.s.last_committed
    BY <1>3, <1>5
  <2>. QED BY <1>3, <1>5, <2>1, MovesSame
<1>17. Turns(V, W1, V2, W2)
  BY <1>1, <1>2, <1>3, <1>5, <1>15, <1>16, LawTurns
<1>18. NewBallots(V, V2, W2)
  <2>1. Voted(V2, a % 100, a, v, value) /\ value # NoValue
    BY <1>10, <1>14 DEF Ballot
  <2>2. \A b \in Nat : b < a => SafeAt(V2, W2, b, v, value)
    <3>1. \A b \in Nat : b < a => SafeAt(V, W1, b, v, value)
      BY <1>10 DEF Ballot
    <3>. QED BY <1>3, <1>4, <1>17, <3>1, StillSafe
  <2>3. ASSUME NEW q \in Mon, NEW Y \in Value, Voted(V2, q, a, v, Y) PROVE Y = value
    BY <1>10, <1>14, <2>3 DEF Ballot
  <2>4. Ballot(V2, W2, a, v, value)
    BY <2>1, <2>2, <2>3 DEF Ballot
  <2>. QED BY <1>14, <2>4 DEF NewBallots
<1>19. Own(V2, W2, m, d.s)
  <2>0. /\ c.s.values \in [Version -> Value] /\ d.s.values = [c.s.values EXCEPT ![v] = value]
        /\ d.s.pending_pn = a /\ value # NoValue
    BY <1>3, <1>5, <1>6, <1>10 DEF LooseState, Ballot
  <2>1. d.s.values[v] = value /\ \A w \in Version : w # v => d.s.values[w] = c.s.values[w]
    BY <1>4, <2>0
  <2>2. ASSUME NEW n \in Nat, NEW w \in Version, NEW X \in Value, Voted(V2, m, n, w, X)
        PROVE  /\ n <= Level(d.s) /\ w <= d.s.last_committed + 1
               /\ w = d.s.last_committed + 1 => d.s.values[w] # NoValue /\ n <= d.s.pending_pn
    <3>1. CASE Voted(V, m, n, w, X)
      <4>1. n <= a /\ w <= c.s.last_committed + 1
        BY <1>3, <1>12, <3>1 DEF Own
      <4>. QED BY <1>4, <1>5, <1>12, <2>0, <2>1, <4>1
    <3>2. CASE n = a /\ w = v /\ X = value
      BY <1>4, <1>5, <1>7, <1>12, <2>0, <2>1, <3>2
    <3>. QED BY <1>14, <2>2, <3>1, <3>2
  <2>3. \A w \in Version : w = d.s.last_committed + 1 /\ d.s.values[w] # NoValue =>
         Voted(V2, m, d.s.pending_pn, w, d.s.values[w])
    BY <1>4, <1>5, <1>14, <2>0, <2>1
  <2>4. ASSUME NEW w \in Version, w <= d.s.last_committed PROVE Decided(V2, W2, w, d.s.values[w])
    <3>1. w # v /\ w <= c.s.last_committed
      BY <1>3, <1>4, <1>5, <2>4
    <3>2. Decided(V, W1, w, c.s.values[w])
      BY <1>3, <3>1 DEF Own
    <3>3. Decided(V2, W2, w, c.s.values[w])
      BY <1>3, <1>17, <3>2, StillDecided
    <3>. QED BY <2>1, <3>1, <3>3
  <2>5. d.s.accepted_pn \in {d.s.stored_pn, d.s.last_pn}
    BY <1>3, <1>5 DEF SameNumbers, Own
  <2>. QED BY <2>2, <2>3, <2>4, <2>5 DEF Own
<1>20. Carried(V2, W2, m, from, x)
  <2>1. \A w \in Version : x.values[w] = NoValue
    BY <1>5 DEF NoValues
  <2>2. Voted(V2, m, x.pn, x.last_committed + 1, value)
    BY <1>4, <1>5, <1>6, <1>14
  <2>. QED BY <1>4, <1>5, <1>7, <2>1, <2>2 DEF Carried
<1>21. PICK to, xx : to = {from} /\ xx = ToAll(x)
  OBVIOUS
<1>22. to \in SUBSET (Mon \ {m}) /\ xx \in [Mon -> LooseMessage] /\ Sends(c, d, to, xx)
       /\ \A j \in to : j = from /\ xx[j] = x
  BY <1>4, <1>5, <1>21 DEF ToAll
<1>23. \A j \in to : Carried(V2, W2, m, j, xx[j])
  BY <1>20, <1>22
<1>24. Recounts(m, c, T, d, T, R2 \union Posted(m, c))
  BY <1>4, <1>5 DEF Recounts
<1>25. Advances(m, c, T, V, d, T, V2, W2)
  BY <1>3, <1>4, <1>5, <1>15, <1>16, <1>18, <1>19 DEF Advances
<1>26. Delivers(m, c, T, d, T, V2, W2, R, R2, to, xx)
  BY <1>22, <1>23, <1>24 DEF Delivers
<1>27. Law(m, d, T, V2, W, R2, ack)
  BY <1>2, <1>25, <1>26, LawStepped
<1>. QED BY <1>27 DEF Lawfully

-----------------------------------------------------------------------------
(* handle_accept() *)

Accepting(m, c, R, from, msg) ==
  /\ c.role = "leader" /\ c.s.state \in Updating /\ m \in c.s.accepted
  /\ from \in Mon \ {m} /\ msg \in LooseMessage /\ <<from, m, msg>> \in R /\ msg.op = "accept"
  /\ msg.pn = c.s.accepted_pn /\ msg.last_committed = c.s.last_committed
  /\ c.s.last_committed + 1 \in Version

(* An accept is a vote for what the leader has proposed. *)
LEMMA LawAccept ==
  ASSUME NEW m \in Mon, NEW c, NEW T, NEW V, NEW W, NEW R, NEW ack, NEW d, NEW from, NEW msg, NEW R2,
         Law(m, c, T, V, W, R, ack), Accepting(m, c, R, from, msg),
         AcceptDoes(c, from, d), R2 \subseteq R
  PROVE  Law(m, d, T, V, W, R2, ack)
<1>1. PICK W1 : W1 = Now(m, c, T, W)
  OBVIOUS
<1>2. PICK W2 : W2 = Now(m, d, T, W)
  OBVIOUS
<1>0. LawIs(m, c, T, V, W, R, ack, W1)
  BY <1>1, LawFacts
<1>3. /\ c \in Contexts /\ T \in SUBSET Mon /\ W \in Worlds /\ V \subseteq Votes /\ c.s \in LooseState
      /\ c.epoch \in Nat /\ c.s.last_committed \in Nat /\ c.s.accepted_pn \in Nat /\ Level(c.s) \in Nat
      /\ W1 \in Worlds /\ Lawful(V, W1, R \union Posted(m, c), ack)
      /\ Own(V, W1, m, c.s) /\ (c.role = "leader" => Leads(V, W1, m, NodeOf(c, T)))
  BY <1>0 DEF LawIs
<1>4. /\ c.role = "leader" /\ c.s.state \in Updating /\ m \in c.s.accepted
      /\ from \in Mon \ {m} /\ msg \in LooseMessage /\ <<from, m, msg>> \in R /\ msg.op = "accept"
      /\ msg.pn = c.s.accepted_pn /\ msg.last_committed = c.s.last_committed
      /\ c.s.last_committed + 1 \in Version
  BY DEF Accepting
<1>5. /\ d \in Contexts /\ d.role = c.role /\ d.epoch = c.epoch /\ d.out = c.out
      /\ SameStore(c.s, d.s) /\ SameNumbers(c.s, d.s)
      /\ d.s.leader = c.s.leader /\ d.s.last_committed = c.s.last_committed
      /\ d.s.quorum = c.s.quorum /\ d.s.num_last = c.s.num_last
      /\ d.s.new_value = c.s.new_value /\ d.s.committing = c.s.committing
      /\ d.s.accepted = c.s.accepted \union {from} /\ d.s.accepted_pn = c.s.accepted_pn
      /\ d.s.last_pn = c.s.last_pn
  BY DEF AcceptDoes, SameRound, SameStore, SameNumbers
<1>6. /\ d.s.state \in Proposing
      /\ c.s.state = "updating_previous" => d.s.state \in {"updating_previous", "writing_previous"}
      /\ c.s.state \in Proposing /\ c.s.state # "recovering" /\ d.s.state # "recovering"
      /\ c.s.state # "writing_previous"
  BY <1>4 DEF AcceptDoes, Proposing, Updating, InWriting
<1>7. PICK A : A = NodeOf(c, T)
  OBVIOUS
<1>8. PICK A2 : A2 = NodeOf(d, T)
  OBVIOUS
<1>9. A.s = c.s /\ A2.s = d.s /\ A.T = T /\ A2.T = T /\ A.epoch = c.epoch /\ A2.epoch = c.epoch
  BY <1>3, <1>5, <1>7, <1>8, NodeIs
<1>10. Leads(V, W1, m, A)
  BY <1>3, <1>4, <1>7
<1>11. Moves(NodeOf(c, T), NodeOf(d, T))
  <2>1. d.s.leader = c.s.leader /\ c.s.last_committed <= d.s.last_committed
    BY <1>3, <1>5
  <2>. QED BY <1>3, <1>5, <2>1, MovesSame
<1>12. Casts(V, V, m, Level(c.s)) /\ NewBallots(V, V, W2)
  BY <1>3, NoVotes
<1>13. Turns(V, W1, V, W2)
  BY <1>1, <1>2, <1>3, <1>5, <1>11, <1>12, LawTurns
<1>14. Own(V, W2, m, d.s)
  <2>1. NoNewVotes(V, V, m)
    BY DEF NoNewVotes
  <2>. QED BY <1>3, <1>5, <1>13, <2>1, OwnOn
<1>15. PICK a, v, Y : a = c.s.accepted_pn /\ v = c.s.last_committed + 1 /\ Y = c.s.new_value
  OBVIOUS
<1>16. a \in Nat /\ v \in Version /\ Y \in Value
  BY <1>3, <1>4, <1>15 DEF LooseState
<1>17. \A q \in c.s.accepted : Voted(V, q, a, v, Y)
  BY <1>6, <1>9, <1>10, <1>15 DEF Leads
<1>18. Voted(V, from, a, v, Y)
  <2>1. Carried(V, W1, from, m, msg)
    BY <1>3, <1>4 DEF Lawful
  <2>2. PICK X \in Value : Voted(V, from, a, v, X)
    BY <1>4, <1>15, <2>1 DEF Carried
  <2>3. Ballot(V, W1, a, v, Y)
    BY <1>3, <1>4, <1>16, <1>17 DEF Lawful
  <2>4. X = Y
    BY <1>4, <2>2, <2>3 DEF Ballot
  <2>. QED BY <2>2, <2>4
<1>19. Leads(V, W2, m, NodeOf(d, T))
  <2>1. Pledged(V, W1, T, m, c.s, c.epoch)
    BY <1>9, <1>10 DEF Leads, Pledged
  <2>2. HeedsOn(c.s, d.s)
    BY <1>5, <1>6 DEF HeedsOn, Heeded
  <2>3. Pledged(V, W2, T, m, d.s, c.epoch)
    <3>1. PICK s, t, e : s = c.s /\ t = d.s /\ e = c.epoch
      OBVIOUS
    <3>2. s.accepted_pn \in Nat /\ t.accepted_pn = s.accepted_pn /\ e \in Nat
      BY <1>3, <1>5, <3>1 DEF SameNumbers
    <3>3. Pledged(V, W2, T, m, t, e)
      BY <1>3, <1>13, <2>1, <2>2, <3>1, <3>2, AllPromise
    <3>. QED BY <3>1, <3>3
  <2>4. /\ d.s.quorum \in Majorities /\ d.s.accepted_pn = d.s.last_pn /\ d.s.accepted_pn % 100 = m
        /\ m \in T /\ T \subseteq d.s.quorum /\ d.s.num_last = Cardinality(T) /\ T = d.s.quorum
        /\ d.s.committing \subseteq d.s.new_value
    BY <1>5, <1>6, <1>9, <1>10 DEF Leads
  <2>5. \A q \in d.s.accepted : Voted(V, q, d.s.accepted_pn, d.s.last_committed + 1, d.s.new_value)
    BY <1>5, <1>15, <1>17, <1>18
  <2>6. Leads(V, W2, m, A2)
    BY <1>6, <1>9, <2>3, <2>4, <2>5 DEF Leads, Pledged
  <2>. QED BY <1>8, <2>6
<1>20. Recounts(m, c, T, d, T, R2 \union Posted(m, c))
  BY <1>4, <1>5 DEF Recounts
<1>21. PICK to, xx : to = {} /\ xx = Nothing
  OBVIOUS
<1>22. to \in SUBSET (Mon \ {m}) /\ xx \in [Mon -> LooseMessage] /\ Sends(c, d, to, xx)
       /\ \A j \in to : Carried(V, W2, m, j, xx[j])
  BY <1>3, <1>5, <1>21, SendsNothing
<1>23. Advances(m, c, T, V, d, T, V, W2)
  BY <1>3, <1>4, <1>5, <1>11, <1>12, <1>14, <1>19 DEF Advances
<1>24. Delivers(m, c, T, d, T, V, W2, R, R2, to, xx)
  BY <1>20, <1>22 DEF Delivers
<1>. QED BY <1>2, <1>23, <1>24, LawStepped

-----------------------------------------------------------------------------
(* commit_finish() *)

Committing(m, c, v) ==
  /\ c.role = "leader" /\ c.s.state \in InWriting /\ c.s.accepted = c.s.quorum
  /\ Logged(c.s) /\ v = c.s.last_committed + 1 /\ v \in Version /\ c.s.values[v] = c.s.new_value

(* What the whole quorum has voted for is decided. *)
LEMMA LawCommitted ==
  ASSUME NEW m \in Mon, NEW c, NEW T, NEW V, NEW W, NEW R, NEW ack, NEW v, NEW e, NEW x, NEW g,
         Law(m, c, T, V, W, R, ack), Committing(m, c, v), CommitDoes(c, m, e, x),
         WithState(e, "active", g)
  PROVE  /\ Law(m, g, T, V, W, R, ack) /\ c.s.committing \subseteq c.s.new_value
         /\ Decided(V, Now(m, g, T, W), v, c.s.new_value)
<1>1. PICK W1 : W1 = Now(m, c, T, W)
  OBVIOUS
<1>2. PICK W2 : W2 = Now(m, g, T, W)
  OBVIOUS
<1>0. LawIs(m, c, T, V, W, R, ack, W1)
  BY <1>1, LawFacts
<1>3. /\ c \in Contexts /\ T \in SUBSET Mon /\ W \in Worlds /\ V \subseteq Votes /\ c.s \in LooseState
      /\ c.epoch \in Nat /\ c.s.last_committed \in Nat /\ c.s.accepted_pn \in Nat /\ Level(c.s) \in Nat
      /\ W1 \in Worlds /\ Lawful(V, W1, R \union Posted(m, c), ack)
      /\ Own(V, W1, m, c.s) /\ (c.role = "leader" => Leads(V, W1, m, NodeOf(c, T)))
  BY <1>0 DEF LawIs
<1>4. /\ c.role = "leader" /\ c.s.state \in InWriting /\ c.s.accepted = c.s.quorum
      /\ Logged(c.s) /\ v = c.s.last_committed + 1 /\ v \in Version /\ c.s.values[v] = c.s.new_value
      /\ v \in Nat
  BY MonTypes DEF Committing
<1>5. /\ g \in Contexts /\ g.role = c.role /\ g.epoch = c.epoch /\ SameNumbers(c.s, g.s)
      /\ g.s.leader = c.s.leader /\ g.s.last_committed = v /\ g.s.values = c.s.values
      /\ g.s.quorum = c.s.quorum /\ g.s.num_last = c.s.num_last
      /\ g.s.committing = NoValue /\ g.s.state = "active"
      /\ x \in LooseMessage /\ x.op = "commit" /\ x.last_committed = v
      /\ x.values[v] = c.s.new_value /\ \A w \in Version : w # v => x.values[w] = NoValue
      /\ Sends(c, g, c.s.quorum \ {m}, ToAll(x))
  BY <1>4 DEF CommitDoes, WithState, AlikeFields, SameNumbers, Sends
<1>6. c.s.state \in Proposing /\ c.s.state # "recovering"
  BY <1>4 DEF Proposing, InWriting
<1>7. PICK A : A = NodeOf(c, T)
  OBVIOUS
<1>8. PICK A2 : A2 = NodeOf(g, T)
  OBVIOUS
<1>9. A.s = c.s /\ A2.s = g.s /\ A.T = T /\ A2.T = T /\ A.epoch = c.epoch /\ A2.epoch = c.epoch
  BY <1>3, <1>5, <1>7, <1>8, NodeIs
<1>10. Leads(V, W1, m, A)
  BY <1>3, <1>4, <1>7
<1>11. Moves(NodeOf(c, T), NodeOf(g, T)) /\ Level(g.s) = Level(c.s)
  <2>1. g.s.leader = c.s.leader /\ c.s.last_committed <= g.s.last_committed
    BY <1>3, <1>4, <1>5
  <2>. QED BY <1>3, <1>5, <2>1, MovesSame
<1>12. Casts(V, V, m, Level(c.s)) /\ NewBallots(V, V, W2)
  BY <1>3, NoVotes
<1>13. Turns(V, W1, V, W2)
  BY <1>1, <1>2, <1>3, <1>5, <1>11, <1>12, LawTurns
<1>14. PICK a, Y : a = c.s.accepted_pn /\ Y = c.s.new_value
  OBVIOUS
<1>15. a \in Nat /\ a % 100 = m /\ c.s.quorum \in Majorities
  BY <1>3, <1>9, <1>10, <1>14 DEF Leads
<1>16. Decided(V, W2, v, Y)
  <2>1. \A q \in c.s.quorum : Voted(V, q, a, v, Y)
    BY <1>4, <1>6, <1>9, <1>10, <1>14 DEF Leads
  <2>2. Chosen(V, a, v, Y)
    BY <1>15, <2>1 DEF Chosen
  <2>3. W2[m].s = g.s
    <3>1. g \in Contexts /\ T \in SUBSET Mon /\ W \in Worlds
      BY <1>3, <1>5
    <3>. QED BY <1>2, <3>1, NowIs
  <2>4. Knows(W2[m], a, v)
    BY <1>4, <1>5, <2>3 DEF Knows
  <2>. QED BY <1>15, <2>2, <2>4 DEF Decided
<1>17. Own(V, W2, m, g.s)
  <2>1. ASSUME NEW w \in Version, w <= g.s.last_committed PROVE Decided(V, W2, w, g.s.values[w])
    <3>1. CASE w = v
      BY <1>4, <1>5, <1>14, <1>16, <3>1
    <3>2. CASE w # v
      <4>1. w <= c.s.last_committed
        BY <1>3, <1>4, <1>5, <2>1, <3>2, MonTypes
      <4>2. Decided(V, W1, w, c.s.values[w])
        BY <1>3, <4>1 DEF Own
      <4>. QED BY <1>3, <1>5, <1>13, <4>2, StillDecided
    <3>. QED BY <3>1, <3>2
  <2>2. \A w \in Version : w = g.s.last_committed + 1 => g.s.values[w] = NoValue
    BY <1>3, <1>4, <1>5 DEF Logged
  <2>3. ASSUME NEW n \in Nat, NEW w \in Version, NEW X \in Value, Voted(V, m, n, w, X)
        PROVE  /\ n <= Level(g.s) /\ w <= g.s.last_committed + 1
               /\ w = g.s.last_committed + 1 => g.s.values[w] # NoValue /\ n <= g.s.pending_pn
    <3>1. n <= Level(c.s) /\ w <= c.s.last_committed + 1
      BY <1>3, <2>3 DEF Own
    <3>2. w \in Nat
      BY MonTypes
    <3>. QED BY <1>3, <1>4, <1>5, <1>11, <3>1, <3>2
  <2>4. g.s.accepted_pn \in {g.s.stored_pn, g.s.last_pn}
    BY <1>3, <1>5 DEF SameNumbers, Own
  <2>. QED BY <2>1, <2>2, <2>3, <2>4 DEF Own
<1>18. Leads(V, W2, m, NodeOf(g, T))
  <2>1. Pledged(V, W1, T, m, c.s, c.epoch)
    BY <1>9, <1>10 DEF Leads, Pledged
  <2>2. HeedsOn(c.s, g.s)
    <3>1. ASSUME NEW n \in Nat, NEW w \in Version, Heeded(c.s, n, w) PROVE Heeded(g.s, n, w)
      <4>1. w \in Nat /\ (w <= c.s.last_committed \/ w = c.s.last_committed + 1)
        BY <3>1, MonTypes DEF Heeded
      <4>2. w <= g.s.last_committed
        BY <1>3, <1>4, <1>5, <4>1
      <4>. QED BY <4>2 DEF Heeded
    <3>. QED BY <3>1 DEF HeedsOn
  <2>3. Pledged(V, W2, T, m, g.s, c.epoch)
    <3>1. PICK s, t, b : s = c.s /\ t = g.s /\ b = c.epoch
      OBVIOUS
    <3>2. s.accepted_pn \in Nat /\ t.accepted_pn = s.accepted_pn /\ b \in Nat
      BY <1>3, <1>5, <3>1 DEF SameNumbers
    <3>3. Pledged(V, W2, T, m, t, b)
      BY <1>3, <1>13, <2>1, <2>2, <3>1, <3>2, AllPromise
    <3>. QED BY <3>1, <3>3
  <2>4. /\ g.s.quorum \in Majorities /\ g.s.accepted_pn = g.s.last_pn /\ g.s.accepted_pn % 100 = m
        /\ m \in T /\ T \subseteq g.s.quorum /\ g.s.num_last = Cardinality(T) /\ T = g.s.quorum
    BY <1>5, <1>6, <1>9, <1>10 DEF Leads, SameNumbers
  <2>5. \A w \in Version, X \in Value : Voted(V, m, g.s.accepted_pn, w, X) => w <= g.s.last_committed
    BY <1>3, <1>4, <1>5 DEF Own, SameNumbers
  <2>6. g.s.state # "recovering" /\ g.s.state \notin Proposing
    BY <1>5 DEF Proposing, Updating, InWriting
  <2>7. Leads(V, W2, m, A2)
    BY <1>5, <1>9, <2>3, <2>4, <2>5, <2>6 DEF Leads, Pledged
  <2>. QED BY <1>8, <2>7
<1>19. ASSUME NEW j \in c.s.quorum \ {m} PROVE Carried(V, W2, m, j, ToAll(x)[j])
  <2>1. j \in Mon /\ ToAll(x)[j] = x
    BY <1>15 DEF ToAll, Majorities
  <2>2. \A w \in Version : w <= x.last_committed /\ x.values[w] # NoValue => Decided(V, W2, w, x.values[w])
    BY <1>5, <1>14, <1>16
  <2>3. Carried(V, W2, m, j, x)
    BY <1>5, <2>2 DEF Carried
  <2>. QED BY <2>1, <2>3
<1>20. Recounts(m, c, T, g, T, R \union Posted(m, c))
  BY <1>4, <1>5 DEF Recounts
<1>21. c.s.quorum \ {m} \in SUBSET (Mon \ {m}) /\ ToAll(x) \in [Mon -> LooseMessage]
  BY <1>5, <1>15 DEF Majorities, ToAll
<1>22. PICK to, xx : to = c.s.quorum \ {m} /\ xx = ToAll(x)
  OBVIOUS
<1>23. /\ to \in SUBSET (Mon \ {m}) /\ xx \in [Mon -> LooseMessage] /\ Sends(c, g, to, xx)
       /\ \A j \in to : Carried(V, W2, m, j, xx[j])
  BY <1>5, <1>19, <1>21, <1>22
<1>24. Advances(m, c, T, V, g, T, V, W2)
  BY <1>3, <1>4, <1>5, <1>11, <1>12, <1>17, <1>18 DEF Advances
<1>25. Delivers(m, c, T, g, T, V, W2, R, R, to, xx)
  BY <1>20, <1>23 DEF Delivers
<1>26. Law(m, g, T, V, W, R, ack)
  BY <1>2, <1>24, <1>25, LawStepped
<1>27. c.s.committing \subseteq c.s.new_value
  BY <1>6, <1>9, <1>10 DEF Leads
<1>. QED BY <1>2, <1>14, <1>16, <1>26, <1>27

(* The operations of a decided value may be acknowledged. *)
LEMMA LawAcked ==
  ASSUME NEW m, NEW c, NEW T, NEW V, NEW W, NEW R, NEW ack, NEW v \in Version, NEW X \in Value, NEW more,
         Law(m, c, T, V, W, R, ack), Decided(V, Now(m, c, T, W), v, X), more \subseteq X
  PROVE  Law(m, c, T, V, W, R, ack \union more)
<1>1. PICK W1, M : W1 = Now(m, c, T, W) /\ M = R \union Posted(m, c)
  OBVIOUS
<1>2. Lawful(V, W1, M, ack) /\ Decided(V, W1, v, X)
  BY <1>1 DEF Law
<1>3. Durable(V, W1, ack \union more)
  BY <1>2 DEF Lawful, Durable
<1>4. Lawful(V, W1, M, ack \union more)
  BY <1>2, <1>3, Zenon DEF Lawful
<1>. QED BY <1>1, <1>4 DEF Law

LEMMA LawCommitFinish ==
  ASSUME NEW m \in Mon, NEW c, NEW T, NEW V, NEW W, NEW R, NEW ack, NEW v, NEW d,
         Law(m, c, T, V, W, R, ack), Committing(m, c, v), c.ok,
         d = CommitFinishHandler(c, m), d.s.pending_v <= MaxOp
  PROVE  Lawfully(m, d, T, W, R, ack \union c.s.committing)
<1>1. c \in Contexts /\ c.s \in LooseState
  BY ContextTypes DEF Law
<1>2. c.role = "leader" /\ c.s.state \in InWriting /\ c.s.last_committed + 1 \in Version
      /\ v \in Version
  BY DEF Committing
<1>3. PICK e, x : CommitDoes(c, m, e, x) /\ d = FinishRound(ExtendLease(e, m), m)
  BY <1>1, <1>2, CommitIs
<1>4. e \in Contexts /\ "active" \in State
  BY <1>3 DEF CommitDoes, State
<1>5. PICK g : g = [e EXCEPT !.s.state = "active"]
  OBVIOUS
<1>6. WithState(e, "active", g)
  BY <1>4, <1>5, StateIs
<1>7. /\ Law(m, g, T, V, W, R, ack) /\ c.s.committing \subseteq c.s.new_value
      /\ Decided(V, Now(m, g, T, W), v, c.s.new_value)
  BY <1>3, <1>6, LawCommitted
<1>8. PICK ack2 : ack2 = ack \union c.s.committing
  OBVIOUS
<1>9. Law(m, g, T, V, W, R, ack2)
  <2>1. c.s.new_value \in Value
    BY <1>1 DEF LooseState
  <2>. QED BY <1>2, <1>7, <1>8, <2>1, LawAcked
<1>10. g.role = "leader" /\ g.s.state = "active" /\ e.role = g.role /\ e.epoch = g.epoch /\ e.out = g.out
       /\ AlikeFields(g.s, e.s) /\ e.s.committing = NoValue
  BY <1>2, <1>3, <1>6 DEF WithState, CommitDoes, AlikeFields
<1>11. Lawfully(m, d, T, W, R, ack2)
  BY <1>3, <1>4, <1>9, <1>10, LawFinish
<1>. QED BY <1>8, <1>11

-----------------------------------------------------------------------------
(* Leaving a quorum, by a restart of the process too, and following a leader *)

Switches(m, c, d) ==
  /\ d \in Contexts /\ d.role # "leader" /\ d.out = c.out
  /\ d.epoch > c.epoch \/ (d.epoch = c.epoch /\ d.role = "out")
  /\ d.s.last_pn = c.s.last_pn /\ d.s.stored_pn = c.s.stored_pn
  /\ d.s.accepted_pn \in {c.s.accepted_pn, c.s.stored_pn}
  /\ d.s.values = c.s.values /\ d.s.pending_pn = c.s.pending_pn
  /\ \/ d.s.last_committed = c.s.last_committed
     \/ \E v : Committing(m, c, v) /\ d.s.last_committed = v

LEMMA LawSwitch ==
  ASSUME NEW m \in Mon, NEW c, NEW T, NEW V, NEW W, NEW R, NEW ack, NEW d, NEW R2,
         Law(m, c, T, V, W, R, ack), Switches(m, c, d), R2 \subseteq R
  PROVE  Law(m, d, T, V, W, R2, ack)
<1>1. PICK W1 : W1 = Now(m, c, T, W)
  OBVIOUS
<1>2. PICK W2 : W2 = Now(m, d, T, W)
  OBVIOUS
<1>0. LawIs(m, c, T, V, W, R, ack, W1)
  BY <1>1, LawFacts
<1>3. /\ c \in Contexts /\ T \in SUBSET Mon /\ W \in Worlds /\ V \subseteq Votes /\ c.s \in LooseState
      /\ c.epoch \in Nat /\ c.s.last_committed \in Nat /\ c.s.accepted_pn \in Nat /\ Level(c.s) \in Nat
      /\ W1 \in Worlds /\ Lawful(V, W1, R \union Posted(m, c), ack)
      /\ Own(V, W1, m, c.s) /\ (c.role = "leader" => Leads(V, W1, m, NodeOf(c, T)))
  BY <1>0 DEF LawIs
<1>4. /\ d \in Contexts /\ d.role # "leader" /\ d.out = c.out
      /\ d.epoch > c.epoch \/ (d.epoch = c.epoch /\ d.role = "out")
      /\ d.s.last_pn = c.s.last_pn /\ d.s.stored_pn = c.s.stored_pn
      /\ d.s.accepted_pn \in {c.s.accepted_pn, c.s.stored_pn}
      /\ d.s.values = c.s.values /\ d.s.pending_pn = c.s.pending_pn
      /\ d.s \in LooseState /\ d.epoch \in Nat
      /\ d.s.last_committed \in Nat /\ d.s.accepted_pn \in Nat /\ Level(d.s) \in Nat
  <2>1. d \in Contexts
    BY DEF Switches
  <2>2. d.s \in LooseState /\ d.epoch \in Nat
    BY <2>1, ContextTypes
  <2>3. Level(d.s) \in Nat /\ d.s.last_committed \in Nat /\ d.s.accepted_pn \in Nat
    BY <2>2, LevelIs, MonTypes DEF LooseState
  <2>. QED BY <2>2, <2>3 DEF Switches
<1>5. /\ c.s.last_committed <= d.s.last_committed /\ d.s.last_committed <= c.s.last_committed + 1
  BY <1>3, <1>4 DEF Switches, Committing
<1>6. /\ c.s.accepted_pn \in {c.s.stored_pn, c.s.last_pn} /\ c.s.last_pn \in Nat /\ c.s.stored_pn \in Nat
  BY <1>3 DEF Own, LooseState
<1>7. Level(c.s) <= Level(d.s)
  BY <1>3, <1>4, <1>6 DEF Level, Larger
<1>8. PICK A : A = NodeOf(c, T)
  OBVIOUS
<1>9. PICK A2 : A2 = NodeOf(d, T)
  OBVIOUS
<1>10. /\ A.s = c.s /\ A2.s = d.s /\ A.T = T /\ A.epoch = c.epoch /\ A2.epoch = d.epoch
       /\ A.role = c.role /\ A2.role = d.role
  BY <1>3, <1>4, <1>8, <1>9, NodeIs
<1>11. Moves(NodeOf(c, T), NodeOf(d, T))
  <2>1. ASSUME NEW i \in Mon, NEW n \in Nat, Steady(A, i, n) PROVE Steady(A2, i, n)
    <3>1. A.epoch >= n
      BY <1>3, <1>10, <2>1 DEF Steady, Follows, Gone
    <3>2. Gone(A2, n)
      BY <1>3, <1>4, <1>10, <3>1 DEF Gone
    <3>. QED BY <3>2 DEF Steady
  <2>2. Moves(A, A2)
    BY <1>4, <1>5, <1>7, <1>10, <2>1 DEF Moves
  <2>. QED BY <1>8, <1>9, <2>2
<1>12. Casts(V, V, m, Level(c.s)) /\ NewBallots(V, V, W2)
  BY <1>3, NoVotes
<1>13. Turns(V, W1, V, W2)
  BY <1>1, <1>2, <1>3, <1>4, <1>11, <1>12, LawTurns
<1>14. Own(V, W2, m, d.s)
  <2>1. ASSUME NEW w \in Version, w <= c.s.last_committed PROVE Decided(V, W2, w, c.s.values[w])
    <3>1. Decided(V, W1, w, c.s.values[w])
      BY <1>3, <2>1 DEF Own
    <3>. QED BY <1>3, <1>13, <3>1, StillDecided
  <2>2. ASSUME NEW n \in Nat, NEW w \in Version, NEW X \in Value, Voted(V, m, n, w, X)
        PROVE  /\ n <= Level(c.s) /\ w <= c.s.last_committed + 1
               /\ w = c.s.last_committed + 1 => c.s.values[w] # NoValue /\ n <= c.s.pending_pn
               /\ n <= Level(d.s) /\ w \in Nat
    BY <1>3, <1>4, <1>7, <2>2, MonTypes DEF Own
  <2>3. d.s.accepted_pn \in {d.s.stored_pn, d.s.last_pn}
    BY <1>4, <1>6
  <2>4. CASE d.s.last_committed = c.s.last_committed
    <3>1. \A w \in Version : w = d.s.last_committed + 1 /\ d.s.values[w] # NoValue =>
            Voted(V, m, d.s.pending_pn, w, d.s.values[w])
      BY <1>3, <1>4, <2>4 DEF Own
    <3>. QED BY <1>4, <2>1, <2>2, <2>3, <2>4, <3>1 DEF Own
  <2>5. CASE \E v : Committing(m, c, v) /\ d.s.last_committed = v
    <3>1. PICK v : Committing(m, c, v) /\ d.s.last_committed = v
      BY <2>5
    <3>2. /\ c.role = "leader" /\ c.s.state \in InWriting /\ c.s.accepted = c.s.quorum
          /\ Logged(c.s) /\ v = c.s.last_committed + 1 /\ v \in Version /\ c.s.values[v] = c.s.new_value
      BY <3>1 DEF Committing
    <3>3. Leads(V, W1, m, A) /\ A.s.state \in Proposing
      BY <1>3, <1>8, <1>10, <3>2 DEF Proposing
    <3>4. Decided(V, W2, v, c.s.values[v])
      <4>1. PICK a, Y : a = c.s.accepted_pn /\ Y = c.s.values[v]
        OBVIOUS
      <4>2. a \in Nat /\ a % 100 = m /\ c.s.quorum \in Majorities
        BY <1>3, <1>10, <3>3, <4>1 DEF Leads
      <4>3. \A q \in c.s.quorum : Voted(V, q, a, v, Y)
        BY <1>10, <3>2, <3>3, <4>1 DEF Leads
      <4>4. Chosen(V, a, v, Y)
        BY <4>2, <4>3 DEF Chosen
      <4>5. W2[m].role # "leader"
        <5>1. d \in Contexts /\ T \in SUBSET Mon /\ W \in Worlds
          BY <1>3, <1>4
        <5>. QED BY <1>2, <1>4, <5>1, NowIs
      <4>6. Knows(W2[m], a, v)
        BY <4>5 DEF Knows
      <4>. QED BY <4>1, <4>2, <4>4, <4>6 DEF Decided
    <3>5. ASSUME NEW w \in Version, w <= d.s.last_committed PROVE Decided(V, W2, w, d.s.values[w])
      <4>1. w = v \/ w <= c.s.last_committed
        BY <1>3, <3>1, <3>2, <3>5, MonTypes
      <4>. QED BY <1>4, <2>1, <3>4, <4>1
    <3>6. \A w \in Version : w = d.s.last_committed + 1 => d.s.values[w] = NoValue
      BY <1>3, <1>4, <3>1, <3>2 DEF Logged
    <3>7. \A n \in Nat, w \in Version, X \in Value : Voted(V, m, n, w, X) =>
            n <= Level(d.s) /\ w <= d.s.last_committed
      BY <2>2, <3>1, <3>2
    <3>8. ASSUME NEW n \in Nat, NEW w \in Version, NEW X \in Value, Voted(V, m, n, w, X)
          PROVE  w <= d.s.last_committed + 1 /\ w # d.s.last_committed + 1 /\ n <= Level(d.s)
      BY <1>4, <3>7, <3>8, MonTypes
    <3>. QED BY <2>3, <3>5, <3>6, <3>8 DEF Own
  <2>. QED BY <2>4, <2>5 DEF Switches
<1>15. Recounts(m, c, T, d, T, R2 \union Posted(m, c))
  BY <1>4 DEF Recounts
<1>16. PICK to, xx : to = {} /\ xx = Nothing
  OBVIOUS
<1>17. to \in SUBSET (Mon \ {m}) /\ xx \in [Mon -> LooseMessage] /\ Sends(c, d, to, xx)
       /\ \A j \in to : Carried(V, W2, m, j, xx[j])
  BY <1>3, <1>4, <1>16, SendsNothing
<1>18. Advances(m, c, T, V, d, T, V, W2)
  BY <1>3, <1>4, <1>11, <1>12, <1>14 DEF Advances
<1>19. Delivers(m, c, T, d, T, V, W2, R, R2, to, xx)
  BY <1>15, <1>17 DEF Delivers
<1>. QED BY <1>2, <1>18, <1>19, LawStepped

-----------------------------------------------------------------------------
(* handle_last() *)

(* m, which has sent nothing so far, takes msg from the head of its queue; the
   messages R2 stay under way. *)
Receives(m, p, c, T, W, O, I, from, msg, R, R2) ==
  /\ Sound(m, p, c, T, W, O, I) /\ W \in Worlds /\ O \in Queues /\ I \in Queues /\ Silent(c)
  /\ from \in Mon \ {m} /\ I[from] # <<>> /\ msg = I[from][1]
  /\ <<from, m, msg>> \in R /\ R2 \subseteq R
  /\ \A x \in LooseMessage : <<m, from, x>> \in R2 => \E k \in DOMAIN O[from] : x = O[from][k]
  /\ \A x \in LooseMessage : <<from, m, x>> \in R2 => \E k \in DOMAIN I[from] : k > 1 /\ x = I[from][k]

LEMMA LawDrops ==
  ASSUME NEW m \in Mon, NEW c, NEW T, NEW V, NEW W, NEW R, NEW ack, NEW R2,
         Law(m, c, T, V, W, R, ack), R2 \subseteq R
  PROVE  Law(m, c, T, V, W, R2, ack)
<1>1. c \in Contexts
  BY DEF Law
<1>2. SameNode(c, c)
  BY <1>1 DEF SameNode, SameStore, SameNumbers, SameRecovery, SameFound
<1>3. PICK to, xx : to = {} /\ xx = Nothing
  OBVIOUS
<1>4. to \in SUBSET (Mon \ {m}) /\ xx \in [Mon -> LooseMessage] /\ Sends(c, c, to, xx)
      /\ \A j \in to : Harmless(V, Now(m, c, T, W), xx[j])
  BY <1>1, <1>3, SendsNothing
<1>. QED BY <1>2, <1>4, LawQuiet

LEMMA LastFacts ==
  ASSUME NEW m \in Mon, NEW p, NEW c, NEW T, NEW W, NEW O, NEW I, NEW from, NEW msg, NEW R, NEW R2,
         Receives(m, p, c, T, W, O, I, from, msg, R, R2), msg.op = "last"
  PROVE  msg.epoch = c.epoch /\ (msg.pn = c.s.accepted_pn => Quiet(m, from, R2))
<1>1. /\ c \in Contexts /\ T \in SUBSET Mon /\ from \in Mon \ {m}
      /\ I[from] # <<>> /\ msg = I[from][1] /\ O[from] \in Messages /\ c.out[from] = <<>>
  BY DEF Receives, Sound, Silent, Queues
<1>2. PICK A, B, U, D : A = NodeOf(c, T) /\ B = W[from] /\ U = I[from] /\ D = O[from]
  OBVIOUS
<1>3. A.epoch = c.epoch /\ A.role = c.role /\ A.s = c.s /\ A.T = T
  BY <1>1, <1>2, NodeIs
<1>4. Pair(m, from, A, B, D, U)
  <2>1. Pair(m, from, A, B, Extended(c.epoch, D, c.out[from], B), U)
    BY <1>1, <1>2 DEF Receives, Sound
  <2>2. Extended(c.epoch, D, c.out[from], B) = D
    BY <1>1, <1>2, SilentExtended
  <2>. QED BY <2>1, <2>2
<1>5. U \in Messages /\ Answered(m, from, A, B, D, U)
  BY <1>4 DEF Pair, Link
<1>6. 1 \in DOMAIN U
  BY <1>1, <1>2, <1>5, TailFacts
<1>7. msg.epoch = c.epoch
  BY <1>1, <1>2, <1>3, <1>5, <1>6 DEF Answered, Ups
<1>8. ASSUME msg.pn = c.s.accepted_pn PROVE Quiet(m, from, R2)
  <2>1. ~Has(D, "collect") /\ \A l \in DOMAIN U : 1 < l => U[l].op # "last"
    BY <1>1, <1>2, <1>3, <1>5, <1>6, <1>8 DEF Answered
  <2>2. ASSUME NEW x \in LooseMessage, <<m, from, x>> \in R2 PROVE x.op # "collect"
    BY <1>2, <2>1, <2>2 DEF Receives, Has
  <2>3. ASSUME NEW x \in LooseMessage, <<from, m, x>> \in R2 PROVE x.op # "last"
    <3>1. PICK k \in DOMAIN U : k > 1 /\ x = U[k]
      BY <1>2, <2>3 DEF Receives
    <3>2. k \in Nat
      BY <1>5 DEF Messages
    <3>. QED BY <2>1, <3>1, <3>2
  <2>. QED BY <2>2, <2>3 DEF Quiet
<1>. QED BY <1>7, <1>8

LEMMA LawRecollect ==
  ASSUME NEW m \in Mon, NEW c, NEW T, NEW V, NEW W, NEW R, NEW ack, NEW R2, NEW oldpn \in Nat, NEW d,
         Law(m, c, T, V, W, R, ack), c.role = "leader", c.s.state = "recovering", Logged(c.s),
         d = Collect(Cancel(c, "collect"), m, oldpn), R2 \subseteq R
  PROVE  Law(m, d, {m}, V, W, R2, ack)
<1>1. PICK W1 : W1 = Now(m, c, T, W)
  OBVIOUS
<1>2. c \in Contexts /\ T \in SUBSET Mon /\ Leads(V, W1, m, NodeOf(c, T))
  <2>1. LawIs(m, c, T, V, W, R, ack, W1)
    BY <1>1, LawFacts
  <2>. QED BY <2>1 DEF LawIs
<1>3. /\ c.s.quorum \in Majorities /\ m \in c.s.quorum /\ c.s.committing = NoValue
  <2>1. PICK A : A = NodeOf(c, T)
    OBVIOUS
  <2>2. A.s = c.s /\ Leads(V, W1, m, A) /\ A.s.state \notin Proposing
    BY <1>2, <2>1, NodeIs DEF Proposing, Updating, InWriting
  <2>. QED BY <2>2 DEF Leads
<1>4. PICK h : h = Cancel(c, "collect")
  OBVIOUS
<1>5. OnlyTimers(c, h)
  <2>1. "collect" \in Timer
    BY DEF Timer
  <2>. QED BY <1>2, <1>4, <2>1, CancelIs
<1>6. h \in Contexts /\ h.role = "leader" /\ h.epoch = c.epoch /\ h.out = c.out /\ ButTimers(c.s, h.s)
  BY <1>2, <1>5 DEF OnlyTimers
<1>7. PICK pn : CollectDoes(h, m, pn, d)
  BY <1>4, <1>6, CollectIs
<1>8. Finds(c.s, d.s)
  <2>1. Finds(h.s, d.s)
    BY <1>7 DEF CollectDoes
  <2>2. /\ h.s.last_committed = c.s.last_committed /\ h.s.values = c.s.values
        /\ h.s.accepted_pn = c.s.accepted_pn
        /\ h.s.pending_v = c.s.pending_v /\ h.s.pending_pn = c.s.pending_pn
    BY <1>6 DEF ButTimers
  <2>. QED BY <2>1, <2>2 DEF Finds, PendingPn
<1>9. AsksWith(m, c, pn, d)
  <2>1. /\ d \in Contexts /\ d.role = h.role /\ d.epoch = h.epoch
        /\ pn \in Nat /\ pn > h.s.last_pn /\ pn > h.s.accepted_pn /\ pn % 100 = m
        /\ d.s.last_pn = pn /\ d.s.accepted_pn = pn
        /\ d.s.last_committed = h.s.last_committed /\ d.s.values = h.s.values
        /\ d.s.pending_pn = h.s.pending_pn
        /\ d.s.quorum = h.s.quorum /\ d.s.num_last = 1
        /\ d.s.committing = h.s.committing /\ d.s.state = "recovering"
    BY <1>7 DEF CollectDoes
  <2>. QED BY <1>3, <1>6, <1>8, <2>1 DEF AsksWith, ButTimers
<1>10. PICK x : x = [Msg(h, "collect") EXCEPT !.pn = pn]
  OBVIOUS
<1>11. x \in LooseMessage /\ x.op = "collect" /\ x.values = NoValues
  <2>1. /\ Msg(h, "collect") \in LooseMessage
        /\ Msg(h, "collect").op = "collect" /\ Msg(h, "collect").values = NoValues
    BY <1>6, MsgIs
  <2>2. pn \in Nat
    BY <1>9 DEF AsksWith
  <2>. QED BY <1>10, <2>1, <2>2 DEF LooseMessage
<1>12. Sends(c, d, d.s.quorum \ {m}, ToAll(x))
  <2>1. Sends(h, d, h.s.quorum \ {m}, ToAll(x)) /\ d.s.quorum = h.s.quorum
    BY <1>7, <1>10 DEF CollectDoes
  <2>. QED BY <1>6, <2>1 DEF Sends
<1>13. AsksFor(m, c, d, x)
  BY <1>11, <1>12 DEF AsksFor
<1>. QED BY <1>9, <1>13, LawCollect

LEMMA LawLast ==
  ASSUME NEW m \in Mon, NEW p, NEW c, NEW T, NEW W, NEW O, NEW I, NEW from, NEW msg, NEW R, NEW R2,
         NEW Y, NEW V, NEW Z, NEW ack, NEW d,
         Receives(m, p, c, T, W, O, I, from, msg, R, R2), msg.op = "last",
         Law(m, c, Y, V, Z, R, ack), d = HandleLast(c, m, from, msg), d.s.pending_v <= MaxOp
  PROVE  \E Y2 : Lawfully(m, d, Y2, Z, R2, ack)
<1>1. /\ Sound(m, p, c, T, W, O, I) /\ W \in Worlds /\ O \in Queues /\ I \in Queues /\ Silent(c)
      /\ from \in Mon \ {m} /\ Heading(I, from, msg, "last")
      /\ <<from, m, msg>> \in R /\ R2 \subseteq R
      /\ c \in Contexts /\ T \in SUBSET Mon /\ Local(m, NodeOf(c, T))
  BY DEF Receives, Heading, Sound
<1>2. c.role = "leader" /\ LastIs(m, c, T, msg, from, W[from])
  BY <1>1, LastExpected DEF Heading
<1>3. /\ msg \in LooseMessage /\ NoGap(msg) /\ c.s.state = "recovering" /\ from \in c.s.quorum
      /\ \A v \in c.s.last_committed + 1 .. msg.last_committed : msg.values[v] # NoValue
      /\ msg.pn \in Nat /\ msg.last_committed \in Nat /\ c.s.accepted_pn \in Nat
  <2>1. /\ msg \in LooseMessage /\ NoGap(msg) /\ c.s.state = "recovering" /\ from \in c.s.quorum
        /\ \A v \in c.s.last_committed + 1 .. msg.last_committed : msg.values[v] # NoValue
    BY <1>2 DEF LastIs
  <2>2. msg.pn \in Nat /\ msg.last_committed \in Nat
    BY <2>1, MonTypes DEF LooseMessage
  <2>. QED BY <1>1, <2>1, <2>2 DEF Contexts, LooseState
<1>4. Logged(c.s) /\ c.s.peer_last_committed[m] = -1
  BY <1>1, <1>2, LeaderFacts
<1>5. msg.epoch = c.epoch /\ (msg.pn = c.s.accepted_pn => Quiet(m, from, R2))
  BY LastFacts
<1>6. Imparted(V, Now(m, c, Y, Z), msg)
  <2>1. Carried(V, Now(m, c, Y, Z), from, m, msg)
    BY <1>1, <1>3 DEF Law, Lawful
  <2>. QED BY <2>1 DEF Carried, Imparted
<1>7. PICK d1 : Hearing(c, from, msg, d1)
  BY DEF Hearing
<1>8. Heard(c, from, msg, d1)
  BY <1>1, <1>7, SoundHear
<1>9. Law(m, d1, Y, V, Z, R, ack) /\ HeardLaw(m, c, msg, d1)
  BY <1>1, <1>2, <1>3, <1>4, <1>6, <1>7, LawHear
<1>10. PICK e : e = Learn([d1 EXCEPT !.s.num_last = @ + 1], msg)
  OBVIOUS
<1>11. PICK f : f = Cancel([e EXCEPT !.s.peer_last_committed = [q \in Mon |-> -1]], "collect")
  OBVIOUS
<1>12. LastDoes(c, m, msg, d, d1, e, f)
  BY <1>2, <1>3, <1>7, <1>10, <1>11, LastCases
<1>13. /\ d1 \in Contexts /\ d1.role = "leader" /\ d1.epoch = c.epoch /\ d1.s.state = "recovering"
       /\ d1.s.accepted_pn = c.s.accepted_pn /\ d1.s.quorum = c.s.quorum
  BY <1>2, <1>3, <1>8 DEF Heard
<1>14. CASE msg.pn < c.s.accepted_pn
  <2>1. d = d1
    BY <1>12, <1>14 DEF LastDoes
  <2>2. Law(m, d1, Y, V, Z, R2, ack)
    BY <1>1, <1>9, LawDrops
  <2>. QED BY <2>1, <2>2 DEF Lawfully
<1>15. CASE msg.pn > c.s.accepted_pn
  <2>1. PICK n : n = msg.pn
    OBVIOUS
  <2>2. n \in Nat /\ d = Collect(Cancel(d1, "collect"), m, n)
    BY <1>3, <1>12, <1>15, <2>1 DEF LastDoes
  <2>3. Law(m, d, {m}, V, Z, R2, ack)
    BY <1>1, <1>9, <1>13, <2>2, LawRecollect DEF HeardLaw
  <2>. QED BY <2>3 DEF Lawfully
<1>16. CASE msg.pn = c.s.accepted_pn
  <2>1. Counted(d1, e) /\ Learnt(d1.s, msg, e.s)
    BY <1>3, <1>10, <1>13, LearnIs, LearntIs
  <2>2. Quiet(m, from, R2 \union Posted(m, d1))
    <3>1. \A i, j \in Mon, y \in LooseMessage : ~Posts(m, c, i, j, y)
      BY <1>1 DEF Posts, Posted, Silent
    <3>2. \A i, j \in Mon, y \in LooseMessage : Posts(m, d1, i, j, y) => y.op = "commit"
      BY <1>9, <3>1 DEF HeardLaw
    <3>3. ASSUME NEW y \in LooseMessage, <<m, from, y>> \in R2 \union Posted(m, d1)
          PROVE  y.op # "collect"
      BY <1>1, <1>5, <1>16, <3>2, <3>3 DEF Quiet, Posts
    <3>4. ASSUME NEW y \in LooseMessage, <<from, m, y>> \in R2 \union Posted(m, d1)
          PROVE  y.op # "last"
      BY <1>1, <1>5, <1>16, <3>2, <3>4 DEF Quiet, Posts
    <3>. QED BY <3>3, <3>4 DEF Quiet
  <2>3. msg.last_committed <= d1.s.last_committed
    BY <1>3, <1>9 DEF HeardLaw
  <2>4. Counts(m, d1, Y, Z, R, from, msg, R2)
    BY <1>1, <1>3, <1>5, <1>13, <1>16, <2>2, <2>3 DEF Counts, Heading
  <2>5. PICK Y2 : Y2 = Y \union {from}
    OBVIOUS
  <2>6. Law(m, e, Y2, V, Z, R2, ack)
    BY <1>9, <1>13, <2>1, <2>4, <2>5, LawCount
  <2>7. e \in Contexts /\ e.role = "leader" /\ e.s.state = "recovering"
    BY <1>13, <2>1 DEF Counted, ButLearnt
  <2>8. CASE e.s.num_last # Cardinality(e.s.quorum)
    <3>1. d = e
      BY <1>12, <1>16, <2>8 DEF LastDoes
    <3>. QED BY <2>6, <3>1 DEF Lawfully
  <2>9. CASE e.s.num_last = Cardinality(e.s.quorum)
    <3>1. Y2 = e.s.quorum
      <4>1. PICK W1 : W1 = Now(m, e, Y2, Z)
        OBVIOUS
      <4>2. LawIs(m, e, Y2, V, Z, R2, ack, W1)
        BY <2>6, <4>1, LawFacts
      <4>3. PICK A : A = NodeOf(e, Y2)
        OBVIOUS
      <4>4. Y2 \in SUBSET Mon /\ Leads(V, W1, m, A)
        BY <2>7, <4>2, <4>3 DEF LawIs
      <4>5. A.s = e.s /\ A.T = Y2
        BY <2>7, <4>3, <4>4, NodeIs
      <4>6. Y2 \subseteq e.s.quorum /\ e.s.num_last = Cardinality(Y2) /\ e.s.quorum \in SUBSET Mon
        BY <4>4, <4>5 DEF Leads, Majorities
      <4>7. IsFiniteSet(e.s.quorum)
        BY <4>6, MonFinite, FS_Subset
      <4>. QED BY <2>9, <4>6, <4>7, FS_Subset
    <3>2. AllIn(e, f)
      BY <1>11, <2>7, AllInIs
    <3>3. \/ /\ Unfinished(f.s)
             /\ d = Begin([f EXCEPT !.s.state = "updating_previous"], m, f.s.uncommitted_value)
          \/ ~Unfinished(f.s) /\ d = FinishRound(ExtendLease(f, m), m)
      BY <1>12, <1>16, <2>9 DEF LastDoes
    <3>4. Lawfully(m, d, Y2, Z, R2, ack)
      BY <2>6, <2>7, <3>1, <3>2, <3>3, LawAllIn
    <3>. QED BY <3>4
  <2>. QED BY <2>8, <2>9
<1>. QED BY <1>3, <1>14, <1>15, <1>16

-----------------------------------------------------------------------------
(* Paxos::dispatch() *)

Takes(m, p, c, T, W, O, I, from, msg, R, R2, Y, V, Z, ack) ==
  /\ Receives(m, p, c, T, W, O, I, from, msg, R, R2)
  /\ Law(m, c, Y, V, Z, R, ack)
  /\ \A q \in Mon \ {m} : Z[q].s = W[q].s

TakesIs(m, p, c, T, W, O, I, from, msg, R, R2, Y, V, Z, ack) ==
  /\ Sound(m, p, c, T, W, O, I) /\ W \in Worlds /\ O \in Queues /\ I \in Queues
  /\ from \in Mon \ {m} /\ Heading(I, from, msg, msg.op)
  /\ <<from, m, msg>> \in R /\ R2 \subseteq R
  /\ c \in Contexts /\ c.ok /\ T \in SUBSET Mon /\ Local(m, NodeOf(c, T))
  /\ Law(m, c, Y, V, Z, R, ack) /\ Z[from].s = W[from].s
  /\ msg \in LooseMessage /\ Carried(V, Now(m, c, Y, Z), from, m, msg)
  /\ Law(m, c, Y, V, Z, R2, ack)

LEMMA TakesFacts ==
  ASSUME NEW m \in Mon, NEW p, NEW c, NEW T, NEW W, NEW O, NEW I, NEW from, NEW msg, NEW R, NEW R2,
         NEW Y, NEW V, NEW Z, NEW ack, Takes(m, p, c, T, W, O, I, from, msg, R, R2, Y, V, Z, ack)
  PROVE  TakesIs(m, p, c, T, W, O, I, from, msg, R, R2, Y, V, Z, ack)
<1>1. /\ Sound(m, p, c, T, W, O, I) /\ W \in Worlds /\ O \in Queues /\ I \in Queues
      /\ from \in Mon \ {m} /\ Heading(I, from, msg, msg.op)
      /\ <<from, m, msg>> \in R /\ R2 \subseteq R
      /\ c \in Contexts /\ c.ok /\ T \in SUBSET Mon /\ Local(m, NodeOf(c, T))
      /\ Law(m, c, Y, V, Z, R, ack) /\ Z[from].s = W[from].s
  BY DEF Takes, Receives, Heading, Sound
<1>2. msg \in LooseMessage
  <2>1. I[from] \in Messages /\ I[from] # <<>> /\ msg = I[from][1]
    BY <1>1 DEF Queues, Heading
  <2>. QED BY <2>1, TailFacts
<1>3. Carried(V, Now(m, c, Y, Z), from, m, msg)
  BY <1>1, <1>2 DEF Law, Lawful
<1>4. Law(m, c, Y, V, Z, R2, ack)
  BY <1>1, LawDrops
<1>. QED BY <1>1, <1>2, <1>3, <1>4 DEF TakesIs

LEMMA LawHandleCollect ==
  ASSUME NEW m \in Mon, NEW p, NEW c, NEW T, NEW W, NEW O, NEW I, NEW from, NEW msg, NEW R, NEW R2,
         NEW Y, NEW V, NEW Z, NEW ack, NEW d,
         Takes(m, p, c, T, W, O, I, from, msg, R, R2, Y, V, Z, ack), msg.op = "collect",
         d = HandleCollect(c, m, from, msg),
         d.s.accepted_pn > c.s.accepted_pn => d.s.accepted_pn >= Level(c.s)
  PROVE  Law(m, d, Y, V, Z, R2, ack)
<1>1. /\ Sound(m, p, c, T, W, O, I) /\ W \in Worlds /\ O \in Queues /\ I \in Queues
      /\ from \in Mon \ {m} /\ Heading(I, from, msg, "collect")
      /\ <<from, m, msg>> \in R /\ R2 \subseteq R /\ T \in SUBSET Mon
      /\ Law(m, c, Y, V, Z, R, ack) /\ Z[from].s = W[from].s
  <2>1. TakesIs(m, p, c, T, W, O, I, from, msg, R, R2, Y, V, Z, ack)
    BY TakesFacts
  <2>. QED BY <2>1 DEF TakesIs
<1>2. "collect" \in Downs
  BY DEF Downs
<1>3. PeonIs(m, c, T, W, I, from, msg) /\ HeadSent(from, msg, W[from])
  BY <1>1, <1>2, PeonFacts, HeadIsSent
<1>4. /\ c \in Contexts /\ c.ok /\ c.role = "peon" /\ c.s.leader = from
      /\ msg \in LooseMessage /\ Logged(c.s) /\ msg.last_committed <= W[from].s.last_committed
  BY <1>3 DEF PeonIs, HeadSent
<1>5. PICK x : CollectHandled(c, from, msg, d, x)
  BY <1>1, <1>4, CollectHandledIs
<1>6. c.s.accepted_pn % 100 = from => c.s.accepted_pn < msg.pn
  <2>1. PICK A, B, D : A = NodeOf(c, T) /\ B = W[from] /\ D = I[from]
    OBVIOUS
  <2>2. A.s = c.s
    BY <1>1, <1>4, <2>1, NodeIs
  <2>3. PICK U : Pair(m, from, A, B, U, D)
    BY <1>1, <2>1 DEF Sound
  <2>4. D \in Messages /\ Asked(from, B, A, D)
    BY <2>3 DEF Pair, Link
  <2>5. 1 \in DOMAIN D /\ D[1] = msg
    BY <1>1, <2>1, <2>4, TailFacts DEF Heading
  <2>6. Below(A.s, msg.pn, from)
    BY <2>4, <2>5 DEF Asked
  <2>. QED BY <2>2, <2>6 DEF Below
<1>7. msg.pn > c.s.accepted_pn => msg.pn >= Level(c.s)
  <2>1. d.s.accepted_pn = Larger(c.s.accepted_pn, msg.pn) /\ msg.pn \in Nat /\ c.s.accepted_pn \in Nat
    BY <1>4, <1>5 DEF CollectHandled, LooseMessage, Contexts, LooseState
  <2>. QED BY <2>1 DEF Larger
<1>8. Promising(m, c, Z, R, from, msg)
  BY <1>1, <1>4, <1>6, <1>7 DEF Promising
<1>. QED BY <1>1, <1>5, <1>8, LawPromise

LEMMA LawHandleBegin ==
  ASSUME NEW m \in Mon, NEW p, NEW c, NEW T, NEW W, NEW O, NEW I, NEW from, NEW msg, NEW R, NEW R2,
         NEW Y, NEW V, NEW Z, NEW ack, NEW d,
         Takes(m, p, c, T, W, O, I, from, msg, R, R2, Y, V, Z, ack), msg.op = "begin",
         d = HandleBegin(c, m, from, msg)
  PROVE  Lawfully(m, d, Y, Z, R2, ack)
<1>1. /\ Sound(m, p, c, T, W, O, I) /\ W \in Worlds /\ O \in Queues /\ I \in Queues
      /\ from \in Mon \ {m} /\ Heading(I, from, msg, "begin")
      /\ <<from, m, msg>> \in R /\ R2 \subseteq R
      /\ Law(m, c, Y, V, Z, R, ack) /\ Law(m, c, Y, V, Z, R2, ack)
  <2>1. TakesIs(m, p, c, T, W, O, I, from, msg, R, R2, Y, V, Z, ack)
    BY TakesFacts
  <2>. QED BY <2>1 DEF TakesIs
<1>2. "begin" \in Downs
  BY DEF Downs
<1>3. PeonIs(m, c, T, W, I, from, msg) /\ Expected(msg, c.s)
  BY <1>1, <1>2, PeonFacts, BeginIsExpected
<1>4. /\ c \in Contexts /\ c.ok /\ c.role = "peon" /\ c.s.leader = from /\ c.epoch = msg.epoch
      /\ msg \in LooseMessage /\ msg.pn \in Nat /\ c.s.accepted_pn \in Nat
  BY <1>3 DEF PeonIs, LooseMessage, Contexts, LooseState
<1>5. CASE msg.pn < c.s.accepted_pn
  <2>1. d = c
    BY <1>5 DEF HandleBegin
  <2>. QED BY <1>1, <2>1 DEF Lawfully
<1>6. CASE msg.pn = c.s.accepted_pn
  <2>1. PICK v : v = c.s.last_committed + 1
    OBVIOUS
  <2>2. msg.last_committed = c.s.last_committed /\ v \in Version
    BY <1>3, <1>6, <2>1 DEF Expected, At
  <2>3. PICK x : BeginHandled(c, from, msg, v, d, x)
    BY <1>1, <1>4, <1>6, <2>1, <2>2, BeginHandledIs
  <2>4. Voting(m, c, R, from, msg, v)
    BY <1>1, <1>4, <1>6, <2>1, <2>2 DEF Voting
  <2>. QED BY <1>1, <2>3, <2>4, LawVote
<1>. QED BY <1>3, <1>4, <1>5, <1>6 DEF Expected

LEMMA LawHandleAccept ==
  ASSUME NEW m \in Mon, NEW p, NEW c, NEW T, NEW W, NEW O, NEW I, NEW from, NEW msg, NEW R, NEW R2,
         NEW Y, NEW V, NEW Z, NEW ack, NEW d,
         Takes(m, p, c, T, W, O, I, from, msg, R, R2, Y, V, Z, ack), msg.op = "accept",
         d = HandleAccept(c, m, from, msg)
  PROVE  Law(m, d, Y, V, Z, R2, ack)
<1>1. /\ Sound(m, p, c, T, W, O, I) /\ W \in Worlds /\ I \in Queues
      /\ from \in Mon \ {m} /\ Heading(I, from, msg, "accept")
      /\ <<from, m, msg>> \in R /\ R2 \subseteq R /\ c \in Contexts /\ T \in SUBSET Mon
      /\ Law(m, c, Y, V, Z, R, ack) /\ msg \in LooseMessage /\ Local(m, NodeOf(c, T))
  <2>1. TakesIs(m, p, c, T, W, O, I, from, msg, R, R2, Y, V, Z, ack)
    BY TakesFacts
  <2>. QED BY <2>1 DEF TakesIs
<1>2. /\ c.role = "leader" /\ c.s.state \in Updating
      /\ msg.pn = c.s.accepted_pn /\ msg.last_committed = c.s.last_committed
      /\ from \notin c.s.accepted
  <2>1. PICK A : A = NodeOf(c, T)
    OBVIOUS
  <2>2. A.role = c.role /\ A.s = c.s
    BY <1>1, <2>1, NodeIs
  <2>3. PICK B, U : B = W[from] /\ U = I[from]
    OBVIOUS
  <2>4. PICK D : Link(m, from, A, B, D, U) /\ U \in Messages
    BY <1>1, <2>1, <2>3 DEF Sound, Pair
  <2>5. U # <<>> /\ U[1] = msg /\ U[1].op = "accept"
    BY <1>1, <2>3 DEF Heading
  <2>6. /\ A.role = "leader" /\ A.s.state \in Updating
        /\ U[1].pn = A.s.accepted_pn /\ U[1].last_committed = A.s.last_committed
        /\ from \notin A.s.accepted
    BY <2>4, <2>5, AcceptExpected
  <2>. QED BY <2>2, <2>5, <2>6
<1>3. InRound(m, c.s)
  BY <1>1, <1>2, LeaderFacts
<1>4. m \in c.s.accepted /\ c.s.last_committed + 1 \in Version
  BY <1>2, <1>3 DEF InRound, Proposing, At
<1>5. AcceptDoes(c, from, d)
  BY <1>1, <1>2, AcceptIs
<1>6. Accepting(m, c, R, from, msg)
  BY <1>1, <1>2, <1>4 DEF Accepting
<1>. QED BY <1>1, <1>5, <1>6, LawAccept

LEMMA LawHandleCommit ==
  ASSUME NEW m \in Mon, NEW p, NEW c, NEW T, NEW W, NEW O, NEW I, NEW from, NEW msg, NEW R, NEW R2,
         NEW Y, NEW V, NEW Z, NEW ack, NEW d,
         Takes(m, p, c, T, W, O, I, from, msg, R, R2, Y, V, Z, ack), msg.op = "commit",
         d = HandleCommit(c, m, from, msg)
  PROVE  Law(m, d, Y, V, Z, R2, ack)
<1>1. /\ Sound(m, p, c, T, W, O, I) /\ W \in Worlds /\ O \in Queues /\ I \in Queues
      /\ from \in Mon \ {m} /\ Heading(I, from, msg, "commit")
      /\ Law(m, c, Y, V, Z, R2, ack) /\ Carried(V, Now(m, c, Y, Z), from, m, msg)
  <2>1. TakesIs(m, p, c, T, W, O, I, from, msg, R, R2, Y, V, Z, ack)
    BY TakesFacts
  <2>. QED BY <2>1 DEF TakesIs
<1>2. "commit" \in Downs
  BY DEF Downs
<1>3. PeonIs(m, c, T, W, I, from, msg)
  BY <1>1, <1>2, PeonFacts
<1>4. /\ c \in Contexts /\ c.ok /\ c.role = "peon" /\ msg \in LooseMessage /\ NoGap(msg) /\ Logged(c.s)
      /\ msg.last_committed \in Nat
  BY <1>3, MonTypes DEF PeonIs, LooseMessage
<1>5. Check(c, c.role = "peon") = c
  BY <1>4, CheckIs
<1>6. d = StoreState(c, msg)
  BY <1>5 DEF HandleCommit
<1>7. StoreDoes(c, msg, d)
  BY <1>4, <1>6, StoreIs
<1>8. Imparted(V, Now(m, c, Y, Z), msg)
  BY <1>1 DEF Carried, Imparted
<1>. QED BY <1>1, <1>4, <1>7, <1>8, LawStore

LEMMA LawHandleLease ==
  ASSUME NEW m \in Mon, NEW p, NEW c, NEW T, NEW W, NEW O, NEW I, NEW from, NEW msg, NEW R, NEW R2,
         NEW Y, NEW V, NEW Z, NEW ack, NEW d,
         Takes(m, p, c, T, W, O, I, from, msg, R, R2, Y, V, Z, ack), msg.op = "lease",
         d = HandleLease(c, m, from, msg)
  PROVE  Law(m, d, Y, V, Z, R2, ack)
<1>1. /\ Sound(m, p, c, T, W, O, I) /\ W \in Worlds /\ O \in Queues /\ I \in Queues
      /\ from \in Mon \ {m} /\ Heading(I, from, msg, "lease")
      /\ Law(m, c, Y, V, Z, R2, ack)
  <2>1. TakesIs(m, p, c, T, W, O, I, from, msg, R, R2, Y, V, Z, ack)
    BY TakesFacts
  <2>. QED BY <2>1 DEF TakesIs
<1>2. "lease" \in Downs
  BY DEF Downs
<1>3. PeonIs(m, c, T, W, I, from, msg)
  BY <1>1, <1>2, PeonFacts
<1>4. /\ c \in Contexts /\ c.ok /\ c.role = "peon" /\ msg \in LooseMessage
  BY <1>3 DEF PeonIs
<1>5. CASE msg.last_committed # c.s.last_committed
  <2>1. d = c
    BY <1>5 DEF HandleLease
  <2>. QED BY <1>1, <2>1
<1>6. CASE msg.last_committed = c.s.last_committed
  <2>1. PICK x : LeaseHandled(c, from, d, x)
    BY <1>1, <1>4, <1>6, LeaseHandledIs
  <2>2. SameNode(c, d)
    BY <1>4, <2>1 DEF LeaseHandled, PeonFields, SameNode, SameStore, SameNumbers
  <2>3. x \in LooseMessage /\ x.op = "lease_ack" /\ x.values = NoValues /\ Sends(c, d, {from}, ToAll(x))
    BY <2>1 DEF LeaseHandled
  <2>4. Harmless(V, Now(m, c, Y, Z), x)
    BY <2>3 DEF Harmless, NoValues
  <2>5. PICK to, xx : to = {from} /\ xx = ToAll(x)
    OBVIOUS
  <2>6. to \in SUBSET (Mon \ {m}) /\ xx \in [Mon -> LooseMessage] /\ Sends(c, d, to, xx)
        /\ \A j \in to : Harmless(V, Now(m, c, Y, Z), xx[j])
    BY <1>1, <2>3, <2>4, <2>5 DEF ToAll
  <2>. QED BY <1>1, <2>2, <2>6, LawQuiet
<1>. QED BY <1>5, <1>6

LEMMA LawSame ==
  ASSUME NEW m \in Mon, NEW c, NEW T, NEW V, NEW W, NEW R, NEW ack, NEW d,
         Law(m, c, T, V, W, R, ack), SameNode(c, d), d.out = c.out
  PROVE  Law(m, d, T, V, W, R, ack)
<1>1. c \in Contexts
  BY DEF Law
<1>2. PICK to, xx : to = {} /\ xx = Nothing
  OBVIOUS
<1>3. to \in SUBSET (Mon \ {m}) /\ xx \in [Mon -> LooseMessage] /\ Sends(c, d, to, xx)
      /\ \A j \in to : Harmless(V, Now(m, c, T, W), xx[j])
  BY <1>1, <1>2, SendsNothing
<1>. QED BY <1>3, LawQuiet

LEMMA LawHandleLeaseAck ==
  ASSUME NEW m \in Mon, NEW p, NEW c, NEW T, NEW W, NEW O, NEW I, NEW from, NEW msg, NEW R, NEW R2,
         NEW Y, NEW V, NEW Z, NEW ack, NEW d,
         Takes(m, p, c, T, W, O, I, from, msg, R, R2, Y, V, Z, ack),
         d = HandleLeaseAck(c, m, from, msg)
  PROVE  Law(m, d, Y, V, Z, R2, ack)
<1>1. c \in Contexts /\ from \in Mon /\ Law(m, c, Y, V, Z, R2, ack)
  <2>1. TakesIs(m, p, c, T, W, O, I, from, msg, R, R2, Y, V, Z, ack)
    BY TakesFacts
  <2>. QED BY <2>1 DEF TakesIs
<1>2. AckDoes(c, d)
  BY <1>1, AckIs
<1>3. SameNode(c, d) /\ d.out = c.out
  BY <1>2 DEF AckDoes, SameSession, AlikeFields, SameNode, SameStore, SameNumbers, SameRecovery
<1>. QED BY <1>1, <1>3, LawSame

(* The collect that a peon answers is the only one to raise its promise. *)
Heeds(c, d) == d.s.accepted_pn > c.s.accepted_pn => d.s.accepted_pn >= Level(c.s)

LEMMA LawDispatch ==
  ASSUME NEW m \in Mon, NEW p, NEW c, NEW T, NEW W, NEW O, NEW I, NEW from, NEW msg, NEW R, NEW R2,
         NEW Y, NEW V, NEW Z, NEW ack, NEW d,
         Takes(m, p, c, T, W, O, I, from, msg, R, R2, Y, V, Z, ack),
         Dispatched(c, m, from, msg, d), d.s.pending_v <= MaxOp, Heeds(c, d)
  PROVE  \E Y2 : Lawfully(m, d, Y2, Z, R2, ack)
<1>1. /\ Sound(m, p, c, T, W, O, I) /\ W \in Worlds /\ O \in Queues /\ I \in Queues
      /\ from \in Mon \ {m} /\ Heading(I, from, msg, msg.op) /\ msg \in LooseMessage /\ c.ok
      /\ Law(m, c, Y, V, Z, R, ack)
  <2>1. TakesIs(m, p, c, T, W, O, I, from, msg, R, R2, Y, V, Z, ack)
    BY TakesFacts
  <2>. QED BY <2>1 DEF TakesIs
<1>2. msg.op \in Ups \union Downs
  BY <1>1 DEF LooseMessage, Ups, Downs, Dispatched
<1>3. Check(c, c.role = "peon" => from = c.s.leader) = c
  <2>1. c.role = "peon" => from = c.s.leader
    <3>1. CASE msg.op \in Ups
      BY <1>1, <3>1, AnswerExpected
    <3>2. CASE msg.op \in Downs
      BY <1>1, <3>2, PeonFacts DEF PeonIs
    <3>. QED BY <1>2, <3>1, <3>2
  <2>. QED BY <1>1, <2>1, CheckIs DEF Sound
<1>4. d = CASE msg.op = "collect"   -> HandleCollect(c, m, from, msg)
            [] msg.op = "last"      -> HandleLast(c, m, from, msg)
            [] msg.op = "begin"     -> HandleBegin(c, m, from, msg)
            [] msg.op = "accept"    -> HandleAccept(c, m, from, msg)
            [] msg.op = "commit"    -> HandleCommit(c, m, from, msg)
            [] msg.op = "lease"     -> HandleLease(c, m, from, msg)
            [] msg.op = "lease_ack" -> HandleLeaseAck(c, m, from, msg)
  BY <1>3 DEF Dispatched, Dispatch
<1>5. CASE msg.op = "last"
  <2>1. d = HandleLast(c, m, from, msg) /\ Receives(m, p, c, T, W, O, I, from, msg, R, R2)
    BY <1>4, <1>5 DEF Takes
  <2>. QED BY <1>1, <1>5, <2>1, LawLast
<1>6. CASE msg.op = "begin"
  <2>1. d = HandleBegin(c, m, from, msg)
    BY <1>4, <1>6
  <2>2. Lawfully(m, d, Y, Z, R2, ack)
    BY <1>6, <2>1, LawHandleBegin
  <2>. QED BY <2>2
<1>7. CASE msg.op = "collect"
  <2>1. d = HandleCollect(c, m, from, msg)
    BY <1>4, <1>7
  <2>2. Law(m, d, Y, V, Z, R2, ack)
    BY <1>7, <2>1, LawHandleCollect DEF Heeds
  <2>. QED BY <2>2 DEF Lawfully
<1>8. CASE msg.op = "accept"
  <2>1. d = HandleAccept(c, m, from, msg)
    BY <1>4, <1>8
  <2>2. Law(m, d, Y, V, Z, R2, ack)
    BY <1>8, <2>1, LawHandleAccept
  <2>. QED BY <2>2 DEF Lawfully
<1>9. CASE msg.op = "commit"
  <2>1. d = HandleCommit(c, m, from, msg)
    BY <1>4, <1>9
  <2>2. Law(m, d, Y, V, Z, R2, ack)
    BY <1>9, <2>1, LawHandleCommit
  <2>. QED BY <2>2 DEF Lawfully
<1>10. CASE msg.op = "lease"
  <2>1. d = HandleLease(c, m, from, msg)
    BY <1>4, <1>10
  <2>2. Law(m, d, Y, V, Z, R2, ack)
    BY <1>10, <2>1, LawHandleLease
  <2>. QED BY <2>2 DEF Lawfully
<1>11. CASE msg.op = "lease_ack"
  <2>1. d = HandleLeaseAck(c, m, from, msg)
    BY <1>4, <1>11
  <2>2. Law(m, d, Y, V, Z, R2, ack)
    BY <2>1, LawHandleLeaseAck
  <2>. QED BY <2>2 DEF Lawfully
<1>. QED BY <1>2, <1>5, <1>6, <1>7, <1>8, <1>9, <1>10, <1>11 DEF Ups, Downs

-----------------------------------------------------------------------------
(* The other handlers *)

LEMMA LawRenew ==
  ASSUME NEW m \in Mon, NEW c, NEW Y, NEW V, NEW Z, NEW R, NEW ack, NEW d,
         Law(m, c, Y, V, Z, R, ack), c.role = "leader", c.s.state = "active", c.s.quorum \in SUBSET Mon,
         d = ExtendLease(Cancel(c, "lease_renew"), m)
  PROVE  Law(m, d, Y, V, Z, R, ack)
<1>1. c \in Contexts /\ "lease_renew" \in Timer
  BY DEF Law, Timer
<1>2. PICK h : h = Cancel(c, "lease_renew")
  OBVIOUS
<1>3. OnlyTimers(c, h)
  BY <1>1, <1>2, CancelIs
<1>4. h \in Contexts /\ h.role = "leader" /\ h.out = c.out /\ SameNode(c, h) /\ h.s.quorum \in SUBSET Mon
      /\ h.s.state = "active"
  BY <1>3 DEF OnlyTimers, ButTimers, SameNode, SameStore, SameNumbers, SameRecovery, SameFound
<1>5. Law(m, h, Y, V, Z, R, ack)
  BY <1>4, LawSame
<1>6. LeaseDoes(h, m, d)
  BY <1>2, <1>4, LeaseIs
<1>7. SameNode(h, d)
  BY <1>4, <1>6 DEF LeaseDoes, AlikeFields, SameNode, SameStore, SameNumbers, SameRecovery
<1>8. PICK to, x : to = h.s.quorum \ {m} /\ x = ToAll(Msg(h, "lease"))
  OBVIOUS
<1>9. Harmless(V, Now(m, h, Y, Z), Msg(h, "lease")) /\ Msg(h, "lease") \in LooseMessage
  BY <1>4, EmptyHarmless
<1>10. to \in SUBSET (Mon \ {m}) /\ x \in [Mon -> LooseMessage] /\ Sends(h, d, to, x)
       /\ \A j \in to : Harmless(V, Now(m, h, Y, Z), x[j])
  BY <1>4, <1>6, <1>8, <1>9 DEF LeaseDoes, ToAll
<1>. QED BY <1>5, <1>7, <1>10, LawQuiet

LEMMA LawNewOperation ==
  ASSUME NEW m \in Mon, NEW c, NEW Y, NEW V, NEW Z, NEW R, NEW ack, NEW d, NEW o \in Operation,
         Law(m, c, Y, V, Z, R, ack), c.role = "leader", NewOperation(c, m, o, d), d.s.pending_v <= MaxOp
  PROVE  Lawfully(m, d, Y, Z, R, ack)
<1>1. PICK g : g = [c EXCEPT !.s.pending_proposal = @ \union {o}]
  OBVIOUS
<1>2. d = IF g.s.state = "active" THEN ProposePending(g, m) ELSE g
  BY <1>1 DEF NewOperation
<1>3. c \in Contexts /\ c.s \in LooseState
  BY ContextTypes DEF Law
<1>4. PICK s1 : s1 = [c.s EXCEPT !.pending_proposal = @ \union {o}]
  OBVIOUS
<1>5. s1 \in LooseState /\ SameStore(c.s, s1) /\ SameRecovery(c.s, s1) /\ s1.pending_proposal # NoValue
  BY <1>3, <1>4 DEF LooseState, SameStore, SameNumbers, SameRecovery, SameFound, Value, NoValue
<1>6. g \in Contexts /\ g.s = s1 /\ g.role = c.role /\ g.epoch = c.epoch /\ g.out = c.out
  <2>1. g = [c EXCEPT !.s = s1]
    BY <1>1, <1>3, <1>4 DEF Contexts
  <2>. QED BY <1>3, <1>5, <2>1 DEF Contexts
<1>7. SameNode(c, g)
  BY <1>5, <1>6 DEF SameNode
<1>8. Law(m, g, Y, V, Z, R, ack)
  BY <1>6, <1>7, LawSame
<1>9. CASE g.s.state = "active"
  BY <1>2, <1>5, <1>6, <1>8, <1>9, LawProposePending
<1>10. CASE g.s.state # "active"
  BY <1>2, <1>8, <1>10 DEF Lawfully
<1>. QED BY <1>9, <1>10

(* A leader about to commit. *)
LEMMA CommittingIs ==
  ASSUME NEW m \in Mon, NEW c \in Contexts, NEW T \in SUBSET Mon, Local(m, NodeOf(c, T)),
         c.s.state \in InWriting
  PROVE  Committing(m, c, c.s.last_committed + 1)
<1>1. NodeOf(c, T).s = c.s /\ NodeOf(c, T).role = c.role
  BY NodeIs
<1>2. c.role = "leader" /\ Logged(c.s)
  BY <1>1 DEF Local, InWriting, Contexts
<1>3. InRound(m, c.s)
  BY <1>2, LeaderFacts
<1>4. /\ c.s.accepted = c.s.quorum /\ At(c.s.values, c.s.last_committed + 1) = c.s.new_value
      /\ c.s.new_value # NoValue
  BY <1>3 DEF InRound, Proposing
<1>5. c.s.last_committed + 1 \in Version
  BY <1>4 DEF At
<1>6. c.s.values[c.s.last_committed + 1] = c.s.new_value
  BY <1>4, <1>5 DEF At
<1>. QED BY <1>2, <1>4, <1>5, <1>6 DEF Committing

LEMMA LeaveSwitches ==
  ASSUME NEW m, NEW c \in Contexts, NEW e \in Nat, NEW d, LeaveDoes(c, e, d), c.epoch <= e
  PROVE  Switches(m, c, d)
<1>1. c.epoch \in Nat
  BY DEF Contexts
<1>. QED BY <1>1 DEF LeaveDoes, SameLog, Switches

LEMMA JoinSwitches ==
  ASSUME NEW m, NEW c \in Contexts, NEW l, NEW e \in Nat, NEW d, JoinDoes(c, l, e, d), c.epoch < e
  PROVE  Switches(m, c, d)
<1>1. c.epoch \in Nat
  BY DEF Contexts
<1>. QED BY <1>1 DEF JoinDoes, SameLog, Switches

LEMMA CrashSwitches ==
  ASSUME NEW m \in Mon, NEW c \in Contexts, NEW T \in SUBSET Mon, Local(m, NodeOf(c, T)), NEW d,
         NEW applied \in BOOLEAN, applied => c.s.state \in InWriting, Crashed(c, applied, c.epoch, d)
  PROVE  Switches(m, c, d)
<1>1. c.epoch \in Nat /\ c.s \in LooseState /\ c.s.last_committed \in Nat /\ c.s.stored_pn \in Nat
  BY MonTypes DEF Contexts, LooseState
<1>2. PICK g : g = LeaveQuorum(c, c.epoch)
  OBVIOUS
<1>3. LeaveDoes(c, c.epoch, g)
  BY <1>1, <1>2, LeaveIs
<1>4. g \in Contexts /\ g.role = "out" /\ g.epoch = c.epoch /\ g.out = c.out /\ SameLog(c.s, g.s)
      /\ g.s \in LooseState
  BY <1>3 DEF LeaveDoes, Contexts
<1>5. applied => Committing(m, c, c.s.last_committed + 1)
  BY CommittingIs
<1>6. PICK lc : lc = IF applied THEN c.s.last_committed + 1 ELSE c.s.last_committed
  OBVIOUS
<1>7. lc \in 0 .. MaxOp
  BY <1>1, <1>5, <1>6, MonTypes DEF Committing, Version, LooseState
<1>8. PICK s1 : s1 = [g.s EXCEPT !.accepted_pn = g.s.stored_pn, !.last_committed = lc,
                                 !.timers = [t \in Timer |-> 0]]
  OBVIOUS
<1>9. s1 \in LooseState
  BY <1>4, <1>7, <1>8 DEF LooseState
<1>10. d = [g EXCEPT !.s = s1]
  BY <1>2, <1>4, <1>6, <1>8 DEF Crashed, LooseState, SameLog
<1>11. d \in Contexts /\ d.s = s1 /\ d.role = "out" /\ d.epoch = c.epoch /\ d.out = c.out
  BY <1>4, <1>9, <1>10 DEF Contexts
<1>12. /\ s1.last_pn = c.s.last_pn /\ s1.stored_pn = c.s.stored_pn /\ s1.accepted_pn = c.s.stored_pn
       /\ s1.last_committed = lc /\ s1.values = c.s.values /\ s1.pending_pn = c.s.pending_pn
  BY <1>4, <1>8 DEF SameLog, LooseState
<1>. QED BY <1>5, <1>6, <1>11, <1>12 DEF Switches

-----------------------------------------------------------------------------
(* From one state to the next *)

(* The messages under way in the queues Q. *)
Mail(Q) == {z \in Parcels : \E k \in DOMAIN Q[z[1]][z[2]] : z[3] = Q[z[1]][z[2]][k]}

Ruled(V, Y, ep, ro, p, q, ack) ==
  Y \in [Mon -> SUBSET Mon] /\ Lawful(V, WorldOf(ep, ro, p, Y), Mail(q), ack)

(* A handler of m starts from what all monitors and messages are. *)
LEMMA LawStarts ==
  ASSUME NEW m \in Mon, NEW V, NEW Y, NEW Z, Shaped(epoch, role, px, net),
         Ruled(V, Y, epoch, role, px, net, acked), Z = WorldOf(epoch, role, px, Y),
         NEW c, c = Here(m)
  PROVE  /\ Law(m, c, Y[m], V, Z, Mail(net), acked) /\ Z \in Worlds /\ Y[m] \in SUBSET Mon
         /\ \A q \in Mon : Z[q].s = px[q] /\ Z[q].role = role[q] /\ Z[q].epoch = epoch[q]
<1>1. px[m] \in LooseState /\ role[m] \in {"out", "leader", "peon"} /\ epoch[m] \in Nat
  BY DEF Shaped
<1>2. c \in Contexts /\ c.s = px[m] /\ c.role = role[m] /\ c.epoch = epoch[m] /\ c.out = [j \in Mon |-> <<>>]
  BY <1>1, ContextIs DEF Here
<1>3. Z \in Worlds /\ Lawful(V, Z, Mail(net), acked) /\ Y[m] \in SUBSET Mon
  BY DEF Ruled, Lawful
<1>4. \A q \in Mon : Z[q] = [epoch |-> epoch[q], role |-> role[q], s |-> px[q], T |-> Y[q]]
  BY DEF WorldOf
<1>5. Z[m] = NodeOf(c, Y[m])
  BY <1>2, <1>4 DEF NodeOf
<1>6. Now(m, c, Y[m], Z) = Z
  BY <1>3, <1>5 DEF Now, Worlds
<1>7. Posted(m, c) = {}
  <2>1. DOMAIN <<>> = {}
    OBVIOUS
  <2>2. \A z \in Parcels : z[2] \in Mon
    BY DEF Parcels
  <2>. QED BY <1>2, <2>1, <2>2 DEF Posted
<1>8. Mail(net) \union Posted(m, c) = Mail(net)
  BY <1>7
<1>9. Law(m, c, Y[m], V, Z, Mail(net), acked)
  BY <1>2, <1>3, <1>6, <1>8 DEF Law
<1>10. ASSUME NEW q \in Mon PROVE Z[q].s = px[q] /\ Z[q].role = role[q] /\ Z[q].epoch = epoch[q]
  <2>1. Z[q] = [epoch |-> epoch[q], role |-> role[q], s |-> px[q], T |-> Y[q]]
    BY <1>4
  <2>. QED BY <2>1
<1>. QED BY <1>3, <1>9, <1>10

(* Dropping messages leaves the others. *)
HasOnly(r, q) == \A k \in DOMAIN r : \E l \in DOMAIN q : r[k] = q[l]

LEMMA SubSeqHas ==
  ASSUME NEW q \in Messages, NEW n \in Nat, NEW r, r = SubSeq(q, n + 1, Len(q))
  PROVE  HasOnly(r, q)
<1>1. Len(q) \in Nat /\ DOMAIN q = 1 .. Len(q)
  BY LenProperties DEF Messages
<1>2. \A l \in n + 1 .. Len(q) : q[l] \in LooseMessage
  BY <1>1, MessageTypes
<1>3. n + 1 \in Int /\ Len(q) \in Int
  BY <1>1
<1>4. /\ r \in Messages /\ Len(r) = IF n + 1 <= Len(q) THEN Len(q) - (n + 1) + 1 ELSE 0
      /\ \A i \in 1 .. Len(q) - (n + 1) + 1 : r[i] = q[n + 1 + i - 1]
  BY <1>2, <1>3, SubSeqProperties DEF Messages
<1>5. DOMAIN r = 1 .. Len(r)
  BY <1>4, LenProperties DEF Messages
<1>6. ASSUME NEW k \in DOMAIN r PROVE k \in 1 .. Len(q) - (n + 1) + 1 /\ n + 1 + k - 1 \in 1 .. Len(q)
  <2>1. PICK L, K : L = Len(q) /\ K = Len(r)
    OBVIOUS
  <2>2. L \in Nat /\ K = (IF n + 1 <= L THEN L - (n + 1) + 1 ELSE 0) /\ k \in 1 .. K
    BY <1>1, <1>4, <1>5, <2>1
  <2>3. k \in Nat /\ k >= 1 /\ k <= L - (n + 1) + 1
    BY <2>2
  <2>4. k \in 1 .. L - (n + 1) + 1 /\ n + 1 + k - 1 \in 1 .. L
    BY <2>2, <2>3
  <2>. QED BY <2>1, <2>4
<1>. QED BY <1>1, <1>4, <1>6 DEF HasOnly

LEMMA DropHas ==
  ASSUME NEW q \in Messages, NEW B, NEW r, r = Drop(q, B)
  PROVE  HasOnly(r, q)
<1>1. Len(q) \in Nat /\ DOMAIN q = 1 .. Len(q)
  BY LenProperties DEF Messages
<1>2. PICK S : S = {k \in DOMAIN q : ~IsCurrent(q[k].epoch, B)}
  OBVIOUS
<1>3. PICK n : n = Cardinality(S)
  OBVIOUS
<1>4. n \in Nat
  <2>1. IsFiniteSet(1 .. Len(q))
    BY <1>1, FS_Interval
  <2>2. S \subseteq 1 .. Len(q)
    BY <1>1, <1>2
  <2>3. IsFiniteSet(S)
    BY <2>1, <2>2, FS_Subset
  <2>. QED BY <1>3, <2>3, FS_CardinalityType
<1>5. r = SubSeq(q, n + 1, Len(q))
  BY <1>2, <1>3 DEF Drop
<1>. QED BY <1>4, <1>5, SubSeqHas

LEMMA DeliveredAt ==
  ASSUME NEW X, NEW W, NEW i \in Mon, NEW j \in Mon
  PROVE  Delivered(X, W)[i][j] = Drop(X[i][j], W[j])
BY DEF Delivered

(* What is under way when m is done with its handler. *)
LEMMA MailAfter ==
  ASSUME NEW m \in Mon, NEW d \in Contexts, NEW queues \in [Mon -> Queues],
         net' = Deliverable([queues EXCEPT ![m] = [j \in Mon |-> queues[m][j] \o d.out[j]]])
  PROVE  Mail(net') \subseteq Mail(queues) \union Posted(m, d)
<1>1. PICK X : X = [queues EXCEPT ![m] = [j \in Mon |-> queues[m][j] \o d.out[j]]]
  OBVIOUS
<1>2. d.out \in [Mon -> Messages] /\ \A i, j \in Mon : queues[i][j] \in Messages
  BY ContextTypes DEF Queues
<1>3. /\ \A j \in Mon : X[m][j] = queues[m][j] \o d.out[j]
      /\ \A i \in Mon \ {m} : X[i] = queues[i]
  BY <1>1
<1>4. net' = Deliverable(X)
  BY <1>1
<1>5. X \in [Mon -> Queues]
  <2>1. \A j \in Mon : queues[m][j] \o d.out[j] \in Messages
    BY <1>2, ConcatProperties DEF Messages
  <2>. QED BY <1>1, <2>1 DEF Queues
<1>6. PICK W : W = [j \in Mon |-> [epoch |-> epoch'[j], role |-> role'[j]]]
  OBVIOUS
<1>7. net' = Delivered(X, W)
  <2>1. \A j \in Mon : W[j].epoch = epoch'[j] /\ W[j].role = role'[j]
    BY <1>6
  <2>. QED BY <1>4, <1>5, <2>1, DeliverableIs
<1>8. ASSUME NEW i \in Mon, NEW j \in Mon, NEW k \in DOMAIN net'[i][j]
      PROVE  \/ \E l \in DOMAIN queues[i][j] : net'[i][j][k] = queues[i][j][l]
             \/ i = m /\ \E l \in DOMAIN d.out[j] : net'[i][j][k] = d.out[j][l]
  <2>1. PICK q : q = X[i][j]
    OBVIOUS
  <2>2. PICK r : r = Drop(q, W[j])
    OBVIOUS
  <2>3. q \in Messages
    BY <1>5, <2>1 DEF Queues
  <2>4. net'[i][j] = r
    BY <1>7, <2>1, <2>2, DeliveredAt
  <2>5. \E l \in DOMAIN q : r[k] = q[l]
    <3>1. HasOnly(r, q)
      BY <2>2, <2>3, DropHas
    <3>. QED BY <2>4, <3>1 DEF HasOnly
  <2>6. CASE i # m
    <3>1. q = queues[i][j] /\ q \in Messages
      BY <1>2, <1>3, <2>1, <2>6
    <3>. QED BY <2>4, <2>5, <3>1
  <2>7. CASE i = m
    <3>1. PICK u, w : u = queues[m][j] /\ w = d.out[j]
      OBVIOUS
    <3>2. u \in Seq(LooseMessage) /\ w \in Seq(LooseMessage) /\ q = u \o w
      BY <1>2, <1>3, <2>1, <2>7, <3>1 DEF Messages
    <3>3. /\ q \in Seq(LooseMessage) /\ Len(q) = Len(u) + Len(w)
          /\ \A l \in 1 .. Len(u) + Len(w) : q[l] = IF l <= Len(u) THEN u[l] ELSE w[l - Len(u)]
      BY <3>2, ConcatProperties
    <3>4. DOMAIN q = 1 .. Len(q) /\ DOMAIN u = 1 .. Len(u) /\ DOMAIN w = 1 .. Len(w)
          /\ Len(u) \in Nat /\ Len(w) \in Nat
      BY <3>2, <3>3, LenProperties
    <3>5. PICK l \in DOMAIN q : r[k] = q[l]
      BY <2>5
    <3>6. (l \in DOMAIN u /\ q[l] = u[l]) \/ (l - Len(u) \in DOMAIN w /\ q[l] = w[l - Len(u)])
      BY <3>3, <3>4, <3>5
    <3>. QED BY <2>4, <2>7, <3>1, <3>5, <3>6
  <2>. QED BY <2>6, <2>7
<1>9. ASSUME NEW z \in Mail(net') PROVE z \in Mail(queues) \union Posted(m, d)
  <2>1. PICK i, j : i = z[1] /\ j = z[2]
    OBVIOUS
  <2>2. z \in Parcels /\ i \in Mon /\ j \in Mon /\ \E k \in DOMAIN net'[i][j] : z[3] = net'[i][j][k]
    BY <2>1 DEF Mail, Parcels
  <2>3. PICK k \in DOMAIN net'[i][j] : z[3] = net'[i][j][k]
    BY <2>2
  <2>4. \/ \E l \in DOMAIN queues[i][j] : net'[i][j][k] = queues[i][j][l]
        \/ i = m /\ \E l \in DOMAIN d.out[j] : net'[i][j][k] = d.out[j][l]
    BY <1>8, <2>2, <2>3
  <2>. QED BY <2>1, <2>2, <2>3, <2>4 DEF Mail, Posted
<1>. QED BY <1>9

(* The end of a handler. *)
LEMMA LawEnds ==
  ASSUME NEW m \in Mon, NEW d, NEW S, NEW V, NEW Z, NEW ack, NEW queues \in [Mon -> Queues], NEW Y,
         Law(m, d, S, V, Z, Mail(queues), ack), Y \in [Mon -> SUBSET Mon],
         WorldOf(epoch', role', px', Y) = Now(m, d, S, Z),
         net' = Deliverable([queues EXCEPT ![m] = [j \in Mon |-> queues[m][j] \o d.out[j]]])
  PROVE  Ruled(V, Y, epoch', role', px', net', ack)
<1>1. d \in Contexts
  BY DEF Law
<1>2. Mail(net') \subseteq Mail(queues) \union Posted(m, d)
  BY <1>1, MailAfter
<1>3. PICK W2, M, M2 : W2 = Now(m, d, S, Z) /\ M = Mail(queues) \union Posted(m, d) /\ M2 = Mail(net')
  OBVIOUS
<1>4. Lawful(V, W2, M, ack) /\ M2 \subseteq M
  BY <1>2, <1>3 DEF Law
<1>5. Lawful(V, W2, M2, ack)
  BY <1>4 DEF Lawful
<1>. QED BY <1>3, <1>5 DEF Ruled

(* m finishes a handler that left everything in order. *)
LEMMA FinishLaw ==
  ASSUME NEW m \in Mon, NEW d, NEW S, NEW V, NEW Y, NEW Z, NEW queues \in [Mon -> Queues], NEW ack,
         Shaped(epoch, role, px, net), Y \in [Mon -> SUBSET Mon], Z = WorldOf(epoch, role, px, Y),
         Law(m, d, S, V, Z, Mail(queues), ack), Finish(m, d, queues), px'[m].state # "aborted"
  PROVE  \E Y2 : Ruled(V, Y2, epoch', role', px', net', ack)
<1>1. d \in Contexts /\ S \in SUBSET Mon /\ Z \in Worlds /\ d.s \in LooseState
  BY ContextTypes DEF Law
<1>2. px' = [px EXCEPT ![m] = Store(m, d)] /\ epoch' = [epoch EXCEPT ![m] = d.epoch]
      /\ role' = [role EXCEPT ![m] = d.role]
      /\ net' = Deliverable([queues EXCEPT ![m] = [j \in Mon |-> queues[m][j] \o d.out[j]]])
  BY DEF Finish
<1>3. Store(m, d) = d.s
  <2>1. px'[m] = Store(m, d)
    BY <1>2 DEF Shaped
  <2>2. [d.s EXCEPT !.state = "aborted"].state = "aborted"
    BY <1>1 DEF LooseState
  <2>. QED BY <2>1, <2>2 DEF Store
<1>4. PICK Y2 : Y2 = [Y EXCEPT ![m] = S]
  OBVIOUS
<1>5. Y2 \in [Mon -> SUBSET Mon] /\ Y2[m] = S /\ \A q \in Mon \ {m} : Y2[q] = Y[q]
  BY <1>1, <1>4
<1>6. /\ px'[m] = d.s /\ epoch'[m] = d.epoch /\ role'[m] = d.role
      /\ \A q \in Mon \ {m} : px'[q] = px[q] /\ epoch'[q] = epoch[q] /\ role'[q] = role[q]
  BY <1>2, <1>3 DEF Shaped
<1>7. PICK W2 : W2 = WorldOf(epoch', role', px', Y2)
  OBVIOUS
<1>8. W2[m] = NodeOf(d, S) /\ \A q \in Mon \ {m} : W2[q] = Z[q]
  BY <1>5, <1>6, <1>7 DEF WorldOf, NodeOf
<1>9. W2 = Now(m, d, S, Z)
  <2>1. W2 = [q \in Mon |-> W2[q]]
    BY <1>7 DEF WorldOf
  <2>. QED BY <1>1, <1>8, <2>1 DEF Now, Worlds
<1>10. Ruled(V, Y2, epoch', role', px', net', ack)
  <2>1. WorldOf(epoch', role', px', Y2) = Now(m, d, S, Z)
    BY <1>7, <1>9
  <2>2. PICK M : M = Mail(queues)
    OBVIOUS
  <2>. QED BY <1>2, <1>5, <2>1, LawEnds
<1>. QED BY <1>10

-----------------------------------------------------------------------------
(* The actions *)

VInv == \E V, Y : Ruled(V, Y, epoch, role, px, net, acked)
Rules == \E V, Y : Ruled(V, Y, epoch', role', px', net', acked')

(* What the handlers of m start from: T and W are the sessions, Y and Z the votes. *)
Ready(m, T, W, I, Y, V, Z) ==
  /\ Fine(epoch, role, px, net) /\ World(T, W) /\ I = Column(net, m)
  /\ Starts(m, Here(m), T[m], W, I)
  /\ Ruled(V, Y, epoch, role, px, net, acked) /\ Z = WorldOf(epoch, role, px, Y)

ReadyIs(m, T, W, I, Y, V, Z, c) ==
  /\ Sound(m, px[m], c, T[m], W, net[m], I) /\ Silent(c) /\ W \in Worlds /\ I \in Queues
  /\ net \in [Mon -> Queues] /\ net[m] \in Queues /\ I[m] = <<>>
  /\ \A q \in Mon : W[q].s = px[q] /\ Z[q].s = px[q]
  /\ c \in Contexts /\ c.ok /\ c.epoch \in Nat /\ c.epoch = epoch[m] /\ c.s = px[m] /\ c.role = role[m]
  /\ T[m] \in SUBSET Mon /\ Local(m, NodeOf(c, T[m]))
  /\ Shaped(epoch, role, px, net) /\ Y \in [Mon -> SUBSET Mon]
  /\ Law(m, c, Y[m], V, Z, Mail(net), acked)

LEMMA ReadyFacts ==
  ASSUME NEW m \in Mon, NEW T, NEW W, NEW I, NEW Y, NEW V, NEW Z, Ready(m, T, W, I, Y, V, Z),
         NEW c, c = Here(m)
  PROVE  ReadyIs(m, T, W, I, Y, V, Z, c)
<1>1. Starts(m, c, T[m], W, I) /\ Shaped(epoch, role, px, net)
  BY DEF Ready, Fine
<1>2. /\ Sound(m, px[m], c, T[m], W, net[m], I) /\ Silent(c) /\ W \in Worlds /\ I \in Queues
      /\ net[m] \in Queues /\ I[m] = <<>>
      /\ c.s = px[m] /\ c.role = role[m] /\ c.epoch = epoch[m]
  BY <1>1 DEF Starts
<1>3. c \in Contexts /\ c.ok /\ T[m] \in SUBSET Mon /\ Local(m, NodeOf(c, T[m])) /\ c.epoch \in Nat
  BY <1>2, ContextTypes DEF Sound
<1>4. net \in [Mon -> Queues] /\ Y \in [Mon -> SUBSET Mon]
  BY <1>1 DEF Shaped, Ready, Ruled
<1>5. Law(m, c, Y[m], V, Z, Mail(net), acked) /\ \A q \in Mon : Z[q].s = px[q]
  BY <1>1, LawStarts DEF Ready
<1>6. ASSUME NEW q \in Mon PROVE W[q].s = px[q]
  BY DEF Ready, World, WorldOf
<1>. QED BY <1>1, <1>2, <1>3, <1>4, <1>5, <1>6 DEF ReadyIs

LEMMA LawfulFinish ==
  ASSUME NEW m \in Mon, NEW T, NEW W, NEW I, NEW Y, NEW V, NEW Z, Ready(m, T, W, I, Y, V, Z),
         NEW d, NEW S, NEW queues \in [Mon -> Queues], Lawfully(m, d, S, Z, Mail(queues), acked'),
         Finish(m, d, queues), px'[m].state # "aborted"
  PROVE  Rules
<1>1. PICK V2 : Law(m, d, S, V2, Z, Mail(queues), acked')
  BY DEF Lawfully
<1>2. Shaped(epoch, role, px, net) /\ Y \in [Mon -> SUBSET Mon] /\ Z = WorldOf(epoch, role, px, Y)
  BY DEF Ready, Fine, Ruled
<1>3. PICK ack : ack = acked'
  OBVIOUS
<1>4. \E Y2 : Ruled(V2, Y2, epoch', role', px', net', ack)
  BY <1>1, <1>2, <1>3, FinishLaw
<1>. QED BY <1>3, <1>4 DEF Rules

(* m leaves its quorum. *)
LEMMA LawfulLeave ==
  ASSUME NEW m \in Mon, NEW T, NEW W, NEW I, NEW Y, NEW V, NEW Z, Ready(m, T, W, I, Y, V, Z),
         NEW d, NEW queues \in [Mon -> Queues], Mail(queues) \subseteq Mail(net),
         Switches(m, Here(m), d), Finish(m, d, queues), acked' = acked, px'[m].state # "aborted"
  PROVE  Rules
<1>1. PICK c : c = Here(m)
  OBVIOUS
<1>2. ReadyIs(m, T, W, I, Y, V, Z, c)
  BY <1>1, ReadyFacts
<1>3. Law(m, c, Y[m], V, Z, Mail(net), acked)
  BY <1>2 DEF ReadyIs
<1>4. Law(m, d, Y[m], V, Z, Mail(queues), acked)
  BY <1>1, <1>3, LawSwitch
<1>5. Lawfully(m, d, Y[m], Z, Mail(queues), acked')
  BY <1>4 DEF Lawfully
<1>. QED BY <1>5, LawfulFinish

LEMMA LawfulTimeout ==
  ASSUME NEW m \in Mon, NEW T, NEW W, NEW I, NEW Y, NEW V, NEW Z, Ready(m, T, W, I, Y, V, Z),
         NEW t \in Timer \ {"lease_renew"}, Timeout(m, t), px'[m].state # "aborted"
  PROVE  Rules
<1>1. PICK c : c = Here(m)
  OBVIOUS
<1>2. /\ c \in Contexts /\ c.epoch \in Nat /\ c.epoch = epoch[m] /\ net \in [Mon -> Queues]
  <2>1. ReadyIs(m, T, W, I, Y, V, Z, c)
    BY <1>1, ReadyFacts
  <2>. QED BY <2>1 DEF ReadyIs
<1>3. TimeoutAllowed(m, t)
  BY TimerMayFire DEF Timeout, Ready
<1>4. PICK d : d = LeaveQuorum(Cancel(Check(Here(m), TimeoutAllowed(m, t)), t), epoch[m])
  OBVIOUS
<1>5. Finish(m, d, net) /\ acked' = acked
  BY <1>4, Zenon DEF Timeout
<1>6. PICK P : P = TimeoutAllowed(m, t)
  OBVIOUS
<1>7. P \in BOOLEAN /\ P
  BY <1>3, <1>6 DEF TimeoutAllowed
<1>8. TimedOut(c, t, P, c.epoch, d)
  BY <1>1, <1>2, <1>4, <1>6 DEF TimedOut
<1>9. LeaveDoes(c, c.epoch, d)
  BY <1>2, <1>7, <1>8, TimeoutIs
<1>10. Switches(m, c, d)
  <2>1. PICK e : e = c.epoch
    OBVIOUS
  <2>2. e \in Nat /\ c.epoch <= e /\ LeaveDoes(c, e, d)
    BY <1>2, <1>9, <2>1
  <2>. QED BY <1>2, <2>2, LeaveSwitches
<1>. QED BY <1>1, <1>2, <1>5, <1>10, LawfulLeave

LEMMA LawfulCrash ==
  ASSUME NEW m \in Mon, NEW T, NEW W, NEW I, NEW Y, NEW V, NEW Z, Ready(m, T, W, I, Y, V, Z),
         Crash(m), px'[m].state # "aborted"
  PROVE  Rules
<1>1. PICK c : c = Here(m)
  OBVIOUS
<1>2. /\ c \in Contexts /\ c.epoch = epoch[m] /\ c.s = px[m] /\ net \in [Mon -> Queues]
      /\ T[m] \in SUBSET Mon /\ Local(m, NodeOf(c, T[m]))
  <2>1. ReadyIs(m, T, W, I, Y, V, Z, c)
    BY <1>1, ReadyFacts
  <2>. QED BY <2>1 DEF ReadyIs
<1>3. PICK applied \in IF Writing(m) THEN BOOLEAN ELSE {FALSE} :
        LET g == LeaveQuorum(Here(m), epoch[m])
        IN  Finish(m, [g EXCEPT !.s = [g.s EXCEPT
                         !.accepted_pn = g.s.stored_pn,
                         !.last_committed = IF applied THEN @ + 1 ELSE @,
                         !.timers = [t \in Timer |-> 0]]],
                   net)
  BY Zenon DEF Crash
<1>4. PICK d : Crashed(c, applied, c.epoch, d)
  BY DEF Crashed
<1>5. Finish(m, d, net) /\ acked' = acked
  <2>1. Finish(m, d, net)
    BY <1>1, <1>2, <1>3, <1>4, Zenon DEF Crashed
  <2>2. acked' = acked
    BY Zenon DEF Crash
  <2>. QED BY <2>1, <2>2
<1>6. applied \in BOOLEAN /\ (applied => c.s.state \in InWriting)
  BY <1>2, <1>3 DEF Writing, InWriting
<1>7. Switches(m, c, d)
  BY <1>2, <1>4, <1>6, CrashSwitches
<1>. QED BY <1>1, <1>2, <1>5, <1>7, LawfulLeave

LEMMA LawfulRenew ==
  ASSUME NEW m \in Mon, NEW T, NEW W, NEW I, NEW Y, NEW V, NEW Z, Ready(m, T, W, I, Y, V, Z),
         LeaseRenew(m), px'[m].state # "aborted"
  PROVE  Rules
<1>1. PICK c : c = Here(m)
  OBVIOUS
<1>2. /\ c \in Contexts /\ c.s = px[m] /\ c.role = role[m] /\ net \in [Mon -> Queues]
      /\ T[m] \in SUBSET Mon /\ Local(m, NodeOf(c, T[m])) /\ Law(m, c, Y[m], V, Z, Mail(net), acked)
  <2>1. ReadyIs(m, T, W, I, Y, V, Z, c)
    BY <1>1, ReadyFacts
  <2>. QED BY <2>1 DEF ReadyIs
<1>3. PICK d : d = ExtendLease(Cancel(c, "lease_renew"), m)
  OBVIOUS
<1>4. Finish(m, d, net) /\ acked' = acked
  BY <1>1, <1>3 DEF LeaseRenew
<1>5. c.role = "leader" /\ c.s.state = "active"
  <2>1. "lease_renew" \in Timer /\ px[m].timers["lease_renew"] > 0
    BY DEF Timer, LeaseRenew
  <2>2. role[m] = "leader" /\ px[m].state = "active"
    BY <2>1, TimerMayFire DEF Ready
  <2>. QED BY <1>2, <2>2
<1>6. c.s.quorum \in SUBSET Mon
  BY <1>2, <1>5, LeaderFacts
<1>7. Law(m, d, Y[m], V, Z, Mail(net), acked)
  BY <1>2, <1>3, <1>5, <1>6, LawRenew
<1>8. Lawfully(m, d, Y[m], Z, Mail(net), acked')
  BY <1>4, <1>7 DEF Lawfully
<1>. QED BY <1>2, <1>4, <1>8, LawfulFinish

LEMMA LawfulPropose ==
  ASSUME NEW m \in Mon, NEW T, NEW W, NEW I, NEW Y, NEW V, NEW Z, Ready(m, T, W, I, Y, V, Z),
         Propose(m), px'[m].state # "aborted", SpentOK
  PROVE  Rules
<1>1. PICK c : c = Here(m)
  OBVIOUS
<1>2. c.role = "leader" /\ net \in [Mon -> Queues] /\ Law(m, c, Y[m], V, Z, Mail(net), acked)
  <2>1. ReadyIs(m, T, W, I, Y, V, Z, c)
    BY <1>1, ReadyFacts
  <2>. QED BY <2>1 DEF ReadyIs, Propose
<1>3. PICK o : o = spent["op"] + 1
  OBVIOUS
<1>4. o \in Operation
  BY <1>3, MonTypes DEF Propose, Spend, SpentOK, Operation
<1>5. PICK d : NewOperation(c, m, o, d)
  BY DEF NewOperation
<1>6. Finish(m, d, net) /\ acked' = acked
  <2>1. Finish(m, d, net)
    BY <1>1, <1>3, <1>5, Zenon DEF Propose, NewOperation
  <2>. QED BY <2>1 DEF Propose
<1>7. d.s.pending_v <= MaxOp
  BY <1>6 DEF Finish
<1>8. Lawfully(m, d, Y[m], Z, Mail(net), acked)
  BY <1>2, <1>4, <1>5, <1>7, LawNewOperation
<1>. QED BY <1>2, <1>6, <1>8, LawfulFinish

LEMMA LawfulCommitFinish ==
  ASSUME NEW m \in Mon, NEW T, NEW W, NEW I, NEW Y, NEW V, NEW Z, Ready(m, T, W, I, Y, V, Z),
         CommitFinish(m), px'[m].state # "aborted"
  PROVE  Rules
<1>1. PICK c : c = Here(m)
  OBVIOUS
<1>2. /\ c \in Contexts /\ c.ok /\ c.s = px[m] /\ c.role = role[m] /\ net \in [Mon -> Queues]
      /\ T[m] \in SUBSET Mon /\ Local(m, NodeOf(c, T[m])) /\ Law(m, c, Y[m], V, Z, Mail(net), acked)
  <2>1. ReadyIs(m, T, W, I, Y, V, Z, c)
    BY <1>1, ReadyFacts
  <2>. QED BY <2>1 DEF ReadyIs
<1>3. PICK d : d = CommitFinishHandler(c, m)
  OBVIOUS
<1>4. Finish(m, d, net) /\ acked' = acked \union c.s.committing /\ c.s.state \in InWriting
  BY <1>1, <1>2, <1>3 DEF CommitFinish, Writing, InWriting
<1>5. d.s.pending_v <= MaxOp
  BY <1>4 DEF Finish
<1>6. Committing(m, c, c.s.last_committed + 1)
  BY <1>2, <1>4, CommittingIs
<1>7. Lawfully(m, d, Y[m], Z, Mail(net), acked \union c.s.committing)
  BY <1>2, <1>3, <1>5, <1>6, LawCommitFinish
<1>. QED BY <1>2, <1>4, <1>7, LawfulFinish

(* Tail without its equation: what one queue has of another's messages. *)
Shorter(D, D2) ==
  /\ D2 \in Messages /\ 1 \in DOMAIN D /\ D[1] \in LooseMessage
  /\ DOMAIN D2 = 1 .. Len(D2) /\ Len(D2) \in Nat
  /\ \A k \in DOMAIN D2 : k + 1 \in DOMAIN D /\ D2[k] = D[k + 1] /\ k \in Nat

LEMMA TailShorter ==
  ASSUME NEW D \in Messages, D # <<>>
  PROVE  Shorter(D, Tail(D))
<1>1. PICK D2 : D2 = Tail(D)
  OBVIOUS
<1>2. /\ D2 \in Messages /\ 1 \in DOMAIN D /\ D[1] \in LooseMessage
      /\ DOMAIN D2 = 1 .. Len(D2) /\ Len(D2) \in Nat
  BY <1>1, TailFacts
<1>3. ASSUME NEW k \in DOMAIN D2 PROVE k + 1 \in DOMAIN D /\ D2[k] = D[k + 1] /\ k \in Nat
  BY <1>1, TailFacts
<1>. QED BY <1>1, <1>2, <1>3 DEF Shorter

(* Taking the first message from i to m. *)
LEMMA MailTaken ==
  ASSUME NEW m \in Mon, NEW i \in Mon \ {m}, net \in [Mon -> Queues], net[i][m] # <<>>,
         NEW X, X = Without(i, m)
  PROVE  /\ X \in [Mon -> Queues] /\ Mail(X) \subseteq Mail(net)
         /\ <<i, m, net[i][m][1]>> \in Mail(net)
         /\ \A x \in LooseMessage : <<m, i, x>> \in Mail(X) => \E k \in DOMAIN net[m][i] : x = net[m][i][k]
         /\ \A x \in LooseMessage : <<i, m, x>> \in Mail(X) =>
              \E k \in DOMAIN net[i][m] : k > 1 /\ x = net[i][m][k]
<1>1. PICK q, r : q = net[i][m] /\ r = Tail(q)
  OBVIOUS
<1>2. q \in Messages /\ q # <<>>
  BY <1>1 DEF Queues
<1>3. /\ r \in Messages /\ 1 \in DOMAIN q /\ q[1] \in LooseMessage
      /\ \A k \in DOMAIN r : k + 1 \in DOMAIN q /\ r[k] = q[k + 1] /\ k \in Nat /\ k >= 1
  <2>1. Shorter(q, r)
    BY <1>1, <1>2, TailShorter
  <2>2. \A k \in 1 .. Len(r) : k >= 1
    OBVIOUS
  <2>. QED BY <2>1, <2>2 DEF Shorter
<1>4. X = [net EXCEPT ![i] = [net[i] EXCEPT ![m] = r]]
  BY <1>1 DEF Without
<1>5. /\ X \in [Mon -> Queues] /\ X[i][m] = r /\ \A k \in Mon \ {i} : X[k] = net[k]
      /\ \A j \in Mon \ {m} : X[i][j] = net[i][j]
  BY <1>3, <1>4 DEF Queues
<1>6. ASSUME NEW a \in Mon, NEW b \in Mon, NEW x \in LooseMessage, <<a, b, x>> \in Mail(X)
      PROVE  \/ a = i /\ b = m /\ \E k \in DOMAIN q : k > 1 /\ x = q[k]
             \/ ~(a = i /\ b = m) /\ \E k \in DOMAIN net[a][b] : x = net[a][b][k]
  <2>1. PICK k \in DOMAIN X[a][b] : x = X[a][b][k]
    BY <1>6 DEF Mail
  <2>2. CASE a = i /\ b = m
    <3>1. k \in DOMAIN r /\ x = r[k]
      BY <1>5, <2>1, <2>2
    <3>2. k + 1 \in DOMAIN q /\ x = q[k + 1] /\ k + 1 > 1
      BY <1>3, <3>1
    <3>. QED BY <2>2, <3>2
  <2>3. CASE ~(a = i /\ b = m)
    <3>1. X[a][b] = net[a][b]
      BY <1>5, <2>3
    <3>. QED BY <2>1, <2>3, <3>1
  <2>. QED BY <2>2, <2>3
<1>7. Mail(X) \subseteq Mail(net)
  <2>1. ASSUME NEW z \in Mail(X) PROVE z \in Mail(net)
    <3>1. PICK a, b, x : a = z[1] /\ b = z[2] /\ x = z[3]
      OBVIOUS
    <3>2. z \in Parcels /\ a \in Mon /\ b \in Mon /\ x \in LooseMessage /\ z = <<a, b, x>>
      BY <3>1 DEF Mail, Parcels
    <3>3. \E k \in DOMAIN net[a][b] : x = net[a][b][k]
      BY <1>1, <1>6, <2>1, <3>2
    <3>. QED BY <3>1, <3>2, <3>3 DEF Mail
  <2>. QED BY <2>1
<1>8. <<i, m, q[1]>> \in Mail(net)
  <2>1. <<i, m, q[1]>> \in Parcels
    BY <1>3 DEF Parcels
  <2>. QED BY <1>1, <1>3, <2>1 DEF Mail
<1>. QED BY <1>1, <1>5, <1>6, <1>7, <1>8

LEMMA LawfulDeliver ==
  ASSUME NEW m \in Mon, NEW i \in Mon, NEW T, NEW W, NEW I, NEW Y, NEW V, NEW Z,
         Ready(m, T, W, I, Y, V, Z), Deliver(i, m), px'[m].state # "aborted", KeepsPromise
  PROVE  Rules
<1>1. PICK c : c = Here(m)
  OBVIOUS
<1>2. /\ Sound(m, px[m], c, T[m], W, net[m], I) /\ Silent(c) /\ W \in Worlds /\ I \in Queues
      /\ net \in [Mon -> Queues] /\ net[m] \in Queues /\ I[m] = <<>>
      /\ \A q \in Mon : W[q].s = px[q] /\ Z[q].s = px[q]
      /\ c \in Contexts /\ c.ok /\ c.epoch \in Nat /\ c.epoch = epoch[m] /\ c.s = px[m]
      /\ Law(m, c, Y[m], V, Z, Mail(net), acked) /\ Shaped(epoch, role, px, net)
  <2>1. ReadyIs(m, T, W, I, Y, V, Z, c)
    BY <1>1, ReadyFacts
  <2>. QED BY <2>1 DEF ReadyIs
<1>3. I[i] = net[i][m] /\ net[i][m] # <<>> /\ acked' = acked
  BY DEF Deliver, Column, Ready
<1>4. i \in Mon \ {m}
  BY <1>2, <1>3
<1>5. PICK msg : msg = net[i][m][1]
  OBVIOUS
<1>6. msg = Head(net[i][m]) /\ Heading(I, i, msg, msg.op)
  <2>1. PICK q : q = net[i][m]
    OBVIOUS
  <2>2. q \in Messages /\ q # <<>>
    BY <1>2, <1>3, <2>1 DEF Queues
  <2>3. Head(q) = q[1]
    BY <2>2, TailFacts
  <2>. QED BY <1>3, <1>5, <2>1, <2>3 DEF Heading
<1>7. PICK X : X = Without(i, m)
  OBVIOUS
<1>8. /\ X \in [Mon -> Queues] /\ Mail(X) \subseteq Mail(net) /\ <<i, m, msg>> \in Mail(net)
      /\ \A x \in LooseMessage : <<m, i, x>> \in Mail(X) => \E k \in DOMAIN net[m][i] : x = net[m][i][k]
      /\ \A x \in LooseMessage : <<i, m, x>> \in Mail(X) =>
           \E k \in DOMAIN net[i][m] : k > 1 /\ x = net[i][m][k]
  BY <1>2, <1>3, <1>4, <1>5, <1>7, MailTaken
<1>9. CASE msg.op # "victory"
  <2>1. PICK d : d = Dispatch(c, m, i, msg)
    OBVIOUS
  <2>2. Finish(m, d, X)
    BY <1>1, <1>6, <1>7, <1>9, <2>1, Zenon DEF Deliver
  <2>3. d.s.pending_v <= MaxOp
    BY <2>2 DEF Finish
  <2>4. Dispatched(c, m, i, msg, d)
    BY <1>9, <2>1 DEF Dispatched
  <2>5. Heeds(c, d)
    <3>1. px'[m] = Store(m, d)
      BY <1>2, <2>2 DEF Finish, Shaped
    <3>2. d.s.accepted_pn = px'[m].accepted_pn \/ ~d.ok
      BY <3>1 DEF Store
    <3>3. d.ok
      <4>1. Sound(m, px[m], c, T[m], W, net[m], I) /\ Timed(c.role, c.s) /\ Locals(m, W)
        BY <1>1 DEF Ready, Starts
      <4>2. PICK I1 : Took(I, i, I1)
        BY DEF Took
      <4>3. Stays(m, px[m], c, d, W, net[m], I1)
        BY <1>2, <1>4, <1>6, <2>3, <2>4, <4>1, <4>2, SoundDispatch
      <4>. QED BY <4>3 DEF Stays, Sound
    <3>4. px'[m].accepted_pn > px[m].accepted_pn => px'[m].accepted_pn >= Level(px[m])
      BY DEF KeepsPromise, Promised, Level
    <3>. QED BY <1>2, <3>2, <3>3, <3>4 DEF Heeds
  <2>6. Receives(m, px[m], c, T[m], W, net[m], I, i, msg, Mail(net), Mail(X))
    BY <1>2, <1>3, <1>4, <1>5, <1>8 DEF Receives
  <2>7. Takes(m, px[m], c, T[m], W, net[m], I, i, msg, Mail(net), Mail(X), Y[m], V, Z, acked)
    BY <1>2, <2>6 DEF Takes
  <2>8. PICK Y2 : Lawfully(m, d, Y2, Z, Mail(X), acked)
    BY <2>3, <2>4, <2>5, <2>7, LawDispatch
  <2>. QED BY <1>3, <1>8, <2>2, <2>8, LawfulFinish
<1>10. CASE msg.op = "victory"
  <2>1. Heading(I, i, msg, "victory")
    BY <1>6, <1>10
  <2>2. msg.epoch \in Nat /\ msg.quorum \in SUBSET Mon /\ IsCurrent(msg.epoch, NodeOf(c, T[m]))
    BY <1>2, <1>4, <2>1, VictoryIsEven
  <2>3. PICK d : d = HandleVictory(c, i, msg)
    OBVIOUS
  <2>4. Finish(m, d, X)
    BY <1>1, <1>6, <1>7, <1>10, <2>3, Zenon DEF Deliver
  <2>5. CASE msg.epoch = c.epoch + 1
    <3>1. d = PeonInit([c EXCEPT !.role = "peon", !.epoch = msg.epoch], i, msg.quorum)
      BY <2>3, <2>5 DEF HandleVictory
    <3>2. JoinDoes(c, i, msg.epoch, d)
      BY <1>2, <1>4, <2>2, <3>1, JoinIs
    <3>3. Switches(m, c, d)
      <4>1. PICK e : e = msg.epoch
        OBVIOUS
      <4>2. e \in Nat /\ c.epoch < e /\ JoinDoes(c, i, e, d)
        BY <1>2, <2>2, <2>5, <3>2, <4>1
      <4>. QED BY <1>2, <4>2, JoinSwitches
    <3>. QED BY <1>1, <1>3, <1>8, <2>4, <3>3, LawfulLeave
  <2>6. CASE msg.epoch # c.epoch + 1
    <3>1. PICK e : e = msg.epoch + 1
      OBVIOUS
    <3>2. d = LeaveQuorum(c, e) /\ e \in Nat
      BY <2>2, <2>3, <2>6, <3>1 DEF HandleVictory
    <3>3. LeaveDoes(c, e, d)
      BY <1>2, <3>2, LeaveIs
    <3>4. c.epoch <= e
      <4>1. NodeOf(c, T[m]).epoch = c.epoch
        BY DEF NodeOf
      <4>2. msg.epoch >= c.epoch
        BY <1>2, <2>2, <4>1 DEF IsCurrent
      <4>. QED BY <1>2, <2>2, <3>1, <4>2
    <3>5. Switches(m, c, d)
      BY <1>2, <3>2, <3>3, <3>4, LeaveSwitches
    <3>. QED BY <1>1, <1>3, <1>8, <2>4, <3>5, LawfulLeave
  <2>. QED BY <2>5, <2>6
<1>. QED BY <1>9, <1>10

-----------------------------------------------------------------------------
(* An election *)

(* q leaves its quorum for the epoch e, or stays. *)
Left(A, A2, e) ==
  \/ A2 = A
  \/ A2.role = "out" /\ A.epoch < e /\ A2.epoch = e /\ SameLog(A.s, A2.s)

LEMMA LeftMoves ==
  ASSUME NEW A \in Node, NEW A2 \in Node, NEW e \in Nat, Left(A, A2, e)
  PROVE  Moves(A, A2) /\ Level(A2.s) = Level(A.s)
<1>1. /\ A.epoch \in Nat /\ A2.epoch \in Nat /\ A.s \in LooseState /\ A2.s \in LooseState
      /\ A.s.last_committed \in Nat /\ A2.s.last_committed \in Nat
  <2>1. A.epoch \in Nat /\ A2.epoch \in Nat /\ A.s \in LooseState /\ A2.s \in LooseState
    BY NodeTypes
  <2>. QED BY <2>1, MonTypes DEF LooseState
<1>2. Level(A.s) \in Nat /\ Level(A2.s) \in Nat
  BY <1>1, LevelIs
<1>3. CASE A2 = A
  BY <1>1, <1>2, <1>3 DEF Moves
<1>4. CASE A2.role = "out" /\ A.epoch < e /\ A2.epoch = e /\ SameLog(A.s, A2.s)
  <2>1. Level(A2.s) = Level(A.s) /\ A2.s.last_committed = A.s.last_committed
    BY <1>4 DEF SameLog, Level, Larger
  <2>2. ASSUME NEW i \in Mon, NEW n \in Nat, Steady(A, i, n) PROVE Steady(A2, i, n)
    <3>1. A.epoch >= n
      BY <1>1, <2>2 DEF Steady, Follows, Gone
    <3>2. Gone(A2, n)
      BY <1>1, <1>4, <3>1 DEF Gone
    <3>. QED BY <3>2 DEF Steady
  <2>. QED BY <1>1, <1>2, <1>4, <2>1, <2>2 DEF Moves
<1>. QED BY <1>3, <1>4 DEF Left

LEMMA LawfulLeft ==
  ASSUME NEW V, NEW Z, NEW M, NEW ack, Lawful(V, Z, M, ack), NEW W1 \in Worlds, NEW e \in Nat,
         \A q \in Mon : Left(Z[q], W1[q], e)
  PROVE  Lawful(V, W1, M, ack)
<1>1. V \subseteq Votes /\ Z \in Worlds /\ M \subseteq Parcels
  BY DEF Lawful
<1>2. \A q \in Mon : Z[q] \in Node /\ W1[q] \in Node
  BY <1>1 DEF Worlds
<1>3. ASSUME NEW q \in Mon PROVE Moves(Z[q], W1[q]) /\ Level(W1[q].s) = Level(Z[q].s)
  <2>1. PICK A, A2 : A = Z[q] /\ A2 = W1[q]
    OBVIOUS
  <2>2. A \in Node /\ A2 \in Node /\ Left(A, A2, e)
    BY <1>2, <2>1
  <2>3. Moves(A, A2) /\ Level(A2.s) = Level(A.s)
    BY <2>2, LeftMoves
  <2>. QED BY <2>1, <2>3
<1>4. Turns(V, Z, V, W1)
  BY <1>1, <1>3 DEF Turns
<1>5. NewBallots(V, V, W1)
  BY <1>1, NoVotes
<1>6. ASSUME NEW q \in Mon
      PROVE  \/ W1[q] = Z[q] /\ NoNewVotes(V, V, q)
             \/ Own(V, W1, q, W1[q].s) /\ W1[q].role # "leader"
  <2>1. NoNewVotes(V, V, q)
    BY DEF NoNewVotes
  <2>2. CASE W1[q] = Z[q]
    BY <2>1, <2>2
  <2>3. CASE W1[q].role = "out" /\ SameLog(Z[q].s, W1[q].s)
    <3>1. PICK s, t : s = Z[q].s /\ t = W1[q].s
      OBVIOUS
    <3>2. Own(V, Z, q, s)
      BY <3>1 DEF Lawful
    <3>3. SameStore(s, s)
      BY DEF SameStore, SameNumbers
    <3>4. Own(V, W1, q, s)
      BY <1>4, <2>1, <3>2, <3>3, OwnOn
    <3>5. SameLog(s, t) /\ Level(t) = Level(s)
      BY <1>3, <2>3, <3>1
    <3>6. Own(V, W1, q, t)
      BY <3>4, <3>5 DEF Own, SameLog
    <3>. QED BY <2>3, <3>1, <3>6
  <2>. QED BY <2>2, <2>3 DEF Left
<1>7. InOrderAgain(V, Z, V, W1)
  BY <1>6 DEF InOrderAgain
<1>8. ASSUME NEW i \in Mon, NEW j \in Mon, NEW x \in LooseMessage, <<i, j, x>> \in M
      PROVE  Uncounted(W1, i, j, x)
  <2>1. Carried(V, Z, i, j, x)
    BY <1>8 DEF Lawful
  <2>2. Uncounted(Z, i, j, x)
    BY <2>1 DEF Carried, Uncounted
  <2>3. \A q \in Mon : W1[q] = Z[q] \/ W1[q].role = "out"
    BY DEF Left
  <2>. QED BY <2>2, <2>3 DEF Uncounted
<1>9. Exchanged(M, V, W1, M)
  BY <1>1, <1>8 DEF Exchanged
<1>. QED BY <1>4, <1>5, <1>7, <1>9, StillLawful

(* The winner takes its own view of those who left: it is out, in epoch f. *)
LEMMA LawWinner ==
  ASSUME NEW m \in Mon, NEW V, NEW W1, NEW Q, NEW ack, Lawful(V, W1, Q, ack),
         NEW c, c = Context(W1[m].s, "out", W1[m].epoch), W1[m].role = "out"
  PROVE  /\ Law(m, c, W1[m].T, V, W1, Q, ack) /\ c \in Contexts /\ c.out = [j \in Mon |-> <<>>]
         /\ c.s = W1[m].s /\ c.role = "out" /\ c.epoch = W1[m].epoch
<1>1. W1 \in Worlds /\ Q \subseteq Parcels
  BY DEF Lawful
<1>2. PICK A : A = W1[m]
  OBVIOUS
<1>3. A \in Node /\ A.epoch \in Nat /\ A.role = "out" /\ A.T \in SUBSET Mon /\ A.s \in LooseState
  <2>1. A \in Node
    BY <1>1, <1>2 DEF Worlds
  <2>. QED BY <1>2, <2>1, NodeTypes
<1>4. /\ c.s = A.s /\ c.role = "out" /\ c.epoch = A.epoch /\ c.out = [j \in Mon |-> <<>>] /\ c.ok
      /\ c = [s |-> A.s, role |-> "out", epoch |-> A.epoch, out |-> [j \in Mon |-> <<>>], ok |-> TRUE]
  BY <1>2 DEF Context
<1>5. c \in Contexts
  <2>1. <<>> \in Messages
    BY DEF Messages
  <2>2. [j \in Mon |-> <<>>] \in [Mon -> Messages]
    BY <2>1
  <2>. QED BY <1>3, <1>4, <2>2 DEF Contexts
<1>6. NodeOf(c, A.T) = A
  BY <1>3, <1>4 DEF NodeOf, Node
<1>7. Now(m, c, A.T, W1) = W1
  BY <1>1, <1>2, <1>6 DEF Now, Worlds
<1>8. Posted(m, c) = {}
  <2>1. ASSUME NEW z \in Posted(m, c) PROVE FALSE
    <3>1. z \in Parcels /\ \E k \in DOMAIN c.out[z[2]] : TRUE
      BY <2>1 DEF Posted
    <3>2. z[2] \in Mon
      BY <3>1 DEF Parcels
    <3>3. c.out[z[2]] = <<>>
      BY <1>4, <3>2
    <3>. QED BY <3>1, <3>3
  <2>. QED BY <2>1
<1>9. Law(m, c, A.T, V, W1, Q, ack)
  <2>1. Lawful(V, Now(m, c, A.T, W1), Q \union Posted(m, c), ack)
    BY <1>7, <1>8
  <2>. QED BY <1>1, <1>3, <1>5, <2>1 DEF Law
<1>. QED BY <1>2, <1>4, <1>5, <1>9

(* The winner announces its victory and collects. *)
LEMMA LawElected ==
  ASSUME NEW m \in Mon, NEW V, NEW W1, NEW R, NEW ack, Lawful(V, W1, R, ack),
         NEW s \in LooseState, NEW e \in Nat, NEW Q \in Majorities, NEW pn, NEW w, ElectDoes(m, s, e, Q, pn, w),
         W1[m].role = "out", e = W1[m].epoch + 1, SameLog(s, W1[m].s), Logged(W1[m].s), m \in Q
  PROVE  Law(m, w, {m}, V, W1, R, ack)
<1>1. PICK c, T : c = Context(W1[m].s, "out", W1[m].epoch) /\ T = W1[m].T
  OBVIOUS
<1>2. /\ Law(m, c, T, V, W1, R, ack) /\ c \in Contexts /\ c.out = [j \in Mon |-> <<>>]
      /\ c.s = W1[m].s /\ c.role = "out" /\ c.epoch = W1[m].epoch
  BY <1>1, LawWinner
<1>3. Q \in SUBSET Mon /\ c.epoch \in Nat /\ e = c.epoch + 1 /\ SameLog(s, c.s) /\ Logged(c.s)
  BY <1>2, ContextTypes DEF Majorities
<1>4. PICK x, y, to : x = VictoryMsg(s, e, Q) /\ y = CollectMsg(s, e, pn) /\ to = Q \ {m}
  OBVIOUS
<1>5. pn \in Nat /\ to \in SUBSET (Mon \ {m})
  BY <1>3, <1>4 DEF ElectDoes
<1>6. /\ x \in LooseMessage /\ y \in LooseMessage
      /\ x.op = "victory" /\ y.op = "collect" /\ x.values = NoValues /\ y.values = NoValues
  <2>1. NoValues \in [Version -> Value] /\ s.last_committed \in 0 .. MaxOp
    BY DEF NoValues, Value, NoValue, LooseState
  <2>. QED BY <1>3, <1>4, <1>5, <2>1 DEF VictoryMsg, CollectMsg, LooseMessage
<1>7. PICK O : O = [j \in Mon |-> IF j \in to THEN Append(<<>>, x) ELSE <<>>]
  OBVIOUS
<1>8. O \in [Mon -> Messages]
  <2>1. <<>> \in Messages /\ Append(<<>>, x) \in Messages
    BY <1>6 DEF Messages
  <2>. QED BY <1>7, <2>1
<1>9. PICK v : v = [c EXCEPT !.out = O]
  OBVIOUS
<1>10. v \in Contexts /\ v.s = c.s /\ v.role = c.role /\ v.epoch = c.epoch /\ v.out = O
  BY <1>2, <1>8, <1>9 DEF Contexts
<1>11. ToAll(x) \in [Mon -> LooseMessage] /\ \A j \in Mon : ToAll(x)[j] = x
  BY <1>6 DEF ToAll
<1>12. Sends(c, v, to, ToAll(x))
  BY <1>2, <1>5, <1>7, <1>10, <1>11 DEF Sends
<1>13. SameNode(c, v)
  BY <1>2, <1>10 DEF SameNode, SameStore, SameNumbers
<1>14. ASSUME NEW j \in to PROVE Harmless(V, Now(m, c, T, W1), ToAll(x)[j])
  <2>1. ToAll(x)[j] = x
    BY <1>5, <1>11
  <2>2. \A n \in Version : x.values[n] = NoValue
    BY <1>6 DEF NoValues
  <2>. QED BY <1>6, <2>1, <2>2 DEF Harmless
<1>15. Law(m, v, T, V, W1, R, ack)
  BY <1>2, <1>5, <1>11, <1>12, <1>13, <1>14, LawQuiet
<1>16. AsksWith(m, v, pn, w)
  <2>1. /\ w \in Contexts /\ w.role = "leader" /\ v.role # "peon" /\ w.epoch > v.epoch
    BY <1>2, <1>3, <1>10 DEF ElectDoes
  <2>2. /\ pn \in Nat /\ pn > v.s.last_pn /\ pn > v.s.accepted_pn /\ pn % 100 = m
        /\ w.s.last_pn = pn /\ w.s.accepted_pn = pn
        /\ w.s.last_committed = v.s.last_committed /\ w.s.values = v.s.values
        /\ w.s.pending_pn = v.s.pending_pn
    BY <1>3, <1>10 DEF ElectDoes, SameLog
  <2>3. Finds(v.s, w.s)
    <3>1. PICK u, t : u = v.s /\ t = w.s
      OBVIOUS
    <3>2. Finds(s, t) /\ SameLog(s, u)
      BY <1>3, <1>10, <3>1 DEF ElectDoes
    <3>3. Finds(u, t)
      BY <3>2, SMT DEF Finds, SameLog, PendingPn
    <3>. QED BY <3>1, <3>3
  <2>4. /\ w.s.quorum \in Majorities /\ m \in w.s.quorum /\ w.s.num_last = 1
        /\ w.s.state = "recovering" /\ w.s.committing = NoValue
    BY DEF ElectDoes, Idle
  <2>. QED BY <2>1, <2>2, <2>3, <2>4 DEF AsksWith
<1>17. AsksFor(m, v, w, y)
  <2>1. w.out \in [Mon -> Messages] /\ w.s.quorum = Q
    BY ContextTypes DEF ElectDoes
  <2>2. \A j \in Mon : w.out[j] = IF j \in to THEN Append(Append(<<>>, x), y) ELSE <<>>
    BY <1>4 DEF ElectDoes
  <2>3. \A j \in Mon : ToAll(y)[j] = y
    BY DEF ToAll
  <2>4. \A j \in Mon : w.out[j] = IF j \in to THEN Append(v.out[j], ToAll(y)[j]) ELSE v.out[j]
    BY <1>7, <1>10, <2>2, <2>3
  <2>5. w.out = [j \in Mon |-> IF j \in to THEN Append(v.out[j], ToAll(y)[j]) ELSE v.out[j]]
    BY <2>1, <2>4
  <2>. QED BY <1>4, <1>6, <2>1, <2>5 DEF AsksFor, Sends
<1>18. R \subseteq R /\ Logged(v.s)
  BY <1>3, <1>10
<1>. QED BY <1>15, <1>16, <1>17, <1>18, LawCollect

LEMMA LawfulElect ==
  ASSUME NEW m \in Mon, NEW T, NEW W, NEW I, NEW Y, NEW V, NEW Z, Ready(m, T, W, I, Y, V, Z),
         NEW e \in VictoryEpoch, NEW Q \in Majorities, Elect(m, e, Q)
  PROVE  Rules
<1>1. Fine(epoch, role, px, net) /\ World(T, W)
  BY DEF Ready
<1>2. PICK C, f, pn, w : Elects(m, e, Q, C, f, pn, w)
  BY <1>1, ElectsSo
<1>3. /\ C \in SUBSET Mon /\ f \in Nat /\ f = e - 1 /\ (f + 1) % 2 = 0 /\ (\A q \in C : epoch[q] < f)
      /\ m \in Q /\ (m \notin C => epoch[m] = f)
      /\ ElectDoes(m, px[m], e, Q, pn, w) /\ ElectedIn(m, e, C, w)
  BY <1>2 DEF Elects
<1>4. e \in Nat /\ e = f + 1
  <2>1. e \in Int
    BY BoundAssumption DEF VictoryEpoch
  <2>. QED BY <1>3, <2>1
<1>5. /\ w \in Contexts /\ w.role = "leader" /\ w.epoch = e
  BY <1>3 DEF ElectDoes
<1>6. PICK X1 : X1 = LeftWorld(C, f, T, W)
  OBVIOUS
<1>7. \A q \in C : LeavesFor(q, f, T[q], LeaveQuorum(Here(q), f))
  BY <1>1, <1>3, <1>6, CallersGood
<1>8. X1[m].role = "out" /\ X1[m].epoch = f /\ SameLog(px[m], X1[m].s)
  BY <1>1, <1>3, <1>6, WinnerIsOut
<1>9. PICK W1 : W1 = LeftWorld(C, f, Y, Z)
  OBVIOUS
<1>10. /\ Shaped(epoch, role, px, net) /\ Z = WorldOf(epoch, role, px, Y) /\ Y \in [Mon -> SUBSET Mon]
       /\ Lawful(V, Z, Mail(net), acked) /\ W = WorldOf(epoch, role, px, T) /\ T \in [Mon -> SUBSET Mon]
       /\ Local(m, W[m])
  BY DEF Ready, Fine, Ruled, World, Good
<1>11. /\ Z \in Worlds /\ net \in [Mon -> Queues] /\ px[m] \in LooseState /\ epoch \in [Mon -> Nat]
       /\ \A q \in Mon : Z[q] = [epoch |-> epoch[q], role |-> role[q], s |-> px[q], T |-> Y[q]]
       /\ \A q \in Mon : W[q] = [epoch |-> epoch[q], role |-> role[q], s |-> px[q], T |-> T[q]]
  BY <1>10 DEF Lawful, Shaped, WorldOf
<1>11a. ASSUME NEW q \in Mon
       PROVE  /\ Z[q].epoch = epoch[q] /\ Z[q].role = role[q] /\ Z[q].s = px[q]
              /\ W[q].epoch = epoch[q] /\ W[q].role = role[q] /\ W[q].s = px[q]
  <2>1. PICK A, B : A = Z[q] /\ B = W[q]
    OBVIOUS
  <2>2. A = [epoch |-> epoch[q], role |-> role[q], s |-> px[q], T |-> Y[q]]
    BY <1>11, <2>1
  <2>3. B = [epoch |-> epoch[q], role |-> role[q], s |-> px[q], T |-> T[q]]
    BY <1>11, <2>1
  <2>4. A.epoch = epoch[q] /\ A.role = role[q] /\ A.s = px[q]
    BY <2>2
  <2>5. B.epoch = epoch[q] /\ B.role = role[q] /\ B.s = px[q]
    BY <2>3
  <2>. QED BY <2>1, <2>4, <2>5
<1>12. ASSUME NEW q \in Mon
       PROVE  W1[q] \in Node /\ Left(Z[q], W1[q], f)
  <2>1. CASE q \in C
    <3>1. PICK d : d = LeaveQuorum(Here(q), f)
      OBVIOUS
    <3>2. LeaveDoes(Here(q), f, d)
      BY <1>7, <2>1, <3>1 DEF LeavesFor
    <3>3. d \in Contexts /\ d.role = "out" /\ d.epoch = f /\ SameLog(px[q], d.s)
      BY <3>2 DEF LeaveDoes, Here, Context
    <3>4. W1[q] = NodeOf(d, Y[q]) /\ Y[q] \in SUBSET Mon
      BY <1>9, <1>10, <2>1, <3>1 DEF LeftWorld
    <3>5. W1[q] \in Node /\ W1[q].role = "out" /\ W1[q].epoch = f /\ W1[q].s = d.s
      BY <3>3, <3>4, NodeIs
    <3>6. Z[q].epoch < f /\ Z[q].s = px[q]
      BY <1>3, <1>11a, <2>1
    <3>. QED BY <3>3, <3>5, <3>6 DEF Left
  <2>2. CASE q \notin C
    <3>1. W1[q] = Z[q]
      BY <1>9, <2>2 DEF LeftWorld
    <3>. QED BY <1>11, <3>1 DEF Left, Worlds
  <2>. QED BY <2>1, <2>2
<1>13. W1 \in Worlds
  <2>1. W1 = [q \in Mon |-> W1[q]]
    BY <1>9 DEF LeftWorld
  <2>. QED BY <1>12, <2>1 DEF Worlds
<1>14. Lawful(V, W1, Mail(net), acked)
  BY <1>3, <1>10, <1>12, <1>13, LawfulLeft
<1>15. W1[m].role = "out" /\ W1[m].epoch = f /\ SameLog(px[m], W1[m].s)
  <2>1. CASE m \in C
    <3>1. X1[m] = NodeOf(LeaveQuorum(Here(m), f), T[m]) /\ W1[m] = NodeOf(LeaveQuorum(Here(m), f), Y[m])
      BY <1>6, <1>9, <2>1 DEF LeftWorld
    <3>2. W1[m].role = X1[m].role /\ W1[m].epoch = X1[m].epoch /\ W1[m].s = X1[m].s
      BY <3>1 DEF NodeOf
    <3>. QED BY <1>8, <3>2
  <2>2. CASE m \notin C
    <3>1. X1[m] = W[m] /\ W1[m] = Z[m]
      BY <1>6, <1>9, <2>2 DEF LeftWorld
    <3>2. W1[m].role = X1[m].role /\ W1[m].epoch = X1[m].epoch /\ W1[m].s = X1[m].s
      BY <1>11a, <3>1
    <3>. QED BY <1>8, <3>2
  <2>. QED BY <2>1, <2>2
<1>16. Logged(W1[m].s)
  <2>1. PICK s, t : s = px[m] /\ t = W1[m].s
    OBVIOUS
  <2>2. SameLog(s, t) /\ Logged(s)
    BY <1>10, <1>15, <1>11a, <2>1 DEF Local
  <2>3. Logged(t)
    BY <2>2 DEF Logged, SameLog
  <2>. QED BY <2>1, <2>3
<1>17. Law(m, w, {m}, V, W1, Mail(net), acked)
  BY <1>3, <1>4, <1>11, <1>14, <1>15, <1>16, LawElected
<1>18. PICK W2, Y2 : W2 = Now(m, w, {m}, W1) /\ Y2 = [Y EXCEPT ![m] = {m}]
  OBVIOUS
<1>19. /\ Y2 \in [Mon -> SUBSET Mon] /\ Y2[m] = {m} /\ (\A q \in Mon \ {m} : Y2[q] = Y[q])
  BY <1>10, <1>18
<1>20. W2 \in Worlds /\ W2[m] = NodeOf(w, {m}) /\ (\A q \in Mon \ {m} : W2[q] = W1[q])
  <2>1. PICK S : S = {m}
    OBVIOUS
  <2>2. S \in SUBSET Mon
    BY <2>1
  <2>3. /\ Now(m, w, S, W1) \in Worlds /\ Now(m, w, S, W1)[m] = NodeOf(w, S)
        /\ \A q \in Mon \ {m} : Now(m, w, S, W1)[q] = W1[q]
    BY <1>5, <1>13, <2>2, NowIs
  <2>. QED BY <1>18, <2>1, <2>3
<1>21. ASSUME NEW q \in Mon
       PROVE  W2[q] = [epoch |-> epoch'[q], role |-> role'[q], s |-> px'[q], T |-> Y2[q]]
  <2>1. CASE q = m
    <3>1. epoch'[q] = e /\ role'[q] = "leader" /\ px'[q] = w.s
      BY <1>3, <2>1 DEF ElectedIn
    <3>2. W2[m] = [epoch |-> e, role |-> "leader", s |-> w.s, T |-> {m}]
      BY <1>5, <1>20 DEF NodeOf
    <3>. QED BY <1>19, <2>1, <3>1, <3>2
  <2>2. CASE q # m /\ q \in C
    <3>1. epoch'[q] = f /\ role'[q] = "out" /\ px'[q] = LeaveQuorum(Here(q), f).s
      BY <1>3, <2>2 DEF ElectedIn
    <3>2. W1[q] = NodeOf(LeaveQuorum(Here(q), f), Y[q])
      BY <1>9, <2>2 DEF LeftWorld
    <3>3. PICK d : d = LeaveQuorum(Here(q), f)
      OBVIOUS
    <3>4. d.epoch = f /\ d.role = "out"
      BY <1>7, <2>2, <3>3 DEF LeavesFor, LeaveDoes
    <3>5. W1[q] = [epoch |-> f, role |-> "out", s |-> d.s, T |-> Y[q]]
      BY <3>2, <3>3, <3>4 DEF NodeOf
    <3>. QED BY <1>19, <1>20, <2>2, <3>1, <3>3, <3>5
  <2>3. CASE q # m /\ q \notin C
    <3>1. epoch'[q] = epoch[q] /\ role'[q] = role[q] /\ px'[q] = px[q]
      BY <1>3, <2>3 DEF ElectedIn
    <3>2. W1[q] = Z[q]
      BY <1>9, <2>3 DEF LeftWorld
    <3>. QED BY <1>11, <1>19, <1>20, <2>3, <3>1, <3>2
  <2>. QED BY <2>1, <2>2, <2>3
<1>22. WorldOf(epoch', role', px', Y2) = Now(m, w, {m}, W1)
  BY <1>18, <1>20, <1>21 DEF WorldOf, Worlds
<1>23. net' = Deliverable([net EXCEPT ![m] = [j \in Mon |-> net[m][j] \o w.out[j]]])
  BY <1>3 DEF ElectedIn, With
<1>24. Ruled(V, Y2, epoch', role', px', net', acked)
  <2>1. PICK S : S = {m}
    OBVIOUS
  <2>2. Law(m, w, S, V, W1, Mail(net), acked) /\ WorldOf(epoch', role', px', Y2) = Now(m, w, S, W1)
    BY <1>17, <1>22, <2>1
  <2>3. net \in [Mon -> Queues] /\ Y2 \in [Mon -> SUBSET Mon]
    BY <1>11, <1>19
  <2>. QED BY <1>23, <2>2, <2>3, LawEnds
<1>25. acked' = acked
  BY DEF Elect
<1>. QED BY <1>24, <1>25 DEF Rules

-----------------------------------------------------------------------------
(* The law holds all the time *)

LEMMA InitRuled == Init => VInv
<1>. SUFFICES ASSUME Init PROVE VInv
  OBVIOUS
<1>1. IInv
  BY InitFine
<1>2. Shaped(epoch, role, px, net) /\ net = [i \in Mon |-> [j \in Mon |-> <<>>]]
      /\ role = [m \in Mon |-> "out"] /\ acked = {}
  BY <1>1 DEF IInv, Fine, Init
<1>3. PICK Y : Y = [m \in Mon |-> {}]
  OBVIOUS
<1>4. PICK V, W : V = {} /\ W = WorldOf(epoch, role, px, Y)
  OBVIOUS
<1>5. Y \in [Mon -> SUBSET Mon]
  BY <1>3
<1>6. W \in Worlds
  BY <1>2, <1>4, <1>5 DEF WorldOf, Worlds, Node, Shaped
<1>7. ASSUME NEW m \in Mon
      PROVE  W[m].role = "out" /\ W[m].s = px[m]
  <2>1. PICK A : A = W[m]
    OBVIOUS
  <2>2. A = [epoch |-> epoch[m], role |-> role[m], s |-> px[m], T |-> Y[m]]
    BY <1>4, <2>1 DEF WorldOf
  <2>3. A.role = role[m] /\ A.s = px[m]
    BY <2>2
  <2>. QED BY <1>2, <2>1, <2>3
<1>8. \A q, c, v, X : ~Voted(V, q, c, v, X)
  BY <1>4 DEF Voted
<1>9. ASSUME NEW m \in Mon PROVE Own(V, W, m, W[m].s)
  <2>1. PICK s : s = W[m].s
    OBVIOUS
  <2>2. s.last_committed = 0 /\ s.values = NoValues /\ s.accepted_pn = 0 /\ s.stored_pn = 0
    BY <1>7, <2>1 DEF Init
  <2>3. \A v \in Version : s.values[v] = NoValue /\ ~(v <= s.last_committed)
    BY <2>2, BoundAssumption DEF Version, NoValues
  <2>4. Own(V, W, m, s)
    BY <1>8, <2>2, <2>3 DEF Own
  <2>. QED BY <2>1, <2>4
<1>10. Mail(net) = {}
  <2>1. ASSUME NEW z \in Mail(net) PROVE FALSE
    <3>1. z \in Parcels /\ \E k \in DOMAIN net[z[1]][z[2]] : TRUE
      BY <2>1 DEF Mail
    <3>2. z[1] \in Mon /\ z[2] \in Mon
      BY <3>1 DEF Parcels
    <3>3. net[z[1]][z[2]] = <<>>
      BY <1>2, <3>2
    <3>. QED BY <3>1, <3>3
  <2>. QED BY <2>1
<1>11. Durable(V, W, acked)
  BY <1>2 DEF Durable
<1>12. Lawful(V, W, Mail(net), acked)
  <2>1. V \subseteq Votes /\ Mail(net) \subseteq Parcels
    BY <1>4, <1>10
  <2>2. \A m \in Mon : W[m].role # "leader"
    BY <1>7
  <2>. QED BY <1>6, <1>8, <1>9, <1>10, <1>11, <2>1, <2>2 DEF Lawful
<1>13. Ruled(V, Y, epoch, role, px, net, acked)
  BY <1>4, <1>5, <1>12 DEF Ruled
<1>. QED BY <1>13 DEF VInv

LEMMA StepRuled ==
  ASSUME IInv, NoAssertFails', VInv, KeepsPromise, NEW m \in Mon, Step(m)
  PROVE  Rules
<1>1. PICK T \in [Mon -> SUBSET Mon] : Good(WorldOf(epoch, role, px, T), net)
  BY DEF IInv, Fine
<1>2. PICK W : W = WorldOf(epoch, role, px, T)
  OBVIOUS
<1>3. World(T, W) /\ Shaped(epoch, role, px, net) /\ Timed(role[m], px[m])
      /\ Fine(epoch, role, px, net) /\ SpentOK
  BY <1>1, <1>2 DEF World, IInv, Fine
<1>4. PICK I : I = Column(net, m)
  OBVIOUS
<1>5. Starts(m, Here(m), T[m], W, I)
  BY <1>3, <1>4, HereStarts
<1>6. PICK V, Y : Ruled(V, Y, epoch, role, px, net, acked)
  BY DEF VInv
<1>7. PICK Z : Z = WorldOf(epoch, role, px, Y)
  OBVIOUS
<1>8. Ready(m, T, W, I, Y, V, Z)
  BY <1>3, <1>4, <1>5, <1>6, <1>7 DEF Ready
<1>9. px'[m].state # "aborted"
  BY DEF NoAssertFails, Alive
<1>10. ASSUME NEW e \in VictoryEpoch, NEW Q \in Majorities, Elect(m, e, Q) PROVE Rules
  BY <1>8, <1>10, LawfulElect
<1>11. ASSUME NEW i \in Mon, Deliver(i, m) PROVE Rules
  BY <1>8, <1>9, <1>11, LawfulDeliver
<1>12. ASSUME CommitFinish(m) PROVE Rules
  BY <1>8, <1>9, <1>12, LawfulCommitFinish
<1>13. ASSUME Propose(m) PROVE Rules
  BY <1>3, <1>8, <1>9, <1>13, LawfulPropose
<1>14. ASSUME NEW t \in Timer \ {"lease_renew"}, Timeout(m, t) PROVE Rules
  BY <1>8, <1>9, <1>14, LawfulTimeout
<1>15. ASSUME LeaseRenew(m) PROVE Rules
  BY <1>8, <1>9, <1>15, LawfulRenew
<1>16. ASSUME Crash(m) PROVE Rules
  BY <1>8, <1>9, <1>16, LawfulCrash
<1>. QED BY <1>10, <1>11, <1>12, <1>13, <1>14, <1>15, <1>16 DEF Step

LEMMA NextRuled ==
  IInv /\ NoAssertFails' /\ VInv /\ [Next]_vars /\ [KeepsPromise]_vars => VInv'
<1>. SUFFICES ASSUME IInv, NoAssertFails', VInv, [Next]_vars, [KeepsPromise]_vars PROVE VInv'
  OBVIOUS
<1>1. ASSUME UNCHANGED vars PROVE Rules
  <2>1. /\ epoch' = epoch /\ role' = role /\ px' = px /\ net' = net /\ acked' = acked
    BY <1>1 DEF vars
  <2>. QED BY <2>1 DEF VInv, Rules
<1>2. ASSUME Next, KeepsPromise PROVE Rules
  <2>1. PICK m \in Mon : Step(m)
    BY <1>2 DEF Next
  <2>. QED BY <1>2, <2>1, StepRuled
<1>3. Rules
  BY <1>1, <1>2
<1>. QED BY <1>3 DEF VInv, Rules

(* As long as no monitor goes back on the number of a collect of its own, every
   vote of handle_begin() and begin() is for a value that no other can overtake:
   votes, promises, what leaders have learnt and what is under way agree. *)
THEOREM VotesAreLawful == Spec /\ [][KeepsPromise]_vars => []VInv
<1>1. Spec => []IInv /\ []NoAssertFails
  BY Invariant, AssertsHold, PTL
<1>2. Init => VInv
  BY InitRuled
<1>3. IInv /\ NoAssertFails' /\ VInv /\ [Next]_vars /\ [KeepsPromise]_vars => VInv'
  BY NextRuled
<1>. QED BY <1>1, <1>2, <1>3, PTL DEF Spec

-----------------------------------------------------------------------------
(* What the law means for the monitors and their clients *)

RulesFacts(V, W) ==
  /\ Lawful(V, W, Mail(net), acked) /\ W \in Worlds
  /\ \A m \in Mon : /\ W[m].s = px[m] /\ W[m].role = role[m] /\ W[m].T \in SUBSET Mon
                    /\ Own(V, W, m, px[m]) /\ px[m] \in LooseState
                    /\ px[m].last_committed \in 0 .. MaxOp

LEMMA VInvMeans ==
  ASSUME VInv
  PROVE  \E V, W : RulesFacts(V, W)
<1>1. PICK V, Y : Ruled(V, Y, epoch, role, px, net, acked)
  BY DEF VInv
<1>2. PICK W : W = WorldOf(epoch, role, px, Y)
  OBVIOUS
<1>3. Lawful(V, W, Mail(net), acked) /\ W \in Worlds
  BY <1>1, <1>2 DEF Ruled, Lawful
<1>4. ASSUME NEW m \in Mon
      PROVE  /\ W[m].s = px[m] /\ W[m].role = role[m] /\ W[m].T \in SUBSET Mon
             /\ Own(V, W, m, px[m]) /\ px[m] \in LooseState
             /\ px[m].last_committed \in 0 .. MaxOp
  <2>1. PICK A : A = W[m]
    OBVIOUS
  <2>2. A = [epoch |-> epoch[m], role |-> role[m], s |-> px[m], T |-> Y[m]]
    BY <1>2, <2>1 DEF WorldOf
  <2>3. A.s = px[m] /\ A.role = role[m]
    BY <2>2
  <2>4. Own(V, W, m, A.s) /\ A \in Node
    BY <1>3, <2>1 DEF Lawful, Worlds
  <2>5. A.s \in LooseState /\ A.T \in SUBSET Mon
    BY <2>4, NodeTypes
  <2>6. A.s.last_committed \in 0 .. MaxOp
    BY <2>5 DEF LooseState
  <2>. QED BY <2>1, <2>3, <2>4, <2>5, <2>6
<1>5. RulesFacts(V, W)
  BY <1>3, <1>4 DEF RulesFacts
<1>. QED BY <1>5

LEMMA RuledAgree == VInv => Agreement
<1>. SUFFICES ASSUME VInv, NEW m \in Mon, NEW n \in Mon, NEW v \in Committed(m) \intersect Committed(n)
              PROVE  px[m].values[v] = px[n].values[v]
  BY DEF Agreement
<1>1. PICK V, W : RulesFacts(V, W)
  BY VInvMeans
<1>2. /\ Lawful(V, W, Mail(net), acked) /\ Own(V, W, m, px[m]) /\ Own(V, W, n, px[n])
      /\ px[m].last_committed \in 0 .. MaxOp
  BY <1>1 DEF RulesFacts
<1>3. v \in Version /\ v <= px[m].last_committed /\ v <= px[n].last_committed
  BY <1>2, MonTypes DEF Committed, Version
<1>4. Decided(V, W, v, px[m].values[v]) /\ Decided(V, W, v, px[n].values[v])
  BY <1>2, <1>3 DEF Own
<1>. QED BY <1>2, <1>4, DecidedOnce

(* Whoever has voted for a value that was decided has it in its store. *)
LEMMA VotersKeep ==
  ASSUME NEW V, NEW W, RulesFacts(V, W), NEW c \in Nat, NEW v \in Version, NEW X \in Value,
         Chosen(V, c, v, X), Decided(V, W, v, X), NEW q \in Mon, Voted(V, q, c, v, X)
  PROVE  px[q].values[v] = X
<1>1. /\ Lawful(V, W, Mail(net), acked) /\ Own(V, W, q, px[q]) /\ px[q] \in LooseState
      /\ px[q].last_committed \in Nat /\ v \in Nat
  BY MonTypes DEF RulesFacts
<1>2. PICK s : s = px[q]
  OBVIOUS
<1>3. v <= s.last_committed + 1 /\ (v = s.last_committed + 1 => s.values[v] # NoValue /\ c <= s.pending_pn)
  BY <1>1, <1>2 DEF Own
<1>4. CASE v <= s.last_committed
  <2>1. Decided(V, W, v, s.values[v])
    BY <1>1, <1>2, <1>4 DEF Own
  <2>2. s.values[v] = X
    BY <1>1, <2>1, DecidedOnce
  <2>. QED BY <1>2, <2>2
<1>5. CASE v = s.last_committed + 1
  <2>1. Voted(V, q, s.pending_pn, v, s.values[v]) /\ c <= s.pending_pn
    BY <1>1, <1>2, <1>3, <1>5 DEF Own
  <2>2. X = s.values[v]
    BY <1>1, <2>1, ChosenStays
  <2>. QED BY <1>2, <2>2
<1>. QED BY <1>1, <1>2, <1>3, <1>4, <1>5

LEMMA RuledDurable == VInv => AckedIsDurable
<1>. SUFFICES ASSUME VInv, NEW o \in acked
              PROVE  \E v \in Version : Majority({m \in Mon : o \in px[m].values[v]})
  BY DEF AckedIsDurable
<1>1. PICK V, W : RulesFacts(V, W)
  BY VInvMeans
<1>2. PICK v \in Version, X \in Value : o \in X /\ Decided(V, W, v, X)
  BY <1>1 DEF RulesFacts, Lawful, Durable
<1>3. PICK c \in Nat : Chosen(V, c, v, X)
  BY <1>2 DEF Decided
<1>4. PICK Q \in Majorities : \A q \in Q : Voted(V, q, c, v, X)
  BY <1>3 DEF Chosen
<1>5. Q \in SUBSET Mon /\ Majority(Q)
  BY <1>4 DEF Majorities
<1>6. \A q \in Q : px[q].values[v] = X
  BY <1>1, <1>2, <1>3, <1>4, <1>5, VotersKeep
<1>7. PICK H : H = {m \in Mon : o \in px[m].values[v]}
  OBVIOUS
<1>8. Q \subseteq H /\ H \subseteq Mon
  BY <1>2, <1>5, <1>6, <1>7
<1>9. IsFiniteSet(Mon)
  BY FS_Interval, MonTypes DEF Mon
<1>10. IsFiniteSet(H)
  BY <1>8, <1>9, FS_Subset
<1>11. Cardinality(Q) <= Cardinality(H) /\ Cardinality(Q) \in Nat /\ Cardinality(H) \in Nat
  BY <1>8, <1>10, FS_Subset, FS_CardinalityType
<1>12. Majority(H)
  BY <1>5, <1>11, MonTypes DEF Majority
<1>. QED BY <1>7, <1>12

LEMMA RuledLeader == VInv => LeaderKnowsAll
<1>. SUFFICES ASSUME VInv, NEW m \in Mon, NEW n \in Mon, role[m] = "leader",
                     px[m].state \in {"active", "updating", "writing"},
                     px[n].last_committed > px[m].last_committed
              PROVE  \E q \in px[m].quorum : Promised(q) > px[m].accepted_pn
  BY DEF LeaderKnowsAll
<1>1. PICK V, W : RulesFacts(V, W)
  BY VInvMeans
<1>2. PICK A, s, v : A = W[m] /\ s = px[m] /\ v = px[m].last_committed + 1
  OBVIOUS
<1>3. /\ Lawful(V, W, Mail(net), acked) /\ W \in Worlds /\ Own(V, W, n, px[n])
      /\ px[n].last_committed \in 0 .. MaxOp /\ s.last_committed \in 0 .. MaxOp
      /\ A.s = s /\ A.role = "leader" /\ s \in LooseState
  BY <1>1, <1>2 DEF RulesFacts
<1>4. v \in Version /\ v <= px[n].last_committed /\ ~(v <= s.last_committed)
  BY <1>2, <1>3, MonTypes DEF Version
<1>5. Leads(V, W, m, A)
  BY <1>2, <1>3 DEF Lawful
<1>6. /\ s.quorum \in Majorities /\ A.T = s.quorum /\ s.accepted_pn % 100 = m
      /\ \A q \in s.quorum : Promises(V, W[q], q, m, s, A.epoch)
  BY <1>2, <1>3, <1>5 DEF Leads
<1>7. PICK X : X = px[n].values[v]
  OBVIOUS
<1>8. Decided(V, W, v, X)
  BY <1>3, <1>4, <1>7 DEF Own
<1>9. PICK c \in Nat : Chosen(V, c, v, X) /\ \A q \in Mon : q = c % 100 => Knows(W[q], c, v)
  BY <1>8 DEF Decided
<1>10. PICK Q \in Majorities : \A q \in Q : Voted(V, q, c, v, X)
  BY <1>9 DEF Chosen
<1>11. PICK q \in Q \intersect s.quorum : q \in Mon
  BY <1>6, <1>10, MajoritiesMeet
<1>12. Voted(V, q, c, v, X) /\ Promises(V, W[q], q, m, s, A.epoch)
  BY <1>6, <1>10, <1>11
<1>13. s.accepted_pn \in Nat
  BY <1>3, LevelIs DEF LooseState
<1>14. c # s.accepted_pn
  <2>1. ASSUME c = s.accepted_pn PROVE FALSE
    <3>1. Knows(A, c, v)
      BY <1>2, <1>6, <1>9, <2>1
    <3>. QED BY <1>2, <1>3, <1>4, <2>1, <3>1 DEF Knows
  <2>. QED BY <2>1
<1>15. ~(c < s.accepted_pn)
  <2>1. ASSUME c < s.accepted_pn PROVE FALSE
    <3>1. X \in Value
      BY <1>3, <1>12, VoteTypes DEF Lawful
    <3>2. Heeded(s, c, v)
      BY <1>4, <1>12, <2>1, <3>1 DEF Promises
    <3>3. s.state \in {"active", "updating", "writing"}
      BY <1>2
    <3>. QED BY <1>4, <3>2, <3>3 DEF Heeded
  <2>. QED BY <2>1
<1>16. c <= Level(px[q])
  <2>1. X \in Value
    BY <1>3, <1>12, VoteTypes DEF Lawful
  <2>2. Own(V, W, q, px[q])
    BY <1>1, <1>11 DEF RulesFacts
  <2>. QED BY <1>4, <1>12, <2>1, <2>2 DEF Own
<1>17. Promised(q) > s.accepted_pn
  <2>1. Level(px[q]) \in Nat
    BY <1>1, <1>11, LevelIs DEF RulesFacts
  <2>2. Promised(q) = Level(px[q])
    BY DEF Promised, Level
  <2>. QED BY <1>13, <1>14, <1>15, <1>16, <2>1, <2>2
<1>. QED BY <1>2, <1>11, <1>17

(* Two monitors never disagree on a version that both have committed, whatever
   the elections, lost messages and crashes, as long as a promise is kept:
   handle_last() takes over what its quorum has voted for and handle_collect()
   and handle_begin() refuse a leader with a lower number. *)
THEOREM LogsAgree == Spec /\ [][KeepsPromise]_vars => []Agreement
BY VotesAreLawful, RuledAgree, PTL

(* An operation that commit_finish() has acknowledged stays in the stores of a
   majority as long as promises are kept. *)
THEOREM AcksAreDurable == Spec /\ [][KeepsPromise]_vars => []AckedIsDurable
BY VotesAreLawful, RuledDurable, PTL

(* When recovery is done, handle_last() has learnt everything that was ever
   committed, as long as promises are kept. *)
THEOREM LeadersKnowAll == Spec /\ [][KeepsPromise]_vars => []LeaderKnowsAll
BY VotesAreLawful, RuledLeader, PTL

-----------------------------------------------------------------------------
(* Who keeps promises: everybody, unless a crash loses a number.  collect() writes
   last_pn to the store, and only handle_collect() writes accepted_pn, so the two
   come apart when a leader dies and starts again. *)

StoresPromise == \A m \in Mon : Crash(m) => px[m].stored_pn = px[m].accepted_pn

(* Nobody's own collects are ahead of what it has promised. *)
Forces == \A m \in Mon : InForce(px[m])

(* What every step does to the numbers of a monitor that does not lead. *)
Firm(s, t) == t.last_pn = s.last_pn /\ t.accepted_pn >= s.accepted_pn

Firmly == \A q \in Mon : role'[q] = "leader" \/ Firm(px[q], px'[q])

LEMMA FinishFirm ==
  ASSUME NEW m \in Mon, NEW d, NEW queues, Finish(m, d, queues), Shaped(epoch, role, px, net),
         d.ok, d.role = "leader" \/ Firm(px[m], d.s)
  PROVE  Firmly
<1>1. px \in [Mon -> LooseState] /\ role \in [Mon -> {"out", "leader", "peon"}]
  BY DEF Shaped
<1>2. px'[m] = d.s /\ role'[m] = d.role /\ \A q \in Mon \ {m} : px'[q] = px[q]
  BY <1>1 DEF Finish, Store
<1>3. ASSUME NEW q \in Mon PROVE Firm(px[q], px[q])
  <2>1. px[q].accepted_pn \in Nat
    BY <1>1, LevelIs DEF LooseState
  <2>. QED BY <2>1 DEF Firm
<1>. QED BY <1>2, <1>3 DEF Firmly

LEMMA SameIsFirm ==
  ASSUME NEW s \in LooseState, NEW t, t.last_pn = s.last_pn, t.accepted_pn = s.accepted_pn
  PROVE  Firm(s, t)
<1>1. s.accepted_pn \in Nat
  BY DEF LooseState
<1>. QED BY <1>1 DEF Firm

(* A peon takes a larger number from a collect, and no other. *)
LEMMA DispatchFirm ==
  ASSUME NEW m \in Mon, NEW p, NEW c, NEW T, NEW W \in Worlds, NEW O \in Queues, NEW I \in Queues,
         NEW from \in Mon \ {m}, NEW msg, NEW d,
         Sound(m, p, c, T, W, O, I), Timed(c.role, c.s), Locals(m, W),
         Heading(I, from, msg, msg.op), Dispatched(c, m, from, msg, d), d.s.pending_v <= MaxOp
  PROVE  d.ok /\ (d.role = "leader" \/ Firm(c.s, d.s))
<1>1. d.ok /\ d.role = c.role
  <2>1. PICK I2 : Took(I, from, I2)
    BY DEF Took
  <2>2. Stays(m, p, c, d, W, O, I2)
    BY <2>1, SoundDispatch
  <2>. QED BY <2>2 DEF Stays, Sound
<1>2. msg \in LooseMessage
  <2>1. I[from] \in Messages /\ I[from] # <<>> /\ msg = I[from][1]
    BY DEF Queues, Heading
  <2>. QED BY <2>1, TailFacts
<1>3. msg.op \in Ups \union Downs
  BY <1>2 DEF LooseMessage, Ups, Downs, Dispatched
<1>4. CASE msg.op \in Ups
  <2>1. c.role = "leader"
    BY <1>4, AnswerExpected
  <2>. QED BY <1>1, <2>1
<1>5. CASE msg.op \in Downs
  <2>1. PeonIs(m, c, T, W, I, from, msg)
    BY <1>5, PeonFacts
  <2>2. /\ c \in Contexts /\ c.ok /\ c.role = "peon" /\ c.s.leader = from /\ c.s \in LooseState
        /\ NoGap(msg) /\ Logged(c.s) /\ msg.pn \in Nat /\ c.s.accepted_pn \in Nat
    BY <1>2, <2>1 DEF PeonIs, LooseMessage, Contexts, LooseState
  <2>3. Check(c, c.role = "peon" => from = c.s.leader) = c /\ Check(c, c.role = "peon") = c
    BY <2>2, CheckIs
  <2>4. CASE msg.op = "collect"
    <3>1. d = HandleCollect(c, m, from, msg)
      BY <2>3, <2>4 DEF Dispatched, Dispatch
    <3>2. PICK x : CollectHandled(c, from, msg, d, x)
      BY <1>2, <2>2, <3>1, CollectHandledIs
    <3>3. d.s.last_pn = c.s.last_pn /\ d.s.accepted_pn = Larger(c.s.accepted_pn, msg.pn)
      BY <3>2 DEF CollectHandled, PeonFields
    <3>4. Larger(c.s.accepted_pn, msg.pn) >= c.s.accepted_pn
      BY <2>2 DEF Larger
    <3>. QED BY <1>1, <3>3, <3>4 DEF Firm
  <2>5. CASE msg.op = "begin"
    <3>1. d = HandleBegin(c, m, from, msg)
      BY <2>3, <2>5 DEF Dispatched, Dispatch
    <3>2. Expected(msg, c.s)
      BY <2>5, BeginIsExpected
    <3>3. CASE msg.pn < c.s.accepted_pn
      <4>1. d = c
        BY <3>1, <3>3 DEF HandleBegin
      <4>. QED BY <1>1, <2>2, <4>1, SameIsFirm
    <3>4. CASE msg.pn = c.s.accepted_pn
      <4>1. PICK v : v = c.s.last_committed + 1
        OBVIOUS
      <4>2. msg.last_committed = c.s.last_committed /\ v \in Version
        BY <3>2, <3>4, <4>1 DEF Expected, At
      <4>3. PICK x : BeginHandled(c, from, msg, v, d, x)
        BY <1>2, <2>2, <3>1, <3>4, <4>1, <4>2, BeginHandledIs
      <4>4. d.s.last_pn = c.s.last_pn /\ d.s.accepted_pn = c.s.accepted_pn
        BY <4>3 DEF BeginHandled, PeonFields
      <4>. QED BY <1>1, <2>2, <4>4, SameIsFirm
    <3>. QED BY <2>2, <3>2, <3>3, <3>4 DEF Expected
  <2>6. CASE msg.op = "commit"
    <3>1. d = StoreState(c, msg)
      BY <2>3, <2>6 DEF Dispatched, Dispatch, HandleCommit
    <3>2. StoreDoes(c, msg, d)
      BY <1>2, <2>2, <3>1, StoreIs
    <3>3. d.s.last_pn = c.s.last_pn /\ d.s.accepted_pn = c.s.accepted_pn
      BY <3>2 DEF StoreDoes, ButLog
    <3>. QED BY <1>1, <2>2, <3>3, SameIsFirm
  <2>7. CASE msg.op = "lease"
    <3>1. d = HandleLease(c, m, from, msg)
      BY <2>3, <2>7 DEF Dispatched, Dispatch
    <3>2. CASE msg.last_committed # c.s.last_committed
      <4>1. d = c
        BY <3>1, <3>2 DEF HandleLease
      <4>. QED BY <1>1, <2>2, <4>1, SameIsFirm
    <3>3. CASE msg.last_committed = c.s.last_committed
      <4>1. PICK x : LeaseHandled(c, from, d, x)
        BY <1>2, <2>2, <3>1, <3>3, LeaseHandledIs
      <4>2. d.s.last_pn = c.s.last_pn /\ d.s.accepted_pn = c.s.accepted_pn
        BY <4>1 DEF LeaseHandled, PeonFields
      <4>. QED BY <1>1, <2>2, <4>2, SameIsFirm
    <3>. QED BY <3>2, <3>3
  <2>. QED BY <1>5, <2>4, <2>5, <2>6, <2>7 DEF Downs
<1>. QED BY <1>3, <1>4, <1>5

(* The numbers are in the part of the state that leaving a quorum keeps. *)
LEMMA LogIsFirm ==
  ASSUME NEW s \in LooseState, NEW t, SameLog(s, t)
  PROVE  Firm(s, t)
BY SameIsFirm DEF SameLog

AtHand(m, T, W, I, c) ==
  /\ Fine(epoch, role, px, net) /\ World(T, W) /\ I = Column(net, m)
  /\ Starts(m, c, T[m], W, I) /\ c = Here(m) /\ c \in Contexts /\ c.ok
  /\ px[m] \in LooseState /\ Shaped(epoch, role, px, net)

LEMMA DeliverFirm ==
  ASSUME NEW m \in Mon, NEW i \in Mon, NEW T, NEW W, NEW I, NEW c, AtHand(m, T, W, I, c), Deliver(i, m)
  PROVE  Firmly
<1>1. /\ Sound(m, px[m], c, T[m], W, net[m], I) /\ Timed(c.role, c.s) /\ Locals(m, W)
      /\ W \in Worlds /\ I \in Queues /\ net[m] \in Queues /\ I[m] = <<>>
      /\ c.s = px[m] /\ c.epoch = epoch[m] /\ c \in Contexts /\ c.epoch \in Nat /\ c.ok
      /\ net \in [Mon -> Queues] /\ Shaped(epoch, role, px, net) /\ px[m] \in LooseState
  BY ContextTypes DEF AtHand, Starts, Shaped
<1>2. I[i] = net[i][m] /\ net[i][m] # <<>> /\ i \in Mon \ {m}
  BY <1>1 DEF Deliver, Column, AtHand
<1>3. PICK msg : msg = Head(net[i][m])
  OBVIOUS
<1>4. Heading(I, i, msg, msg.op)
  <2>1. PICK q : q = net[i][m]
    OBVIOUS
  <2>2. q \in Messages /\ q # <<>>
    BY <1>1, <1>2, <2>1 DEF Queues
  <2>3. Head(q) = q[1]
    BY <2>2, TailFacts
  <2>. QED BY <1>2, <1>3, <2>1, <2>3 DEF Heading
<1>5. CASE msg.op # "victory"
  <2>1. PICK d : d = Dispatch(c, m, i, msg)
    OBVIOUS
  <2>2. Finish(m, d, Without(i, m))
    BY <1>3, <1>5, <2>1, Zenon DEF Deliver, AtHand
  <2>3. d.s.pending_v <= MaxOp /\ Dispatched(c, m, i, msg, d)
    BY <1>5, <2>1, <2>2 DEF Finish, Dispatched
  <2>4. d.ok /\ (d.role = "leader" \/ Firm(c.s, d.s))
    BY <1>1, <1>2, <1>4, <2>3, DispatchFirm
  <2>. QED BY <1>1, <2>2, <2>4, FinishFirm
<1>6. CASE msg.op = "victory"
  <2>1. Heading(I, i, msg, "victory")
    BY <1>4, <1>6
  <2>2. msg.epoch \in Nat /\ msg.quorum \in SUBSET Mon
    BY <1>1, <1>2, <2>1, VictoryIsEven
  <2>3. PICK d : d = HandleVictory(c, i, msg)
    OBVIOUS
  <2>4. Finish(m, d, Without(i, m))
    BY <1>3, <1>6, <2>3, Zenon DEF Deliver, AtHand
  <2>5. d.ok /\ SameLog(c.s, d.s)
    <3>1. CASE msg.epoch = c.epoch + 1
      <4>1. d = PeonInit([c EXCEPT !.role = "peon", !.epoch = msg.epoch], i, msg.quorum)
        BY <2>3, <3>1 DEF HandleVictory
      <4>2. JoinDoes(c, i, msg.epoch, d)
        BY <1>1, <1>2, <2>2, <4>1, JoinIs
      <4>. QED BY <1>1, <4>2 DEF JoinDoes
    <3>2. CASE msg.epoch # c.epoch + 1
      <4>1. PICK e : e = msg.epoch + 1
        OBVIOUS
      <4>2. d = LeaveQuorum(c, e) /\ e \in Nat
        BY <2>2, <2>3, <3>2, <4>1 DEF HandleVictory
      <4>3. LeaveDoes(c, e, d)
        BY <1>1, <4>2, LeaveIs
      <4>. QED BY <1>1, <4>3 DEF LeaveDoes
    <3>. QED BY <3>1, <3>2
  <2>6. Firm(px[m], d.s)
    BY <1>1, <2>5, LogIsFirm
  <2>. QED BY <1>1, <2>4, <2>5, <2>6, FinishFirm
<1>. QED BY <1>5, <1>6

LEMMA ElectFirm ==
  ASSUME NEW m \in Mon, NEW T, NEW W, NEW I, NEW c, AtHand(m, T, W, I, c),
         NEW e \in VictoryEpoch, NEW Q \in Majorities, Elect(m, e, Q)
  PROVE  Firmly
<1>1. Fine(epoch, role, px, net) /\ World(T, W) /\ px \in [Mon -> LooseState]
  BY DEF AtHand, Shaped
<1>2. PICK C, f, pn, w : Elects(m, e, Q, C, f, pn, w)
  BY <1>1, ElectsSo
<1>3. C \in SUBSET Mon /\ f \in Nat /\ f = e - 1 /\ (\A q \in C : epoch[q] < f) /\ ElectedIn(m, e, C, w)
  BY <1>2 DEF Elects
<1>4. PICK X1 : X1 = LeftWorld(C, f, T, W)
  OBVIOUS
<1>5. \A q \in C : LeavesFor(q, f, T[q], LeaveQuorum(Here(q), f))
  BY <1>1, <1>3, <1>4, CallersGood
<1>6. ASSUME NEW q \in Mon PROVE role'[q] = "leader" \/ Firm(px[q], px'[q])
  <2>1. CASE q = m
    BY <1>3, <2>1 DEF ElectedIn
  <2>2. CASE q # m /\ q \in C
    <3>1. PICK d : d = LeaveQuorum(Here(q), f)
      OBVIOUS
    <3>2. px'[q] = d.s
      BY <1>3, <2>2, <3>1 DEF ElectedIn
    <3>3. SameLog(px[q], d.s)
      BY <1>5, <2>2, <3>1 DEF LeavesFor, LeaveDoes, Here, Context
    <3>. QED BY <1>1, <3>2, <3>3, LogIsFirm
  <2>3. CASE q # m /\ q \notin C
    <3>1. px'[q] = px[q]
      BY <1>3, <2>3 DEF ElectedIn
    <3>. QED BY <1>1, <3>1, SameIsFirm
  <2>. QED BY <2>1, <2>2, <2>3
<1>. QED BY <1>6 DEF Firmly

LEMMA TimeoutFirm ==
  ASSUME NEW m \in Mon, NEW T, NEW W, NEW I, NEW c, AtHand(m, T, W, I, c),
         NEW t \in Timer \ {"lease_renew"}, Timeout(m, t)
  PROVE  Firmly
<1>1. /\ Starts(m, c, T[m], W, I) /\ c \in Contexts /\ c.epoch \in Nat /\ c.epoch = epoch[m] /\ c.s = px[m]
      /\ c.ok /\ c = Here(m) /\ Shaped(epoch, role, px, net) /\ px[m] \in LooseState
  BY ContextTypes DEF AtHand, Starts
<1>2. PICK P : P = TimeoutAllowed(m, t)
  OBVIOUS
<1>3. P \in BOOLEAN /\ P
  <2>1. TimeoutAllowed(m, t)
    BY <1>1, TimerMayFire DEF Timeout
  <2>. QED BY <1>2, <2>1 DEF TimeoutAllowed
<1>4. PICK d : d = LeaveQuorum(Cancel(Check(Here(m), TimeoutAllowed(m, t)), t), epoch[m])
  OBVIOUS
<1>5. Finish(m, d, net)
  BY <1>4, Zenon DEF Timeout
<1>6. TimedOut(c, t, P, c.epoch, d)
  BY <1>1, <1>2, <1>4 DEF TimedOut
<1>7. LeaveDoes(c, c.epoch, d)
  BY <1>1, <1>3, <1>6, TimeoutIs
<1>8. d.ok /\ Firm(px[m], d.s)
  BY <1>1, <1>7, LogIsFirm DEF LeaveDoes
<1>. QED BY <1>1, <1>5, <1>8, FinishFirm

LEMMA CrashFirm ==
  ASSUME NEW m \in Mon, NEW T, NEW W, NEW I, NEW c, AtHand(m, T, W, I, c), Crash(m), StoresPromise
  PROVE  Firmly
<1>1. /\ c \in Contexts /\ c.epoch \in Nat /\ c.epoch = epoch[m] /\ c.s = px[m]
      /\ c.ok /\ c = Here(m) /\ Shaped(epoch, role, px, net) /\ px[m] \in LooseState
  BY ContextTypes DEF AtHand, Starts
<1>2. PICK applied \in IF Writing(m) THEN BOOLEAN ELSE {FALSE} :
        LET g == LeaveQuorum(Here(m), epoch[m])
        IN  Finish(m, [g EXCEPT !.s = [g.s EXCEPT
                         !.accepted_pn = g.s.stored_pn,
                         !.last_committed = IF applied THEN @ + 1 ELSE @,
                         !.timers = [t \in Timer |-> 0]]],
                   net)
  BY Zenon DEF Crash
<1>3. PICK d : Crashed(c, applied, c.epoch, d)
  BY DEF Crashed
<1>4. Finish(m, d, net)
  BY <1>1, <1>2, <1>3, Zenon DEF Crashed
<1>5. PICK g : g = LeaveQuorum(c, c.epoch)
  OBVIOUS
<1>6. LeaveDoes(c, c.epoch, g)
  BY <1>1, <1>5, LeaveIs
<1>7. g \in Contexts /\ g.ok /\ SameLog(c.s, g.s) /\ g.s \in LooseState
  BY <1>1, <1>6 DEF LeaveDoes, Contexts
<1>8. PICK s : s = g.s
  OBVIOUS
<1>9. d = [g EXCEPT !.s = [s EXCEPT !.accepted_pn = s.stored_pn,
                                    !.last_committed = IF applied THEN @ + 1 ELSE @,
                                    !.timers = [t \in Timer |-> 0]]]
  BY <1>3, <1>5, <1>8, Zenon DEF Crashed
<1>10. d.ok /\ d.s.last_pn = s.last_pn /\ d.s.accepted_pn = s.stored_pn
  BY <1>7, <1>8, <1>9 DEF Contexts, LooseState
<1>11. px[m].stored_pn = px[m].accepted_pn
  BY DEF StoresPromise
<1>12. d.s.last_pn = px[m].last_pn /\ d.s.accepted_pn = px[m].accepted_pn
  BY <1>1, <1>7, <1>8, <1>10, <1>11 DEF SameLog
<1>13. Firm(px[m], d.s)
  BY <1>1, <1>12, SameIsFirm
<1>. QED BY <1>1, <1>4, <1>10, <1>13, FinishFirm

(* Whoever proposes, commits or renews leads before and after. *)
LEMMA LeaderFirm ==
  ASSUME NEW m \in Mon, NEW T, NEW W, NEW I, NEW c, AtHand(m, T, W, I, c), SpentOK,
         Propose(m) \/ CommitFinish(m) \/ LeaseRenew(m)
  PROVE  Firmly
<1>1. /\ Sound(m, px[m], c, T[m], W, net[m], I) /\ Timed(c.role, c.s)
      /\ W \in Worlds /\ I \in Queues /\ net[m] \in Queues /\ c.s = px[m] /\ c.role = role[m]
      /\ c = Here(m) /\ Shaped(epoch, role, px, net)
  BY DEF AtHand, Starts
<1>2. CASE Propose(m)
  <2>1. PICK o : o = spent["op"] + 1
    OBVIOUS
  <2>2. o \in Operation /\ c.role = "leader"
    BY <1>1, <1>2, <2>1, MonTypes DEF Propose, Spend, SpentOK, Operation
  <2>3. PICK d : NewOperation(c, m, o, d)
    BY DEF NewOperation
  <2>4. Finish(m, d, net)
    BY <1>1, <1>2, <2>1, <2>3, Zenon DEF Propose, NewOperation
  <2>5. d.s.pending_v <= MaxOp
    BY <2>4 DEF Finish
  <2>6. Stays(m, px[m], c, d, W, net[m], I)
    BY <1>1, <2>2, <2>3, <2>5, SoundNewOperation
  <2>7. d.ok /\ d.role = "leader"
    BY <2>2, <2>6 DEF Stays, Sound
  <2>. QED BY <1>1, <2>4, <2>7, FinishFirm
<1>3. CASE CommitFinish(m)
  <2>1. PICK d : d = CommitFinishHandler(c, m)
    OBVIOUS
  <2>2. Finish(m, d, net) /\ c.s.state \in InWriting
    BY <1>1, <1>3, <2>1 DEF CommitFinish, Writing, InWriting
  <2>3. d.s.pending_v <= MaxOp
    BY <2>2 DEF Finish
  <2>4. Sound(m, px[m], d, T[m], W, net[m], I) /\ WriteDone(c, d)
    BY <1>1, <2>1, <2>2, <2>3, SoundCommitFinish
  <2>5. d.ok /\ d.role = "leader"
    BY <2>4 DEF Sound, WriteDone
  <2>. QED BY <1>1, <2>2, <2>5, FinishFirm
<1>4. CASE LeaseRenew(m)
  <2>1. PICK d : d = ExtendLease(Cancel(c, "lease_renew"), m)
    OBVIOUS
  <2>2. Finish(m, d, net) /\ c.s.timers["lease_renew"] > 0
    BY <1>1, <1>4, <2>1 DEF LeaseRenew
  <2>3. c.role = "leader" /\ Stays(m, px[m], c, d, W, net[m], I)
    BY <1>1, <2>1, <2>2, SoundRenew
  <2>4. d.ok /\ d.role = "leader"
    BY <2>3 DEF Stays, Sound
  <2>. QED BY <1>1, <2>2, <2>4, FinishFirm
<1>. QED BY <1>2, <1>3, <1>4

LEMMA StepFirm ==
  ASSUME IInv, StoresPromise, NEW m \in Mon, Step(m)
  PROVE  Firmly
<1>1. PICK T \in [Mon -> SUBSET Mon] : Good(WorldOf(epoch, role, px, T), net)
  BY DEF IInv, Fine
<1>2. PICK W, I, c : W = WorldOf(epoch, role, px, T) /\ I = Column(net, m) /\ c = Here(m)
  OBVIOUS
<1>3. World(T, W) /\ Shaped(epoch, role, px, net) /\ Timed(role[m], px[m])
      /\ Fine(epoch, role, px, net) /\ SpentOK
  BY <1>1, <1>2 DEF World, IInv, Fine
<1>4. Starts(m, c, T[m], W, I)
  BY <1>2, <1>3, HereStarts
<1>5. AtHand(m, T, W, I, c)
  BY <1>2, <1>3, <1>4 DEF AtHand, Starts, Sound, Shaped
<1>6. ASSUME NEW e \in VictoryEpoch, NEW Q \in Majorities, Elect(m, e, Q) PROVE Firmly
  BY <1>5, <1>6, ElectFirm
<1>7. ASSUME NEW i \in Mon, Deliver(i, m) PROVE Firmly
  BY <1>5, <1>7, DeliverFirm
<1>8. ASSUME CommitFinish(m) \/ Propose(m) \/ LeaseRenew(m) PROVE Firmly
  BY <1>3, <1>5, <1>8, LeaderFirm
<1>9. ASSUME NEW t \in Timer \ {"lease_renew"}, Timeout(m, t) PROVE Firmly
  BY <1>5, <1>9, TimeoutFirm
<1>10. ASSUME Crash(m) PROVE Firmly
  BY <1>5, <1>10, CrashFirm
<1>. QED BY <1>6, <1>7, <1>8, <1>9, <1>10 DEF Step

(* What the session invariant says of the numbers. *)
OwnNumbers ==
  \A m \in Mon : /\ px[m] \in LooseState
                 /\ role[m] = "leader" => px[m].accepted_pn = px[m].last_pn

LEMMA LeadersOwnNumbers == IInv => OwnNumbers
<1>. SUFFICES ASSUME IInv PROVE OwnNumbers
  OBVIOUS
<1>1. PICK T, W : \A m \in Mon : /\ W[m].s = px[m] /\ W[m].role = role[m]
                                 /\ Local(m, W[m]) /\ px[m] \in LooseState
  BY InvariantParts
<1>2. ASSUME NEW m \in Mon, role[m] = "leader" PROVE px[m].accepted_pn = px[m].last_pn
  <2>1. Leading(m, W[m])
    BY <1>1, <1>2 DEF Local
  <2>. QED BY <1>1, <2>1 DEF Leading
<1>. QED BY <1>1, <1>2 DEF OwnNumbers

LEMMA NextForces ==
  IInv /\ OwnNumbers' /\ Forces /\ [Next]_vars /\ [StoresPromise]_vars
  => Forces' /\ [KeepsPromise]_vars
<1>. SUFFICES ASSUME IInv, OwnNumbers', Forces, [Next]_vars, [StoresPromise]_vars
              PROVE  Forces' /\ [KeepsPromise]_vars
  OBVIOUS
<1>1. CASE UNCHANGED vars
  <2>1. px' = px
    BY <1>1 DEF vars
  <2>. QED BY <1>1, <2>1 DEF Forces
<1>2. CASE Next /\ StoresPromise
  <2>1. Firmly
    <3>1. PICK m \in Mon : Step(m)
      BY <1>2 DEF Next
    <3>. QED BY <1>2, <3>1, StepFirm
  <2>2. ASSUME NEW q \in Mon
        PROVE  InForce(px'[q]) /\ (px'[q].accepted_pn > px[q].accepted_pn => px'[q].accepted_pn >= Promised(q))
    <3>1. PICK s, t : s = px[q] /\ t = px'[q]
      OBVIOUS
    <3>2. s \in LooseState /\ t \in LooseState /\ (role'[q] = "leader" => t.accepted_pn = t.last_pn)
      BY <3>1, LeadersOwnNumbers DEF OwnNumbers
    <3>3. /\ s.last_pn \in Nat /\ s.accepted_pn \in Nat /\ t.last_pn \in Nat /\ t.accepted_pn \in Nat
      BY <3>2 DEF LooseState
    <3>4. s.last_pn <= s.accepted_pn
      BY <3>1 DEF Forces, InForce
    <3>5. Promised(q) = s.accepted_pn
      BY <3>1, <3>3, <3>4 DEF Promised, Larger
    <3>6. role'[q] = "leader" \/ Firm(s, t)
      BY <2>1, <3>1 DEF Firmly
    <3>7. t.last_pn <= t.accepted_pn
      BY <3>2, <3>3, <3>4, <3>6 DEF Firm
    <3>. QED BY <3>1, <3>3, <3>5, <3>7 DEF InForce
  <2>. QED BY <2>2 DEF Forces, KeepsPromise
<1>. QED BY <1>1, <1>2

(* No handler, timer or election goes back on a promise: only a crash can, when
   the store has an older accepted_pn than the memory, as after a collect() of
   one's own. *)
THEOREM PromisesAreKept == Spec /\ [][StoresPromise]_vars => [][KeepsPromise]_vars
<1>1. Spec => []IInv
  BY Invariant
<1>2. IInv => OwnNumbers
  BY LeadersOwnNumbers
<1>3. Init => Forces
  <2>1. ASSUME Init, NEW m \in Mon PROVE InForce(px[m])
    <3>1. px[m].last_pn = 0 /\ px[m].accepted_pn = 0
      BY <2>1 DEF Init
    <3>. QED BY <3>1 DEF InForce
  <2>. QED BY <2>1 DEF Forces
<1>4. IInv /\ OwnNumbers' /\ Forces /\ [Next]_vars /\ [StoresPromise]_vars => Forces' /\ [KeepsPromise]_vars
  BY NextForces
<1>. QED BY <1>1, <1>2, <1>3, <1>4, PTL DEF Spec

(* If collect() stored its number as handle_collect() does, so that a restart
   finds what was promised, then logs would agree, what was acknowledged would
   be durable and leaders would know all, whatever crashes there are. *)
THEOREM SafeIfStored ==
  Spec /\ [][StoresPromise]_vars => [](Agreement /\ AckedIsDurable /\ LeaderKnowsAll)
BY PromisesAreKept, LogsAgree, AcksAreDurable, LeadersKnowAll, PTL

(* Elections, timeouts, lost sessions and late messages alone never make two
   logs disagree and lose nothing that commit_finish() has acknowledged. *)
THEOREM SafeWithoutCrashes ==
  ASSUME MaxCrash = 0
  PROVE  Spec => [](Agreement /\ AckedIsDurable /\ LeaderKnowsAll)
<1>1. IInv => [StoresPromise]_vars
  <2>1. ASSUME IInv, NEW m \in Mon, Crash(m) PROVE FALSE
    <3>1. spent["crash"] < 0 /\ spent["crash"] \in Nat
      BY <2>1 DEF Crash, Disturb, Spend, IInv, SpentOK
    <3>. QED BY <3>1
  <2>. QED BY <2>1 DEF StoresPromise
<1>2. Spec => []IInv
  BY Invariant
<1>. QED BY <1>1, <1>2, SafeIfStored, PTL
=============================================================================
