--------------------------- MODULE PaxosSession ---------------------------
(***************************************************************************)
(* The session of a leader with the members of its quorum: what relates a  *)
(* leader, one of its peons and the messages between the two at any point  *)
(* of recovery, of a round and of a lease.  Nothing here depends on the    *)
(* number of monitors.                                                     *)
(*                                                                         *)
(* A node is a monitor with its Paxos state and T, the set of monitors     *)
(* whose answers to its last collect it has counted.  Link(i, j, A, B, D,  *)
(* U) is about node A of monitor i as a leader, node B of monitor j as its *)
(* peon, the messages D from i to j and the messages U from j to i.  The   *)
(* lemmas say what each kind of step does to it; Paxos_proofs puts them    *)
(* together.                                                               *)
(***************************************************************************)
EXTENDS Paxos, FiniteSetTheorems, SequenceTheorems, WellFoundedInduction, TLAPS

(* Inside a handler, proposal numbers are not yet held below MaxPn. *)
LooseState == [
  last_pn : Nat, stored_pn : Nat, last_committed : 0 .. MaxOp,
  values : [Version -> Value], pending_v : Nat, pending_pn : Nat,
  state : State, accepted_pn : Nat,
  leader : {-1} \union Mon, quorum : SUBSET Mon,
  uncommitted_v : Nat, uncommitted_pn : Nat, uncommitted_value : Value,
  num_last : Nat, peer_last_committed : [Mon -> Int],
  accepted : SUBSET Mon, new_value : Value,
  pending_proposal : Value, committing : Value,
  lease : BOOLEAN, acked_lease : SUBSET Mon,
  timers : [Timer -> Nat]]

LooseMessage ==
  [op : {"victory", "collect", "last", "begin", "accept", "commit", "lease", "lease_ack"},
   epoch : Nat, pn : Nat, last_committed : 0 .. MaxOp, values : [Version -> Value],
   uncommitted_pn : Nat, quorum : SUBSET Mon]

Node == [epoch : Nat, role : {"out", "leader", "peon"}, s : LooseState, T : SUBSET Mon]

Messages == Seq(LooseMessage)

Ups == {"last", "accept", "lease_ack"}
Downs == {"collect", "begin", "commit", "lease"}
Updating == {"updating", "updating_previous"}
InWriting == {"writing", "writing_previous"}
Proposing == Updating \union InWriting

Follows(B, i, e) == B.role = "peon" /\ B.epoch = e /\ B.s.leader = i
Gone(B, e) == B.epoch > e \/ (B.epoch = e /\ B.role = "out")
IsCurrent(e, B) == e > B.epoch \/ (e = B.epoch /\ B.role # "out")
Has(q, op) == \E k \in DOMAIN q : q[k].op = op

-----------------------------------------------------------------------------
(* One monitor *)

(* The log has no gap, and a value beyond it comes with its number. *)
Logged(s) ==
  /\ \A v \in Version : v <= s.last_committed => s.values[v] # NoValue
  /\ \A v \in Version : v > s.last_committed + 1 => s.values[v] = NoValue
  /\ At(s.values, s.last_committed + 1) # NoValue =>
       s.pending_v = s.last_committed + 1 /\ s.pending_pn # 0

(* Proposal numbers belong to the monitor that made them. *)
Numbers(m, s) ==
  /\ s.last_pn = 0 \/ s.last_pn % 100 = m
  /\ s.accepted_pn % 100 = m => s.accepted_pn <= s.last_pn
  /\ s.stored_pn % 100 = m => s.stored_pn <= s.last_pn
  /\ s.stored_pn <= s.accepted_pn

(* A leader counts each answer once, and is done when it has all of them. *)
Leading(m, A) ==
  /\ A.s.leader = m /\ A.s.quorum \in Majorities /\ m \in A.s.quorum
  /\ A.s.accepted_pn = A.s.last_pn /\ A.s.last_pn % 100 = m /\ A.s.last_pn # 0
  /\ A.T \subseteq A.s.quorum /\ m \in A.T /\ A.s.num_last = Cardinality(A.T)
  /\ A.s.state # "recovering" => A.T = A.s.quorum
  /\ A.s.peer_last_committed[m] = -1

(* A leader has a value in hand exactly during a round, has stored it, and
   writes its commit only when the whole quorum has accepted it. *)
InRound(m, s) ==
  /\ s.state \in Proposing <=> s.new_value # NoValue
  /\ s.state \in Proposing => /\ m \in s.accepted /\ s.accepted \subseteq s.quorum
                              /\ At(s.values, s.last_committed + 1) = s.new_value
  /\ s.state \in InWriting => s.accepted = s.quorum

Local(m, A) ==
  /\ A.role # "out" => A.epoch % 2 = 0
  /\ A.role = "out" => A.s.state = "recovering" /\ A.s.leader = -1
  /\ A.role = "peon" => A.s.state \in {"recovering", "active", "updating"} /\ A.s.leader # m
  /\ A.role = "leader" => /\ A.s.state \in Proposing \union {"recovering", "active"}
                          /\ Leading(m, A) /\ InRound(m, A.s)
  /\ A.role # "leader" => A.s.new_value = NoValue
  /\ Logged(A.s) /\ Numbers(m, A.s)

-----------------------------------------------------------------------------
(* One connection: the messages q from i to j *)

InOrder(x, y) ==
  /\ x.epoch <= y.epoch /\ (y.op = "victory" => x.epoch < y.epoch)
  /\ x.last_committed <= y.last_committed

(* The committed versions in a message have no gap. *)
NoGap(x) ==
  \A v, w \in Version : v < w /\ w <= x.last_committed /\ x.values[v] # NoValue
                          => x.values[w] # NoValue

(* What i, now in state s of epoch e, may have sent. *)
Sent(x, e, s) ==
  /\ x.epoch <= e /\ x.last_committed <= s.last_committed
  /\ NoGap(x)
  /\ x.op = "victory" => x.epoch % 2 = 0
  /\ x.op = "begin" => x.pn # 0

Queue(i, j, A, B, q) ==
  /\ i = j => q = <<>>
  /\ \A k \in DOMAIN q : Sent(q[k], A.epoch, A.s) /\ IsCurrent(q[k].epoch, B)
  /\ \A k, l \in DOMAIN q : k < l => InOrder(q[k], q[l])

-----------------------------------------------------------------------------
(* A leader, a peon and the messages between them *)

(* Among the first n messages of D is one that takes a log from b to a. *)
Covers(D, n, b, a) ==
  \/ b = a
  \/ /\ b < a
     /\ \E k \in 1 .. n : /\ D[k].op = "commit" /\ D[k].last_committed = a
                          /\ \A v \in b + 1 .. a : D[k].values[v] # NoValue

Joined(j, A, e) ==
  /\ A.epoch >= e
  /\ A.epoch = e => A.role # "peon" /\ (A.role = "leader" => j \in A.s.quorum)

(* The numbers of i that are known in state s are below pn. *)
Below(s, pn, i) ==
  /\ s.accepted_pn % 100 = i => s.accepted_pn < pn
  /\ s.stored_pn % 100 = i => s.stored_pn < pn

(* Everything that a leader sends reaches its peon after the victory. *)
Told(i, j, A, B, D) ==
  /\ Below(B.s, A.s.last_pn + 1, i)
  /\ B.role = "peon" /\ B.s.leader = i => Joined(j, A, B.epoch)
  /\ A.role = "leader" /\ j \in A.s.quorum =>
       \/ Follows(B, i, A.epoch) \/ Gone(B, A.epoch)
       \/ \E k \in DOMAIN D : D[k].op = "victory" /\ D[k].epoch = A.epoch
  /\ \A k \in DOMAIN D : D[k].op = "victory" => Joined(j, A, D[k].epoch)
  /\ \A k \in DOMAIN D : D[k].op \in Downs =>
       \/ Follows(B, i, D[k].epoch)
       \/ /\ D[k].op = "collect"
          /\ \E l \in DOMAIN D : l < k /\ D[l].op = "victory" /\ D[l].epoch = D[k].epoch

(* A collect has a number its peon has not seen; a begin has one it has
   promised, and comes after the versions it builds on. *)
Asked(i, A, B, D) ==
  /\ \A k \in DOMAIN D : D[k].op = "collect" =>
       /\ D[k].pn % 100 = i /\ D[k].pn <= A.s.last_pn /\ Below(B.s, D[k].pn, i)
       /\ \A l \in DOMAIN D : k < l /\ D[l].op = "collect" => D[k].pn < D[l].pn
  /\ \A k \in DOMAIN D : D[k].op = "begin" =>
       /\ D[k].pn <= B.s.accepted_pn
       /\ D[k].pn = B.s.accepted_pn =>
            Covers(D, k - 1, B.s.last_committed, D[k].last_committed)
       /\ At(D[k].values, D[k].last_committed + 1) # NoValue

(* What is said in a last of the peon B to the leader A. *)
Tells(i, A, B, x) ==
  /\ \A v \in A.s.last_committed + 1 .. x.last_committed : x.values[v] # NoValue
  /\ Follows(B, i, A.epoch) =>
       /\ x.pn <= B.s.accepted_pn
       /\ \/ B.s.last_committed <= A.s.last_committed
          \/ B.s.last_committed <= x.last_committed

(* Answers reach the leader they are for, and the one that promises the number
   it leads with is the last of its peon's answers to collects. *)
Answered(i, j, A, B, D, U) ==
  /\ \A k \in DOMAIN U : U[k].op \in Ups =>
       /\ A.role = "leader" /\ A.epoch = U[k].epoch /\ j \in A.s.quorum
       /\ Follows(B, i, A.epoch) \/ Gone(B, A.epoch)
       /\ U[k].pn % 100 = i => U[k].pn <= A.s.last_pn
  /\ \A k \in DOMAIN U : U[k].op = "last" => Tells(i, A, B, U[k])
  /\ \A k \in DOMAIN U : U[k].op = "last" /\ U[k].pn = A.s.accepted_pn =>
       /\ ~Has(D, "collect")
       /\ \A l \in DOMAIN U : k < l => U[l].op # "last"

(* A peon that was counted has promised; it has what its leader has committed,
   or that is on its way. *)
Informed(i, j, A, B, D, U) ==
  /\ A.role = "leader" /\ j \in A.T =>
       /\ ~Has(U, "last") /\ ~Has(D, "collect")
       /\ A.s.state = "recovering" => A.s.peer_last_committed[j] >= 0
       /\ Follows(B, i, A.epoch) => A.s.accepted_pn <= B.s.accepted_pn
  /\ A.role = "leader" /\ (j \in A.T \/ A.s.peer_last_committed[j] >= 0) =>
       /\ Follows(B, i, A.epoch) \/ Gone(B, A.epoch)
       /\ Follows(B, i, A.epoch) =>
            /\ A.s.peer_last_committed[j] <= B.s.last_committed
            /\ Covers(D, Len(D), B.s.last_committed, A.s.last_committed)

(* j has not accepted what its leader proposes. *)
Undecided(j, A, U) ==
  A.s.state \in Proposing => j \notin A.s.accepted /\ ~Has(U, "accept")

(* One begin, then one accept, per round and peon. *)
Round(i, j, A, B, D, U) ==
  A.role = "leader" =>
    /\ \A k \in DOMAIN D : D[k].op = "begin" /\ D[k].epoch = A.epoch =>
         /\ A.s.state \in Updating
         /\ D[k].pn = A.s.accepted_pn /\ D[k].last_committed = A.s.last_committed
         /\ Undecided(j, A, U)
         /\ \A l \in DOMAIN D : D[l].op = "begin" => l = k
    /\ \A k \in DOMAIN U : U[k].op = "accept" =>
         /\ A.s.state \in Updating
         /\ U[k].pn = A.s.accepted_pn /\ U[k].last_committed = A.s.last_committed
         /\ j \notin A.s.accepted
         /\ \A l \in DOMAIN U : U[l].op = "accept" => l = k
    /\ /\ Follows(B, i, A.epoch)
       /\ Has(U, "accept") \/ (j \in A.s.accepted /\ A.s.state \in Proposing)
       => B.s.last_committed = A.s.last_committed

(* A peon with a lease is up to date and has not accepted anything newer. *)
Leased(i, j, A, B, D, U) ==
  A.role = "leader" =>
    /\ Follows(B, i, A.epoch) /\ B.s.lease =>
         /\ A.s.state # "recovering" /\ B.s.last_committed = A.s.last_committed
         /\ Undecided(j, A, U)
    /\ \A k \in DOMAIN D : D[k].op = "lease" /\ D[k].epoch = A.epoch =>
         /\ A.s.state # "recovering" /\ D[k].last_committed = A.s.last_committed
         /\ Undecided(j, A, U)
         /\ \A l \in DOMAIN D : l < k => D[l].op # "begin"

Link(i, j, A, B, D, U) ==
  /\ Told(i, j, A, B, D)
  /\ Asked(i, A, B, D)
  /\ Answered(i, j, A, B, D, U)
  /\ Informed(i, j, A, B, D, U)
  /\ Round(i, j, A, B, D, U)
  /\ Leased(i, j, A, B, D, U)

-----------------------------------------------------------------------------
(* Queues as sequences *)

(* msg is sent in epoch e on a connection to B that holds D. *)
Push(D, D2, msg, e, B) == D2 = IF IsCurrent(e, B) THEN Append(D, msg) ELSE D

(* The elements of a queue that was sent a message. *)
LEMMA PushFacts ==
  ASSUME NEW D \in Messages, NEW D2, NEW msg \in LooseMessage, NEW e, NEW B,
         Push(D, D2, msg, e, B)
  PROVE  /\ D2 \in Messages
         /\ Len(D) \in Nat /\ Len(D2) \in Nat
         /\ DOMAIN D = 1 .. Len(D) /\ DOMAIN D2 = 1 .. Len(D2)
         /\ \A k \in DOMAIN D : k \in DOMAIN D2 /\ D2[k] = D[k]
         /\ \A k \in DOMAIN D2 : k \in DOMAIN D \/ (k = Len(D) + 1 /\ D2[k] = msg /\ IsCurrent(e, B))
         /\ IsCurrent(e, B) => Len(D2) = Len(D) + 1 /\ D2[Len(D) + 1] = msg
<1>1. Len(D) \in Nat /\ DOMAIN D = 1 .. Len(D)
  BY LenProperties DEF Messages
<1>2. CASE IsCurrent(e, B) /\ D2 = Append(D, msg)
  <2>1. /\ D2 \in Messages /\ Len(D2) = Len(D) + 1
        /\ \A k \in 1 .. Len(D) : D2[k] = D[k]
        /\ D2[Len(D) + 1] = msg
    BY <1>2, AppendProperties DEF Messages
  <2>2. DOMAIN D2 = 1 .. Len(D2)
    BY <2>1, LenProperties DEF Messages
  <2>. QED BY <1>1, <1>2, <2>1, <2>2
<1>3. CASE ~IsCurrent(e, B) /\ D2 = D
  BY <1>1, <1>3
<1>. QED BY <1>2, <1>3 DEF Push

(* The elements of a queue whose first message was taken. *)
LEMMA TailFacts ==
  ASSUME NEW D \in Messages, D # <<>>, NEW D2, D2 = Tail(D)
  PROVE  /\ D2 \in Messages
         /\ Len(D) \in Nat /\ Len(D2) = Len(D) - 1 /\ Len(D2) \in Nat
         /\ DOMAIN D = 1 .. Len(D) /\ DOMAIN D2 = 1 .. Len(D2)
         /\ 1 \in DOMAIN D /\ D[1] \in LooseMessage /\ Head(D) = D[1]
         /\ \A k \in DOMAIN D2 : k + 1 \in DOMAIN D /\ D2[k] = D[k + 1] /\ k \in Nat
         /\ \A k \in DOMAIN D : k \in Nat /\ (k = 1 \/ (k - 1 \in DOMAIN D2 /\ D2[k - 1] = D[k]))
<1>1. Len(D) \in Nat /\ DOMAIN D = 1 .. Len(D)
  BY LenProperties DEF Messages
<1>2. /\ D2 \in Messages /\ Len(D2) = Len(D) - 1
      /\ \A k \in 1 .. Len(D2) : D2[k] = D[k + 1]
      /\ Head(D) \in LooseMessage
  BY HeadTailProperties DEF Messages
<1>3. Len(D2) \in Nat /\ DOMAIN D2 = 1 .. Len(D2)
  BY <1>2, LenProperties DEF Messages
<1>4. 1 \in DOMAIN D /\ Head(D) = D[1]
  BY <1>1, <1>2, <1>3
<1>. QED BY <1>1, <1>2, <1>3, <1>4

LEMMA NodeTypes ==
  ASSUME NEW A \in Node
  PROVE  /\ A.epoch \in Nat /\ A.role \in {"out", "leader", "peon"} /\ A.T \in SUBSET Mon
         /\ A.s \in LooseState
         /\ A.s.last_pn \in Nat /\ A.s.stored_pn \in Nat /\ A.s.accepted_pn \in Nat
         /\ A.s.last_committed \in Nat /\ A.s.last_committed \in 0 .. MaxOp
         /\ A.s.values \in [Version -> Value]
         /\ A.s.peer_last_committed \in [Mon -> Int]
         /\ A.s.quorum \in SUBSET Mon /\ A.s.accepted \in SUBSET Mon
         /\ A.s.num_last \in Nat /\ A.s.lease \in BOOLEAN
         /\ A.s.pending_v \in Nat /\ A.s.pending_pn \in Nat
<1>1. MaxOp \in Nat
  BY BoundAssumption
<1>. QED BY <1>1 DEF Node, LooseState

LEMMA MessageTypes ==
  ASSUME NEW D \in Messages, NEW k \in DOMAIN D
  PROVE  /\ D[k] \in LooseMessage /\ k \in Nat /\ k >= 1 /\ k <= Len(D)
         /\ D[k].epoch \in Nat /\ D[k].pn \in Nat
         /\ D[k].last_committed \in Nat /\ D[k].last_committed \in 0 .. MaxOp
         /\ D[k].values \in [Version -> Value] /\ D[k].uncommitted_pn \in Nat
<1>1. MaxOp \in Nat
  BY BoundAssumption
<1>2. D[k] \in LooseMessage /\ k \in 1 .. Len(D) /\ Len(D) \in Nat
  BY ElementOfSeq, LenProperties DEF Messages
<1>. QED BY <1>1, <1>2 DEF LooseMessage

LEMMA MonTypes == Mon \subseteq Int /\ MaxOp \in Nat /\ Version \subseteq Nat /\ N \in Nat /\ N <= 99
                  /\ \A m \in Mon : m % 100 = m
  BY NAssumption, BoundAssumption DEF Mon, Version

-----------------------------------------------------------------------------
(* Steps that do not matter to a session *)

SameLeader(A, A2) ==
  /\ A2.epoch = A.epoch /\ A2.role = A.role /\ A2.T = A.T
  /\ A2.s.quorum = A.s.quorum /\ A2.s.state = A.s.state
  /\ A2.s.accepted_pn = A.s.accepted_pn /\ A2.s.last_pn = A.s.last_pn
  /\ A2.s.last_committed = A.s.last_committed /\ A2.s.accepted = A.s.accepted
  /\ A2.s.peer_last_committed = A.s.peer_last_committed

SamePeon(B, B2) ==
  /\ B2.epoch = B.epoch /\ B2.role = B.role
  /\ B2.s.leader = B.s.leader /\ B2.s.accepted_pn = B.s.accepted_pn
  /\ B2.s.stored_pn = B.s.stored_pn /\ B2.s.last_committed = B.s.last_committed
  /\ B2.s.lease = B.s.lease

(* A leader changes what no session is about. *)
LEMMA LinkSameLeader ==
  ASSUME NEW i, NEW j, NEW A, NEW A2, NEW B, NEW D, NEW U,
         Link(i, j, A, B, D, U), SameLeader(A, A2)
  PROVE  Link(i, j, A2, B, D, U)
<1>1. Told(i, j, A2, B, D)
  BY DEF Link, SameLeader, Told, Joined
<1>2. Asked(i, A2, B, D)
  BY DEF Link, SameLeader, Asked
<1>3. Answered(i, j, A2, B, D, U)
  BY DEF Link, SameLeader, Answered, Tells
<1>4. Informed(i, j, A2, B, D, U)
  BY DEF Link, SameLeader, Informed
<1>5. Round(i, j, A2, B, D, U) /\ Leased(i, j, A2, B, D, U)
  BY DEF Link, SameLeader, Round, Leased, Undecided
<1>. QED BY <1>1, <1>2, <1>3, <1>4, <1>5 DEF Link

(* So does a peon. *)
LEMMA LinkSamePeon ==
  ASSUME NEW i, NEW j, NEW A, NEW B, NEW B2, NEW D, NEW U,
         Link(i, j, A, B, D, U), SamePeon(B, B2)
  PROVE  Link(i, j, A, B2, D, U)
<1>. USE DEF Follows, Gone, SamePeon, Below
<1>1. Told(i, j, A, B2, D)
  BY DEF Link, Told
<1>2. Asked(i, A, B2, D)
  BY DEF Link, Asked
<1>3. Answered(i, j, A, B2, D, U)
  BY DEF Link, Answered, Tells
<1>4. Informed(i, j, A, B2, D, U)
  BY DEF Link, Informed
<1>5. Round(i, j, A, B2, D, U) /\ Leased(i, j, A, B2, D, U)
  BY DEF Link, Round, Leased
<1>. QED BY <1>1, <1>2, <1>3, <1>4, <1>5 DEF Link

(* The leader takes a message. *)
LEMMA LinkTailU ==
  ASSUME NEW i, NEW j, NEW A, NEW B, NEW D, NEW U \in Messages, NEW U2,
         U # <<>>, U2 = Tail(U), Link(i, j, A, B, D, U)
  PROVE  Link(i, j, A, B, D, U2)
<1>1. /\ Len(U) \in Nat /\ DOMAIN U = 1 .. Len(U)
      /\ \A k \in DOMAIN U2 : k + 1 \in DOMAIN U /\ U2[k] = U[k + 1] /\ k \in Nat
  BY TailFacts
<1>2. Answered(i, j, A, B, D, U2)
  <2>1. \A k \in DOMAIN U2 : \A l \in DOMAIN U2 : k < l => k + 1 < l + 1
    BY <1>1
  <2>. QED BY <1>1, <2>1 DEF Link, Answered
<1>3. \A op : Has(U2, op) => Has(U, op)
  BY <1>1, Zenon DEF Has
<1>4. Informed(i, j, A, B, D, U2)
  BY <1>3 DEF Link, Informed
<1>5. Undecided(j, A, U) => Undecided(j, A, U2)
  BY <1>3 DEF Undecided
<1>6. Round(i, j, A, B, D, U2)
  BY <1>1, <1>3, <1>5 DEF Link, Round
<1>7. Leased(i, j, A, B, D, U2)
  BY <1>5 DEF Link, Leased
<1>. QED BY <1>2, <1>4, <1>6, <1>7 DEF Link

(* The peon sends what is not an answer, as a leader of its own. *)
Grows(U, U2) ==
  /\ \A k \in DOMAIN U : k \in DOMAIN U2 /\ U2[k] = U[k]
  /\ \A k \in DOMAIN U2 : k \in DOMAIN U \/ U2[k].op \notin Ups

LEMMA LinkGrowU ==
  ASSUME NEW i, NEW j, NEW A, NEW B, NEW D, NEW U, NEW U2,
         Grows(U, U2), Link(i, j, A, B, D, U)
  PROVE  Link(i, j, A, B, D, U2)
<1>1. \A op \in Ups : Has(U2, op) => Has(U, op)
  BY DEF Has, Grows
<1>. USE DEF Ups
<1>2. Answered(i, j, A, B, D, U2)
  BY DEF Link, Answered, Grows
<1>4. Informed(i, j, A, B, D, U2)
  BY <1>1 DEF Link, Informed
<1>5. Undecided(j, A, U) => Undecided(j, A, U2)
  BY <1>1 DEF Undecided
<1>6. Round(i, j, A, B, D, U2)
  BY <1>1, <1>5 DEF Link, Round, Grows
<1>7. Leased(i, j, A, B, D, U2)
  BY <1>5 DEF Link, Leased
<1>. QED BY <1>2, <1>4, <1>6, <1>7 DEF Link

(* The peon takes a message that is not a victory. *)
LEMMA ToldTail ==
  ASSUME NEW i, NEW j, NEW A, NEW B, NEW D \in Messages, NEW D2,
         D # <<>>, D2 = Tail(D), D[1].op # "victory", Told(i, j, A, B, D)
  PROVE  Told(i, j, A, B, D2)
<1>0. /\ Len(D) \in Nat /\ DOMAIN D = 1 .. Len(D)
      /\ \A k \in DOMAIN D2 : k + 1 \in DOMAIN D /\ D2[k] = D[k + 1] /\ k \in Nat
      /\ \A k \in DOMAIN D : k \in Nat /\ (k = 1 \/ (k - 1 \in DOMAIN D2 /\ D2[k - 1] = D[k]))
  BY TailFacts
<1>1. ASSUME NEW e, \E k \in DOMAIN D : D[k].op = "victory" /\ D[k].epoch = e
      PROVE  \E k \in DOMAIN D2 : D2[k].op = "victory" /\ D2[k].epoch = e
  BY <1>0, <1>1
<1>2. ASSUME NEW k \in DOMAIN D2, D2[k].op \in Downs
      PROVE  \/ Follows(B, i, D2[k].epoch)
             \/ /\ D2[k].op = "collect"
                /\ \E l \in DOMAIN D2 : l < k /\ D2[l].op = "victory" /\ D2[l].epoch = D2[k].epoch
  <2>1. CASE ~Follows(B, i, D2[k].epoch)
    <3>1. PICK l \in DOMAIN D : l < k + 1 /\ D[l].op = "victory" /\ D[l].epoch = D2[k].epoch
      BY <1>0, <1>2, <2>1 DEF Told
    <3>2. l - 1 \in DOMAIN D2 /\ D2[l - 1] = D[l] /\ l - 1 < k
      BY <1>0, <3>1
    <3>3. D2[k].op = "collect"
      BY <1>0, <1>2, <2>1 DEF Told
    <3>. QED BY <3>1, <3>2, <3>3
  <2>. QED BY <2>1
<1>3. /\ Below(B.s, A.s.last_pn + 1, i)
      /\ B.role = "peon" /\ B.s.leader = i => Joined(j, A, B.epoch)
  BY DEF Told
<1>4. A.role = "leader" /\ j \in A.s.quorum =>
        \/ Follows(B, i, A.epoch) \/ Gone(B, A.epoch)
        \/ \E k \in DOMAIN D2 : D2[k].op = "victory" /\ D2[k].epoch = A.epoch
  BY <1>1 DEF Told
<1>5. \A k \in DOMAIN D2 : D2[k].op = "victory" => Joined(j, A, D2[k].epoch)
  BY <1>0 DEF Told
<1>. QED BY <1>2, <1>3, <1>4, <1>5 DEF Told

(* The peon takes a message that is neither a victory nor a commit. *)
LEMMA LinkTailD ==
  ASSUME NEW i, NEW j, NEW A, NEW B, NEW D \in Messages, NEW U, NEW D2,
         D # <<>>, D2 = Tail(D), D[1].op \notin {"victory", "commit"}, Link(i, j, A, B, D, U)
  PROVE  Link(i, j, A, B, D2, U)
<1>1. /\ Len(D) \in Nat /\ DOMAIN D = 1 .. Len(D) /\ Len(D2) = Len(D) - 1
      /\ DOMAIN D2 = 1 .. Len(D2) /\ Len(D2) \in Nat
      /\ \A k \in DOMAIN D2 : k + 1 \in DOMAIN D /\ D2[k] = D[k + 1] /\ k \in Nat
      /\ \A k \in DOMAIN D : k \in Nat /\ (k = 1 \/ (k - 1 \in DOMAIN D2 /\ D2[k - 1] = D[k]))
  BY TailFacts
<1>2. \A op : Has(D2, op) => Has(D, op)
  BY <1>1, ZenonT(60) DEF Has
<1>4. Told(i, j, A, B, D2)
  BY ToldTail DEF Link
<1>5. Asked(i, A, B, D2)
  <2>1. ASSUME NEW k \in DOMAIN D2, D2[k].op = "collect"
        PROVE  /\ D2[k].pn % 100 = i /\ D2[k].pn <= A.s.last_pn /\ Below(B.s, D2[k].pn, i)
               /\ \A l \in DOMAIN D2 : k < l /\ D2[l].op = "collect" => D2[k].pn < D2[l].pn
    BY <1>1, <2>1 DEF Link, Asked
  <2>2. ASSUME NEW k \in DOMAIN D2, D2[k].op = "begin"
        PROVE  /\ D2[k].pn <= B.s.accepted_pn
               /\ D2[k].pn = B.s.accepted_pn =>
                    Covers(D, k, B.s.last_committed, D2[k].last_committed)
               /\ At(D2[k].values, D2[k].last_committed + 1) # NoValue
    <3>1. k + 1 \in DOMAIN D /\ D2[k] = D[k + 1] /\ k + 1 - 1 = k
      BY <1>1
    <3>. QED BY <3>1, <2>2 DEF Link, Asked
  <2>3. ASSUME NEW k \in DOMAIN D2, NEW b, NEW a, Covers(D, k, b, a)
        PROVE  Covers(D2, k - 1, b, a)
    <3>1. CASE b = a
      BY <3>1 DEF Covers
    <3>2. CASE b # a
      <4>1. PICK l \in 1 .. k : /\ D[l].op = "commit" /\ D[l].last_committed = a
                                /\ \A v \in b + 1 .. a : D[l].values[v] # NoValue
        BY <2>3, <3>2 DEF Covers
      <4>2. l # 1 /\ l \in DOMAIN D
        BY <4>1, <1>1
      <4>3. l - 1 \in 1 .. k - 1 /\ D2[l - 1] = D[l] /\ b < a
        BY <4>1, <4>2, <1>1, <2>3, <3>2 DEF Covers
      <4>. QED BY <4>1, <4>3 DEF Covers
    <3>. QED BY <3>1, <3>2
  <2>. QED BY <2>1, <2>2, <2>3 DEF Asked
<1>6. Answered(i, j, A, B, D2, U)
  BY <1>2 DEF Link, Answered
<1>7. \A b, a : Covers(D, Len(D), b, a) => Covers(D2, Len(D2), b, a)
  <2>. SUFFICES ASSUME NEW b, NEW a, Covers(D, Len(D), b, a) PROVE Covers(D2, Len(D2), b, a)
    OBVIOUS
  <2>1. CASE b = a
    BY <2>1 DEF Covers
  <2>2. CASE b # a
    <3>1. PICK l \in 1 .. Len(D) : /\ D[l].op = "commit" /\ D[l].last_committed = a
                              /\ \A v \in b + 1 .. a : D[l].values[v] # NoValue
      BY <2>2 DEF Covers
    <3>2. l # 1 /\ l \in DOMAIN D
      BY <3>1, <1>1
    <3>3. l - 1 \in 1 .. Len(D2) /\ D2[l - 1] = D[l] /\ b < a
      BY <3>1, <3>2, <1>1, <2>2 DEF Covers
    <3>. QED BY <3>1, <3>3 DEF Covers
  <2>. QED BY <2>1, <2>2
<1>8. Informed(i, j, A, B, D2, U)
  BY <1>2, <1>7 DEF Link, Informed
<1>9. Round(i, j, A, B, D2, U)
  BY <1>1 DEF Link, Round
<1>10. Leased(i, j, A, B, D2, U)
  BY <1>1 DEF Link, Leased
<1>. QED BY <1>4, <1>5, <1>6, <1>8, <1>9, <1>10 DEF Link

(* The leader answers a leader of its own: what it sends as a peon. *)
GrowsUp(D, D2) ==
  /\ DOMAIN D = 1 .. Len(D) /\ Len(D) \in Nat /\ Len(D2) \in Nat /\ Len(D2) >= Len(D)
  /\ \A k \in DOMAIN D : k \in DOMAIN D2 /\ D2[k] = D[k]
  /\ \A k \in DOMAIN D2 : k \in DOMAIN D \/ D2[k].op \in Ups

LEMMA LinkGrowD ==
  ASSUME NEW i, NEW j, NEW A, NEW B, NEW D, NEW U, NEW D2,
         GrowsUp(D, D2), Link(i, j, A, B, D, U)
  PROVE  Link(i, j, A, B, D2, U)
<1>. USE DEF Ups
<1>1. \A op : op \notin Ups /\ Has(D2, op) => Has(D, op)
  BY DEF Has, GrowsUp
<1>2. \A b, a : Covers(D, Len(D), b, a) => Covers(D2, Len(D2), b, a)
  BY DEF Covers, GrowsUp
<1>3. \A k \in DOMAIN D : \A b, a : Covers(D, k - 1, b, a) => Covers(D2, k - 1, b, a)
  BY SMTT(60) DEF Covers, GrowsUp
<1>4. Told(i, j, A, B, D2)
  BY DEF Link, Told, GrowsUp, Downs
<1>5. Asked(i, A, B, D2)
  BY <1>3 DEF Link, Asked, GrowsUp
<1>6. Answered(i, j, A, B, D2, U)
  BY <1>1 DEF Link, Answered
<1>8. Informed(i, j, A, B, D2, U)
  BY <1>1, <1>2 DEF Link, Informed
<1>9. Round(i, j, A, B, D2, U)
  BY DEF Link, Round, GrowsUp
<1>10. Leased(i, j, A, B, D2, U)
  BY DEF Link, Leased, GrowsUp
<1>. QED BY <1>4, <1>5, <1>6, <1>8, <1>9, <1>10 DEF Link

(* B does not follow i, does not come to follow i, and takes no number of i's. *)
LEMMA LinkNotPeon ==
  ASSUME NEW i, NEW j, NEW A \in Node, NEW B, NEW B2, NEW D \in Messages, NEW U \in Messages,
         B.role = "peon" => B.s.leader # i, B2.role = "peon" => B2.s.leader # i,
         \A e \in Nat : Gone(B, e) => Gone(B2, e),
         \A pn : Below(B.s, pn, i) => Below(B2.s, pn, i),
         Link(i, j, A, B, D, U)
  PROVE  Link(i, j, A, B2, D, U)
<1>. USE DEF Follows
<1>0. A.epoch \in Nat
  BY NodeTypes
<1>1. Told(i, j, A, B2, D)
  BY <1>0 DEF Link, Told
<1>2. Asked(i, A, B2, D)
  BY DEF Link, Asked, Told, Downs
<1>3. Answered(i, j, A, B2, D, U)
  BY <1>0 DEF Link, Answered, Tells
<1>4. Informed(i, j, A, B2, D, U)
  BY <1>0 DEF Link, Informed
<1>5. Round(i, j, A, B2, D, U) /\ Leased(i, j, A, B2, D, U)
  BY DEF Link, Round, Leased
<1>. QED BY <1>1, <1>2, <1>3, <1>4, <1>5 DEF Link

(* A does not lead, or stops to do so; the answers to it are gone. *)
LEMMA LinkNotLeader ==
  ASSUME NEW i, NEW j, NEW A, NEW A2, NEW B \in Node, NEW D \in Messages, NEW U, NEW U2,
         A2.role # "leader", A2.s.last_pn = A.s.last_pn,
         \A e \in Nat : Joined(j, A, e) => Joined(j, A2, e),
         \A k \in DOMAIN U2 : U2[k].op \notin Ups,
         Link(i, j, A, B, D, U)
  PROVE  Link(i, j, A2, B, D, U2)
<1>1. Told(i, j, A2, B, D)
  <2>1. B.epoch \in Nat /\ \A k \in DOMAIN D : D[k].epoch \in Nat
    BY NodeTypes, MessageTypes
  <2>. QED BY <2>1 DEF Link, Told
<1>2. Asked(i, A2, B, D)
  BY DEF Link, Asked
<1>3. Answered(i, j, A2, B, D, U2)
  BY DEF Answered, Ups
<1>4. Informed(i, j, A2, B, D, U2)
  BY DEF Informed
<1>5. Round(i, j, A2, B, D, U2) /\ Leased(i, j, A2, B, D, U2)
  BY DEF Round, Leased
<1>. QED BY <1>1, <1>2, <1>3, <1>4, <1>5 DEF Link

(* B leaves, and with it what was sent to it before. *)
Dropped(D, D2, n, B) ==
  /\ D2 \in Messages /\ n \in Nat /\ Len(D2) = Len(D) - n
  /\ \A k \in DOMAIN D2 : k + n \in DOMAIN D /\ D2[k] = D[k + n] /\ IsCurrent(D2[k].epoch, B)
  /\ \A k \in DOMAIN D : \/ k <= n /\ ~IsCurrent(D[k].epoch, B)
                         \/ k > n /\ k - n \in DOMAIN D2 /\ D2[k - n] = D[k]

LEMMA LinkLeave ==
  ASSUME NEW i, NEW j, NEW A \in Node, NEW B \in Node, NEW B2 \in Node,
         NEW D \in Messages, NEW U \in Messages, NEW D2, NEW n,
         B2.role = "out", B2.epoch >= B.epoch,
         \A pn : Below(B.s, pn, i) => Below(B2.s, pn, i),
         Dropped(D, D2, n, B2),
         Link(i, j, A, B, D, U)
  PROVE  Link(i, j, A, B2, D2, U)
<1>. USE DEF Follows, Gone
<1>1. /\ A.epoch \in Nat /\ B.epoch \in Nat /\ B2.epoch \in Nat
      /\ \A k \in DOMAIN D : D[k].epoch \in Nat /\ k \in Nat
      /\ \A k \in DOMAIN D2 : D2[k].epoch \in Nat /\ k \in Nat
      /\ n \in Nat
  BY NodeTypes, MessageTypes DEF Dropped
<1>2. \A k \in DOMAIN D2 : k + n \in DOMAIN D /\ D2[k] = D[k + n] /\ D2[k].epoch > B2.epoch
  BY <1>1 DEF Dropped, IsCurrent
<1>3. \A k \in DOMAIN D : D[k].epoch > B2.epoch => k > n /\ k - n \in DOMAIN D2 /\ D2[k - n] = D[k]
  BY <1>1 DEF Dropped, IsCurrent
<1>4. \A e \in Nat : Follows(B, i, e) \/ Gone(B, e) => Gone(B2, e)
  BY <1>1
<1>5. \A k \in DOMAIN D2 : D2[k].op \in Downs => D2[k].op = "collect"
  BY <1>1, <1>2 DEF Link, Told
<1>6. \A op : Has(D2, op) => Has(D, op)
  BY <1>2, Zenon DEF Has
<1>7. Told(i, j, A, B2, D2)
  <2>1. ASSUME NEW k \in DOMAIN D2, D2[k].op = "collect"
        PROVE  \E l \in DOMAIN D2 : l < k /\ D2[l].op = "victory" /\ D2[l].epoch = D2[k].epoch
    <3>1. PICK l \in DOMAIN D : l < k + n /\ D[l].op = "victory" /\ D[l].epoch = D2[k].epoch
      BY <1>1, <1>2, <2>1 DEF Link, Told, Downs
    <3>2. l - n \in DOMAIN D2 /\ D2[l - n] = D[l] /\ l - n < k
      BY <1>1, <1>2, <1>3, <3>1
    <3>. QED BY <3>1, <3>2
  <2>2. Below(B2.s, A.s.last_pn + 1, i)
    BY DEF Link, Told
  <2>3. A.role = "leader" /\ j \in A.s.quorum =>
          Gone(B2, A.epoch) \/ \E k \in DOMAIN D2 : D2[k].op = "victory" /\ D2[k].epoch = A.epoch
    <3>1. ASSUME NEW k \in DOMAIN D, D[k].op = "victory", D[k].epoch = A.epoch
          PROVE  Gone(B2, A.epoch) \/ \E l \in DOMAIN D2 : D2[l].op = "victory" /\ D2[l].epoch = A.epoch
      BY <1>1, <1>3, <3>1
    <3>. QED BY <1>1, <1>4, <3>1 DEF Link, Told
  <2>. QED BY <1>2, <1>5, <2>1, <2>2, <2>3 DEF Link, Told
<1>8. Asked(i, A, B2, D2)
  <2>1. \A k \in DOMAIN D2 : D2[k].op # "begin"
    BY <1>5 DEF Downs
  <2>. QED BY <1>1, <1>2, <2>1 DEF Link, Asked
<1>9. Answered(i, j, A, B2, D2, U)
  BY <1>1, <1>4, <1>6 DEF Link, Answered, Tells
<1>10. Informed(i, j, A, B2, D2, U)
  BY <1>1, <1>4, <1>6 DEF Link, Informed
<1>11. Round(i, j, A, B2, D2, U) /\ Leased(i, j, A, B2, D2, U)
  BY <1>5 DEF Link, Round, Leased, Downs
<1>. QED BY <1>7, <1>8, <1>9, <1>10, <1>11 DEF Link

-----------------------------------------------------------------------------
(* What a peon does *)

(* What a leader's message says about its peon, when it is the next to come. *)
LEMMA HeadFacts ==
  ASSUME NEW i \in Mon, NEW j, NEW A \in Node, NEW B \in Node, NEW D \in Messages, NEW U \in Messages,
         D # <<>>, D[1].op \in Downs, Link(i, j, A, B, D, U)
  PROVE  /\ 1 \in DOMAIN D
         /\ B.role = "peon" /\ B.s.leader = i /\ B.epoch = D[1].epoch
         /\ IsCurrent(B.epoch, A) => /\ A.role = "leader" /\ A.epoch = B.epoch
                                     /\ j \in A.s.quorum
<1>1. 1 \in DOMAIN D
  BY EmptySeq, LenProperties DEF Messages
<1>2. Follows(B, i, D[1].epoch)
  BY <1>1, MessageTypes DEF Link, Told
<1>3. A.epoch \in Nat /\ B.epoch \in Nat /\ A.role \in {"out", "leader", "peon"}
  BY NodeTypes
<1>. QED BY <1>1, <1>2, <1>3 DEF Link, Told, Follows, Joined, IsCurrent

(* A peon takes a collect and answers it. *)
LEMMA LinkCollect ==
  ASSUME NEW i \in Mon, NEW j, NEW A \in Node, NEW B \in Node, NEW B2 \in Node,
         NEW D \in Messages, NEW D2, NEW U \in Messages, NEW U2, NEW x \in LooseMessage,
         Link(i, j, A, B, D, U),
         D # <<>>, D2 = Tail(D), D[1].op = "collect",
         A.role = "leader" => A.s.accepted_pn = A.s.last_pn /\ A.s.last_pn % 100 = i,
         D[1].last_committed <= A.s.last_committed,
         B2.epoch = B.epoch, B2.role = B.role, B2.s.leader = B.s.leader,
         B2.s.last_committed = B.s.last_committed, B2.s.lease = B.s.lease,
         B2.s.accepted_pn = Larger(B.s.accepted_pn, D[1].pn),
         B2.s.stored_pn \in {B.s.stored_pn, B2.s.accepted_pn},
         x.op = "last", x.epoch = B.epoch, x.pn = B2.s.accepted_pn,
         x.last_committed = B.s.last_committed,
         \A v \in D[1].last_committed + 1 .. B.s.last_committed : x.values[v] # NoValue,
         Push(U, U2, x, B.epoch, A)
  PROVE  Link(i, j, A, B2, D2, U2)
<1>. USE DEF Larger
<1>1. Link(i, j, A, B, D2, U)
  BY LinkTailD
<1>2. /\ 1 \in DOMAIN D
      /\ B.role = "peon" /\ B.s.leader = i /\ B.epoch = D[1].epoch
      /\ IsCurrent(B.epoch, A) => A.role = "leader" /\ A.epoch = B.epoch /\ j \in A.s.quorum
  BY HeadFacts DEF Downs
<1>3. /\ D[1].pn \in Nat /\ D[1].last_committed \in Nat
      /\ A.s.last_pn \in Nat /\ A.s.last_committed \in Nat /\ A.s.accepted_pn \in Nat
      /\ B.s.accepted_pn \in Nat /\ B.s.stored_pn \in Nat /\ B.s.last_committed \in Nat
      /\ B2.s.accepted_pn \in Nat /\ B2.s.stored_pn \in Nat
  BY <1>2, MessageTypes, NodeTypes
<1>4. /\ D[1].pn % 100 = i /\ D[1].pn <= A.s.last_pn /\ Below(B.s, D[1].pn, i)
      /\ B2.s.accepted_pn >= B.s.accepted_pn
  BY <1>2, <1>3 DEF Link, Asked
<1>5. \A k \in DOMAIN D2 : D2[k].op = "collect" => D[1].pn < D2[k].pn /\ D2[k].pn \in Nat /\ D2[k].pn <= A.s.last_pn
  <2>1. \A k \in DOMAIN D2 : k + 1 \in DOMAIN D /\ D2[k] = D[k + 1] /\ 1 < k + 1
    BY TailFacts, <1>2
  <2>. QED BY <1>2, <2>1, MessageTypes DEF Link, Asked
<1>6. /\ DOMAIN U = 1 .. Len(U) /\ Len(U) \in Nat /\ U2 \in Messages
      /\ DOMAIN U2 = 1 .. Len(U2) /\ Len(U2) \in Nat
      /\ \A k \in DOMAIN U : k \in DOMAIN U2 /\ U2[k] = U[k]
      /\ \A k \in DOMAIN U2 : k \in DOMAIN U \/ (k = Len(U) + 1 /\ U2[k] = x /\ IsCurrent(B.epoch, A))
      /\ \A k \in DOMAIN U2 : k <= Len(U) + 1
  BY PushFacts
<1>7. \A op : op # "last" /\ Has(U2, op) => Has(U, op)
  BY <1>6, Zenon DEF Has
<1>8. Told(i, j, A, B2, D2)
  <2>1. Below(B2.s, A.s.last_pn + 1, i)
    <3>1. Below(B.s, A.s.last_pn + 1, i)
      BY <1>1 DEF Link, Told
    <3>2. B2.s.accepted_pn \in {B.s.accepted_pn, D[1].pn} /\ D[1].pn < A.s.last_pn + 1
      BY <1>3, <1>4
    <3>3. B2.s.accepted_pn % 100 = i => B2.s.accepted_pn < A.s.last_pn + 1
      BY <3>1, <3>2 DEF Below
    <3>4. B2.s.stored_pn % 100 = i => B2.s.stored_pn < A.s.last_pn + 1
      BY <3>1, <3>3 DEF Below
    <3>. QED BY <3>3, <3>4 DEF Below
  <2>. QED BY <1>1, <2>1 DEF Link, Told, Follows, Gone
<1>9. Asked(i, A, B2, D2)
  <2>1. ASSUME NEW k \in DOMAIN D2, D2[k].op = "collect"
        PROVE  Below(B2.s, D2[k].pn, i)
    <3>1. /\ D[1].pn < D2[k].pn /\ D2[k].pn \in Nat
      BY <1>5, <2>1
    <3>2. Below(B.s, D2[k].pn, i)
      BY <1>1, <2>1 DEF Link, Asked
    <3>3. B2.s.accepted_pn \in {B.s.accepted_pn, D[1].pn}
      BY <1>3 DEF Larger
    <3>4. B2.s.accepted_pn % 100 = i => B2.s.accepted_pn < D2[k].pn
      BY <3>1, <3>2, <3>3 DEF Below
    <3>5. B2.s.stored_pn % 100 = i => B2.s.stored_pn < D2[k].pn
      BY <3>2, <3>4 DEF Below
    <3>. QED BY <3>4, <3>5 DEF Below
  <2>2. D2 \in Messages
    BY TailFacts
  <2>3. ASSUME NEW k \in DOMAIN D2, D2[k].op = "begin"
        PROVE  /\ D2[k].pn <= B2.s.accepted_pn
               /\ D2[k].pn = B2.s.accepted_pn =>
                    Covers(D2, k - 1, B2.s.last_committed, D2[k].last_committed)
    <3>1. D2[k].pn \in Nat /\ D2[k].pn <= B.s.accepted_pn
      BY <1>1, <2>2, <2>3, MessageTypes DEF Link, Asked
    <3>2. D2[k].pn = B2.s.accepted_pn => D2[k].pn = B.s.accepted_pn
      BY <3>1, <1>3, <1>4
    <3>. QED BY SMTT(60), <1>1, <1>3, <1>4, <2>3, <3>1, <3>2 DEF Link, Asked
  <2>. QED BY <1>1, <2>1, <2>3 DEF Link, Asked
<1>10. Answered(i, j, A, B2, D2, U2)
  <2>1. ASSUME NEW k \in DOMAIN U2, U2[k].op \in Ups
        PROVE  /\ A.role = "leader" /\ A.epoch = U2[k].epoch /\ j \in A.s.quorum
               /\ Follows(B2, i, A.epoch) \/ Gone(B2, A.epoch)
               /\ U2[k].pn % 100 = i => U2[k].pn <= A.s.last_pn
    <3>1. CASE k \in DOMAIN U
      BY <1>1, <1>6, <2>1, <3>1 DEF Link, Answered, Follows, Gone
    <3>2. CASE U2[k] = x /\ IsCurrent(B.epoch, A)
      <4>1. x.pn % 100 = i => x.pn <= A.s.last_pn
        BY <1>3, <1>8 DEF Told, Below
      <4>. QED BY <1>2, <3>2, <4>1 DEF Follows
    <3>. QED BY <1>6, <3>1, <3>2
  <2>2. ASSUME NEW k \in DOMAIN U2, U2[k].op = "last"
        PROVE  Tells(i, A, B2, U2[k])
    <3>1. CASE k \in DOMAIN U
      <4>1. Tells(i, A, B, U[k]) /\ U[k].pn \in Nat
        BY <1>1, <1>6, <2>2, <3>1, MessageTypes DEF Link, Answered
      <4>2. Follows(B2, i, A.epoch) => Follows(B, i, A.epoch)
        BY DEF Follows
      <4>3. Follows(B, i, A.epoch) => U[k].pn <= B2.s.accepted_pn
        BY SMTT(60), <1>3, <1>4, <4>1 DEF Tells
      <4>4. Tells(i, A, B2, U[k])
        BY <4>1, <4>2, <4>3 DEF Tells
      <4>. QED BY <1>6, <3>1, <4>4
    <3>2. CASE U2[k] = x /\ IsCurrent(B.epoch, A)
      <4>1. \A v \in A.s.last_committed + 1 .. x.last_committed :
              v \in D[1].last_committed + 1 .. B.s.last_committed
        BY <1>3
      <4>2. x.pn <= B2.s.accepted_pn /\ B2.s.last_committed <= x.last_committed
        BY <1>3
      <4>3. \A v \in A.s.last_committed + 1 .. x.last_committed : x.values[v] # NoValue
        BY <4>1
      <4>4. Tells(i, A, B2, x)
        BY <4>2, <4>3 DEF Tells
      <4>. QED BY <3>2, <4>4
    <3>. QED BY <1>6, <3>1, <3>2
  <2>3. ASSUME NEW k \in DOMAIN U2, U2[k].op = "last", U2[k].pn = A.s.accepted_pn
        PROVE  /\ ~Has(D2, "collect")
               /\ \A l \in DOMAIN U2 : k < l => U2[l].op # "last"
    <3>1. k \notin DOMAIN U
      BY <1>2, <1>6, <2>3 DEF Link, Answered, Has
    <3>2. U2[k] = x /\ k = Len(U) + 1 /\ A.role = "leader"
      BY <1>2, <1>6, <3>1
    <3>3. ASSUME NEW l \in DOMAIN D2, D2[l].op = "collect" PROVE FALSE
      <4>1. Below(B2.s, D2[l].pn, i) /\ D2[l].pn <= A.s.last_pn /\ D2[l].pn \in Nat
        BY <1>5, <1>9, <3>3 DEF Asked
      <4>. QED BY SMTT(60), <1>3, <2>3, <3>2, <4>1 DEF Below
    <3>. QED BY <1>6, <3>2, <3>3 DEF Has
  <2>. QED BY <2>1, <2>2, <2>3 DEF Answered
<1>11. Informed(i, j, A, B2, D2, U2)
  <2>1. A.role = "leader" => j \notin A.T
    BY <1>2 DEF Link, Informed, Has
  <2>. QED BY <1>1, <2>1 DEF Link, Informed, Follows, Gone
<1>12. Undecided(j, A, U) => Undecided(j, A, U2)
  BY <1>7 DEF Undecided
<1>13. Round(i, j, A, B2, D2, U2)
  BY SMTT(60), <1>1, <1>6, <1>7, <1>12 DEF Link, Round, Follows
<1>14. Leased(i, j, A, B2, D2, U2)
  BY <1>1, <1>12 DEF Link, Leased, Follows
<1>. QED BY <1>8, <1>9, <1>10, <1>11, <1>13, <1>14 DEF Link

(* A begin that is next has the number that its peon promised, or a lower one,
   and then builds on its last version: the asserts of handle_begin(). *)
LEMMA BeginExpected ==
  ASSUME NEW i \in Mon, NEW j, NEW A \in Node, NEW B \in Node, NEW D \in Messages, NEW U \in Messages,
         Link(i, j, A, B, D, U), D # <<>>, D[1].op = "begin"
  PROVE  /\ D[1].pn <= B.s.accepted_pn
         /\ D[1].pn = B.s.accepted_pn => D[1].last_committed = B.s.last_committed
         /\ At(D[1].values, D[1].last_committed + 1) # NoValue
<1>1. 1 \in DOMAIN D
  BY HeadFacts DEF Downs
<1>. QED BY <1>1 DEF Link, Asked, Covers

(* A peon accepts a begin. *)
LEMMA LinkBegin ==
  ASSUME NEW i \in Mon, NEW j, NEW A \in Node, NEW B \in Node, NEW B2 \in Node,
         NEW D \in Messages, NEW D2, NEW U \in Messages, NEW U2, NEW x \in LooseMessage,
         Link(i, j, A, B, D, U),
         D # <<>>, D2 = Tail(D), D[1].op = "begin", D[1].pn = B.s.accepted_pn,
         B2.epoch = B.epoch, B2.role = B.role, B2.s.leader = B.s.leader,
         B2.s.last_committed = B.s.last_committed, ~B2.s.lease,
         B2.s.accepted_pn = B.s.accepted_pn, B2.s.stored_pn = B.s.stored_pn,
         x.op = "accept", x.epoch = B.epoch, x.pn = B.s.accepted_pn,
         x.last_committed = B.s.last_committed,
         Push(U, U2, x, B.epoch, A)
  PROVE  Link(i, j, A, B2, D2, U2)
<1>1. Link(i, j, A, B, D2, U)
  BY LinkTailD
<1>2. /\ 1 \in DOMAIN D
      /\ B.role = "peon" /\ B.s.leader = i /\ B.epoch = D[1].epoch
      /\ IsCurrent(B.epoch, A) => A.role = "leader" /\ A.epoch = B.epoch /\ j \in A.s.quorum
  BY HeadFacts DEF Downs
<1>3. D[1].last_committed = B.s.last_committed
  BY BeginExpected
<1>4. /\ DOMAIN U = 1 .. Len(U) /\ Len(U) \in Nat /\ U2 \in Messages
      /\ DOMAIN U2 = 1 .. Len(U2) /\ Len(U2) \in Nat
      /\ \A k \in DOMAIN U : k \in DOMAIN U2 /\ U2[k] = U[k]
      /\ \A k \in DOMAIN U2 : k \in DOMAIN U \/ (k = Len(U) + 1 /\ U2[k] = x /\ IsCurrent(B.epoch, A))
  BY PushFacts
<1>5. \A op : op # "accept" /\ Has(U2, op) => Has(U, op)
  BY <1>4, Zenon DEF Has
<1>6. Has(U2, "accept") => Has(U, "accept") \/ IsCurrent(B.epoch, A)
  BY <1>4, Zenon DEF Has
<1>7. ASSUME IsCurrent(B.epoch, A)
      PROVE  /\ A.s.state \in Updating /\ B.s.accepted_pn = A.s.accepted_pn
             /\ B.s.last_committed = A.s.last_committed
             /\ j \notin A.s.accepted /\ ~Has(U, "accept")
             /\ \A l \in DOMAIN D : D[l].op = "begin" => l = 1
             /\ \A l \in DOMAIN D : D[l].op = "lease" => D[l].epoch # A.epoch
  <2>1. D[1].op = "begin" /\ D[1].epoch = A.epoch /\ A.role = "leader"
    BY <1>2, <1>7
  <2>2. /\ A.s.state \in Updating /\ D[1].pn = A.s.accepted_pn /\ D[1].last_committed = A.s.last_committed
        /\ Undecided(j, A, U)
        /\ \A l \in DOMAIN D : D[l].op = "begin" => l = 1
    BY <1>2, <2>1 DEF Link, Round
  <2>3. ASSUME NEW l \in DOMAIN D, D[l].op = "lease", D[l].epoch = A.epoch PROVE FALSE
    <3>1. ~(1 < l)
      BY <1>2, <2>1, <2>3 DEF Link, Leased
    <3>2. l \in Nat /\ l >= 1 /\ l # 1
      BY <2>1, <2>3, MessageTypes
    <3>. QED BY <3>1, <3>2
  <2>. QED BY <1>3, <2>2, <2>3 DEF Undecided, Proposing
<1>8. \A k \in DOMAIN D2 : k + 1 \in DOMAIN D /\ D2[k] = D[k + 1] /\ 1 # k + 1 /\ k \in Nat
  BY TailFacts
<1>9. Told(i, j, A, B2, D2)
  BY <1>1 DEF Link, Told, Follows, Gone, Below
<1>10. Asked(i, A, B2, D2)
  BY <1>1 DEF Link, Asked, Below
<1>11. Answered(i, j, A, B2, D2, U2)
  <2>1. ASSUME NEW k \in DOMAIN U2, U2[k].op \in Ups
        PROVE  /\ A.role = "leader" /\ A.epoch = U2[k].epoch /\ j \in A.s.quorum
               /\ Follows(B2, i, A.epoch) \/ Gone(B2, A.epoch)
               /\ U2[k].pn % 100 = i => U2[k].pn <= A.s.last_pn
    <3>1. CASE k \in DOMAIN U
      BY <1>1, <1>4, <2>1, <3>1 DEF Link, Answered, Follows, Gone
    <3>2. CASE U2[k] = x /\ IsCurrent(B.epoch, A)
      <4>0. x.pn \in Nat /\ A.s.last_pn \in Nat
        BY NodeTypes
      <4>1. x.pn % 100 = i => x.pn <= A.s.last_pn
        BY <1>9, <4>0 DEF Told, Below
      <4>. QED BY <1>2, <3>2, <4>1 DEF Follows
    <3>. QED BY <1>4, <3>1, <3>2
  <2>2. ASSUME NEW k \in DOMAIN U2, U2[k].op = "last"
        PROVE  k \in DOMAIN U /\ U2[k] = U[k]
    BY <1>4, <2>2
  <2>3. ASSUME NEW k \in DOMAIN U2, U2[k].op = "last"
        PROVE  Tells(i, A, B2, U2[k])
    BY <1>1, <2>2, <2>3 DEF Link, Answered, Tells, Follows
  <2>4. ASSUME NEW k \in DOMAIN U2, U2[k].op = "last", U2[k].pn = A.s.accepted_pn
        PROVE  /\ ~Has(D2, "collect")
               /\ \A l \in DOMAIN U2 : k < l => U2[l].op # "last"
    BY <1>1, <2>2, <2>4 DEF Link, Answered
  <2>. QED BY <2>1, <2>3, <2>4 DEF Answered
<1>12. Informed(i, j, A, B2, D2, U2)
  BY <1>1, <1>5 DEF Link, Informed, Follows, Gone
<1>13. CASE IsCurrent(B.epoch, A)
  <2>1. Round(i, j, A, B2, D2, U2)
    BY <1>4, <1>7, <1>8, <1>13 DEF Round, Has
  <2>2. Leased(i, j, A, B2, D2, U2)
    BY <1>7, <1>8, <1>13 DEF Leased
  <2>. QED BY <1>9, <1>10, <1>11, <1>12, <2>1, <2>2 DEF Link
<1>14. CASE ~IsCurrent(B.epoch, A)
  <2>1. U2 = U
    BY <1>14 DEF Push
  <2>2. Round(i, j, A, B2, D2, U2) /\ Leased(i, j, A, B2, D2, U2)
    BY <1>1, <2>1 DEF Link, Round, Leased, Follows
  <2>. QED BY <1>9, <1>10, <1>11, <1>12, <2>1, <2>2 DEF Link
<1>. QED BY <1>13, <1>14

(* A peon takes a commit: its log is left as it is, or reaches the commit's last
   version, as it does if the commit gives all that is between the two. *)
Learns(b, b2, x) ==
  /\ b2 = b \/ (b < b2 /\ b2 = x.last_committed)
  /\ b < x.last_committed /\ (\A v \in b + 1 .. x.last_committed : x.values[v] # NoValue)
       => b2 = x.last_committed

LEMMA CoversTail ==
  ASSUME NEW D \in Messages, NEW D2, NEW n \in Nat, NEW b \in Nat, NEW b2 \in Nat, NEW a \in Nat,
         D # <<>>, D2 = Tail(D), D[1].op = "commit", Learns(b, b2, D[1]),
         D[1].last_committed <= a, n <= Len(D), n >= 1, Covers(D, n, b, a)
  PROVE  Covers(D2, n - 1, b2, a)
<1>1. /\ Len(D) \in Nat /\ DOMAIN D = 1 .. Len(D) /\ 1 \in DOMAIN D
      /\ \A k \in DOMAIN D : k \in Nat /\ (k = 1 \/ (k - 1 \in DOMAIN D2 /\ D2[k - 1] = D[k]))
      /\ D[1].last_committed \in Nat
  BY TailFacts, MessageTypes
<1>2. CASE b = a
  <2>1. b2 = a
    BY <1>1, <1>2 DEF Learns
  <2>. QED BY <2>1 DEF Covers
<1>3. CASE b # a
  <2>1. b < a
    BY <1>3 DEF Covers
  <2>2. PICK k \in 1 .. n : /\ D[k].op = "commit" /\ D[k].last_committed = a
                            /\ \A v \in b + 1 .. a : D[k].values[v] # NoValue
    BY <1>3 DEF Covers
  <2>3. CASE k = 1
    <3>1. b2 = a
      BY <2>1, <2>2, <2>3 DEF Learns
    <3>. QED BY <3>1 DEF Covers
  <2>4. CASE k # 1
    <3>1. k - 1 \in 1 .. n - 1 /\ D2[k - 1] = D[k]
      BY <1>1, <2>2, <2>4
    <3>2. b2 <= a /\ b <= b2
      BY <1>1, <2>1 DEF Learns
    <3>3. \A v \in b2 + 1 .. a : v \in b + 1 .. a
      BY <3>2
    <3>4. \E l \in 1 .. n - 1 : /\ D2[l].op = "commit" /\ D2[l].last_committed = a
                               /\ \A v \in b2 + 1 .. a : D2[l].values[v] # NoValue
      BY <2>2, <3>1, <3>3
    <3>5. b2 = a \/ b2 < a
      BY <3>2
    <3>. QED BY <3>4, <3>5 DEF Covers
  <2>. QED BY <2>3, <2>4
<1>. QED BY <1>2, <1>3

LEMMA LinkCommit ==
  ASSUME NEW i \in Mon, NEW j \in Mon, NEW A \in Node, NEW B \in Node, NEW B2 \in Node,
         NEW D \in Messages, NEW D2, NEW U \in Messages,
         Link(i, j, A, B, D, U),
         D # <<>>, D2 = Tail(D), D[1].op = "commit",
         D[1].last_committed <= A.s.last_committed,
         \A k, l \in DOMAIN D : k < l => InOrder(D[k], D[l]),
         B2.epoch = B.epoch, B2.role = B.role, B2.s.leader = B.s.leader, B2.s.lease = B.s.lease,
         B2.s.accepted_pn = B.s.accepted_pn, B2.s.stored_pn = B.s.stored_pn,
         Learns(B.s.last_committed, B2.s.last_committed, D[1])
  PROVE  Link(i, j, A, B2, D2, U)
<1>1. /\ Len(D) \in Nat /\ DOMAIN D = 1 .. Len(D) /\ 1 \in DOMAIN D /\ D2 \in Messages
      /\ DOMAIN D2 = 1 .. Len(D2) /\ Len(D2) = Len(D) - 1
      /\ \A k \in DOMAIN D2 : k + 1 \in DOMAIN D /\ D2[k] = D[k + 1] /\ k \in Nat
  <2>1. Len(D) \in Nat /\ DOMAIN D = 1 .. Len(D)
    BY TailFacts
  <2>2. 1 \in DOMAIN D /\ D2 \in Messages
    BY TailFacts
  <2>3. DOMAIN D2 = 1 .. Len(D2) /\ Len(D2) = Len(D) - 1
    BY TailFacts
  <2>4. \A k \in DOMAIN D2 : k + 1 \in DOMAIN D /\ D2[k] = D[k + 1] /\ k \in Nat
    BY TailFacts
  <2>. QED BY <2>1, <2>2, <2>3, <2>4
<1>2. /\ A.s.last_committed \in Nat /\ B.s.last_committed \in Nat /\ B2.s.last_committed \in Nat
      /\ D[1].last_committed \in Nat /\ B.s.accepted_pn \in Nat
  BY <1>1, MessageTypes, NodeTypes
<1>3. /\ B.s.last_committed <= B2.s.last_committed
      /\ B2.s.last_committed # B.s.last_committed => B2.s.last_committed <= A.s.last_committed
  BY <1>2 DEF Learns
<1>4. \A op : Has(D2, op) => Has(D, op)
  BY <1>1, Zenon DEF Has
<1>5. Told(i, j, A, B2, D2)
  <2>1. Told(i, j, A, B, D2)
    BY ToldTail DEF Link
  <2>. QED BY <2>1 DEF Told, Follows, Gone, Below
<1>6. Asked(i, A, B2, D2)
  <2>1. ASSUME NEW k \in DOMAIN D2, D2[k].op = "collect"
        PROVE  /\ D2[k].pn % 100 = i /\ D2[k].pn <= A.s.last_pn /\ Below(B2.s, D2[k].pn, i)
               /\ \A l \in DOMAIN D2 : k < l /\ D2[l].op = "collect" => D2[k].pn < D2[l].pn
    BY <1>1, <2>1 DEF Link, Asked, Below
  <2>2. ASSUME NEW k \in DOMAIN D2, D2[k].op = "begin"
        PROVE  /\ D2[k].pn <= B2.s.accepted_pn
               /\ D2[k].pn = B2.s.accepted_pn =>
                    Covers(D2, k - 1, B2.s.last_committed, D2[k].last_committed)
               /\ At(D2[k].values, D2[k].last_committed + 1) # NoValue
    <3>1. k + 1 \in DOMAIN D /\ D2[k] = D[k + 1] /\ k + 1 - 1 = k /\ k \in Nat /\ k >= 1 /\ k <= Len(D)
      BY <1>1
    <3>2. /\ D2[k].pn <= B.s.accepted_pn
          /\ D2[k].pn = B.s.accepted_pn => Covers(D, k, B.s.last_committed, D2[k].last_committed)
          /\ At(D2[k].values, D2[k].last_committed + 1) # NoValue
      BY <3>1, <2>2 DEF Link, Asked
    <3>3. D[1].last_committed <= D2[k].last_committed /\ D2[k].last_committed \in Nat
      <4>1. InOrder(D[1], D[k + 1])
        BY <1>1, <3>1
      <4>. QED BY <1>1, <3>1, <4>1, MessageTypes DEF InOrder
    <3>4. Covers(D, k, B.s.last_committed, D2[k].last_committed)
            => Covers(D2, k - 1, B2.s.last_committed, D2[k].last_committed)
      BY <1>2, <3>1, <3>3, CoversTail
    <3>. QED BY <3>2, <3>4
  <2>. QED BY <2>1, <2>2 DEF Asked
<1>7. Answered(i, j, A, B2, D2, U)
  <2>1. ASSUME NEW k \in DOMAIN U, Tells(i, A, B, U[k]) PROVE Tells(i, A, B2, U[k])
    BY <1>3, <2>1 DEF Tells, Follows
  <2>. QED BY <1>4, <2>1 DEF Link, Answered, Follows, Gone
<1>8. Informed(i, j, A, B2, D2, U)
  <2>1. /\ Len(D) >= 1 /\ Len(D) <= Len(D) /\ Len(D2) = Len(D) - 1
    BY <1>1
  <2>2. Covers(D, Len(D), B.s.last_committed, A.s.last_committed)
          => Covers(D2, Len(D2), B2.s.last_committed, A.s.last_committed)
    <3>1. Covers(D, Len(D), B.s.last_committed, A.s.last_committed)
            => Covers(D2, Len(D) - 1, B2.s.last_committed, A.s.last_committed)
      BY <1>1, <1>2, <2>1, CoversTail
    <3>. QED BY <3>1, <2>1
  <2>3. Follows(B2, i, A.epoch) => Follows(B, i, A.epoch)
    BY DEF Follows
  <2>4. ASSUME A.role = "leader", j \in A.T \/ A.s.peer_last_committed[j] >= 0
        PROVE  /\ Follows(B2, i, A.epoch) \/ Gone(B2, A.epoch)
               /\ Follows(B2, i, A.epoch) =>
                    /\ A.s.peer_last_committed[j] <= B2.s.last_committed
                    /\ Covers(D2, Len(D2), B2.s.last_committed, A.s.last_committed)
    <3>1. Follows(B, i, A.epoch) => A.s.peer_last_committed[j] <= B.s.last_committed
      BY <2>4 DEF Link, Informed
    <3>2. A.s.peer_last_committed[j] <= B.s.last_committed
            => A.s.peer_last_committed[j] <= B2.s.last_committed
      <4>1. A.s.peer_last_committed[j] \in Int
        BY NodeTypes
      <4>. QED BY <4>1, <1>2, <1>3
    <3>. QED BY <2>2, <2>3, <2>4, <3>1, <3>2 DEF Link, Informed, Follows, Gone
  <2>. QED BY <1>4, <2>3, <2>4 DEF Link, Informed
<1>9. B.s.last_committed = A.s.last_committed => B2.s.last_committed = A.s.last_committed
  BY <1>2, <1>3
<1>10. Round(i, j, A, B2, D2, U)
  BY <1>1, <1>9 DEF Link, Round, Follows
<1>11. Leased(i, j, A, B2, D2, U)
  BY <1>1, <1>9 DEF Link, Leased, Follows
<1>. QED BY <1>5, <1>6, <1>7, <1>8, <1>10, <1>11 DEF Link

(* A peon takes a lease and acknowledges it. *)
LEMMA LinkLease ==
  ASSUME NEW i \in Mon, NEW j, NEW A \in Node, NEW B \in Node, NEW B2 \in Node,
         NEW D \in Messages, NEW D2, NEW U \in Messages, NEW U2, NEW x \in LooseMessage,
         Link(i, j, A, B, D, U),
         D # <<>>, D2 = Tail(D), D[1].op = "lease", D[1].last_committed = B.s.last_committed,
         B2.epoch = B.epoch, B2.role = B.role, B2.s.leader = B.s.leader,
         B2.s.last_committed = B.s.last_committed,
         B2.s.accepted_pn = B.s.accepted_pn, B2.s.stored_pn = B.s.stored_pn,
         x.op = "lease_ack", x.epoch = B.epoch, x.pn = 0,
         Push(U, U2, x, B.epoch, A)
  PROVE  Link(i, j, A, B2, D2, U2)
<1>1. Link(i, j, A, B, D2, U)
  BY LinkTailD
<1>2. /\ 1 \in DOMAIN D
      /\ B.role = "peon" /\ B.s.leader = i /\ B.epoch = D[1].epoch
      /\ IsCurrent(B.epoch, A) => A.role = "leader" /\ A.epoch = B.epoch /\ j \in A.s.quorum
  BY HeadFacts DEF Downs
<1>4. /\ DOMAIN U = 1 .. Len(U) /\ Len(U) \in Nat /\ U2 \in Messages
      /\ DOMAIN U2 = 1 .. Len(U2) /\ Len(U2) \in Nat
      /\ \A k \in DOMAIN U : k \in DOMAIN U2 /\ U2[k] = U[k]
      /\ \A k \in DOMAIN U2 : k \in DOMAIN U \/ (k = Len(U) + 1 /\ U2[k] = x /\ IsCurrent(B.epoch, A))
  BY PushFacts
<1>5. \A op : op # "lease_ack" /\ Has(U2, op) => Has(U, op)
  BY <1>4, Zenon DEF Has
<1>6. Undecided(j, A, U) => Undecided(j, A, U2)
  BY <1>5 DEF Undecided
<1>7. ASSUME A.role = "leader", Follows(B, i, A.epoch)
      PROVE  /\ A.s.state # "recovering" /\ B.s.last_committed = A.s.last_committed
             /\ Undecided(j, A, U2)
  BY <1>2, <1>6, <1>7 DEF Link, Leased, Follows
<1>8. Told(i, j, A, B2, D2)
  BY <1>1 DEF Link, Told, Follows, Gone, Below
<1>9. Asked(i, A, B2, D2)
  BY <1>1 DEF Link, Asked, Below
<1>10. Answered(i, j, A, B2, D2, U2)
  <2>1. ASSUME NEW k \in DOMAIN U2, U2[k].op \in Ups
        PROVE  /\ A.role = "leader" /\ A.epoch = U2[k].epoch /\ j \in A.s.quorum
               /\ Follows(B2, i, A.epoch) \/ Gone(B2, A.epoch)
               /\ U2[k].pn % 100 = i => U2[k].pn <= A.s.last_pn
    <3>1. CASE k \in DOMAIN U
      BY <1>1, <1>4, <2>1, <3>1 DEF Link, Answered, Follows, Gone
    <3>2. CASE U2[k] = x /\ IsCurrent(B.epoch, A)
      <4>1. A.s.last_pn \in Nat
        BY NodeTypes
      <4>. QED BY <1>2, <3>2, <4>1 DEF Follows
    <3>. QED BY <1>4, <3>1, <3>2
  <2>2. ASSUME NEW k \in DOMAIN U2, U2[k].op = "last"
        PROVE  k \in DOMAIN U /\ U2[k] = U[k]
    BY <1>4, <2>2
  <2>3. ASSUME NEW k \in DOMAIN U2, U2[k].op = "last"
        PROVE  Tells(i, A, B2, U2[k])
    BY <1>1, <2>2, <2>3 DEF Link, Answered, Tells, Follows
  <2>4. ASSUME NEW k \in DOMAIN U2, U2[k].op = "last", U2[k].pn = A.s.accepted_pn
        PROVE  /\ ~Has(D2, "collect")
               /\ \A l \in DOMAIN U2 : k < l => U2[l].op # "last"
    BY <1>1, <2>2, <2>4 DEF Link, Answered
  <2>. QED BY <2>1, <2>3, <2>4 DEF Answered
<1>11. Informed(i, j, A, B2, D2, U2)
  BY <1>1, <1>5 DEF Link, Informed, Follows, Gone
<1>12. Round(i, j, A, B2, D2, U2)
  BY <1>1, <1>4, <1>5, <1>6 DEF Link, Round, Follows
<1>13. Leased(i, j, A, B2, D2, U2)
  BY <1>1, <1>6, <1>7 DEF Link, Leased, Follows
<1>. QED BY <1>8, <1>9, <1>10, <1>11, <1>12, <1>13 DEF Link

(* A monitor that is out follows the victory of i. *)
LEMMA LinkFollow ==
  ASSUME NEW i \in Mon, NEW j \in Mon, NEW A \in Node, NEW B \in Node, NEW B2 \in Node,
         NEW D \in Messages, NEW D2, NEW U \in Messages,
         Link(i, j, A, B, D, U), Local(i, A),
         D # <<>>, D2 = Tail(D), D[1].op = "victory", D[1].epoch = B.epoch + 1,
         B.role = "out", B2.role = "peon", B2.epoch = B.epoch + 1, B2.s.leader = i,
         B2.s.last_committed = B.s.last_committed, ~B2.s.lease,
         B2.s.accepted_pn = B.s.accepted_pn, B2.s.stored_pn = B.s.stored_pn
  PROVE  Link(i, j, A, B2, D2, U)
<1>1. /\ Len(D) \in Nat /\ DOMAIN D = 1 .. Len(D) /\ 1 \in DOMAIN D /\ D2 \in Messages
      /\ \A k \in DOMAIN D2 : k + 1 \in DOMAIN D /\ D2[k] = D[k + 1] /\ k \in Nat
      /\ \A k \in DOMAIN D : k \in Nat /\ (k = 1 \/ (k - 1 \in DOMAIN D2 /\ D2[k - 1] = D[k]))
  <2>1. Len(D) \in Nat /\ DOMAIN D = 1 .. Len(D)
    BY TailFacts
  <2>2. 1 \in DOMAIN D /\ D2 \in Messages
    BY TailFacts
  <2>3. \A k \in DOMAIN D2 : k + 1 \in DOMAIN D /\ D2[k] = D[k + 1] /\ k \in Nat
    BY TailFacts
  <2>4. \A k \in DOMAIN D : k \in Nat /\ (k = 1 \/ (k - 1 \in DOMAIN D2 /\ D2[k - 1] = D[k]))
    BY TailFacts
  <2>. QED BY <2>1, <2>2, <2>3, <2>4
<1>2. A.epoch \in Nat /\ B.epoch \in Nat
  BY NodeTypes
<1>3. \A e \in Nat : Gone(B, e) => Gone(B2, e) /\ ~Follows(B2, i, e)
  BY <1>2 DEF Gone, Follows
<1>4. \A e : ~Follows(B, i, e)
  BY DEF Follows
<1>5. Joined(j, A, B2.epoch)
  BY <1>1 DEF Link, Told
<1>6. \A k \in DOMAIN D2 : D2[k].op \in Downs => D2[k].op = "collect"
  BY <1>1, <1>4 DEF Link, Told
<1>7. \A op : Has(D2, op) => Has(D, op)
  BY <1>1, Zenon DEF Has
<1>8. Told(i, j, A, B2, D2)
  <2>1. Below(B2.s, A.s.last_pn + 1, i)
    BY DEF Link, Told, Below
  <2>2. A.role = "leader" /\ j \in A.s.quorum =>
          \/ Follows(B2, i, A.epoch) \/ Gone(B2, A.epoch)
          \/ \E k \in DOMAIN D2 : D2[k].op = "victory" /\ D2[k].epoch = A.epoch
    <3>. SUFFICES ASSUME A.role = "leader", j \in A.s.quorum
                  PROVE  \/ Follows(B2, i, A.epoch) \/ Gone(B2, A.epoch)
                         \/ \E k \in DOMAIN D2 : D2[k].op = "victory" /\ D2[k].epoch = A.epoch
      OBVIOUS
    <3>1. Gone(B, A.epoch) \/ \E k \in DOMAIN D : D[k].op = "victory" /\ D[k].epoch = A.epoch
      BY <1>4 DEF Link, Told
    <3>2. ASSUME NEW k \in DOMAIN D, D[k].op = "victory", D[k].epoch = A.epoch, k # 1
          PROVE  \E l \in DOMAIN D2 : D2[l].op = "victory" /\ D2[l].epoch = A.epoch
      BY ZenonT(60), <1>1, <3>2
    <3>3. D[1].epoch = A.epoch => Follows(B2, i, A.epoch)
      BY DEF Follows
    <3>. QED BY <1>2, <1>3, <3>1, <3>2, <3>3
  <2>3. \A k \in DOMAIN D2 : D2[k].op = "victory" => Joined(j, A, D2[k].epoch)
    BY <1>1 DEF Link, Told
  <2>4. ASSUME NEW k \in DOMAIN D2, D2[k].op = "collect", ~Follows(B2, i, D2[k].epoch)
        PROVE  \E l \in DOMAIN D2 : l < k /\ D2[l].op = "victory" /\ D2[l].epoch = D2[k].epoch
    <3>1. PICK l \in DOMAIN D : l < k + 1 /\ D[l].op = "victory" /\ D[l].epoch = D2[k].epoch
      BY <1>1, <1>4, <2>4 DEF Link, Told, Downs
    <3>2. l # 1
      BY <2>4, <3>1 DEF Follows
    <3>3. l - 1 \in DOMAIN D2 /\ D2[l - 1] = D[l] /\ l - 1 < k
      BY <1>1, <3>1, <3>2
    <3>. QED BY <3>1, <3>3
  <2>. QED BY <1>5, <1>6, <2>1, <2>2, <2>3, <2>4 DEF Told
<1>9. Asked(i, A, B2, D2)
  BY <1>1, <1>6 DEF Link, Asked, Below, Downs
<1>10. Answered(i, j, A, B2, D2, U)
  <2>1. \A k \in DOMAIN U : U[k].op \in Ups => Gone(B, A.epoch)
    BY <1>4 DEF Link, Answered
  <2>2. \A k \in DOMAIN U : U[k].op \in Ups =>
          Gone(B2, A.epoch) /\ ~Follows(B2, i, A.epoch)
    BY <1>2, <1>3, <2>1
  <2>3. \A k \in DOMAIN U : U[k].op = "last" => Tells(i, A, B2, U[k])
    BY <2>2 DEF Link, Answered, Tells, Ups
  <2>. QED BY <1>7, <2>2, <2>3 DEF Link, Answered
<1>11. A.role = "leader" /\ (j \in A.T \/ A.s.peer_last_committed[j] >= 0) => Gone(B, A.epoch)
  BY <1>4 DEF Link, Informed
<1>12. Informed(i, j, A, B2, D2, U)
  BY <1>2, <1>3, <1>4, <1>7, <1>11 DEF Link, Informed
<1>13. Round(i, j, A, B2, D2, U)
  <2>1. A.role = "leader" /\ j \in A.s.accepted /\ A.s.state \in Proposing => j \in A.T
    BY DEF Local, Leading, InRound, Proposing, Updating, InWriting
  <2>2. A.role = "leader" /\ Has(U, "accept") => Gone(B, A.epoch)
    BY <1>4 DEF Link, Answered, Has, Ups
  <2>. QED BY <1>2, <1>3, <1>6, <1>11, <2>1, <2>2 DEF Link, Round, Downs
<1>14. Leased(i, j, A, B2, D2, U)
  BY <1>6 DEF Link, Leased, Downs
<1>. QED BY <1>8, <1>9, <1>10, <1>12, <1>13, <1>14 DEF Link

-----------------------------------------------------------------------------
(* What a leader does *)

(* One message to the members of Q, in epoch e. *)
Pushes(j, Q, D, D2, msg, e, B) ==
  D2 = IF j \in Q /\ IsCurrent(e, B) THEN Append(D, msg) ELSE D

(* D2 is D, with msg at its end if c. *)
Longer(D, D2, msg, c) ==
  /\ D2 \in Messages
  /\ DOMAIN D = 1 .. Len(D) /\ Len(D) \in Nat /\ Len(D2) \in Nat /\ Len(D2) >= Len(D)
  /\ \A k \in DOMAIN D : k \in DOMAIN D2 /\ D2[k] = D[k] /\ k \in Nat /\ k <= Len(D)
  /\ \A k \in DOMAIN D2 : k \in DOMAIN D \/ (k = Len(D) + 1 /\ D2[k] = msg /\ c)
  /\ c => Len(D) + 1 \in DOMAIN D2 /\ Len(D2) = Len(D) + 1 /\ D2[Len(D) + 1] = msg

LEMMA PushesFacts ==
  ASSUME NEW j, NEW Q, NEW D \in Messages, NEW D2, NEW msg \in LooseMessage, NEW e, NEW B,
         Pushes(j, Q, D, D2, msg, e, B)
  PROVE  Longer(D, D2, msg, j \in Q /\ IsCurrent(e, B))
<1>0. Len(D) \in Nat /\ DOMAIN D = 1 .. Len(D)
  BY LenProperties DEF Messages
<1>1. CASE j \in Q /\ IsCurrent(e, B) /\ D2 = Append(D, msg)
  <2>1. /\ D2 \in Messages /\ Len(D2) = Len(D) + 1
        /\ \A k \in 1 .. Len(D) : D2[k] = D[k]
        /\ D2[Len(D) + 1] = msg
    BY <1>1, AppendProperties DEF Messages
  <2>2. DOMAIN D2 = 1 .. Len(D2)
    BY <2>1, LenProperties DEF Messages
  <2>. QED BY <1>0, <1>1, <2>1, <2>2 DEF Longer
<1>2. CASE ~(j \in Q /\ IsCurrent(e, B)) /\ D2 = D
  <2>1. Len(D2) = Len(D) /\ DOMAIN D2 = DOMAIN D /\ D2 \in Messages
    BY <1>2
  <2>2. \A k \in DOMAIN D : k \in DOMAIN D2 /\ D2[k] = D[k] /\ k \in Nat /\ k <= Len(D)
    BY <1>0, <1>2
  <2>3. Len(D2) \in Nat /\ Len(D2) >= Len(D) /\ Len(D) \in Nat /\ DOMAIN D = 1 .. Len(D)
    BY <1>0, <2>1
  <2>4. ~(j \in Q /\ IsCurrent(e, B))
    BY <1>2
  <2>. QED BY <2>1, <2>2, <2>3, <2>4, Zenon DEF Longer
<1>. QED BY <1>1, <1>2 DEF Pushes

LEMMA CurrentOrGone ==
  ASSUME NEW e \in Nat, NEW B \in Node
  PROVE  Gone(B, e) <=> ~IsCurrent(e, B)
<1>1. B.epoch \in Nat
  BY NodeTypes
<1>. QED BY <1>1 DEF Gone, IsCurrent

(* Messages at the end of D are not in the way of those before. *)
LEMMA CoversGrow ==
  ASSUME NEW D, NEW D2, NEW x, NEW c, Longer(D, D2, x, c)
  PROVE  /\ \A b, a : Covers(D, Len(D), b, a) => Covers(D2, Len(D), b, a) /\ Covers(D2, Len(D2), b, a)
         /\ \A k \in DOMAIN D : \A b, a : Covers(D, k - 1, b, a) => Covers(D2, k - 1, b, a)
<1>1. \A b, a : Covers(D, Len(D), b, a) => Covers(D2, Len(D), b, a) /\ Covers(D2, Len(D2), b, a)
  BY DEF Covers, Longer
<1>2. \A k \in DOMAIN D : \A b, a : Covers(D, k - 1, b, a) => Covers(D2, k - 1, b, a)
  BY DEF Covers, Longer
<1>. QED BY <1>1, <1>2

(* A monitor that is out declares victory and sends its first collect. *)
LEMMA LinkElect ==
  ASSUME NEW i \in Mon, NEW j \in Mon, i # j, NEW A \in Node, NEW A2 \in Node, NEW B \in Node,
         NEW D \in Messages, NEW D1, NEW D2, NEW U \in Messages,
         NEW w \in LooseMessage, NEW x \in LooseMessage,
         Link(i, j, A, B, D, U),
         A.role = "out", A2.role = "leader", A2.epoch = A.epoch + 1,
         A2.s.state = "recovering", A2.T = {i}, A2.s.peer_last_committed[j] = -1,
         A2.s.last_pn > A.s.last_pn, A2.s.last_pn % 100 = i,
         w.op = "victory", w.epoch = A2.epoch,
         x.op = "collect", x.epoch = A2.epoch, x.pn = A2.s.last_pn,
         Pushes(j, A2.s.quorum, D, D1, w, A2.epoch, B),
         Pushes(j, A2.s.quorum, D1, D2, x, A2.epoch, B)
  PROVE  Link(i, j, A2, B, D2, U)
<1>. DEFINE cur == j \in A2.s.quorum /\ IsCurrent(A2.epoch, B)
<1>1. /\ A.epoch \in Nat /\ A2.epoch \in Nat /\ B.epoch \in Nat
      /\ A.s.last_pn \in Nat /\ A2.s.last_pn \in Nat
      /\ B.s.accepted_pn \in Nat /\ B.s.stored_pn \in Nat
  BY NodeTypes
<1>2. Longer(D, D1, w, cur)
  BY PushesFacts
<1>3. Longer(D1, D2, x, cur)
  <2>1. D1 \in Messages
    BY <1>2 DEF Longer
  <2>. QED BY <2>1, PushesFacts
<1>. HIDE DEF cur
<1>4. /\ \A k \in DOMAIN D : k \in DOMAIN D2 /\ D2[k] = D[k] /\ k \in Nat /\ k <= Len(D)
      /\ \A k \in DOMAIN D2 : \/ k \in DOMAIN D
                              \/ k = Len(D) + 1 /\ D2[k] = w /\ cur
                              \/ k = Len(D) + 2 /\ D2[k] = x /\ cur
      /\ cur => Len(D) + 1 \in DOMAIN D2 /\ D2[Len(D) + 1] = w
  <2>1. \A k \in DOMAIN D : k \in DOMAIN D1 /\ D1[k] = D[k] /\ k \in Nat /\ k <= Len(D)
    BY <1>2 DEF Longer
  <2>2. \A k \in DOMAIN D1 : k \in DOMAIN D2 /\ D2[k] = D1[k]
    BY <1>3 DEF Longer
  <2>3. \A k \in DOMAIN D1 : k \in DOMAIN D \/ (k = Len(D) + 1 /\ D1[k] = w /\ cur)
    BY <1>2 DEF Longer
  <2>4. \A k \in DOMAIN D2 : k \in DOMAIN D1 \/ (k = Len(D1) + 1 /\ D2[k] = x /\ cur)
    BY <1>3 DEF Longer
  <2>5. cur => Len(D) + 1 \in DOMAIN D1 /\ Len(D1) + 1 = Len(D) + 2 /\ D1[Len(D) + 1] = w
    BY <1>2 DEF Longer
  <2>6. \A k \in DOMAIN D2 : (\/ k \in DOMAIN D
                              \/ k = Len(D) + 1 /\ D2[k] = w /\ cur
                              \/ k = Len(D) + 2 /\ D2[k] = x /\ cur)
    BY <2>2, <2>3, <2>4, <2>5
  <2>7. cur => Len(D) + 1 \in DOMAIN D2 /\ D2[Len(D) + 1] = w
    BY <2>2, <2>5
  <2>. QED BY <2>1, <2>2, <2>6, <2>7
<1>5. /\ \A k \in DOMAIN D : \A b, a : Covers(D, k - 1, b, a) => Covers(D2, k - 1, b, a)
      /\ Len(D) \in Nat
  <2>1. \A k \in DOMAIN D : \A b, a : Covers(D, k - 1, b, a) => Covers(D1, k - 1, b, a)
    BY <1>2, CoversGrow
  <2>2. \A k \in DOMAIN D1 : \A b, a : Covers(D1, k - 1, b, a) => Covers(D2, k - 1, b, a)
    BY <1>3, CoversGrow
  <2>3. Len(D) \in Nat /\ \A k \in DOMAIN D : k \in DOMAIN D1
    BY <1>2 DEF Longer
  <2>. QED BY <2>1, <2>2, <2>3
<1>6. \A e \in Nat : Joined(j, A, e) => Joined(j, A2, e) /\ e # A2.epoch
  <2>1. \A e \in Nat : A.epoch >= e => e # A2.epoch /\ A2.epoch >= e
    BY <1>1
  <2>. QED BY <2>1 DEF Joined
<1>7. \A k \in DOMAIN U : U[k].op \notin Ups
  BY DEF Link, Answered
<1>8. ~Follows(B, i, A2.epoch)
  BY <1>1, <1>6 DEF Link, Told, Follows
<1>9. Told(i, j, A2, B, D2)
  <2>1. Below(B.s, A2.s.last_pn + 1, i)
    BY <1>1 DEF Link, Told, Below
  <2>2. B.role = "peon" /\ B.s.leader = i => Joined(j, A2, B.epoch)
    BY <1>1, <1>6 DEF Link, Told
  <2>3. A2.role = "leader" /\ j \in A2.s.quorum =>
          \/ Follows(B, i, A2.epoch) \/ Gone(B, A2.epoch)
          \/ \E k \in DOMAIN D2 : D2[k].op = "victory" /\ D2[k].epoch = A2.epoch
    <3>1. IsCurrent(A2.epoch, B) \/ Gone(B, A2.epoch)
      BY <1>1, CurrentOrGone
    <3>. QED BY <1>4, <3>1 DEF cur
  <2>4. ASSUME NEW k \in DOMAIN D2, D2[k].op = "victory" PROVE Joined(j, A2, D2[k].epoch)
    <3>1. CASE k \in DOMAIN D
      BY <1>4, <1>6, <2>4, <3>1, MessageTypes DEF Link, Told
    <3>2. CASE D2[k] = w /\ cur
      BY <1>1, <3>2 DEF Joined, cur
    <3>. QED BY <1>4, <2>4, <3>1, <3>2
  <2>5. ASSUME NEW k \in DOMAIN D2, D2[k].op \in Downs
        PROVE  \/ Follows(B, i, D2[k].epoch)
               \/ /\ D2[k].op = "collect"
                  /\ \E l \in DOMAIN D2 : l < k /\ D2[l].op = "victory" /\ D2[l].epoch = D2[k].epoch
    <3>1. CASE k \in DOMAIN D
      BY <1>4, <2>5, <3>1 DEF Link, Told
    <3>2. CASE k = Len(D) + 2 /\ D2[k] = x /\ cur
      <4>1. Len(D) + 1 \in DOMAIN D2 /\ Len(D) + 1 < k /\ D2[Len(D) + 1] = w
        BY <1>4, <1>5, <3>2
      <4>. QED BY <3>2, <4>1
    <3>. QED BY <1>4, <2>5, <3>1, <3>2 DEF Downs
  <2>. QED BY <2>1, <2>2, <2>3, <2>4, <2>5 DEF Told
<1>10. Asked(i, A2, B, D2)
  <2>1. ASSUME NEW k \in DOMAIN D2, D2[k].op = "collect"
        PROVE  /\ D2[k].pn % 100 = i /\ D2[k].pn <= A2.s.last_pn /\ Below(B.s, D2[k].pn, i)
               /\ \A l \in DOMAIN D2 : k < l /\ D2[l].op = "collect" => D2[k].pn < D2[l].pn
    <3>1. CASE k \in DOMAIN D
      <4>1. /\ D2[k].pn % 100 = i /\ D2[k].pn <= A.s.last_pn /\ Below(B.s, D2[k].pn, i)
            /\ \A l \in DOMAIN D : k < l /\ D2[l].op = "collect" => D2[k].pn < D2[l].pn
            /\ D2[k].pn \in Nat
        BY <1>4, <2>1, <3>1, MessageTypes DEF Link, Asked
      <4>2. D2[k].pn <= A2.s.last_pn /\ D2[k].pn < x.pn
        BY <1>1, <4>1
      <4>. QED BY <1>4, <4>1, <4>2
    <3>2. CASE k = Len(D) + 2 /\ D2[k] = x /\ cur
      <4>1. Below(B.s, x.pn, i)
        BY <1>1 DEF Link, Told, Below
      <4>2. \A l \in DOMAIN D2 : ~(k < l)
        BY <1>4, <1>5, <3>2
      <4>. QED BY <1>1, <3>2, <4>1, <4>2
    <3>. QED BY <1>4, <2>1, <3>1, <3>2
  <2>2. ASSUME NEW k \in DOMAIN D2, D2[k].op = "begin" PROVE k \in DOMAIN D /\ D2[k] = D[k]
    BY <1>4, <2>2
  <2>. QED BY <1>5, <2>1, <2>2 DEF Link, Asked
<1>11. Answered(i, j, A2, B, D2, U)
  BY <1>7 DEF Answered, Ups
<1>12. Informed(i, j, A2, B, D2, U)
  BY DEF Informed
<1>13. ASSUME NEW k \in DOMAIN D2, D2[k].op \in {"begin", "lease"} PROVE D2[k].epoch # A2.epoch
  <2>1. k \in DOMAIN D /\ D2[k] = D[k]
    BY <1>4, <1>13
  <2>2. Follows(B, i, D[k].epoch)
    BY <1>13, <2>1 DEF Link, Told, Downs
  <2>. QED BY <1>8, <2>1, <2>2
<1>14. Round(i, j, A2, B, D2, U) /\ Leased(i, j, A2, B, D2, U)
  BY <1>7, <1>8, <1>13 DEF Round, Leased, Ups
<1>. QED BY <1>9, <1>10, <1>11, <1>12, <1>14 DEF Link

(* A leader collects again, with a higher number. *)
LEMMA LinkRecollect ==
  ASSUME NEW i \in Mon, NEW j \in Mon, i # j, NEW A \in Node, NEW A2 \in Node, NEW B \in Node,
         NEW D \in Messages, NEW D2, NEW U \in Messages, NEW x \in LooseMessage,
         Link(i, j, A, B, D, U),
         A.role = "leader", A2.role = "leader", A2.epoch = A.epoch,
         A.s.state = "recovering", A2.s.state = "recovering",
         A2.s.quorum = A.s.quorum, A2.s.last_committed = A.s.last_committed,
         A2.T = {i}, A2.s.peer_last_committed[j] = -1,
         A2.s.last_pn > A.s.last_pn, A2.s.last_pn % 100 = i, A2.s.accepted_pn = A2.s.last_pn,
         x.op = "collect", x.epoch = A2.epoch, x.pn = A2.s.last_pn,
         Pushes(j, A.s.quorum, D, D2, x, A.epoch, B)
  PROVE  Link(i, j, A2, B, D2, U)
<1>. DEFINE cur == j \in A.s.quorum /\ IsCurrent(A.epoch, B)
<1>1. /\ A.epoch \in Nat /\ B.epoch \in Nat
      /\ A.s.last_pn \in Nat /\ A2.s.last_pn \in Nat
      /\ B.s.accepted_pn \in Nat /\ B.s.stored_pn \in Nat
  BY NodeTypes
<1>0. Longer(D, D2, x, cur)
  BY PushesFacts
<1>2. /\ Len(D) \in Nat
      /\ \A k \in DOMAIN D : k \in DOMAIN D2 /\ D2[k] = D[k] /\ k \in Nat /\ k <= Len(D)
      /\ \A k \in DOMAIN D2 : k \in DOMAIN D \/ (k = Len(D) + 1 /\ D2[k] = x /\ cur)
  BY <1>0 DEF Longer
<1>3. cur => Follows(B, i, A.epoch) \/ \E k \in DOMAIN D : D[k].op = "victory" /\ D[k].epoch = A.epoch
  BY <1>1, CurrentOrGone DEF Link, Told
<1>. HIDE DEF cur
<1>5. \A k \in DOMAIN D : \A b, a : Covers(D, k - 1, b, a) => Covers(D2, k - 1, b, a)
  BY <1>0, CoversGrow
<1>9. Told(i, j, A2, B, D2)
  <2>1. Below(B.s, A2.s.last_pn + 1, i)
    BY <1>1 DEF Link, Told, Below
  <2>2. \A e : Joined(j, A, e) => Joined(j, A2, e)
    BY DEF Joined
  <2>5. ASSUME NEW k \in DOMAIN D2, D2[k].op \in Downs
        PROVE  \/ Follows(B, i, D2[k].epoch)
               \/ /\ D2[k].op = "collect"
                  /\ \E l \in DOMAIN D2 : l < k /\ D2[l].op = "victory" /\ D2[l].epoch = D2[k].epoch
    <3>1. CASE k \in DOMAIN D
      BY <1>2, <2>5, <3>1 DEF Link, Told
    <3>2. CASE k = Len(D) + 1 /\ D2[k] = x /\ cur
      <4>1. \A l \in DOMAIN D : l \in DOMAIN D2 /\ D2[l] = D[l] /\ l < k
        BY <1>2, <3>2
      <4>. QED BY <1>3, <3>2, <4>1
    <3>. QED BY <1>2, <2>5, <3>1, <3>2
  <2>6. \A k \in DOMAIN D2 : D2[k].op = "victory" => Joined(j, A2, D2[k].epoch)
    BY <1>2, <2>2 DEF Link, Told
  <2>7. j \in A2.s.quorum =>
          \/ Follows(B, i, A2.epoch) \/ Gone(B, A2.epoch)
          \/ \E k \in DOMAIN D2 : D2[k].op = "victory" /\ D2[k].epoch = A2.epoch
    BY <1>2 DEF Link, Told
  <2>8. B.role = "peon" /\ B.s.leader = i => Joined(j, A2, B.epoch)
    BY <2>2 DEF Link, Told
  <2>. QED BY <2>1, <2>5, <2>6, <2>7, <2>8 DEF Told
<1>10. Asked(i, A2, B, D2)
  <2>1. ASSUME NEW k \in DOMAIN D2, D2[k].op = "collect"
        PROVE  /\ D2[k].pn % 100 = i /\ D2[k].pn <= A2.s.last_pn /\ Below(B.s, D2[k].pn, i)
               /\ \A l \in DOMAIN D2 : k < l /\ D2[l].op = "collect" => D2[k].pn < D2[l].pn
    <3>1. CASE k \in DOMAIN D
      <4>1. /\ D2[k].pn % 100 = i /\ D2[k].pn <= A.s.last_pn /\ Below(B.s, D2[k].pn, i)
            /\ \A l \in DOMAIN D : k < l /\ D2[l].op = "collect" => D2[k].pn < D2[l].pn
            /\ D2[k].pn \in Nat
        BY <1>2, <2>1, <3>1, MessageTypes DEF Link, Asked
      <4>2. D2[k].pn <= A2.s.last_pn /\ D2[k].pn < x.pn
        BY <1>1, <4>1
      <4>. QED BY <1>2, <4>1, <4>2
    <3>2. CASE k = Len(D) + 1 /\ D2[k] = x /\ cur
      <4>1. Below(B.s, x.pn, i)
        BY <1>1 DEF Link, Told, Below
      <4>2. \A l \in DOMAIN D2 : ~(k < l)
        BY <1>2, <3>2
      <4>. QED BY <1>1, <3>2, <4>1, <4>2
    <3>. QED BY <1>2, <2>1, <3>1, <3>2
  <2>2. ASSUME NEW k \in DOMAIN D2, D2[k].op = "begin" PROVE k \in DOMAIN D /\ D2[k] = D[k]
    BY <1>2, <2>2
  <2>. QED BY <1>5, <2>1, <2>2 DEF Link, Asked
<1>11. Answered(i, j, A2, B, D2, U)
  <2>1. ASSUME NEW k \in DOMAIN U, U[k].op \in Ups
        PROVE  /\ A2.role = "leader" /\ A2.epoch = U[k].epoch /\ j \in A2.s.quorum
               /\ Follows(B, i, A2.epoch) \/ Gone(B, A2.epoch)
               /\ U[k].pn % 100 = i => U[k].pn <= A2.s.last_pn /\ U[k].pn # A2.s.last_pn
    <3>1. /\ j \in A.s.quorum /\ A.epoch = U[k].epoch
          /\ Follows(B, i, A.epoch) \/ Gone(B, A.epoch)
          /\ U[k].pn % 100 = i => U[k].pn <= A.s.last_pn
      BY <2>1 DEF Link, Answered
    <3>2. U[k].pn \in Nat
      BY MessageTypes
    <3>. QED BY <1>1, <3>1, <3>2
  <2>2. \A k \in DOMAIN U : U[k].op = "last" => Tells(i, A2, B, U[k])
    BY DEF Link, Answered, Tells
  <2>. QED BY <2>1, <2>2 DEF Answered, Ups
<1>12. Informed(i, j, A2, B, D2, U)
  BY DEF Informed
<1>13. /\ \A k \in DOMAIN D2 : D2[k].op \in {"begin", "lease"} => D2[k].epoch # A2.epoch
       /\ \A k \in DOMAIN U : U[k].op # "accept"
       /\ ~(Follows(B, i, A2.epoch) /\ B.s.lease)
  BY <1>2 DEF Link, Round, Leased, Updating
<1>14. Round(i, j, A2, B, D2, U) /\ Leased(i, j, A2, B, D2, U)
  <2>1. ~Has(U, "accept") /\ A2.s.state \notin Proposing
    BY <1>13 DEF Has, Proposing, Updating, InWriting
  <2>. QED BY <1>13, <2>1 DEF Round, Leased
<1>. QED BY <1>9, <1>10, <1>11, <1>12, <1>14 DEF Link

(* A leader that recovers takes a last of j, or of another, and sends j what it
   lacks.  Here the last stays in U. *)
HearStep(j, A, A2, B, U, p, y) ==
  /\ A.role = "leader" /\ A2.role = "leader" /\ A2.epoch = A.epoch /\ A2.T = A.T
  /\ A.s.state = "recovering" /\ A2.s.state = "recovering"
  /\ A2.s.quorum = A.s.quorum /\ A2.s.accepted = A.s.accepted
  /\ A2.s.accepted_pn = A.s.accepted_pn /\ A2.s.last_pn = A.s.last_pn
  /\ A.s.last_committed <= A2.s.last_committed
  /\ p = A2.s.peer_last_committed[j]
  /\ \/ p = A.s.peer_last_committed[j]
     \/ /\ U # <<>> /\ U[1].op = "last"
        /\ p = U[1].last_committed /\ p <= B.s.last_committed /\ p <= A2.s.last_committed
  /\ y.op = "commit" /\ y.epoch = A.epoch /\ y.last_committed = A2.s.last_committed
  /\ p >= 0 => \A v \in p + 1 .. A2.s.last_committed : y.values[v] # NoValue

LEMMA LinkHear ==
  ASSUME NEW i \in Mon, NEW j \in Mon, i # j, NEW A \in Node, NEW A2 \in Node, NEW B \in Node,
         NEW D \in Messages, NEW D2, NEW U \in Messages, NEW y \in LooseMessage, NEW p \in Int,
         NEW Q, Link(i, j, A, B, D, U),
         HearStep(j, A, A2, B, U, p, y),
         j \in Q <=> p >= 0 /\ p < A2.s.last_committed,
         Pushes(j, Q, D, D2, y, A.epoch, B)
  PROVE  Link(i, j, A2, B, D2, U)
<1>. USE DEF HearStep
<1>. DEFINE cur == j \in Q /\ IsCurrent(A.epoch, B)
<1>1. /\ A.epoch \in Nat /\ B.epoch \in Nat
      /\ A.s.last_committed \in Nat /\ A2.s.last_committed \in Nat /\ B.s.last_committed \in Nat
      /\ A.s.peer_last_committed[j] \in Int
  BY NodeTypes
<1>0. Longer(D, D2, y, cur)
  BY PushesFacts
<1>2. cur => p >= 0 /\ p < A2.s.last_committed /\ IsCurrent(A.epoch, B)
  OBVIOUS
<1>3. p >= 0 /\ p < A2.s.last_committed /\ IsCurrent(A.epoch, B) => cur
  OBVIOUS
<1>. HIDE DEF cur
<1>4. /\ Len(D) \in Nat /\ Len(D2) \in Nat /\ DOMAIN D = 1 .. Len(D)
      /\ \A k \in DOMAIN D : k \in DOMAIN D2 /\ D2[k] = D[k] /\ k \in Nat /\ k <= Len(D)
      /\ \A k \in DOMAIN D2 : k \in DOMAIN D \/ (k = Len(D) + 1 /\ D2[k] = y /\ cur)
  BY <1>0 DEF Longer
<1>5. \A k \in DOMAIN D : \A b, a : Covers(D, k - 1, b, a) => Covers(D2, k - 1, b, a)
  BY <1>0, CoversGrow
<1>6. p # A.s.peer_last_committed[j] =>
        /\ 1 \in DOMAIN U /\ U[1].op = "last"
        /\ p = U[1].last_committed /\ p <= B.s.last_committed /\ p <= A2.s.last_committed
  BY EmptySeq, LenProperties DEF Messages
<1>7. p >= 0 => /\ Follows(B, i, A.epoch) \/ Gone(B, A.epoch)
                /\ Follows(B, i, A.epoch) =>
                     p <= B.s.last_committed /\ B.s.last_committed <= A2.s.last_committed
  <2>1. CASE p = A.s.peer_last_committed[j]
    <3>1. p >= 0 => /\ Follows(B, i, A.epoch) \/ Gone(B, A.epoch)
                    /\ Follows(B, i, A.epoch) =>
                         p <= B.s.last_committed /\ Covers(D, Len(D), B.s.last_committed, A.s.last_committed)
      BY <2>1 DEF Link, Informed
    <3>2. Covers(D, Len(D), B.s.last_committed, A.s.last_committed) => B.s.last_committed <= A.s.last_committed
      BY <1>1 DEF Covers
    <3>. QED BY <1>1, <3>1, <3>2
  <2>2. CASE p # A.s.peer_last_committed[j]
    <3>1. Follows(B, i, A.epoch) \/ Gone(B, A.epoch)
      BY <1>6, <2>2 DEF Link, Answered, Ups
    <3>2. Tells(i, A, B, U[1])
      BY <1>6, <2>2 DEF Link, Answered
    <3>. QED BY <1>1, <1>6, <2>2, <3>1, <3>2 DEF Tells
  <2>. QED BY <2>1, <2>2
<1>8. cur => Follows(B, i, A.epoch)
  BY <1>1, <1>2, <1>7, CurrentOrGone
<1>9. Told(i, j, A2, B, D2)
  <2>1. \A e : Joined(j, A, e) => Joined(j, A2, e)
    BY DEF Joined
  <2>2. ASSUME NEW k \in DOMAIN D2, D2[k].op \in Downs
        PROVE  \/ Follows(B, i, D2[k].epoch)
               \/ /\ D2[k].op = "collect"
                  /\ \E l \in DOMAIN D2 : l < k /\ D2[l].op = "victory" /\ D2[l].epoch = D2[k].epoch
    <3>1. CASE k \in DOMAIN D
      BY <1>4, <2>2, <3>1 DEF Link, Told
    <3>2. CASE k = Len(D) + 1 /\ D2[k] = y /\ cur
      BY <1>8, <3>2
    <3>. QED BY <1>4, <2>2, <3>1, <3>2
  <2>3. \A k \in DOMAIN D2 : D2[k].op = "victory" => Joined(j, A2, D2[k].epoch)
    BY <1>4, <2>1 DEF Link, Told
  <2>4. j \in A2.s.quorum =>
          \/ Follows(B, i, A2.epoch) \/ Gone(B, A2.epoch)
          \/ \E k \in DOMAIN D2 : D2[k].op = "victory" /\ D2[k].epoch = A2.epoch
    BY <1>4 DEF Link, Told
  <2>5. /\ B.role = "peon" /\ B.s.leader = i => Joined(j, A2, B.epoch)
        /\ Below(B.s, A2.s.last_pn + 1, i)
    BY <2>1 DEF Link, Told
  <2>. QED BY <2>2, <2>3, <2>4, <2>5 DEF Told
<1>10. Asked(i, A2, B, D2)
  <2>1. \A k \in DOMAIN D2 : D2[k].op # "commit" => k \in DOMAIN D /\ D2[k] = D[k]
    BY <1>4
  <2>. QED BY <1>5, <2>1 DEF Link, Asked
<1>11. Has(D2, "collect") => Has(D, "collect")
  BY <1>4 DEF Has
<1>12. Answered(i, j, A2, B, D2, U)
  <2>1. ASSUME NEW k \in DOMAIN U, Tells(i, A, B, U[k]) PROVE Tells(i, A2, B, U[k])
    <3>1. U[k].last_committed \in Nat
      BY MessageTypes
    <3>2. \A v \in A2.s.last_committed + 1 .. U[k].last_committed :
            v \in A.s.last_committed + 1 .. U[k].last_committed
      BY <1>1, <3>1
    <3>3. B.s.last_committed <= A.s.last_committed => B.s.last_committed <= A2.s.last_committed
      BY <1>1
    <3>. QED BY <2>1, <3>2, <3>3 DEF Tells
  <2>. QED BY <1>11, <2>1 DEF Link, Answered
<1>13. Informed(i, j, A2, B, D2, U)
  <2>1. ASSUME j \in A.T
        PROVE  /\ ~Has(U, "last") /\ ~Has(D2, "collect") /\ p >= 0
               /\ Follows(B, i, A.epoch) => A2.s.accepted_pn <= B.s.accepted_pn
    <3>1. /\ ~Has(U, "last") /\ ~Has(D, "collect") /\ A.s.peer_last_committed[j] >= 0
          /\ Follows(B, i, A.epoch) => A.s.accepted_pn <= B.s.accepted_pn
      BY <2>1 DEF Link, Informed
    <3>2. p = A.s.peer_last_committed[j]
      BY <1>6, <3>1 DEF Has
    <3>. QED BY <1>11, <3>1, <3>2
  <2>2. ASSUME p >= 0, Follows(B, i, A.epoch)
        PROVE  Covers(D2, Len(D2), B.s.last_committed, A2.s.last_committed)
    <3>1. B.s.last_committed = A2.s.last_committed \/ B.s.last_committed < A2.s.last_committed
      BY <1>1, <1>7, <2>2
    <3>2. CASE B.s.last_committed = A2.s.last_committed
      BY <3>2 DEF Covers
    <3>3. CASE B.s.last_committed < A2.s.last_committed
      <4>1. p < A2.s.last_committed /\ p <= B.s.last_committed
        BY <1>1, <1>7, <2>2, <3>3
      <4>2. IsCurrent(A.epoch, B)
        BY <2>2 DEF IsCurrent, Follows
      <4>3. Len(D2) \in 1 .. Len(D2) /\ D2[Len(D2)] = y
        BY <1>0, <1>3, <1>4, <2>2, <4>1, <4>2 DEF Longer
      <4>4. \A v \in B.s.last_committed + 1 .. A2.s.last_committed : y.values[v] # NoValue
        BY <1>1, <2>2, <4>1
      <4>. QED BY <3>3, <4>3, <4>4 DEF Covers
    <3>. QED BY <3>1, <3>2, <3>3
  <2>. QED BY <1>7, <2>1, <2>2 DEF Informed
<1>14. /\ \A k \in DOMAIN D2 : D2[k].op \in {"begin", "lease"} => D2[k].epoch # A2.epoch
       /\ \A k \in DOMAIN U : U[k].op # "accept"
       /\ ~(Follows(B, i, A2.epoch) /\ B.s.lease)
  BY <1>4 DEF Link, Round, Leased, Updating
<1>15. Round(i, j, A2, B, D2, U) /\ Leased(i, j, A2, B, D2, U)
  <2>1. ~Has(U, "accept") /\ A2.s.state \notin Proposing
    BY <1>14 DEF Has, Proposing, Updating, InWriting
  <2>. QED BY <1>14, <2>1 DEF Round, Leased
<1>. QED BY <1>9, <1>10, <1>12, <1>13, <1>15 DEF Link

(* What the leader knows of j when the answer U[1] is one to its last collect. *)
Countable(i, j, A, B, D, U) ==
  /\ ~Has(U, "last") /\ ~Has(D, "collect") /\ A.s.peer_last_committed[j] >= 0
  /\ Follows(B, i, A.epoch) => A.s.accepted_pn <= B.s.accepted_pn

(* The leader counts the answer of j, or of another. *)
LEMMA LinkCount ==
  ASSUME NEW i, NEW j, NEW A, NEW A2, NEW B, NEW D, NEW U,
         Link(i, j, A, B, D, U),
         A2.epoch = A.epoch, A2.role = A.role,
         A2.s.quorum = A.s.quorum, A2.s.state = A.s.state,
         A2.s.accepted_pn = A.s.accepted_pn, A2.s.last_pn = A.s.last_pn,
         A2.s.last_committed = A.s.last_committed, A2.s.accepted = A.s.accepted,
         A2.s.peer_last_committed = A.s.peer_last_committed,
         j \in A2.T => j \in A.T \/ Countable(i, j, A, B, D, U)
  PROVE  Link(i, j, A2, B, D, U)
<1>1. Told(i, j, A2, B, D) /\ Asked(i, A2, B, D)
  BY DEF Link, Told, Joined, Asked
<1>3. Answered(i, j, A2, B, D, U)
  BY DEF Link, Answered, Tells
<1>4. Informed(i, j, A2, B, D, U)
  BY DEF Link, Informed, Countable
<1>5. Round(i, j, A2, B, D, U) /\ Leased(i, j, A2, B, D, U)
  BY DEF Link, Round, Leased, Undecided
<1>. QED BY <1>1, <1>3, <1>4, <1>5 DEF Link

(* All answers are in: the leader is active. *)
LEMMA LinkActivate ==
  ASSUME NEW i \in Mon, NEW j \in Mon, NEW A \in Node, NEW A2, NEW B \in Node,
         NEW D, NEW U,
         Link(i, j, A, B, D, U),
         A.role = "leader", A.s.state = "recovering", A2.s.state = "active",
         A2.epoch = A.epoch, A2.role = A.role, A2.T = A.T,
         A2.s.quorum = A.s.quorum,
         A2.s.accepted_pn = A.s.accepted_pn, A2.s.last_pn = A.s.last_pn,
         A2.s.last_committed = A.s.last_committed, A2.s.peer_last_committed[j] = -1
  PROVE  Link(i, j, A2, B, D, U)
<1>1. Told(i, j, A2, B, D) /\ Asked(i, A2, B, D)
  BY DEF Link, Told, Joined, Asked
<1>3. Answered(i, j, A2, B, D, U)
  BY DEF Link, Answered, Tells
<1>4. Informed(i, j, A2, B, D, U)
  <2>1. B.s.last_committed \in Nat
    BY NodeTypes
  <2>. QED BY <2>1 DEF Link, Informed
<1>5. /\ \A k \in DOMAIN D : D[k].op \in {"begin", "lease"} => D[k].epoch # A2.epoch
      /\ \A k \in DOMAIN U : U[k].op # "accept"
      /\ ~(Follows(B, i, A2.epoch) /\ B.s.lease)
  BY DEF Link, Round, Leased, Updating
<1>6. Round(i, j, A2, B, D, U) /\ Leased(i, j, A2, B, D, U)
  <2>1. ~Has(U, "accept") /\ A2.s.state \notin Proposing
    BY <1>5 DEF Has, Proposing, Updating, InWriting
  <2>. QED BY <1>5, <2>1 DEF Round, Leased
<1>. QED BY <1>1, <1>3, <1>4, <1>6 DEF Link

(* Once a leader is done with recovery, a member of its quorum follows it or is
   gone, and to follow is to be a member. *)
LEMMA Member ==
  ASSUME NEW i, NEW j, NEW A \in Node, NEW B \in Node, NEW D, NEW U,
         Link(i, j, A, B, D, U), A.role = "leader", A.T = A.s.quorum
  PROVE  /\ j \in A.s.quorum /\ IsCurrent(A.epoch, B) =>
              /\ Follows(B, i, A.epoch) /\ A.s.accepted_pn <= B.s.accepted_pn
              /\ Covers(D, Len(D), B.s.last_committed, A.s.last_committed)
         /\ Follows(B, i, A.epoch) => j \in A.s.quorum /\ IsCurrent(A.epoch, B)
         /\ \A k \in DOMAIN D : D[k].op \in {"begin", "lease"} /\ j \in A.s.quorum /\ IsCurrent(A.epoch, B)
              => D[k].epoch = A.epoch
<1>1. A.epoch \in Nat
  BY NodeTypes
<1>2. j \in A.s.quorum /\ IsCurrent(A.epoch, B) =>
              /\ Follows(B, i, A.epoch) /\ A.s.accepted_pn <= B.s.accepted_pn
              /\ Covers(D, Len(D), B.s.last_committed, A.s.last_committed)
  BY <1>1, CurrentOrGone DEF Link, Informed
<1>3. Follows(B, i, A.epoch) => j \in A.s.quorum /\ IsCurrent(A.epoch, B)
  BY DEF Link, Told, Follows, Joined, IsCurrent
<1>4. ASSUME NEW k \in DOMAIN D, D[k].op \in {"begin", "lease"}, Follows(B, i, A.epoch)
      PROVE  D[k].epoch = A.epoch
  BY <1>4 DEF Link, Told, Downs, Follows
<1>. QED BY <1>2, <1>3, <1>4

(* What follows on a message that only a follower gets. *)
LEMMA ToldMore ==
  ASSUME NEW i, NEW j, NEW A, NEW A2, NEW B, NEW D, NEW D2, NEW y, NEW c,
         Told(i, j, A, B, D), Longer(D, D2, y, c), c => Follows(B, i, y.epoch),
         y.op \in Downs,
         A2.epoch = A.epoch, A2.role = A.role, A2.s.quorum = A.s.quorum, A2.s.last_pn = A.s.last_pn
  PROVE  Told(i, j, A2, B, D2)
<1>4. /\ \A k \in DOMAIN D : k \in DOMAIN D2 /\ D2[k] = D[k] /\ k \in Nat /\ k <= Len(D)
      /\ \A k \in DOMAIN D2 : k \in DOMAIN D \/ (k = Len(D) + 1 /\ D2[k] = y /\ c)
  BY DEF Longer
<1>1. \A e : Joined(j, A, e) => Joined(j, A2, e)
  BY DEF Joined
<1>2. ASSUME NEW k \in DOMAIN D2, D2[k].op \in Downs
      PROVE  \/ Follows(B, i, D2[k].epoch)
             \/ /\ D2[k].op = "collect"
                /\ \E l \in DOMAIN D2 : l < k /\ D2[l].op = "victory" /\ D2[l].epoch = D2[k].epoch
  <2>1. CASE k \in DOMAIN D
    BY <1>4, <1>2, <2>1 DEF Told
  <2>2. CASE D2[k] = y /\ c
    BY <2>2
  <2>. QED BY <1>4, <2>1, <2>2
<1>3. \A k \in DOMAIN D2 : D2[k].op = "victory" => Joined(j, A2, D2[k].epoch)
  BY <1>4, <1>1 DEF Told, Downs
<1>5. A.role = "leader" /\ j \in A2.s.quorum =>
        \/ Follows(B, i, A2.epoch) \/ Gone(B, A2.epoch)
        \/ \E k \in DOMAIN D2 : D2[k].op = "victory" /\ D2[k].epoch = A2.epoch
  BY <1>4 DEF Told
<1>6. /\ B.role = "peon" /\ B.s.leader = i => Joined(j, A2, B.epoch)
      /\ Below(B.s, A2.s.last_pn + 1, i)
  BY <1>1 DEF Told
<1>. QED BY <1>2, <1>3, <1>5, <1>6 DEF Told

(* A leader proposes. *)
LEMMA LinkPropose ==
  ASSUME NEW i \in Mon, NEW j \in Mon, i # j, NEW A \in Node, NEW A2 \in Node, NEW B \in Node,
         NEW D \in Messages, NEW D2, NEW U \in Messages, NEW y \in LooseMessage,
         Link(i, j, A, B, D, U),
         A.role = "leader", A2.role = "leader", A2.epoch = A.epoch, A2.T = A.T, A.T = A.s.quorum,
         A.s.state = "active", A2.s.state \in Updating, A2.s.accepted = {i},
         A2.s.quorum = A.s.quorum, A2.s.last_committed = A.s.last_committed,
         A2.s.accepted_pn = A.s.accepted_pn, A2.s.last_pn = A.s.last_pn,
         A2.s.peer_last_committed = A.s.peer_last_committed,
         y.op = "begin", y.epoch = A.epoch, y.pn = A.s.accepted_pn,
         y.last_committed = A.s.last_committed,
         At(y.values, y.last_committed + 1) # NoValue,
         Pushes(j, A.s.quorum, D, D2, y, A.epoch, B)
  PROVE  Link(i, j, A2, B, D2, U)
<1>. DEFINE cur == j \in A.s.quorum /\ IsCurrent(A.epoch, B)
<1>0. Longer(D, D2, y, cur)
  BY PushesFacts
<1>1. /\ cur => /\ Follows(B, i, A.epoch) /\ A.s.accepted_pn <= B.s.accepted_pn
                /\ Covers(D, Len(D), B.s.last_committed, A.s.last_committed)
      /\ Follows(B, i, A.epoch) => cur
      /\ \A k \in DOMAIN D : D[k].op \in {"begin", "lease"} /\ cur => D[k].epoch = A.epoch
  <2>1. cur => /\ Follows(B, i, A.epoch) /\ A.s.accepted_pn <= B.s.accepted_pn
               /\ Covers(D, Len(D), B.s.last_committed, A.s.last_committed)
    BY Member
  <2>2. Follows(B, i, A.epoch) => cur
    BY Member
  <2>3. \A k \in DOMAIN D : D[k].op \in {"begin", "lease"} /\ cur => D[k].epoch = A.epoch
    BY Member
  <2>. QED BY <2>1, <2>2, <2>3
<1>. HIDE DEF cur
<1>2. /\ Len(D) \in Nat /\ Len(D2) \in Nat /\ DOMAIN D = 1 .. Len(D)
      /\ \A k \in DOMAIN D : k \in DOMAIN D2 /\ D2[k] = D[k] /\ k \in Nat /\ k <= Len(D)
      /\ \A k \in DOMAIN D2 : k \in DOMAIN D \/ (k = Len(D) + 1 /\ D2[k] = y /\ cur)
  BY <1>0 DEF Longer
<1>3. /\ \A b, a : Covers(D, Len(D), b, a) => Covers(D2, Len(D), b, a) /\ Covers(D2, Len(D2), b, a)
      /\ \A k \in DOMAIN D : \A b, a : Covers(D, k - 1, b, a) => Covers(D2, k - 1, b, a)
  BY <1>0, CoversGrow
<1>4. /\ \A k \in DOMAIN D : D[k].op = "begin" => D[k].epoch # A.epoch
      /\ \A k \in DOMAIN U : U[k].op # "accept"
  BY DEF Link, Round, Updating
<1>5. ~Has(U, "accept") /\ j \notin A2.s.accepted /\ Undecided(j, A2, U)
  BY <1>4 DEF Has, Undecided
<1>6. Told(i, j, A2, B, D2)
  <2>1. Told(i, j, A, B, D) /\ (cur => Follows(B, i, y.epoch)) /\ y.op \in Downs
    BY <1>1 DEF Link, Downs
  <2>. QED BY <1>0, <2>1, ToldMore
<1>7. Asked(i, A2, B, D2)
  <2>1. \A k \in DOMAIN D2 : D2[k].op # "begin" => k \in DOMAIN D /\ D2[k] = D[k]
    BY <1>2
  <2>2. \A k \in DOMAIN D2 : D2[k].op = "collect" =>
          /\ D2[k].pn % 100 = i /\ D2[k].pn <= A2.s.last_pn /\ Below(B.s, D2[k].pn, i)
          /\ \A l \in DOMAIN D2 : k < l /\ D2[l].op = "collect" => D2[k].pn < D2[l].pn
    BY <2>1 DEF Link, Asked
  <2>3. ASSUME NEW k \in DOMAIN D2, D2[k].op = "begin"
        PROVE  /\ D2[k].pn <= B.s.accepted_pn
               /\ D2[k].pn = B.s.accepted_pn =>
                    Covers(D2, k - 1, B.s.last_committed, D2[k].last_committed)
               /\ At(D2[k].values, D2[k].last_committed + 1) # NoValue
    <3>1. CASE k \in DOMAIN D
      BY <1>2, <1>3, <2>3, <3>1 DEF Link, Asked
    <3>2. CASE k = Len(D) + 1 /\ D2[k] = y /\ cur
      <4>1. k - 1 = Len(D)
        BY <1>2, <3>2
      <4>. QED BY <1>1, <1>3, <3>2, <4>1
    <3>. QED BY <1>2, <3>1, <3>2
  <2>. QED BY <2>2, <2>3 DEF Asked
<1>8. Has(D2, "collect") => Has(D, "collect")
  BY <1>2 DEF Has
<1>9. Answered(i, j, A2, B, D2, U)
  BY <1>8 DEF Link, Answered, Tells
<1>10. Informed(i, j, A2, B, D2, U)
  BY <1>3, <1>8 DEF Link, Informed, Updating
<1>11. Round(i, j, A2, B, D2, U)
  <2>1. ASSUME NEW k \in DOMAIN D2, D2[k].op = "begin", D2[k].epoch = A2.epoch
        PROVE  /\ D2[k].pn = A2.s.accepted_pn /\ D2[k].last_committed = A2.s.last_committed
               /\ \A l \in DOMAIN D2 : D2[l].op = "begin" => l = k
    <3>1. k = Len(D) + 1 /\ D2[k] = y /\ cur
      BY <1>2, <1>4, <2>1
    <3>2. \A l \in DOMAIN D : D[l].op # "begin"
      BY <1>1, <1>4, <3>1
    <3>. QED BY <1>2, <3>1, <3>2
  <2>. QED BY <1>4, <1>5, <2>1 DEF Round
<1>12. Leased(i, j, A2, B, D2, U)
  <2>1. ASSUME NEW k \in DOMAIN D2, D2[k].op = "lease", D2[k].epoch = A2.epoch
        PROVE  /\ D2[k].last_committed = A2.s.last_committed
               /\ \A l \in DOMAIN D2 : l < k => D2[l].op # "begin"
    <3>1. k \in DOMAIN D /\ D2[k] = D[k]
      BY <1>2, <2>1
    <3>2. \A l \in DOMAIN D2 : l < k => l \in DOMAIN D /\ D2[l] = D[l]
      BY <1>2, <3>1
    <3>. QED BY <2>1, <3>1, <3>2 DEF Link, Leased
  <2>. QED BY <1>5, <2>1 DEF Link, Leased, Updating
<1>. QED BY <1>6, <1>7, <1>9, <1>10, <1>11, <1>12 DEF Link

(* An accept that is next is the first of its peon in the round: the asserts of
   handle_accept(). *)
LEMMA AcceptExpected ==
  ASSUME NEW i, NEW j, NEW A, NEW B, NEW D, NEW U \in Messages,
         Link(i, j, A, B, D, U), U # <<>>, U[1].op = "accept"
  PROVE  /\ 1 \in DOMAIN U
         /\ A.role = "leader" /\ A.epoch = U[1].epoch /\ j \in A.s.quorum
         /\ A.s.state \in Updating
         /\ U[1].pn = A.s.accepted_pn /\ U[1].last_committed = A.s.last_committed
         /\ j \notin A.s.accepted
         /\ \A l \in DOMAIN U : U[l].op = "accept" => l = 1
<1>1. 1 \in DOMAIN U
  BY EmptySeq, LenProperties DEF Messages
<1>2. A.role = "leader" /\ A.epoch = U[1].epoch /\ j \in A.s.quorum
  BY <1>1 DEF Link, Answered, Ups
<1>. QED BY <1>1, <1>2 DEF Link, Round

(* The leader takes j's accept. *)
LEMMA LinkAccepted ==
  ASSUME NEW i \in Mon, NEW j \in Mon, NEW A, NEW A2, NEW B,
         NEW D, NEW U \in Messages, NEW U2,
         Link(i, j, A, B, D, U),
         U # <<>>, U[1].op = "accept", U2 = Tail(U),
         A2.role = A.role, A2.epoch = A.epoch, A2.T = A.T,
         A2.s.state \in Proposing, A2.s.accepted = A.s.accepted \union {j},
         A2.s.quorum = A.s.quorum, A2.s.last_committed = A.s.last_committed,
         A2.s.accepted_pn = A.s.accepted_pn, A2.s.last_pn = A.s.last_pn,
         A2.s.peer_last_committed = A.s.peer_last_committed
  PROVE  Link(i, j, A2, B, D, U2)
<1>1. /\ 1 \in DOMAIN U
      /\ A.role = "leader" /\ A.epoch = U[1].epoch /\ j \in A.s.quorum
      /\ A.s.state \in Updating
      /\ j \notin A.s.accepted
      /\ \A l \in DOMAIN U : U[l].op = "accept" => l = 1
  BY AcceptExpected
<1>2. Link(i, j, A, B, D, U2)
  BY LinkTailU
<1>3. \A k \in DOMAIN U2 : k + 1 \in DOMAIN U /\ U2[k] = U[k + 1] /\ k \in Nat /\ k >= 1
  BY TailFacts
<1>4. \A k \in DOMAIN U2 : U2[k].op # "accept"
  <2>1. ASSUME NEW k \in DOMAIN U2, U2[k].op = "accept" PROVE FALSE
    <3>1. k + 1 = 1 /\ k \in Nat /\ k >= 1
      BY <1>1, <1>3, <2>1
    <3>. QED BY <3>1
  <2>. QED BY <2>1
<1>5. Has(U, "accept") /\ A.s.state \in Proposing /\ A.s.state # "recovering"
  BY <1>1 DEF Has, Proposing, Updating
<1>6. ~Undecided(j, A, U)
  BY <1>5 DEF Undecided
<1>7. /\ \A k \in DOMAIN D : D[k].op \in {"begin", "lease"} => D[k].epoch # A.epoch
      /\ ~(Follows(B, i, A.epoch) /\ B.s.lease)
      /\ Follows(B, i, A.epoch) => B.s.last_committed = A.s.last_committed
  BY <1>1, <1>5, <1>6 DEF Link, Round, Leased
<1>8. Told(i, j, A2, B, D) /\ Asked(i, A2, B, D)
  BY DEF Link, Told, Joined, Asked
<1>9. Answered(i, j, A2, B, D, U2)
  BY <1>2 DEF Link, Answered, Tells
<1>10. Informed(i, j, A2, B, D, U2)
  BY <1>2, <1>5 DEF Link, Informed, Proposing, Updating, InWriting
<1>11. Round(i, j, A2, B, D, U2)
  BY <1>4, <1>7 DEF Round, Has
<1>12. Leased(i, j, A2, B, D, U2)
  BY <1>7 DEF Leased
<1>. QED BY <1>8, <1>9, <1>10, <1>11, <1>12 DEF Link

(* The leader takes the accept of another than j; if it was the last, then j's
   was there before. *)
LEMMA LinkOtherAccepted ==
  ASSUME NEW i \in Mon, NEW j \in Mon, NEW A \in Node, NEW A2, NEW B \in Node,
         NEW D, NEW U,
         Link(i, j, A, B, D, U), A.T = A.s.quorum, A.role = "leader", A.s.state \in Updating,
         A2.role = A.role, A2.epoch = A.epoch, A2.T = A.T,
         A2.s.state \in Proposing,
         j \in A.s.quorum => j \in A.s.accepted \/ A2.s.state \in Updating,
         j \in A2.s.accepted <=> j \in A.s.accepted,
         A2.s.quorum = A.s.quorum, A2.s.last_committed = A.s.last_committed,
         A2.s.accepted_pn = A.s.accepted_pn, A2.s.last_pn = A.s.last_pn,
         A2.s.peer_last_committed = A.s.peer_last_committed
  PROVE  Link(i, j, A2, B, D, U)
<1>1. j \in A.s.quorum => j \in A.s.accepted \/ A2.s.state \in Updating
  OBVIOUS
<1>2. A.s.state \in Proposing /\ A.s.state # "recovering" /\ A2.s.state # "recovering"
  BY DEF Proposing, Updating, InWriting
<1>3. Undecided(j, A, U) => Undecided(j, A2, U) /\ j \notin A.s.accepted
  BY <1>2 DEF Undecided
<1>4. ASSUME NEW k \in DOMAIN D, D[k].op = "begin", D[k].epoch = A.epoch
      PROVE  A2.s.state \in Updating
  <2>1. Follows(B, i, A.epoch)
    BY <1>4 DEF Link, Told, Downs
  <2>2. j \in A.s.quorum
    BY <2>1, Member
  <2>3. j \notin A.s.accepted
    BY <1>3, <1>4 DEF Link, Round
  <2>. QED BY <1>1, <2>2, <2>3
<1>5. \A k \in DOMAIN U : U[k].op = "accept" => A2.s.state \in Updating
  BY <1>1 DEF Link, Round, Answered, Ups
<1>8. Told(i, j, A2, B, D) /\ Asked(i, A2, B, D)
  BY DEF Link, Told, Joined, Asked
<1>9. Answered(i, j, A2, B, D, U)
  BY DEF Link, Answered, Tells
<1>10. Informed(i, j, A2, B, D, U)
  BY <1>2 DEF Link, Informed
<1>11. Round(i, j, A2, B, D, U)
  BY <1>2, <1>3, <1>4, <1>5 DEF Link, Round
<1>12. Leased(i, j, A2, B, D, U)
  BY <1>2, <1>3 DEF Link, Leased
<1>. QED BY <1>8, <1>9, <1>10, <1>11, <1>12 DEF Link

(* The write of a commit is done: the leader tells its peons. *)
LEMMA LinkCommitted ==
  ASSUME NEW i \in Mon, NEW j \in Mon, i # j, NEW A \in Node, NEW A2 \in Node, NEW B \in Node,
         NEW D \in Messages, NEW D2, NEW U \in Messages, NEW y \in LooseMessage,
         Link(i, j, A, B, D, U),
         A.role = "leader", A2.role = "leader", A2.epoch = A.epoch, A2.T = A.T, A.T = A.s.quorum,
         A.s.state \in InWriting, A.s.accepted = A.s.quorum, A2.s.state = "active",
         A2.s.quorum = A.s.quorum, A2.s.last_committed = A.s.last_committed + 1,
         A2.s.accepted_pn = A.s.accepted_pn, A2.s.last_pn = A.s.last_pn,
         A2.s.peer_last_committed = A.s.peer_last_committed,
         y.op = "commit", y.epoch = A.epoch, y.last_committed = A.s.last_committed + 1,
         y.values[A.s.last_committed + 1] # NoValue,
         Pushes(j, A.s.quorum, D, D2, y, A.epoch, B)
  PROVE  Link(i, j, A2, B, D2, U)
<1>. DEFINE cur == j \in A.s.quorum /\ IsCurrent(A.epoch, B)
<1>0. Longer(D, D2, y, cur)
  BY PushesFacts
<1>1. /\ cur => /\ Follows(B, i, A.epoch) /\ A.s.accepted_pn <= B.s.accepted_pn
                /\ Covers(D, Len(D), B.s.last_committed, A.s.last_committed)
      /\ Follows(B, i, A.epoch) => cur
      /\ \A k \in DOMAIN D : D[k].op \in {"begin", "lease"} /\ cur => D[k].epoch = A.epoch
  <2>1. cur => /\ Follows(B, i, A.epoch) /\ A.s.accepted_pn <= B.s.accepted_pn
               /\ Covers(D, Len(D), B.s.last_committed, A.s.last_committed)
    BY Member
  <2>2. Follows(B, i, A.epoch) => cur
    BY Member
  <2>3. \A k \in DOMAIN D : D[k].op \in {"begin", "lease"} /\ cur => D[k].epoch = A.epoch
    BY Member
  <2>. QED BY <2>1, <2>2, <2>3
<1>20. Follows(B, i, A.epoch) => j \in A.s.accepted
  BY <1>1
<1>. HIDE DEF cur
<1>2. /\ Len(D) \in Nat /\ Len(D2) \in Nat /\ DOMAIN D = 1 .. Len(D)
      /\ \A k \in DOMAIN D : k \in DOMAIN D2 /\ D2[k] = D[k] /\ k \in Nat /\ k <= Len(D)
      /\ \A k \in DOMAIN D2 : k \in DOMAIN D \/ (k = Len(D) + 1 /\ D2[k] = y /\ cur)
  BY <1>0 DEF Longer
<1>3. \A k \in DOMAIN D : \A b, a : Covers(D, k - 1, b, a) => Covers(D2, k - 1, b, a)
  BY <1>0, CoversGrow
<1>4. A.s.state \in Proposing /\ A.s.state # "recovering" /\ A.s.state \notin Updating
  BY DEF Proposing, Updating, InWriting
<1>5. /\ \A k \in DOMAIN D : D[k].op \in {"begin", "lease"} => D[k].epoch # A.epoch
      /\ \A k \in DOMAIN U : U[k].op # "accept"
      /\ ~(Follows(B, i, A.epoch) /\ B.s.lease)
      /\ Follows(B, i, A.epoch) => B.s.last_committed = A.s.last_committed
  <2>1. Undecided(j, A, U) => ~Follows(B, i, A.epoch)
    BY <1>4, <1>20 DEF Undecided
  <2>2. \A k \in DOMAIN D : D[k].op \in {"begin", "lease"} => Follows(B, i, D[k].epoch)
    BY DEF Link, Told, Downs
  <2>3. \A k \in DOMAIN D : D[k].op = "begin" => D[k].epoch # A.epoch
    BY <1>4 DEF Link, Round
  <2>4. \A k \in DOMAIN D : D[k].op = "lease" => D[k].epoch # A.epoch
    BY <2>1, <2>2 DEF Link, Leased
  <2>5. \A k \in DOMAIN U : U[k].op # "accept"
    BY <1>4 DEF Link, Round
  <2>6. ~(Follows(B, i, A.epoch) /\ B.s.lease)
    BY <2>1 DEF Link, Leased
  <2>7. Follows(B, i, A.epoch) => B.s.last_committed = A.s.last_committed
    BY <1>4, <1>20 DEF Link, Round
  <2>. QED BY <2>3, <2>4, <2>5, <2>6, <2>7
<1>6. Told(i, j, A2, B, D2)
  <2>1. Told(i, j, A, B, D) /\ (cur => Follows(B, i, y.epoch)) /\ y.op \in Downs
    BY <1>1 DEF Link, Downs
  <2>. QED BY <1>0, <2>1, ToldMore
<1>7. Asked(i, A2, B, D2)
  <2>1. \A k \in DOMAIN D2 : D2[k].op # "commit" => k \in DOMAIN D /\ D2[k] = D[k]
    BY <1>2
  <2>. QED BY <1>3, <2>1 DEF Link, Asked
<1>8. Has(D2, "collect") => Has(D, "collect")
  BY <1>2 DEF Has
<1>9. A.s.last_committed \in Nat /\ B.s.last_committed \in Nat
  BY NodeTypes
<1>10. Answered(i, j, A2, B, D2, U)
  <2>1. ASSUME NEW k \in DOMAIN U, Tells(i, A, B, U[k]) PROVE Tells(i, A2, B, U[k])
    <3>1. U[k].last_committed \in Nat
      BY MessageTypes
    <3>2. \A v \in A2.s.last_committed + 1 .. U[k].last_committed :
            v \in A.s.last_committed + 1 .. U[k].last_committed
      BY <1>9, <3>1
    <3>3. B.s.last_committed <= A.s.last_committed => B.s.last_committed <= A2.s.last_committed
      BY <1>9
    <3>. QED BY <2>1, <3>2, <3>3 DEF Tells
  <2>. QED BY <1>8, <2>1 DEF Link, Answered
<1>11. Informed(i, j, A2, B, D2, U)
  <2>1. ASSUME Follows(B, i, A.epoch)
        PROVE  Covers(D2, Len(D2), B.s.last_committed, A2.s.last_committed)
    <3>1. Len(D2) \in 1 .. Len(D2) /\ D2[Len(D2)] = y
      BY <1>0, <1>1, <1>2, <2>1 DEF Longer
    <3>2. \A v \in B.s.last_committed + 1 .. A2.s.last_committed : v = A.s.last_committed + 1
      BY <1>5, <1>9, <2>1
    <3>3. B.s.last_committed < A2.s.last_committed
      BY <1>5, <1>9, <2>1
    <3>. QED BY <3>1, <3>2, <3>3 DEF Covers
  <2>. QED BY <1>8, <2>1 DEF Link, Informed
<1>12. Round(i, j, A2, B, D2, U) /\ Leased(i, j, A2, B, D2, U)
  <2>1. \A k \in DOMAIN D2 : D2[k].op \in {"begin", "lease"} => D2[k].epoch # A2.epoch
    BY <1>2, <1>5
  <2>2. ~Has(U, "accept") /\ A2.s.state \notin Proposing
    BY <1>5 DEF Has, Proposing, Updating, InWriting
  <2>. QED BY <1>5, <2>1, <2>2 DEF Round, Leased
<1>. QED BY <1>6, <1>7, <1>10, <1>11, <1>12 DEF Link

(* An active leader extends the lease. *)
LEMMA LinkExtend ==
  ASSUME NEW i \in Mon, NEW j \in Mon, NEW A \in Node, NEW B \in Node,
         NEW D \in Messages, NEW D2, NEW U \in Messages, NEW y \in LooseMessage,
         Link(i, j, A, B, D, U),
         A.role = "leader", A.T = A.s.quorum, A.s.state = "active",
         y.op = "lease", y.epoch = A.epoch, y.last_committed = A.s.last_committed,
         Pushes(j, A.s.quorum, D, D2, y, A.epoch, B)
  PROVE  Link(i, j, A, B, D2, U)
<1>. DEFINE cur == j \in A.s.quorum /\ IsCurrent(A.epoch, B)
<1>0. Longer(D, D2, y, cur)
  BY PushesFacts
<1>1. /\ cur => /\ Follows(B, i, A.epoch) /\ A.s.accepted_pn <= B.s.accepted_pn
                /\ Covers(D, Len(D), B.s.last_committed, A.s.last_committed)
      /\ Follows(B, i, A.epoch) => cur
      /\ \A k \in DOMAIN D : D[k].op \in {"begin", "lease"} /\ cur => D[k].epoch = A.epoch
  <2>1. cur => /\ Follows(B, i, A.epoch) /\ A.s.accepted_pn <= B.s.accepted_pn
               /\ Covers(D, Len(D), B.s.last_committed, A.s.last_committed)
    BY Member
  <2>2. Follows(B, i, A.epoch) => cur
    BY Member
  <2>3. \A k \in DOMAIN D : D[k].op \in {"begin", "lease"} /\ cur => D[k].epoch = A.epoch
    BY Member
  <2>. QED BY <2>1, <2>2, <2>3
<1>. HIDE DEF cur
<1>2. /\ Len(D) \in Nat /\ Len(D2) \in Nat /\ DOMAIN D = 1 .. Len(D)
      /\ \A k \in DOMAIN D : k \in DOMAIN D2 /\ D2[k] = D[k] /\ k \in Nat /\ k <= Len(D)
      /\ \A k \in DOMAIN D2 : k \in DOMAIN D \/ (k = Len(D) + 1 /\ D2[k] = y /\ cur)
  BY <1>0 DEF Longer
<1>3. /\ \A b, a : Covers(D, Len(D), b, a) => Covers(D2, Len(D), b, a) /\ Covers(D2, Len(D2), b, a)
      /\ \A k \in DOMAIN D : \A b, a : Covers(D, k - 1, b, a) => Covers(D2, k - 1, b, a)
  BY <1>0, CoversGrow
<1>4. /\ \A k \in DOMAIN D : D[k].op = "begin" => D[k].epoch # A.epoch
      /\ \A k \in DOMAIN U : U[k].op # "accept"
  BY DEF Link, Round, Updating
<1>5. Undecided(j, A, U)
  BY DEF Undecided, Proposing, Updating, InWriting
<1>6. Told(i, j, A, B, D2)
  <2>1. Told(i, j, A, B, D) /\ (cur => Follows(B, i, y.epoch)) /\ y.op \in Downs
    BY <1>1 DEF Link, Downs
  <2>. QED BY <1>0, <2>1, ToldMore
<1>7. Asked(i, A, B, D2)
  <2>1. \A k \in DOMAIN D2 : D2[k].op # "lease" => k \in DOMAIN D /\ D2[k] = D[k]
    BY <1>2
  <2>. QED BY <1>3, <2>1 DEF Link, Asked
<1>8. Has(D2, "collect") => Has(D, "collect")
  BY <1>2 DEF Has
<1>9. Answered(i, j, A, B, D2, U)
  BY <1>8 DEF Link, Answered
<1>10. Informed(i, j, A, B, D2, U)
  BY <1>3, <1>8 DEF Link, Informed
<1>11. Round(i, j, A, B, D2, U)
  <2>1. \A k \in DOMAIN D2 : D2[k].op = "begin" => D2[k].epoch # A.epoch
    BY <1>2, <1>4
  <2>. QED BY <1>4, <2>1 DEF Link, Round
<1>12. Leased(i, j, A, B, D2, U)
  <2>1. ASSUME NEW k \in DOMAIN D2, D2[k].op = "lease", D2[k].epoch = A.epoch
        PROVE  /\ D2[k].last_committed = A.s.last_committed
               /\ \A l \in DOMAIN D2 : l < k => D2[l].op # "begin"
    <3>1. CASE k \in DOMAIN D
      <4>1. \A l \in DOMAIN D2 : l < k => l \in DOMAIN D /\ D2[l] = D[l]
        BY <1>2, <3>1
      <4>. QED BY <1>2, <2>1, <3>1, <4>1 DEF Link, Leased
    <3>2. CASE k = Len(D) + 1 /\ D2[k] = y /\ cur
      <4>1. \A l \in DOMAIN D : D[l].op # "begin"
        BY <1>1, <1>4, <3>2
      <4>. QED BY <1>2, <3>2, <4>1
    <3>. QED BY <1>2, <3>1, <3>2
  <2>. QED BY <1>5, <2>1 DEF Link, Leased
<1>. QED BY <1>6, <1>7, <1>9, <1>10, <1>11, <1>12 DEF Link

-----------------------------------------------------------------------------
(* Both directions of a connection *)

(* m's node A, j's node B, the messages O from m to j and I from j to m. *)
Pair(m, j, A, B, O, I) ==
  /\ O \in Messages /\ I \in Messages
  /\ Queue(m, j, A, B, O) /\ Queue(j, m, B, A, I)
  /\ Link(m, j, A, B, O, I) /\ Link(j, m, B, A, I, O)

LEMMA QueueTail ==
  ASSUME NEW i, NEW j, i # j, NEW A, NEW B, NEW q \in Messages, NEW q2, q # <<>>, q2 = Tail(q),
         Queue(i, j, A, B, q)
  PROVE  Queue(i, j, A, B, q2)
<1>1. \A k \in DOMAIN q2 : k + 1 \in DOMAIN q /\ q2[k] = q[k + 1] /\ k \in Nat
  BY TailFacts
<1>2. \A k, l \in DOMAIN q2 : k < l => k + 1 < l + 1
  BY <1>1
<1>. QED BY <1>1, <1>2 DEF Queue

(* The sender goes on, the receiver stays. *)
LEMMA QueueSame ==
  ASSUME NEW i, NEW j, NEW A \in Node, NEW A2 \in Node, NEW B, NEW B2, NEW q \in Messages,
         Queue(i, j, A, B, q),
         A2.epoch >= A.epoch, A2.s.last_committed >= A.s.last_committed,
         \A e \in Nat : IsCurrent(e, B) => IsCurrent(e, B2)
  PROVE  Queue(i, j, A2, B2, q)
<1>1. /\ A.epoch \in Nat /\ A2.epoch \in Nat
      /\ A.s.last_committed \in Nat /\ A2.s.last_committed \in Nat
  BY NodeTypes
<1>2. \A k \in DOMAIN q : q[k].epoch \in Nat /\ q[k].last_committed \in Nat
  BY MessageTypes
<1>3. \A k \in DOMAIN q : Sent(q[k], A.epoch, A.s) => Sent(q[k], A2.epoch, A2.s)
  BY <1>1, <1>2 DEF Sent
<1>. QED BY <1>2, <1>3 DEF Queue

(* The sender sends msg. *)
LEMMA QueueMore ==
  ASSUME NEW i, NEW j, i # j, NEW A \in Node, NEW B, NEW q \in Messages, NEW q2,
         NEW msg \in LooseMessage, NEW c,
         Queue(i, j, A, B, q), Longer(q, q2, msg, c),
         msg.epoch = A.epoch, msg.last_committed = A.s.last_committed, NoGap(msg),
         msg.op = "begin" => msg.pn # 0,
         c => IsCurrent(A.epoch, B),
         msg.op = "victory" => msg.epoch % 2 = 0 /\ \A k \in DOMAIN q : q[k].epoch < msg.epoch
  PROVE  Queue(i, j, A, B, q2)
<1>1. A.epoch \in Nat /\ A.s.last_committed \in Nat
  BY NodeTypes
<1>2. /\ \A k \in DOMAIN q : k \in DOMAIN q2 /\ q2[k] = q[k] /\ k \in Nat /\ k <= Len(q)
      /\ \A k \in DOMAIN q2 : k \in DOMAIN q \/ (k = Len(q) + 1 /\ q2[k] = msg /\ c)
      /\ Len(q) \in Nat
  BY DEF Longer
<1>3. Sent(msg, A.epoch, A.s)
  BY <1>1 DEF Sent
<1>4. \A k \in DOMAIN q2 : Sent(q2[k], A.epoch, A.s) /\ IsCurrent(q2[k].epoch, B)
  BY <1>2, <1>3 DEF Queue
<1>5. \A k \in DOMAIN q : InOrder(q[k], msg)
  BY DEF Queue, Sent, InOrder
<1>6. ASSUME NEW k \in DOMAIN q2, NEW l \in DOMAIN q2, k < l PROVE InOrder(q2[k], q2[l])
  <2>1. k \in DOMAIN q
    BY <1>2, <1>6
  <2>2. CASE l \in DOMAIN q
    BY <1>2, <1>6, <2>1, <2>2 DEF Queue
  <2>3. CASE q2[l] = msg
    BY <1>2, <1>5, <2>1, <2>3
  <2>. QED BY <1>2, <2>2, <2>3
<1>. QED BY <1>4, <1>6 DEF Queue

(* The passive side of a leader's step: it keeps its epoch and takes no number
   but its own. *)
LEMMA LeaderIsNoPeon ==
  ASSUME NEW m \in Mon, NEW j \in Mon, m # j, NEW A \in Node, NEW A2 \in Node, NEW B \in Node,
         NEW I \in Messages, NEW O \in Messages, NEW O2,
         Link(j, m, B, A, I, O), Grows(O, O2),
         A.role = "leader", A2.role = "leader", A2.epoch = A.epoch,
         A2.s.stored_pn = A.s.stored_pn,
         A2.s.accepted_pn = A.s.accepted_pn \/ A2.s.accepted_pn % 100 = m
  PROVE  Link(j, m, B, A2, I, O2)
<1>1. \A pn : Below(A.s, pn, j) => Below(A2.s, pn, j)
  BY DEF Below
<1>2. \A e \in Nat : Gone(A, e) => Gone(A2, e)
  BY DEF Gone
<1>3. Link(j, m, B, A2, I, O)
  BY <1>1, <1>2, LinkNotPeon
<1>. QED BY <1>3, LinkGrowU

LEMMA LongerGrows ==
  ASSUME NEW O, NEW O2, NEW x, NEW c, Longer(O, O2, x, c), x.op \notin Ups
  PROVE  Grows(O, O2)
BY DEF Longer, Grows

LEMMA LongerGrowsUp ==
  ASSUME NEW O, NEW O2, NEW x, NEW c, Longer(O, O2, x, c), x.op \in Ups
  PROVE  GrowsUp(O, O2)
BY DEF Longer, GrowsUp

LEMMA SameGrows ==
  ASSUME NEW O \in Messages
  PROVE  Grows(O, O) /\ GrowsUp(O, O)
<1>1. Len(O) \in Nat /\ DOMAIN O = 1 .. Len(O)
  BY LenProperties DEF Messages
<1>. QED BY <1>1 DEF Grows, GrowsUp

(* The passive side of a step of a monitor that does not lead. *)
LEMMA PeonIsNoLeader ==
  ASSUME NEW m \in Mon, NEW j \in Mon, NEW A \in Node, NEW A2 \in Node, NEW B \in Node,
         NEW I \in Messages, NEW O \in Messages, NEW O2, NEW I2,
         Link(m, j, A, B, O, I), GrowsUp(O, O2),
         A.role # "leader", A2.role # "leader", A2.s.last_pn = A.s.last_pn,
         \A e \in Nat : Joined(j, A, e) => Joined(j, A2, e),
         I2 = I \/ (I # <<>> /\ I2 = Tail(I))
  PROVE  Link(m, j, A2, B, O2, I2)
<1>1. \A k \in DOMAIN I : I[k].op \notin Ups
  BY DEF Link, Answered
<1>2. \A k \in DOMAIN I2 : I2[k].op \notin Ups
  <2>1. CASE I2 = I
    BY <1>1, <2>1
  <2>2. CASE I # <<>> /\ I2 = Tail(I)
    <3>1. \A k \in DOMAIN I2 : k + 1 \in DOMAIN I /\ I2[k] = I[k + 1]
      BY <2>2, TailFacts
    <3>. QED BY <1>1, <3>1
  <2>. QED BY <2>1, <2>2
<1>3. Link(m, j, A2, B, O, I2)
  BY <1>2, LinkNotLeader
<1>. QED BY <1>3, LinkGrowD

-----------------------------------------------------------------------------
(* What a monitor that leaves drops *)

LEMMA LeastOf ==
  ASSUME NEW S \in SUBSET Nat, S # {}
  PROVE  \E x \in S : \A y \in S : ~(y < x)
<1>1. \E x \in S : \A y \in S : ~(<<y, x>> \in OpToRel(<, Nat))
  BY NatLessThanWellFounded, WFMin, Zenon
<1>. QED BY <1>1 DEF OpToRel

(* A set of positions that has all positions before its own is an interval. *)
LEMMA PrefixIsInterval ==
  ASSUME NEW L \in Nat, NEW S \in SUBSET (1 .. L),
         \A k \in S : \A l \in 1 .. L : l < k => l \in S
  PROVE  \E n \in 0 .. L : S = 1 .. n /\ Cardinality(S) = n
<1>. DEFINE R == (1 .. L + 1) \ S
<1>1. R \in SUBSET Nat /\ L + 1 \in R
  OBVIOUS
<1>2. PICK w \in R : \A y \in R : ~(y < w)
  BY <1>1, LeastOf
<1>3. w \in 1 .. L + 1 /\ w \notin S
  OBVIOUS
<1>4. \A k \in 1 .. L + 1 : k < w => k \in S
  BY <1>2
<1>5. S = 1 .. w - 1
  <2>1. ASSUME NEW k \in S PROVE k \in 1 .. w - 1
    BY <1>3, <2>1
  <2>2. ASSUME NEW k \in 1 .. w - 1 PROVE k \in S
    BY <1>3, <1>4, <2>2
  <2>. QED BY <2>1, <2>2
<1>6. Cardinality(1 .. w - 1) = w - 1
  BY <1>3, FS_Interval
<1>. QED BY <1>3, <1>5, <1>6

LEMMA DropFacts ==
  ASSUME NEW q \in Messages, NEW q2, NEW B \in Node,
         \A k, l \in DOMAIN q : k < l => q[k].epoch <= q[l].epoch,
         q2 = SubSeq(q, Cardinality({k \in DOMAIN q : ~IsCurrent(q[k].epoch, B)}) + 1, Len(q))
  PROVE  \E n : Dropped(q, q2, n, B)
<1>. DEFINE S == {k \in DOMAIN q : ~IsCurrent(q[k].epoch, B)}
<1>1. Len(q) \in Nat /\ DOMAIN q = 1 .. Len(q) /\ B.epoch \in Nat
  BY LenProperties, NodeTypes DEF Messages
<1>2. \A k \in DOMAIN q : q[k] \in LooseMessage /\ q[k].epoch \in Nat /\ k \in Nat
  BY <1>1, MessageTypes
<1>3. \A k \in S : \A l \in 1 .. Len(q) : l < k => l \in S
  BY <1>1, <1>2 DEF IsCurrent
<1>4. S \in SUBSET (1 .. Len(q))
  BY <1>1
<1>5. PICK n \in 0 .. Len(q) : S = 1 .. n /\ Cardinality(S) = n
  <2>. HIDE DEF S
  <2>. QED BY <1>1, <1>3, <1>4, PrefixIsInterval
<1>6. q2 = SubSeq(q, n + 1, Len(q))
  BY <1>5
<1>7. \A k \in n + 1 .. Len(q) : q[k] \in LooseMessage
  BY <1>1, <1>2
<1>8. n + 1 \in Int /\ Len(q) \in Int
  BY <1>1
<1>9. /\ q2 \in Messages /\ Len(q2) = IF n + 1 <= Len(q) THEN Len(q) - (n + 1) + 1 ELSE 0
      /\ \A k \in 1 .. Len(q) - (n + 1) + 1 : q2[k] = q[n + 1 + k - 1]
  BY <1>6, <1>7, <1>8, SubSeqProperties DEF Messages
<1>10. Len(q2) = Len(q) - n /\ Len(q) - (n + 1) + 1 = Len(q) - n
  <2>1. n \in Nat /\ n <= Len(q)
    BY <1>1
  <2>2. Len(q) - (n + 1) + 1 = Len(q) - n
    BY <1>1, <2>1
  <2>3. Len(q2) = IF n + 1 <= Len(q) THEN Len(q) - (n + 1) + 1 ELSE 0
    BY <1>9
  <2>4. CASE n + 1 <= Len(q)
    BY <2>2, <2>3, <2>4
  <2>5. CASE ~(n + 1 <= Len(q))
    <3>1. Len(q) - n = 0
      BY <1>1, <2>1, <2>5
    <3>. QED BY <2>2, <2>3, <2>5, <3>1
  <2>. QED BY <2>4, <2>5
<1>11. DOMAIN q2 = 1 .. Len(q2)
  BY <1>9, LenProperties DEF Messages
<1>12. \A k \in DOMAIN q2 : k + n \in DOMAIN q /\ q2[k] = q[k + n] /\ k + n \notin S
  <2>. SUFFICES ASSUME NEW k \in DOMAIN q2 PROVE k + n \in DOMAIN q /\ q2[k] = q[k + n] /\ k + n \notin S
    OBVIOUS
  <2>1. k \in 1 .. Len(q) - n /\ n + 1 + k - 1 = k + n
    BY <1>10, <1>11
  <2>2. k + n \in 1 .. Len(q) /\ k + n \notin 1 .. n
    BY <1>1, <2>1
  <2>3. q2[k] = q[k + n]
    BY <1>9, <1>10, <2>1
  <2>. QED BY <1>1, <1>5, <2>2, <2>3
<1>13. ASSUME NEW k \in DOMAIN q
       PROVE  \/ k <= n /\ ~IsCurrent(q[k].epoch, B)
              \/ k > n /\ k - n \in DOMAIN q2 /\ q2[k - n] = q[k]
  <2>1. CASE k <= n
    <3>1. k \in S
      BY <1>1, <1>5, <2>1
    <3>. QED BY <2>1, <3>1
  <2>2. CASE k > n
    <3>1. k - n \in DOMAIN q2 /\ (k - n) + n = k
      BY <1>1, <1>10, <1>11, <2>2
    <3>2. q2[k - n] = q[(k - n) + n]
      BY <1>12, <3>1
    <3>. QED BY <2>2, <3>1, <3>2
  <2>. QED BY <1>1, <2>1, <2>2
<1>14. Dropped(q, q2, n, B)
  BY <1>9, <1>10, <1>12, <1>13 DEF Dropped
<1>. QED BY <1>14

LEMMA DropsNothing ==
  ASSUME NEW q \in Messages, NEW q2, NEW n, NEW B, Dropped(q, q2, n, B),
         \A k \in DOMAIN q : IsCurrent(q[k].epoch, B)
  PROVE  q2 = q
<1>1. Len(q) \in Nat /\ DOMAIN q = 1 .. Len(q)
  BY LenProperties DEF Messages
<1>2. n = 0
  <2>1. n \in Nat /\ Len(q2) = Len(q) - n /\ Len(q2) \in Nat
    BY LenProperties DEF Dropped, Messages
  <2>2. n # 0 => 1 \in DOMAIN q /\ 1 <= n
    BY <1>1, <2>1
  <2>3. n # 0 => ~IsCurrent(q[1].epoch, B)
    BY <2>1, <2>2 DEF Dropped
  <2>. QED BY <2>2, <2>3
<1>3. q2 \in Messages /\ Len(q2) = Len(q) /\ \A k \in DOMAIN q2 : q2[k] = q[k + 0]
  BY <1>1, <1>2 DEF Dropped
<1>4. \A k \in 1 .. Len(q) : q2[k] = q[k]
  <2>1. DOMAIN q2 = 1 .. Len(q)
    BY <1>3, LenProperties DEF Messages
  <2>2. \A k \in 1 .. Len(q) : k + 0 = k
    BY <1>1
  <2>. QED BY <1>3, <2>1, <2>2
<1>. QED BY <1>3, <1>4, SeqEqual DEF Messages

LEMMA DropsAll ==
  ASSUME NEW q \in Messages, NEW q2, NEW n, NEW B, Dropped(q, q2, n, B),
         \A k \in DOMAIN q : ~IsCurrent(q[k].epoch, B)
  PROVE  q2 = <<>>
<1>1. q2 \in Messages /\ DOMAIN q2 = {}
  BY DEF Dropped
<1>2. Len(q2) = 0
  <2>1. DOMAIN q2 = 1 .. Len(q2) /\ Len(q2) \in Nat
    BY <1>1, LenProperties DEF Messages
  <2>. QED BY <1>1, <2>1
<1>. QED BY <1>1, <1>2, EmptySeq DEF Messages

LEMMA QueueDrop ==
  ASSUME NEW i, NEW j, i # j, NEW A, NEW B, NEW B2, NEW q \in Messages, NEW q2, NEW n,
         Queue(i, j, A, B, q), Dropped(q, q2, n, B2)
  PROVE  Queue(i, j, A, B2, q2)
<1>1. /\ \A k \in DOMAIN q2 : k + n \in DOMAIN q /\ q2[k] = q[k + n] /\ IsCurrent(q2[k].epoch, B2)
      /\ n \in Nat /\ \A k \in DOMAIN q2 : k \in Nat
  BY MessageTypes DEF Dropped
<1>2. \A k, l \in DOMAIN q2 : k < l => k + n < l + n
  BY <1>1
<1>. QED BY <1>1, <1>2 DEF Queue

(* What is left of the messages q to B once the stale ones are dropped. *)
Drop(q, B) ==
  SubSeq(q, Cardinality({k \in DOMAIN q : ~IsCurrent(q[k].epoch, B)}) + 1, Len(q))

Ordered(q) == \A k, l \in DOMAIN q : k < l => q[k].epoch <= q[l].epoch

(* The messages w of epoch e come after those of q. *)
Follow(q, w, e) ==
  Ordered(q) /\ (\A k \in DOMAIN q : q[k].epoch <= e) /\ (\A k \in DOMAIN w : w[k].epoch = e)

(* q1 is what is left of q; w is sent after it, in epoch e. *)
LEMMA DropConcat ==
  ASSUME NEW q \in Messages, NEW q1, NEW q2, NEW w \in Messages, NEW e \in Nat, NEW B \in Node, NEW n1,
         Follow(q, w, e), Dropped(q, q1, n1, B), q2 = Drop(q \o w, B)
  PROVE  q2 = IF IsCurrent(e, B) THEN q1 \o w ELSE q1
<1>0. Ordered(q) /\ (\A k \in DOMAIN q : q[k].epoch <= e) /\ \A k \in DOMAIN w : w[k].epoch = e
  BY DEF Follow
<1>1. PICK x : x = q \o w
  OBVIOUS
<1>2. /\ Len(q) \in Nat /\ DOMAIN q = 1 .. Len(q) /\ Len(w) \in Nat /\ DOMAIN w = 1 .. Len(w)
      /\ B.epoch \in Nat
  BY LenProperties, NodeTypes DEF Messages
<1>3. /\ x \in Messages /\ Len(x) = Len(q) + Len(w)
      /\ \A k \in 1 .. Len(x) : x[k] = IF k <= Len(q) THEN q[k] ELSE w[k - Len(q)]
  BY <1>1, ConcatProperties DEF Messages
<1>4. DOMAIN x = 1 .. Len(x) /\ Len(x) \in Nat
  BY <1>3, LenProperties DEF Messages
<1>5. /\ \A k \in DOMAIN q : k \in DOMAIN x /\ x[k] = q[k] /\ x[k].epoch <= e /\ x[k].epoch \in Nat
      /\ \A k \in DOMAIN x : k \in DOMAIN q \/ (k > Len(q) /\ k - Len(q) \in DOMAIN w
                                               /\ x[k] = w[k - Len(q)] /\ x[k].epoch = e)
  <2>1. \A k \in DOMAIN q : q[k].epoch \in Nat
    BY MessageTypes
  <2>. QED BY <1>0, <1>2, <1>3, <1>4, <2>1
<1>6. \A k, l \in DOMAIN x : k < l => x[k].epoch <= x[l].epoch
  <2>. SUFFICES ASSUME NEW k \in DOMAIN x, NEW l \in DOMAIN x, k < l PROVE x[k].epoch <= x[l].epoch
    OBVIOUS
  <2>1. CASE l \in DOMAIN q
    <3>1. k \in DOMAIN q
      BY <1>2, <1>4, <2>1
    <3>. QED BY <1>0, <1>5, <2>1, <3>1 DEF Ordered
  <2>2. CASE x[l].epoch = e
    BY <1>5, <2>2
  <2>. QED BY <1>5, <2>1, <2>2
<1>7. PICK n : Dropped(x, q2, n, B)
  BY <1>1, <1>3, <1>6, DropFacts DEF Drop
<1>8. /\ n \in Nat /\ n1 \in Nat /\ q1 \in Messages /\ q2 \in Messages
      /\ Len(q2) = Len(x) - n /\ Len(q1) = Len(q) - n1
      /\ DOMAIN q1 = 1 .. Len(q1) /\ DOMAIN q2 = 1 .. Len(q2) /\ Len(q1) \in Nat /\ Len(q2) \in Nat
  <2>1. n \in Nat /\ n1 \in Nat /\ q1 \in Messages /\ q2 \in Messages
    BY <1>7 DEF Dropped
  <2>2. Len(q2) = Len(x) - n /\ Len(q1) = Len(q) - n1
    BY <1>7 DEF Dropped
  <2>. QED BY <2>1, <2>2, LenProperties DEF Messages
<1>9. CASE IsCurrent(e, B)
  <2>1. \A k \in DOMAIN q : IsCurrent(q[k].epoch, B) <=> k > n1
    <3>. SUFFICES ASSUME NEW k \in DOMAIN q PROVE IsCurrent(q[k].epoch, B) <=> k > n1
      OBVIOUS
    <3>1. CASE k <= n1
      BY <1>2, <1>8, <3>1 DEF Dropped
    <3>2. CASE k > n1
      BY <1>2, <1>8, <3>2 DEF Dropped
    <3>. QED BY <1>2, <1>8, <3>1, <3>2
  <2>2. \A k \in DOMAIN x : IsCurrent(x[k].epoch, B) <=> k > n
    <3>. SUFFICES ASSUME NEW k \in DOMAIN x PROVE IsCurrent(x[k].epoch, B) <=> k > n
      OBVIOUS
    <3>1. CASE k <= n
      BY <1>4, <1>7, <1>8, <3>1 DEF Dropped
    <3>2. CASE k > n
      BY <1>4, <1>7, <1>8, <3>2 DEF Dropped
    <3>. QED BY <1>4, <1>8, <3>1, <3>2
  <2>3. n = n1
    <3>1. CASE n < n1
      <4>1. n1 \in DOMAIN q
        BY <1>2, <1>8, <3>1
      <4>. QED BY <1>5, <1>8, <2>1, <2>2, <3>1, <4>1
    <3>2. CASE n > n1
      <4>1. n \in DOMAIN x
        BY <1>4, <1>8, <3>2
      <4>2. n \in DOMAIN q
        BY <1>5, <1>8, <1>9, <2>2, <4>1
      <4>. QED BY <1>5, <1>8, <2>1, <2>2, <3>2, <4>2
    <3>. QED BY <1>8, <3>1, <3>2
  <2>4. PICK z : z = q1 \o w
    OBVIOUS
  <2>5. /\ z \in Messages /\ Len(z) = Len(q1) + Len(w)
        /\ \A k \in 1 .. Len(z) : z[k] = IF k <= Len(q1) THEN q1[k] ELSE w[k - Len(q1)]
    <3>1. q1 \in Seq(LooseMessage) /\ w \in Seq(LooseMessage)
      BY <1>8 DEF Messages
    <3>. QED BY <2>4, <3>1, ConcatProperties DEF Messages
  <2>6. Len(q2) = Len(z)
    BY <1>2, <1>3, <1>8, <2>3, <2>5
  <2>7. ASSUME NEW k \in 1 .. Len(q2) PROVE q2[k] = z[k]
    <3>1. q2[k] = x[k + n] /\ k + n \in DOMAIN x
      BY <1>7, <1>8 DEF Dropped
    <3>2. CASE k <= Len(q1)
      <4>1. k \in DOMAIN q1 /\ q1[k] = q[k + n] /\ k + n \in DOMAIN q
        BY <1>8, <2>3, <3>2 DEF Dropped
      <4>. QED BY <1>5, <2>5, <2>6, <3>1, <3>2, <4>1
    <3>3. CASE k > Len(q1)
      <4>1. k + n > Len(q) /\ (k + n) - Len(q) = k - Len(q1)
        BY <1>2, <1>8, <2>3, <3>3
      <4>2. x[k + n] = w[(k + n) - Len(q)]
        BY <1>2, <1>3, <1>4, <1>8, <3>1, <4>1
      <4>3. z[k] = w[k - Len(q1)]
        <5>1. k \in 1 .. Len(z) /\ ~(k <= Len(q1))
          BY <1>8, <2>6, <3>3
        <5>. QED BY <2>5, <5>1
      <4>. QED BY <3>1, <4>1, <4>2, <4>3
    <3>. QED BY <1>8, <3>2, <3>3
  <2>8. q2 = z
    BY <1>8, <2>5, <2>6, <2>7, SeqEqual DEF Messages
  <2>. QED BY <1>9, <2>4, <2>8
<1>10. CASE ~IsCurrent(e, B)
  <2>1. \A k \in DOMAIN x : x[k].epoch <= e /\ x[k].epoch \in Nat
    BY <1>5
  <2>2. \A d \in Nat : d <= e => ~IsCurrent(d, B)
    BY <1>2, <1>10 DEF IsCurrent
  <2>3. \A k \in DOMAIN x : ~IsCurrent(x[k].epoch, B)
    BY <2>1, <2>2
  <2>4. \A k \in DOMAIN q : ~IsCurrent(q[k].epoch, B)
    BY <1>5, <2>3
  <2>5. q2 = <<>>
    BY <1>3, <1>7, <2>3, DropsAll
  <2>6. q1 = <<>>
    BY <2>4, DropsAll
  <2>. QED BY <1>10, <2>5, <2>6
<1>. QED BY <1>9, <1>10

-----------------------------------------------------------------------------
(* Two monitors: what a step of m does to its sessions with j, as a leader and
   as a peon *)

(* A message that m may send in state A. *)
Fits(x, A) ==
  /\ x.epoch = A.epoch /\ x.last_committed = A.s.last_committed /\ NoGap(x)
  /\ x.op = "begin" => x.pn # 0

(* A step of a leader is of no interest to a monitor that it does not follow. *)
StaysLeader(m, A, A2) ==
  /\ A.role = "leader" /\ A2.role = "leader" /\ A2.epoch = A.epoch
  /\ A2.s.last_committed >= A.s.last_committed
  /\ A2.s.stored_pn = A.s.stored_pn
  /\ A2.s.accepted_pn = A.s.accepted_pn \/ A2.s.accepted_pn % 100 = m

(* m sends something as the leader of j. *)
LEMMA PairSend ==
  ASSUME NEW m \in Mon, NEW j \in Mon, m # j, NEW A \in Node, NEW A2 \in Node, NEW B \in Node,
         NEW O, NEW O2, NEW I, NEW x \in LooseMessage, NEW Q,
         Pair(m, j, A, B, O, I), StaysLeader(m, A, A2),
         Pushes(j, Q, O, O2, x, A2.epoch, B), x.op \in Downs, Fits(x, A2),
         Link(m, j, A2, B, O2, I)
  PROVE  Pair(m, j, A2, B, O2, I)
<1>1. O \in Messages /\ I \in Messages /\ Queue(m, j, A, B, O) /\ Queue(j, m, B, A, I)
      /\ Link(j, m, B, A, I, O)
  BY DEF Pair
<1>2. Longer(O, O2, x, j \in Q /\ IsCurrent(A2.epoch, B))
  BY <1>1, PushesFacts
<1>3. O2 \in Messages
  BY <1>2 DEF Longer
<1>4. A2.epoch = A.epoch /\ A.epoch \in Nat /\ A2.role # "out" /\ A.role # "out"
      /\ A2.s.last_committed >= A.s.last_committed
  BY NodeTypes DEF StaysLeader
<1>5. Queue(m, j, A2, B, O)
  BY <1>1, <1>4, QueueSame
<1>6. Queue(m, j, A2, B, O2)
  <2>1. x.op # "victory"
    BY DEF Downs
  <2>. QED BY <1>1, <1>2, <1>5, <2>1, QueueMore DEF Fits
<1>7. Queue(j, m, B, A2, I)
  <2>1. \A e \in Nat : IsCurrent(e, A) => IsCurrent(e, A2)
    BY <1>4 DEF IsCurrent
  <2>2. B.epoch \in Nat /\ B.s.last_committed \in Nat
    BY NodeTypes
  <2>. QED BY <1>1, <2>1, <2>2, QueueSame
<1>8. Link(j, m, B, A2, I, O2)
  <2>1. x.op \notin Ups
    BY DEF Ups, Downs
  <2>2. Grows(O, O2)
    BY <1>2, <2>1, LongerGrows
  <2>. QED BY <1>1, <2>2, LeaderIsNoPeon DEF StaysLeader
<1>. QED BY <1>1, <1>3, <1>6, <1>7, <1>8 DEF Pair

(* m does something as the leader of j without a message. *)
LEMMA PairKeep ==
  ASSUME NEW m \in Mon, NEW j \in Mon, m # j, NEW A \in Node, NEW A2 \in Node, NEW B \in Node,
         NEW O, NEW I,
         Pair(m, j, A, B, O, I), StaysLeader(m, A, A2),
         Link(m, j, A2, B, O, I)
  PROVE  Pair(m, j, A2, B, O, I)
<1>1. O \in Messages /\ I \in Messages /\ Queue(m, j, A, B, O) /\ Queue(j, m, B, A, I)
      /\ Link(j, m, B, A, I, O)
  BY DEF Pair
<1>4. A2.epoch = A.epoch /\ A.epoch \in Nat /\ A2.role # "out" /\ A.role # "out"
      /\ A2.s.last_committed >= A.s.last_committed
  BY NodeTypes DEF StaysLeader
<1>5. Queue(m, j, A2, B, O)
  BY <1>1, <1>4, QueueSame
<1>7. Queue(j, m, B, A2, I)
  <2>1. \A e \in Nat : IsCurrent(e, A) => IsCurrent(e, A2)
    BY <1>4 DEF IsCurrent
  <2>2. B.epoch \in Nat /\ B.s.last_committed \in Nat
    BY NodeTypes
  <2>. QED BY <1>1, <2>1, <2>2, QueueSame
<1>8. Link(j, m, B, A2, I, O)
  BY <1>1, SameGrows, LeaderIsNoPeon DEF StaysLeader
<1>. QED BY <1>1, <1>5, <1>7, <1>8 DEF Pair

(* m has dealt with an answer of j. *)
LEMMA PairHeard ==
  ASSUME NEW m \in Mon, NEW j \in Mon, m # j, NEW A, NEW B, NEW O, NEW I, NEW I2,
         Pair(m, j, A, B, O, I), I # <<>>, I2 = Tail(I), I[1].op \in Ups
  PROVE  Pair(m, j, A, B, O, I2)
<1>1. O \in Messages /\ I \in Messages /\ Queue(m, j, A, B, O) /\ Queue(j, m, B, A, I)
      /\ Link(m, j, A, B, O, I) /\ Link(j, m, B, A, I, O)
  BY DEF Pair
<1>2. I2 \in Messages
  BY <1>1, TailFacts
<1>3. Queue(j, m, B, A, I2)
  BY <1>1, QueueTail
<1>4. Link(m, j, A, B, O, I2)
  BY <1>1, LinkTailU
<1>5. Link(j, m, B, A, I2, O)
  <2>1. I[1].op \notin {"victory", "commit"}
    BY DEF Ups
  <2>. QED BY <1>1, <2>1, LinkTailD
<1>. QED BY <1>1, <1>2, <1>3, <1>4, <1>5 DEF Pair

(* m counts an accept of j. *)
LEMMA PairAccepted ==
  ASSUME NEW m \in Mon, NEW j \in Mon, m # j, NEW A \in Node, NEW A2 \in Node, NEW B \in Node,
         NEW O, NEW I, NEW I2,
         Pair(m, j, A, B, O, I), StaysLeader(m, A, A2),
         I # <<>>, I2 = Tail(I), I[1].op = "accept",
         Link(m, j, A2, B, O, I2)
  PROVE  Pair(m, j, A2, B, O, I2)
<1>1. O \in Messages /\ I \in Messages /\ Queue(m, j, A, B, O) /\ Queue(j, m, B, A, I)
      /\ Link(j, m, B, A, I, O)
  BY DEF Pair
<1>2. I2 \in Messages
  BY <1>1, TailFacts
<1>4. A2.epoch = A.epoch /\ A.epoch \in Nat /\ A2.role # "out" /\ A.role # "out"
      /\ A2.s.last_committed >= A.s.last_committed
  BY NodeTypes DEF StaysLeader
<1>5. Queue(m, j, A2, B, O)
  BY <1>1, <1>4, QueueSame
<1>7. Queue(j, m, B, A2, I2)
  <2>1. \A e \in Nat : IsCurrent(e, A) => IsCurrent(e, A2)
    BY <1>4 DEF IsCurrent
  <2>2. B.epoch \in Nat /\ B.s.last_committed \in Nat
    BY NodeTypes
  <2>3. Queue(j, m, B, A2, I)
    BY <1>1, <2>1, <2>2, QueueSame
  <2>. QED BY <1>1, <2>3, QueueTail
<1>8. Link(j, m, B, A2, I, O)
  BY <1>1, SameGrows, LeaderIsNoPeon DEF StaysLeader
<1>9. Link(j, m, B, A2, I2, O)
  BY <1>1, <1>8, LinkTailD
<1>. QED BY <1>1, <1>2, <1>5, <1>7, <1>9 DEF Pair

(* What a peon never changes. *)
StaysPeon(A, A2) ==
  /\ A.role = "peon" /\ A2.role = "peon" /\ A2.epoch = A.epoch
  /\ A2.s.leader = A.s.leader
  /\ A2.s.last_pn = A.s.last_pn
  /\ A2.s.last_committed >= A.s.last_committed

LEMMA PeonQueues ==
  ASSUME NEW m \in Mon, NEW j \in Mon, m # j, NEW A \in Node, NEW A2 \in Node, NEW B \in Node,
         NEW O, NEW O2, NEW I, NEW I2,
         Pair(m, j, A, B, O, I), StaysPeon(A, A2), GrowsUp(O, O2),
         I2 = I \/ (I # <<>> /\ I2 = Tail(I))
  PROVE  /\ I2 \in Messages /\ Queue(m, j, A2, B, O) /\ Queue(j, m, B, A2, I2)
         /\ Link(m, j, A2, B, O2, I2)
<1>1. O \in Messages /\ I \in Messages /\ Queue(m, j, A, B, O) /\ Queue(j, m, B, A, I)
      /\ Link(m, j, A, B, O, I)
  BY DEF Pair
<1>2. I2 \in Messages
  BY <1>1, TailFacts
<1>4. A2.epoch = A.epoch /\ A.epoch \in Nat /\ A2.role # "out" /\ A.role # "out"
      /\ A2.s.last_committed >= A.s.last_committed
  BY NodeTypes DEF StaysPeon
<1>5. Queue(m, j, A2, B, O)
  BY <1>1, <1>4, QueueSame
<1>7. Queue(j, m, B, A2, I2)
  <2>1. \A e \in Nat : IsCurrent(e, A) => IsCurrent(e, A2)
    BY <1>4 DEF IsCurrent
  <2>2. B.epoch \in Nat /\ B.s.last_committed \in Nat
    BY NodeTypes
  <2>3. Queue(j, m, B, A2, I)
    BY <1>1, <2>1, <2>2, QueueSame
  <2>. QED BY <1>1, <2>3, QueueTail
<1>8. Link(m, j, A2, B, O2, I2)
  <2>1. \A e \in Nat : Joined(j, A, e) => Joined(j, A2, e)
    BY DEF Joined, StaysPeon
  <2>2. A.role # "leader" /\ A2.role # "leader" /\ A2.s.last_pn = A.s.last_pn
    BY DEF StaysPeon
  <2>. QED BY <1>1, <2>1, <2>2, PeonIsNoLeader
<1>. QED BY <1>2, <1>5, <1>7, <1>8

(* m answers its leader j. *)
LEMMA PairAnswer ==
  ASSUME NEW m \in Mon, NEW j \in Mon, m # j, NEW A \in Node, NEW A2 \in Node, NEW B \in Node,
         NEW O, NEW O2, NEW I, NEW I2, NEW x \in LooseMessage,
         Pair(m, j, A, B, O, I), StaysPeon(A, A2),
         I # <<>>, I2 = Tail(I),
         Push(O, O2, x, A2.epoch, B), x.op \in Ups, Fits(x, A2),
         Link(j, m, B, A2, I2, O2)
  PROVE  Pair(m, j, A2, B, O2, I2)
<1>1. O \in Messages /\ I \in Messages
  BY DEF Pair
<1>2. Pushes(j, {j}, O, O2, x, A2.epoch, B)
  BY DEF Push, Pushes
<1>3. Longer(O, O2, x, j \in {j} /\ IsCurrent(A2.epoch, B))
  BY <1>1, <1>2, PushesFacts
<1>4. GrowsUp(O, O2) /\ O2 \in Messages
  BY <1>3, LongerGrowsUp DEF Longer
<1>5. I2 \in Messages /\ Queue(m, j, A2, B, O) /\ Queue(j, m, B, A2, I2) /\ Link(m, j, A2, B, O2, I2)
  BY <1>4, PeonQueues
<1>6. Queue(m, j, A2, B, O2)
  <2>1. x.op # "victory"
    BY DEF Ups
  <2>. QED BY <1>1, <1>3, <1>5, <2>1, QueueMore DEF Fits
<1>. QED BY <1>4, <1>5, <1>6 DEF Pair

(* m takes a message of its leader j without an answer. *)
LEMMA PairTake ==
  ASSUME NEW m \in Mon, NEW j \in Mon, m # j, NEW A \in Node, NEW A2 \in Node, NEW B \in Node,
         NEW O, NEW I, NEW I2,
         Pair(m, j, A, B, O, I), StaysPeon(A, A2), I # <<>>, I2 = Tail(I),
         Link(j, m, B, A2, I2, O)
  PROVE  Pair(m, j, A2, B, O, I2)
<1>1. O \in Messages /\ I \in Messages
  BY DEF Pair
<1>2. I2 \in Messages /\ Queue(m, j, A2, B, O) /\ Queue(j, m, B, A2, I2) /\ Link(m, j, A2, B, O, I2)
  BY <1>1, SameGrows, PeonQueues
<1>. QED BY <1>1, <1>2 DEF Pair

(* What m does as a peon is of no interest to a monitor that it does not follow. *)
LEMMA PairOther ==
  ASSUME NEW m \in Mon, NEW j \in Mon, m # j, NEW A \in Node, NEW A2 \in Node, NEW B \in Node,
         NEW O, NEW I,
         Pair(m, j, A, B, O, I), StaysPeon(A, A2), A.s.leader # j,
         \A pn : Below(A.s, pn, j) => Below(A2.s, pn, j)
  PROVE  Pair(m, j, A2, B, O, I)
<1>1. O \in Messages /\ I \in Messages /\ Link(j, m, B, A, I, O)
  BY DEF Pair
<1>2. Queue(m, j, A2, B, O) /\ Queue(j, m, B, A2, I) /\ Link(m, j, A2, B, O, I)
  BY <1>1, SameGrows, PeonQueues
<1>3. Link(j, m, B, A2, I, O)
  <2>1. \A e \in Nat : Gone(A, e) => Gone(A2, e)
    BY DEF Gone, StaysPeon
  <2>2. (A.role = "peon" => A.s.leader # j) /\ (A2.role = "peon" => A2.s.leader # j)
    BY DEF StaysPeon
  <2>. QED BY <1>1, <2>1, <2>2, LinkNotPeon
<1>. QED BY <1>1, <1>2, <1>3 DEF Pair

(* m leaves its quorum. *)
Leaves(j, A, A2) ==
  /\ A2.role = "out" /\ A2.epoch >= A.epoch
  /\ A2.s.last_pn = A.s.last_pn
  /\ A2.s.last_committed >= A.s.last_committed
  /\ \A pn : Below(A.s, pn, j) => Below(A2.s, pn, j)

LEMMA PairLeave ==
  ASSUME NEW m \in Mon, NEW j \in Mon, m # j, NEW A \in Node, NEW A2 \in Node, NEW B \in Node,
         NEW O, NEW I, NEW I2, NEW n,
         Pair(m, j, A, B, O, I), Leaves(j, A, A2), Dropped(I, I2, n, A2)
  PROVE  Pair(m, j, A2, B, O, I2)
<1>1. O \in Messages /\ I \in Messages /\ Queue(m, j, A, B, O) /\ Queue(j, m, B, A, I)
      /\ Link(m, j, A, B, O, I) /\ Link(j, m, B, A, I, O)
  BY DEF Pair
<1>2. A.epoch \in Nat /\ A2.epoch \in Nat /\ A2.epoch >= A.epoch /\ A2.role = "out"
  BY NodeTypes DEF Leaves
<1>3. I2 \in Messages
  BY DEF Dropped
<1>4. Queue(m, j, A2, B, O)
  BY <1>1, <1>2, QueueSame DEF Leaves
<1>5. Queue(j, m, B, A2, I2)
  BY <1>1, QueueDrop
<1>6. Link(j, m, B, A2, I2, O)
  <2>1. \A pn : Below(A.s, pn, j) => Below(A2.s, pn, j)
    BY DEF Leaves
  <2>. QED BY <1>1, <1>2, <2>1, LinkLeave
<1>7. Link(m, j, A2, B, O, I2)
  <2>1. \A e \in Nat : Joined(j, A, e) => Joined(j, A2, e)
    BY <1>2 DEF Joined
  <2>2. \A k \in DOMAIN I2 : I2[k].op \notin Ups
    <3>. SUFFICES ASSUME NEW k \in DOMAIN I2, I2[k].op \in Ups PROVE FALSE
      OBVIOUS
    <3>1. k + n \in DOMAIN I /\ I2[k] = I[k + n] /\ IsCurrent(I2[k].epoch, A2)
      BY DEF Dropped
    <3>2. I2[k].epoch = A.epoch
      BY <1>1, <3>1 DEF Link, Answered
    <3>. QED BY <1>2, <3>1, <3>2 DEF IsCurrent
  <2>3. A2.role # "leader" /\ A2.s.last_pn = A.s.last_pn
    BY DEF Leaves
  <2>. QED BY <1>1, <2>1, <2>2, <2>3, LinkNotLeader
<1>. QED BY <1>1, <1>3, <1>4, <1>5, <1>6, <1>7 DEF Pair

(* The two monitors of a pair change places. *)
LEMMA PairSwap ==
  ASSUME NEW m, NEW j, NEW A, NEW B, NEW O, NEW I, Pair(m, j, A, B, O, I)
  PROVE  Pair(j, m, B, A, I, O)
BY DEF Pair

(* m, which has left, becomes a leader. *)
LEMMA PairElect ==
  ASSUME NEW m \in Mon, NEW j \in Mon, m # j, NEW A \in Node, NEW A2 \in Node, NEW B \in Node,
         NEW O, NEW O1, NEW O2, NEW I, NEW w \in LooseMessage, NEW x \in LooseMessage,
         Pair(m, j, A, B, O, I),
         A.role = "out", A2.role = "leader", A2.epoch = A.epoch + 1, A2.epoch % 2 = 0,
         A2.s.state = "recovering", A2.T = {m}, A2.s.peer_last_committed[j] = -1,
         A2.s.last_pn > A.s.last_pn, A2.s.last_pn % 100 = m, A2.s.accepted_pn = A2.s.last_pn,
         A2.s.stored_pn = A.s.stored_pn, A2.s.last_committed = A.s.last_committed,
         w.op = "victory", Fits(w, A2),
         x.op = "collect", x.pn = A2.s.last_pn, Fits(x, A2),
         Pushes(j, A2.s.quorum, O, O1, w, A2.epoch, B),
         Pushes(j, A2.s.quorum, O1, O2, x, A2.epoch, B)
  PROVE  Pair(m, j, A2, B, O2, I)
<1>1. O \in Messages /\ I \in Messages /\ Queue(m, j, A, B, O) /\ Queue(j, m, B, A, I)
      /\ Link(m, j, A, B, O, I) /\ Link(j, m, B, A, I, O)
  BY DEF Pair
<1>2. A.epoch \in Nat /\ A2.epoch \in Nat /\ A.s.last_committed \in Nat /\ B.epoch \in Nat
      /\ B.s.last_committed \in Nat
  BY NodeTypes
<1>3. Longer(O, O1, w, j \in A2.s.quorum /\ IsCurrent(A2.epoch, B))
  BY <1>1, PushesFacts
<1>4. O1 \in Messages
  BY <1>3 DEF Longer
<1>5. Longer(O1, O2, x, j \in A2.s.quorum /\ IsCurrent(A2.epoch, B))
  BY <1>4, PushesFacts
<1>6. O2 \in Messages
  BY <1>5 DEF Longer
<1>7. Queue(m, j, A2, B, O)
  BY <1>1, <1>2, QueueSame
<1>8. Queue(m, j, A2, B, O1)
  <2>1. \A k \in DOMAIN O : O[k].epoch < w.epoch
    <3>. SUFFICES ASSUME NEW k \in DOMAIN O PROVE O[k].epoch < w.epoch
      OBVIOUS
    <3>1. O[k].epoch \in Nat
      BY <1>1, MessageTypes
    <3>2. O[k].epoch <= A.epoch
      BY <1>1 DEF Queue, Sent
    <3>. QED BY <1>2, <3>1, <3>2 DEF Fits
  <2>2. w.epoch % 2 = 0
    BY DEF Fits
  <2>. QED BY <1>1, <1>3, <1>7, <2>1, <2>2, QueueMore DEF Fits
<1>9. Queue(m, j, A2, B, O2)
  BY <1>4, <1>5, <1>8, QueueMore DEF Fits
<1>10. Queue(j, m, B, A2, I)
  <2>1. \A e \in Nat : IsCurrent(e, A) => IsCurrent(e, A2)
    BY <1>2 DEF IsCurrent
  <2>. QED BY <1>1, <1>2, <2>1, QueueSame
<1>11. Link(m, j, A2, B, O2, I)
  <2>1. w.epoch = A2.epoch /\ x.epoch = A2.epoch
    BY DEF Fits
  <2>. QED BY <1>1, <2>1, LinkElect, ZenonT(180)
<1>12. Link(j, m, B, A2, I, O2)
  <2>1. \A e \in Nat : Gone(A, e) => Gone(A2, e)
    BY <1>2 DEF Gone
  <2>2. \A pn : Below(A.s, pn, j) => Below(A2.s, pn, j)
    BY DEF Below
  <2>3. Link(j, m, B, A2, I, O)
    BY <1>1, <2>1, <2>2, LinkNotPeon
  <2>4. Grows(O, O1) /\ Grows(O1, O2)
    BY <1>3, <1>5, LongerGrows DEF Ups
  <2>5. Link(j, m, B, A2, I, O1)
    BY <2>3, <2>4, LinkGrowU
  <2>. QED BY <2>4, <2>5, LinkGrowU
<1>. QED BY <1>1, <1>6, <1>9, <1>10, <1>11, <1>12 DEF Pair

(* m, which has left, becomes a peon of i. *)
Joins(i, A, A2) ==
  /\ A.role = "out" /\ A2.role = "peon" /\ A2.epoch = A.epoch + 1
  /\ A2.s.leader = i /\ ~A2.s.lease
  /\ A2.s.last_pn = A.s.last_pn /\ A2.s.last_committed = A.s.last_committed
  /\ A2.s.accepted_pn = A.s.accepted_pn /\ A2.s.stored_pn = A.s.stored_pn

LEMMA JoinQueues ==
  ASSUME NEW m \in Mon, NEW j \in Mon, m # j, NEW A \in Node, NEW A2 \in Node, NEW B \in Node,
         NEW O, NEW I, NEW I2, NEW i,
         Pair(m, j, A, B, O, I), Joins(i, A, A2), I2 = I \/ (I # <<>> /\ I2 = Tail(I))
  PROVE  /\ I2 \in Messages /\ Queue(m, j, A2, B, O) /\ Queue(j, m, B, A2, I2)
         /\ Link(m, j, A2, B, O, I2)
<1>1. O \in Messages /\ I \in Messages /\ Queue(m, j, A, B, O) /\ Queue(j, m, B, A, I)
      /\ Link(m, j, A, B, O, I)
  BY DEF Pair
<1>2. A.epoch \in Nat /\ A2.epoch = A.epoch + 1 /\ A2.s.last_committed >= A.s.last_committed
      /\ B.epoch \in Nat /\ B.s.last_committed \in Nat
  BY NodeTypes DEF Joins
<1>3. I2 \in Messages
  BY <1>1, TailFacts
<1>4. Queue(m, j, A2, B, O)
  BY <1>1, <1>2, QueueSame
<1>5. Queue(j, m, B, A2, I2)
  <2>1. \A e \in Nat : IsCurrent(e, A) => IsCurrent(e, A2)
    BY <1>2 DEF IsCurrent, Joins
  <2>2. Queue(j, m, B, A2, I)
    BY <1>1, <1>2, <2>1, QueueSame
  <2>. QED BY <1>1, <2>2, QueueTail
<1>6. Link(m, j, A2, B, O, I2)
  <2>1. \A e \in Nat : Joined(j, A, e) => Joined(j, A2, e)
    BY <1>2 DEF Joined
  <2>2. A.role # "leader" /\ A2.role # "leader" /\ A2.s.last_pn = A.s.last_pn
    BY DEF Joins
  <2>. QED BY <1>1, <2>1, <2>2, SameGrows, PeonIsNoLeader
<1>. QED BY <1>3, <1>4, <1>5, <1>6

LEMMA PairFollow ==
  ASSUME NEW m \in Mon, NEW j \in Mon, m # j, NEW A \in Node, NEW A2 \in Node, NEW B \in Node,
         NEW O, NEW I, NEW I2,
         Pair(m, j, A, B, O, I), Joins(j, A, A2), Local(j, B),
         I # <<>>, I2 = Tail(I), I[1].op = "victory", I[1].epoch = A.epoch + 1
  PROVE  Pair(m, j, A2, B, O, I2)
<1>1. O \in Messages /\ I \in Messages /\ Link(j, m, B, A, I, O)
  BY DEF Pair
<1>2. I2 \in Messages /\ Queue(m, j, A2, B, O) /\ Queue(j, m, B, A2, I2) /\ Link(m, j, A2, B, O, I2)
  BY JoinQueues
<1>3. Link(j, m, B, A2, I2, O)
  BY <1>1, LinkFollow DEF Joins
<1>. QED BY <1>1, <1>2, <1>3 DEF Pair

LEMMA PairFollowOther ==
  ASSUME NEW m \in Mon, NEW j \in Mon, m # j, NEW A \in Node, NEW A2 \in Node, NEW B \in Node,
         NEW O, NEW I, NEW i,
         Pair(m, j, A, B, O, I), Joins(i, A, A2), i # j
  PROVE  Pair(m, j, A2, B, O, I)
<1>1. O \in Messages /\ I \in Messages /\ Link(j, m, B, A, I, O)
  BY DEF Pair
<1>2. Queue(m, j, A2, B, O) /\ Queue(j, m, B, A2, I) /\ Link(m, j, A2, B, O, I)
  BY JoinQueues
<1>3. Link(j, m, B, A2, I, O)
  <2>1. \A e \in Nat : Gone(A, e) => Gone(A2, e)
    <3>1. A.epoch \in Nat /\ A2.epoch = A.epoch + 1
      BY NodeTypes DEF Joins
    <3>. QED BY <3>1 DEF Gone
  <2>2. (A.role = "peon" => A.s.leader # j) /\ (A2.role = "peon" => A2.s.leader # j)
    BY DEF Joins
  <2>3. \A pn : Below(A.s, pn, j) => Below(A2.s, pn, j)
    BY DEF Below, Joins
  <2>. QED BY <1>1, <2>1, <2>2, <2>3, LinkNotPeon
<1>. QED BY <1>1, <1>2, <1>3 DEF Pair

=============================================================================
