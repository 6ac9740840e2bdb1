-------------------------- MODULE Elector_proofs --------------------------
(***************************************************************************)
(* The election keeps its invariants and implements MonQuorum, for every   *)
(* size of the monmap, every setting and every value of the bounds.        *)
(*                                                                         *)
(* A handler is a composition of operators on a context.  Each operator    *)
(* has a lemma that says what it keeps of a context (Sound) and what it    *)
(* sets; each handler one that says how it leaves the monitor (Outcome);   *)
(* and one lemma takes the outcome of a handler through Finish to the      *)
(* inductive invariant and to a step of MonQuorum.                         *)
(***************************************************************************)
EXTENDS Elector, FiniteSetTheorems, SequenceTheorems, TLAPS

(* In a handler the epoch and what is sent are not yet held below MaxEpoch. *)
LooseState == [
  state : {"down", "probing", "electing", "leader", "peon", "aborted"},
  epoch : Nat \ {0}, participating : BOOLEAN, electing_me : BOOLEAN,
  acked_me : SUBSET Mon, leader_acked : {-1} \union Mon,
  expire_event : BOOLEAN, probe_timeout : BOOLEAN,
  leader : {-1} \union Mon, quorum : SUBSET Mon, outside_quorum : SUBSET Mon]

LooseMessage == [op : {"PROPOSE", "ACK", "NAK", "VICTORY"},
                 epoch : Nat \ {0}, quorum : SUBSET Mon]

LooseContext == [s : LooseState, out : [Mon -> Seq(LooseMessage)], ok : BOOLEAN]

Serving(s) == s.state \in {"leader", "peon"}

(* What holds of the state s of monitor m at any point of any handler: it has
   deferred to lower ranks only; it is a candidate in odd epochs only, with
   acknowledgements of higher ranks that have the features and have reached its
   epoch; it has lost them when it does not participate; and it serves in even
   epochs only. *)
Candidate(m, s) ==
  /\ s.electing_me => s.epoch % 2 = 1 /\ m \in s.acked_me
  /\ s.electing_me => \A q \in s.acked_me : q # m => mon[q].epoch >= s.epoch
  /\ \A q \in s.acked_me : m <= q
  /\ Requires(m) => \A q \in s.acked_me : q \notin LackCon \union LackMon
  /\ ~s.participating => s.acked_me \subseteq {m}

Base(m, s) ==
  /\ s \in LooseState
  /\ Candidate(m, s)
  /\ s.leader_acked < m
  /\ ~s.participating => ~Serving(s)
  /\ Serving(s) => s.epoch % 2 = 0
  /\ s.probe_timeout => s.state \in {"probing", "aborted"}

(* Between handlers, whoever takes part in an election is a candidate or has
   deferred to one, and has its timer armed. *)
Waits(s) == s.electing_me \/ s.leader_acked >= 0

Armed(s) ==
  s.participating /\ (s.state = "electing" \/ Serving(s)) =>
    /\ s.state = "electing" => Waits(s)
    /\ Waits(s) => s.expire_event

(* The messages that a monitor i in epoch e may have sent to j; W are the
   victories declared. *)
Victory_(i, msg) == [epoch |-> msg.epoch, leader |-> i, quorum |-> msg.quorum]

Allowed(i, j, e, W) ==
  {msg \in LooseMessage :
     /\ i # j
     /\ msg.epoch <= (IF msg.op = "NAK" THEN MaxEpoch ELSE e)
     /\ msg.op = "PROPOSE" => msg.epoch % 2 = 1
     /\ msg.op = "ACK" => j < i /\ (OldPeersRankLast => msg.epoch % 2 = 1)
     /\ msg.op = "VICTORY" => /\ msg.epoch % 2 = 0
                              /\ i < j /\ j \in msg.quorum
                              /\ Victory_(i, msg) \in W}

(* A context that a handler of m may be in. *)
Sound(m, c, W) ==
  /\ c \in LooseContext
  /\ Base(m, c.s)
  /\ \A j \in Mon : c.out[j] \in Seq(Allowed(m, j, c.s.epoch, W))

-----------------------------------------------------------------------------
(* Sequences and sets *)

(* A sequence over a set is one over every larger set. *)
LEMMA SeqMonotone ==
  ASSUME NEW S, NEW T, S \subseteq T, NEW seq \in Seq(S)
  PROVE  seq \in Seq(T)
<1>1. \A i \in 1 .. Len(seq) : seq[i] \in T BY ElementOfSeq
<1>2. seq = [i \in 1 .. Len(seq) |-> seq[i]] /\ Len(seq) \in Nat BY LenProperties
<1>. QED BY <1>1, <1>2, IsASeq

(* A later epoch and more victories allow more messages. *)
LEMMA AllowedGrows ==
  ASSUME NEW i, NEW j, NEW e \in Nat, NEW f \in Nat, e <= f, NEW W, NEW X, W \subseteq X
  PROVE  Allowed(i, j, e, W) \subseteq Allowed(i, j, f, X)
BY DEF Allowed, LooseMessage

(* There are N monitors. *)
LEMMA MonIsFinite == IsFiniteSet(Mon) /\ Cardinality(Mon) = N
<1>1. 0 \in Int /\ N - 1 \in Int /\ 0 <= N - 1 BY NAssumption
<1>2. IsFiniteSet(0 .. (N - 1)) /\ Cardinality(0 .. (N - 1)) = (N - 1) - 0 + 1
  BY <1>1, FS_Interval
<1>. QED BY <1>2, NAssumption DEF Mon

-----------------------------------------------------------------------------
(* The operators on contexts *)

(* Adding allowed messages keeps a context sound. *)
LEMMA SendOK ==
  ASSUME NEW m \in Mon, NEW W, NEW c, Sound(m, c, W),
         NEW dests \in SUBSET Mon, NEW msg \in LooseMessage,
         \A j \in dests : msg \in Allowed(m, j, c.s.epoch, W)
  PROVE  /\ Sound(m, Send(c, dests, msg), W)
         /\ Send(c, dests, msg).s = c.s /\ Send(c, dests, msg).ok = c.ok
<1>. DEFINE d == Send(c, dests, msg)
<1>1. c \in LooseContext BY DEF Sound
<1>2. \A j \in Mon : c.out[j] \in Seq(LooseMessage) BY <1>1 DEF LooseContext
<1>3. \A j \in Mon : Append(c.out[j], msg) \in Seq(LooseMessage) BY <1>2, AppendProperties
<1>. DEFINE out == [j \in Mon |-> IF j \in dests THEN Append(c.out[j], msg) ELSE c.out[j]]
<1>4. out \in [Mon -> Seq(LooseMessage)] BY <1>2, <1>3
<1>5. /\ d.s = c.s /\ d.ok = c.ok /\ d.out = out
      /\ d \in LooseContext
  <2>. HIDE DEF out
  <2>. QED BY <1>1, <1>4 DEF Send, LooseContext, out
<1>6. \A j \in Mon : d.out[j] = IF j \in dests THEN Append(c.out[j], msg) ELSE c.out[j]
  BY <1>5
<1>7. ASSUME NEW j \in Mon PROVE d.out[j] \in Seq(Allowed(m, j, c.s.epoch, W))
  <2>1. c.out[j] \in Seq(Allowed(m, j, c.s.epoch, W)) BY DEF Sound
  <2>2. CASE j \in dests
    <3>1. msg \in Allowed(m, j, c.s.epoch, W) BY <2>2
    <3>2. Append(c.out[j], msg) \in Seq(Allowed(m, j, c.s.epoch, W))
      BY <2>1, <3>1, AppendProperties
    <3>. HIDE DEF d
    <3>. QED BY <1>6, <2>2, <3>2
  <2>3. CASE j \notin dests BY <1>6, <2>1, <2>3
  <2>. QED BY <2>2, <2>3
<1>. QED BY <1>5, <1>7 DEF Sound

(* A context whose messages are those of a sound one and whose state is good. *)
LEMMA StateOK ==
  ASSUME NEW m \in Mon, NEW W, NEW c, Sound(m, c, W),
         NEW d \in LooseContext, d.out = c.out, Base(m, d.s), c.s.epoch <= d.s.epoch
  PROVE  Sound(m, d, W)
<1>1. c.s.epoch \in Nat /\ d.s.epoch \in Nat BY DEF Sound, Base, LooseState
<1>2. ASSUME NEW j \in Mon PROVE d.out[j] \in Seq(Allowed(m, j, d.s.epoch, W))
  <2>1. Allowed(m, j, c.s.epoch, W) \subseteq Allowed(m, j, d.s.epoch, W)
    BY <1>1, AllowedGrows
  <2>2. c.out[j] \in Seq(Allowed(m, j, c.s.epoch, W)) BY DEF Sound
  <2>3. c.out[j] \in Seq(Allowed(m, j, d.s.epoch, W)) BY <2>1, <2>2, SeqMonotone
  <2>. QED BY <2>3
<1>. QED BY <1>2 DEF Sound

(* A check that holds changes nothing. *)
LEMMA CheckHolds ==
  ASSUME NEW c \in LooseContext, NEW p \in BOOLEAN, p
  PROVE  Check(c, p) = c
<1>1. (c.ok /\ p) = c.ok BY DEF LooseContext
<1>2. Check(c, p) = [c EXCEPT !.ok = c.ok] BY <1>1 DEF Check
<1>. QED BY <1>2 DEF LooseContext

(* A check, failed or not, leaves the state alone. *)
LEMMA CheckOK ==
  ASSUME NEW m \in Mon, NEW W, NEW c, Sound(m, c, W), NEW p \in BOOLEAN,
         NEW d, d = Check(c, p)
  PROVE  Sound(m, d, W) /\ d.s = c.s
<1>1. c \in LooseContext BY DEF Sound
<1>2. d \in LooseContext /\ d.s = c.s /\ d.out = c.out
  BY <1>1 DEF Check, LooseContext
<1>3. Base(m, d.s) /\ c.s.epoch <= d.s.epoch
  BY <1>2 DEF Sound, Base, LooseState
<1>. QED BY <1>2, <1>3, StateOK

(* JoinElection leaves what the elector knows alone. *)
LEMMA JoinElectionOK ==
  ASSUME NEW m \in Mon, NEW W, NEW c, Sound(m, c, W),
         NEW d, d = JoinElection(c)
  PROVE  /\ Sound(m, d, W) /\ (d.ok <=> c.ok)
         /\ d.s.state = "electing" /\ d.s.epoch = c.s.epoch
         /\ (d.s.participating <=> c.s.participating)
         /\ (d.s.electing_me <=> c.s.electing_me) /\ d.s.acked_me = c.s.acked_me
         /\ d.s.leader_acked = c.s.leader_acked /\ (d.s.expire_event <=> c.s.expire_event)
<1>. DEFINE t == [Reset(c.s) EXCEPT !.state = "electing"]
<1>1. c \in LooseContext /\ c.s \in LooseState BY DEF Sound, Base
<1>2. /\ t \in LooseState
      /\ t.state = "electing" /\ t.epoch = c.s.epoch /\ (t.participating <=> c.s.participating)
      /\ (t.electing_me <=> c.s.electing_me) /\ t.acked_me = c.s.acked_me
      /\ t.leader_acked = c.s.leader_acked /\ (t.expire_event <=> c.s.expire_event)
      /\ t.probe_timeout = FALSE
  BY <1>1 DEF Reset, LooseState
<1>. HIDE DEF t
<1>3. d \in LooseContext /\ d.s = t /\ d.out = c.out /\ (d.ok <=> c.ok)
  BY <1>1, <1>2 DEF JoinElection, LooseContext, t
<1>4. Base(m, t)
  BY <1>2 DEF Sound, Base, Candidate, Serving
<1>5. c.s.epoch <= t.epoch BY <1>1, <1>2 DEF LooseState
<1>6. Sound(m, d, W) BY <1>3, <1>4, <1>5, StateOK
<1>. QED BY <1>2, <1>3, <1>6

(* Bootstrap leaves the elector's state alone and goes back to probing. *)
LEMMA BootstrapOK ==
  ASSUME NEW m \in Mon, NEW W, NEW c, Sound(m, c, W),
         NEW d, d = Bootstrap(c, m)
  PROVE  /\ Sound(m, d, W) /\ (d.ok <=> c.ok)
         /\ d.s.state = "probing" /\ d.s.epoch = c.s.epoch
<1>. DEFINE t == [Reset(c.s) EXCEPT !.state = "probing", !.probe_timeout = TRUE,
                                    !.outside_quorum = {m}]
<1>1. c \in LooseContext /\ c.s \in LooseState BY DEF Sound, Base
<1>2. /\ t \in LooseState
      /\ t.state = "probing" /\ t.epoch = c.s.epoch /\ (t.participating <=> c.s.participating)
      /\ (t.electing_me <=> c.s.electing_me) /\ t.acked_me = c.s.acked_me
      /\ t.leader_acked = c.s.leader_acked
  BY <1>1 DEF Reset, LooseState
<1>. HIDE DEF t
<1>3. d \in LooseContext /\ d.s = t /\ d.out = c.out /\ (d.ok <=> c.ok)
  BY <1>1, <1>2 DEF Bootstrap, LooseContext, t
<1>4. Base(m, t)
  BY <1>2 DEF Sound, Base, Candidate, Serving
<1>5. c.s.epoch <= t.epoch BY <1>1, <1>2 DEF LooseState
<1>6. Sound(m, d, W) BY <1>3, <1>4, <1>5, StateOK
<1>. QED BY <1>2, <1>3, <1>6

(* BumpEpoch ends a candidacy; whom the monitor has deferred to stays. *)
LEMMA BumpEpochOK ==
  ASSUME NEW m \in Mon, NEW W, NEW c, Sound(m, c, W), NEW e \in Nat, c.s.epoch <= e,
         NEW d, d = BumpEpoch(c, e)
  PROVE  /\ Sound(m, d, W) /\ (d.ok <=> c.ok)
         /\ d.s.state = "electing" /\ d.s.epoch = e
         /\ (d.s.participating <=> c.s.participating)
         /\ ~d.s.electing_me /\ d.s.acked_me = {}
         /\ d.s.leader_acked = c.s.leader_acked /\ (d.s.expire_event <=> c.s.expire_event)
<1>. DEFINE b == Check([c EXCEPT !.s.epoch = e], c.s.epoch <= e)
            t == [Reset(b.s) EXCEPT !.state = "electing"]
            u == [t EXCEPT !.electing_me = FALSE, !.acked_me = {}]
<1>1. c \in LooseContext /\ c.s \in LooseState /\ e \in Nat \ {0}
  BY DEF Sound, Base, LooseState
<1>2. /\ b \in LooseContext /\ b.s \in LooseState /\ b.out = c.out /\ (b.ok <=> c.ok)
      /\ b.s = [c.s EXCEPT !.epoch = e]
  BY <1>1 DEF Check, LooseContext, LooseState
<1>3. /\ u \in LooseState
      /\ u.state = "electing" /\ u.epoch = e /\ (u.participating <=> c.s.participating)
      /\ ~u.electing_me /\ u.acked_me = {}
      /\ u.leader_acked = c.s.leader_acked /\ (u.expire_event <=> c.s.expire_event)
      /\ ~u.probe_timeout
  <2>. HIDE DEF b
  <2>. QED BY <1>1, <1>2 DEF Reset, LooseState
<1>4. d \in LooseContext /\ d.s = u /\ d.out = c.out /\ (d.ok <=> c.ok)
  <2>1. JoinElection(b) = [b EXCEPT !.s = t] BY DEF JoinElection
  <2>2. d = [[b EXCEPT !.s = t] EXCEPT !.s = [[b EXCEPT !.s = t].s EXCEPT
                                                !.electing_me = FALSE, !.acked_me = {}]]
    BY <2>1 DEF BumpEpoch
  <2>. HIDE DEF b, t
  <2>3. [b EXCEPT !.s = t].s = t BY <1>2 DEF LooseContext
  <2>4. d = [[b EXCEPT !.s = t] EXCEPT !.s = u] BY <2>2, <2>3
  <2>. HIDE DEF u
  <2>. QED BY <1>2, <1>3, <2>4 DEF LooseContext
<1>. HIDE DEF b, t, u
<1>5. Base(m, u)
  BY <1>3 DEF Sound, Base, Candidate, Serving
<1>6. Sound(m, d, W) BY <1>3, <1>4, <1>5, StateOK
<1>. QED BY <1>3, <1>4, <1>6

(* Parity of the epochs. *)
LEMMA Parity ==
  ASSUME NEW e \in Nat
  PROVE  e % 2 \in {0, 1} /\ (e % 2 = 0 => (e + 1) % 2 = 1) /\ (e % 2 = 1 => (e + 1) % 2 = 0)
OBVIOUS

(* Start makes a participant a candidate with its timer armed. *)
LEMMA StartOK ==
  ASSUME NEW m \in Mon, NEW W, NEW c, Sound(m, c, W), c.s.participating,
         NEW d, d = Start(c, m)
  PROVE  /\ Sound(m, d, W) /\ (d.ok <=> c.ok)
         /\ d.s.state = (IF c.s.epoch % 2 = 0 THEN "electing" ELSE c.s.state)
         /\ d.s.epoch = (IF c.s.epoch % 2 = 0 THEN c.s.epoch + 1 ELSE c.s.epoch)
         /\ d.s.participating
         /\ d.s.electing_me /\ d.s.acked_me = {m}
         /\ d.s.leader_acked = -1 /\ d.s.expire_event
<1>. DEFINE b == IF c.s.epoch % 2 = 0 THEN BumpEpoch(c, c.s.epoch + 1) ELSE c
            t == [b.s EXCEPT !.electing_me = TRUE, !.acked_me = {m},
                             !.leader_acked = -1, !.expire_event = TRUE]
            x == [b EXCEPT !.s = t]
            msg == Msg("PROPOSE", x.s.epoch, {})
<1>1. c.s \in LooseState /\ c.s.epoch \in Nat /\ c.s.participating
  BY DEF Sound, Base, LooseState
<1>2. /\ Sound(m, b, W) /\ (b.ok <=> c.ok) /\ b.s.participating
      /\ b.s.state = (IF c.s.epoch % 2 = 0 THEN "electing" ELSE c.s.state)
      /\ b.s.epoch = (IF c.s.epoch % 2 = 0 THEN c.s.epoch + 1 ELSE c.s.epoch)
  <2>1. CASE c.s.epoch % 2 = 0
    <3>1. PICK f \in Nat : f = c.s.epoch + 1 /\ c.s.epoch <= f BY <1>1
    <3>2. b = BumpEpoch(c, f) BY <2>1, <3>1
    <3>. HIDE DEF b
    <3>3. /\ Sound(m, b, W) /\ (b.ok <=> c.ok) /\ b.s.state = "electing" /\ b.s.epoch = f
          /\ (b.s.participating <=> c.s.participating)
      BY <3>1, <3>2, BumpEpochOK
    <3>. QED BY <1>1, <2>1, <3>1, <3>3
  <2>2. CASE c.s.epoch % 2 # 0 BY <1>1, <2>2
  <2>. QED BY <2>1, <2>2
<1>3. b.s.epoch % 2 = 1 BY <1>1, <1>2, Parity
<1>. HIDE DEF b
<1>4. b \in LooseContext /\ b.s \in LooseState BY <1>2 DEF Sound, Base
<1>5. /\ t \in LooseState /\ t.electing_me /\ t.acked_me = {m}
      /\ t.leader_acked = -1 /\ t.expire_event
      /\ t.state = b.s.state /\ t.epoch = b.s.epoch /\ t.participating
      /\ t.probe_timeout = b.s.probe_timeout
  BY <1>2, <1>4 DEF LooseState
<1>. HIDE DEF t
<1>6. x \in LooseContext /\ x.s = t /\ x.out = b.out /\ (x.ok <=> b.ok)
  BY <1>4, <1>5 DEF LooseContext
<1>7. m \in Int /\ m >= 0 BY NAssumption DEF Mon
<1>8. Base(m, t)
  <2>1. Candidate(m, t) BY <1>3, <1>5, <1>7 DEF Candidate, Requires
  <2>. QED BY <1>2, <1>3, <1>5, <1>7, <2>1 DEF Sound, Base, Serving
<1>. HIDE DEF x
<1>9. Sound(m, x, W)
  <2>1. b.s.epoch <= x.s.epoch BY <1>4, <1>5, <1>6 DEF LooseState
  <2>. QED BY <1>2, <1>6, <1>8, <2>1, StateOK
<1>10. /\ msg \in LooseMessage
       /\ \A j \in Mon \ {m} : msg \in Allowed(m, j, x.s.epoch, W)
  <2>1. x.s.epoch \in Nat \ {0} /\ x.s.epoch % 2 = 1 BY <1>3, <1>4, <1>5, <1>6 DEF LooseState
  <2>2. msg = [op |-> "PROPOSE", epoch |-> x.s.epoch, quorum |-> {}] BY DEF Msg
  <2>. QED BY <2>1, <2>2 DEF Allowed, LooseMessage
<1>11. d = Send(x, Mon \ {m}, msg) BY DEF Start, b, t, x
<1>. HIDE DEF msg
<1>12. Sound(m, d, W) /\ d.s = t /\ (d.ok <=> c.ok)
  BY <1>2, <1>6, <1>9, <1>10, <1>11, SendOK
<1>. QED BY <1>2, <1>5, <1>12

(* StartElection: a participant becomes a candidate in an odd epoch, any other
   monitor only stops serving. *)
LEMMA StartElectionOK ==
  ASSUME NEW m \in Mon, NEW W, NEW c, Sound(m, c, W),
         NEW d, d = StartElection(c, m)
  PROVE  /\ Sound(m, d, W) /\ (d.ok <=> c.ok)
         /\ d.s.state = "electing"
         /\ d.s.epoch \in Nat /\ c.s.epoch <= d.s.epoch
         /\ (d.s.participating <=> c.s.participating)
         /\ ~c.s.participating => d.s.acked_me = c.s.acked_me
         /\ c.s.participating => /\ d.s.electing_me /\ d.s.acked_me = {m}
                                 /\ d.s.leader_acked = -1 /\ d.s.expire_event
                                 /\ d.s.epoch % 2 = 1
<1>. DEFINE b == JoinElection(c)
<1>1. /\ Sound(m, b, W) /\ (b.ok <=> c.ok) /\ b.s.state = "electing" /\ b.s.epoch = c.s.epoch
      /\ (b.s.participating <=> c.s.participating) /\ b.s.acked_me = c.s.acked_me
  BY JoinElectionOK
<1>2. c.s.epoch \in Nat /\ c.s.participating \in BOOLEAN BY DEF Sound, Base, LooseState
<1>3. d = Start(b, m) BY DEF StartElection
<1>. HIDE DEF b
<1>4. CASE c.s.participating
  <2>1. b.s.participating BY <1>1, <1>4
  <2>2. /\ Sound(m, d, W) /\ (d.ok <=> b.ok) /\ d.s.state = "electing"
        /\ d.s.epoch = (IF b.s.epoch % 2 = 0 THEN b.s.epoch + 1 ELSE b.s.epoch)
        /\ d.s.participating
        /\ d.s.electing_me /\ d.s.acked_me = {m}
        /\ d.s.leader_acked = -1 /\ d.s.expire_event
    <3>1. /\ Sound(m, Start(b, m), W) /\ (Start(b, m).ok <=> b.ok)
          /\ Start(b, m).s.state = (IF b.s.epoch % 2 = 0 THEN "electing" ELSE b.s.state)
          /\ Start(b, m).s.epoch = (IF b.s.epoch % 2 = 0 THEN b.s.epoch + 1 ELSE b.s.epoch)
          /\ Start(b, m).s.participating
          /\ Start(b, m).s.electing_me /\ Start(b, m).s.acked_me = {m}
          /\ Start(b, m).s.leader_acked = -1 /\ Start(b, m).s.expire_event
      BY <1>1, <2>1, StartOK
    <3>. QED BY <1>1, <1>3, <3>1
  <2>3. d.s.epoch % 2 = 1 /\ d.s.epoch \in Nat /\ c.s.epoch <= d.s.epoch
    BY <1>1, <1>2, <2>2, Parity
  <2>. QED BY <1>1, <1>2, <1>4, <2>2, <2>3
<1>5. CASE ~c.s.participating
  <2>1. d = b BY <1>1, <1>3, <1>5 DEF Start
  <2>. QED BY <1>1, <1>2, <1>5, <2>1
<1>. QED BY <1>4, <1>5

(* Defer ends a candidacy for a lower rank, and arms the timer. *)
LEMMA DeferOK ==
  ASSUME NEW m \in Mon, NEW W, NEW c, Sound(m, c, W), NEW who \in Mon, who < m,
         OldPeersRankLast => c.s.epoch % 2 = 1,
         NEW d, d = Defer(c, who)
  PROVE  /\ Sound(m, d, W) /\ (d.ok <=> c.ok)
         /\ d.s.state = c.s.state /\ d.s.epoch = c.s.epoch
         /\ (d.s.participating <=> c.s.participating)
         /\ d.s.leader_acked = who /\ d.s.expire_event
<1>. DEFINE t == [c.s EXCEPT !.acked_me = IF c.s.electing_me THEN {} ELSE @,
                             !.electing_me = FALSE, !.leader_acked = who,
                             !.expire_event = TRUE]
            b == [c EXCEPT !.s = t]
            msg == Msg("ACK", b.s.epoch, {})
<1>1. c \in LooseContext /\ c.s \in LooseState BY DEF Sound, Base
<1>2. /\ t \in LooseState /\ ~t.electing_me /\ t.acked_me \subseteq c.s.acked_me
      /\ t.leader_acked = who /\ t.expire_event
      /\ t.state = c.s.state /\ t.epoch = c.s.epoch
      /\ (t.participating <=> c.s.participating)
      /\ (t.probe_timeout <=> c.s.probe_timeout)
  BY <1>1 DEF LooseState
<1>. HIDE DEF t
<1>3. b \in LooseContext /\ b.s = t /\ b.out = c.out /\ (b.ok <=> c.ok)
  BY <1>1, <1>2 DEF LooseContext
<1>4. Base(m, t)
  <2>1. Candidate(m, t) BY <1>2 DEF Sound, Base, Candidate
  <2>. QED BY <1>2, <2>1 DEF Sound, Base, Serving
<1>. HIDE DEF b
<1>5. Sound(m, b, W)
  <2>1. c.s.epoch <= b.s.epoch BY <1>1, <1>2, <1>3 DEF LooseState
  <2>. QED BY <1>3, <1>4, <2>1, StateOK
<1>6. msg \in LooseMessage /\ \A j \in {who} : msg \in Allowed(m, j, b.s.epoch, W)
  <2>1. b.s.epoch \in Nat \ {0} BY <1>2, <1>3 DEF LooseState
  <2>2. msg = [op |-> "ACK", epoch |-> b.s.epoch, quorum |-> {}] BY DEF Msg
  <2>3. who # m BY NAssumption DEF Mon
  <2>. QED BY <1>2, <1>3, <2>1, <2>2, <2>3 DEF Allowed, LooseMessage
<1>7. d = Send(b, {who}, msg) BY DEF Defer, b, t
<1>. HIDE DEF msg
<1>8. Sound(m, d, W) /\ d.s = t /\ (d.ok <=> c.ok)
  BY <1>3, <1>5, <1>6, <1>7, SendOK
<1>. QED BY <1>2, <1>8

(* A monitor that handles messages takes part and is not probing. *)
Engaged(s) == s.participating /\ (s.state = "electing" \/ Serving(s))

(* What the comparison of ranks leaves: a participant that is a candidate or has
   deferred, or a serving monitor as it was. *)
LEMMA CompareRanksOK ==
  ASSUME NEW m \in Mon, NEW c, Sound(m, c, won), NEW from \in Mon, from # m,
         Engaged(c.s), Waits(c.s) => c.s.expire_event,
         from < m => (OldPeersRankLast => c.s.epoch % 2 = 1),
         NEW d, d = CompareRanks(c, m, from)
  PROVE  /\ Sound(m, d, won) /\ (d.ok <=> c.ok) /\ Armed(d.s)
         /\ c.s.epoch <= d.s.epoch
         /\ d.s.state = "electing" \/ (d.s.state = c.s.state /\ d.s.epoch = c.s.epoch)
<1>1. /\ c.s \in LooseState /\ c.s.leader_acked < m /\ c.s.leader_acked \in Int
      /\ m \in Int /\ from \in Int /\ c.s.epoch \in Nat
  BY NAssumption DEF Sound, Base, LooseState, Mon
<1>2. CASE m < from /\ c.s.leader_acked >= 0
  <2>1. d = Check(c, c.s.leader_acked < from) BY <1>2 DEF CompareRanks
  <2>2. c.s.leader_acked < from BY <1>1, <1>2
  <2>3. d = c BY <2>1, <2>2, CheckHolds DEF Sound
  <2>. QED BY <1>1, <1>2, <2>3 DEF Armed, Waits
<1>3. CASE m < from /\ c.s.leader_acked < 0 /\ c.s.electing_me
  <2>1. d = c BY <1>1, <1>3 DEF CompareRanks
  <2>. QED BY <1>1, <1>3, <2>1 DEF Armed, Waits
<1>4. CASE m < from /\ c.s.leader_acked < 0 /\ ~c.s.electing_me
  <2>1. d = StartElection(c, m) BY <1>1, <1>4 DEF CompareRanks
  <2>2. /\ Sound(m, d, won) /\ (d.ok <=> c.ok)
        /\ d.s.state = "electing" /\ c.s.epoch <= d.s.epoch
        /\ d.s.electing_me /\ d.s.expire_event
    BY <2>1, StartElectionOK DEF Engaged
  <2>. QED BY <2>2 DEF Armed, Waits
<1>5. CASE from < m /\ (c.s.leader_acked < 0 \/ c.s.leader_acked >= from)
  <2>1. d = Defer(c, from) BY <1>1, <1>5 DEF CompareRanks
  <2>2. /\ Sound(m, d, won) /\ (d.ok <=> c.ok)
        /\ d.s.state = c.s.state /\ d.s.epoch = c.s.epoch
        /\ d.s.leader_acked = from /\ d.s.expire_event
    BY <1>5, <2>1, DeferOK
  <2>3. d.s.leader_acked >= 0 BY <2>2, NAssumption DEF Mon
  <2>. QED BY <1>1, <2>2, <2>3 DEF Armed, Waits
<1>6. CASE from < m /\ ~(c.s.leader_acked < 0 \/ c.s.leader_acked >= from)
  <2>1. d = c BY <1>1, <1>6 DEF CompareRanks
  <2>. QED BY <1>1, <1>6, <2>1 DEF Armed, Waits
<1>. QED BY <1>1, <1>2, <1>3, <1>4, <1>5, <1>6

(* A context stays sound when more victories are declared. *)
LEMMA SoundGrows ==
  ASSUME NEW m \in Mon, NEW W, NEW X, W \subseteq X, NEW c, Sound(m, c, W)
  PROVE  Sound(m, c, X)
<1>1. c.s.epoch \in Nat BY DEF Sound, Base, LooseState
<1>2. ASSUME NEW j \in Mon PROVE c.out[j] \in Seq(Allowed(m, j, c.s.epoch, X))
  <2>1. Allowed(m, j, c.s.epoch, W) \subseteq Allowed(m, j, c.s.epoch, X)
    BY <1>1, AllowedGrows
  <2>2. c.out[j] \in Seq(Allowed(m, j, c.s.epoch, W)) BY DEF Sound
  <2>. QED BY <2>1, <2>2, SeqMonotone
<1>. QED BY <1>2 DEF Sound

-----------------------------------------------------------------------------
(* How a handler of m that began in state s may leave its context d: out of any
   quorum, serving as before, as the leader of a majority, or as a peon of a
   victory that names m. *)

Leaves(s, d) == ~Serving(d.s) /\ d.s.state # "aborted" /\ s.epoch <= d.s.epoch

Stays(s, d) == Serving(s) /\ d.s.state = s.state /\ d.s.epoch = s.epoch

Wins(m, s, d) ==
  /\ d.ok
  /\ d.s.state = "leader" /\ d.s.leader = m /\ d.s.epoch = s.epoch + 1
  /\ m \in d.s.quorum /\ 2 * Cardinality(d.s.quorum) > N
  /\ \A q \in d.s.quorum : m <= q /\ (q # m => mon[q].epoch >= s.epoch)
  /\ Requires(m) => \A q \in d.s.quorum : q \notin LackCon \union LackMon

Joins(m, s, d) ==
  /\ d.ok
  /\ d.s.state = "peon" /\ d.s.leader \in Mon /\ d.s.epoch = s.epoch + 1
  /\ m \in d.s.quorum
  /\ [epoch |-> d.s.epoch, leader |-> d.s.leader, quorum |-> d.s.quorum] \in won

Declared(m, d) == [epoch |-> d.s.epoch, leader |-> m, quorum |-> d.s.quorum]

Outcome(m, s, d) ==
  /\ Armed(d.s)
  /\ OldPeersRankLast => d.ok
  /\ \/ Sound(m, d, won) /\ (Leaves(s, d) \/ Stays(s, d) \/ Joins(m, s, d))
     \/ Sound(m, d, won \union {Declared(m, d)}) /\ Wins(m, s, d)

(* A candidate with a majority behind it wins. *)
LEMMA VictoryOK ==
  ASSUME NEW m \in Mon, NEW c, Sound(m, c, won), c.ok, c.s.electing_me,
         2 * Cardinality(c.s.acked_me) > N,
         NEW d, d = Victory(c, m)
  PROVE  Outcome(m, c.s, d)
<1>. DEFINE q == c.s.acked_me
            t == [c.s EXCEPT !.leader_acked = -1, !.electing_me = FALSE,
                             !.expire_event = FALSE]
            a == [c EXCEPT !.s = t]
            f == c.s.epoch + 1
            b == BumpEpoch(a, f)
            msg == Msg("VICTORY", b.s.epoch, q)
            W == won \union {[epoch |-> f, leader |-> m, quorum |-> q]}
            g == Send(b, q \ {m}, msg)
            u == [g.s EXCEPT !.state = "leader", !.leader = m, !.quorum = q,
                             !.outside_quorum = {}]
<1>1. /\ c \in LooseContext /\ c.s \in LooseState /\ Candidate(m, c.s)
      /\ c.s.epoch \in Nat \ {0} /\ c.s.epoch % 2 = 1
      /\ q \in SUBSET Mon /\ m \in q
  BY DEF Sound, Base, LooseState, Candidate
<1>2. c.s.participating
  <2>1. SUFFICES ASSUME q \subseteq {m} PROVE FALSE BY <1>1 DEF Candidate
  <2>2. q = {m} BY <1>1, <2>1
  <2>3. Cardinality({m}) = 1 BY FS_Singleton
  <2>. QED BY <2>2, <2>3, NAssumption
<1>3. /\ t \in LooseState /\ ~t.electing_me /\ t.acked_me = q /\ t.leader_acked = -1
      /\ ~t.expire_event /\ t.state = c.s.state /\ t.epoch = c.s.epoch
      /\ t.participating /\ (t.probe_timeout <=> c.s.probe_timeout)
  BY <1>1, <1>2 DEF LooseState
<1>. HIDE DEF t
<1>4. a \in LooseContext /\ a.s = t /\ a.out = c.out /\ a.ok
  BY <1>1, <1>3 DEF LooseContext
<1>5. m \in Int /\ m >= 0 BY NAssumption DEF Mon
<1>6. Base(m, t)
  <2>1. Candidate(m, t) BY <1>1, <1>3 DEF Candidate
  <2>. QED BY <1>1, <1>3, <1>5, <2>1 DEF Sound, Base, Serving
<1>7. Sound(m, a, won)
  <2>. HIDE DEF a
  <2>1. c.s.epoch <= a.s.epoch BY <1>1, <1>3, <1>4
  <2>. QED BY <1>4, <1>6, <2>1, StateOK
<1>8. d = WinElection(g, m, q)
  <2>1. a \in LooseContext /\ (c.s.epoch % 2 = 1) BY <1>1, <1>4
  <2>2. Check(a, c.s.epoch % 2 = 1) = a BY <2>1, CheckHolds
  <2>3. d = WinElection(Send(BumpEpoch(Check(a, c.s.epoch % 2 = 1), f), q \ {m},
                             Msg("VICTORY", BumpEpoch(Check(a, c.s.epoch % 2 = 1), f).s.epoch, q)),
                        m, q)
    BY DEF Victory, a, t
  <2>. QED BY <2>2, <2>3
<1>. HIDE DEF a
<1>9. f \in Nat \ {0} /\ f % 2 = 0 /\ a.s.epoch <= f BY <1>1, <1>3, <1>4, Parity
<1>10. /\ Sound(m, b, won) /\ b.ok /\ b.s.epoch = f /\ b.s.participating
       /\ ~b.s.electing_me /\ b.s.acked_me = {} /\ b.s.leader_acked = -1
       /\ ~b.s.expire_event /\ b.s.state = "electing"
  <2>. HIDE DEF b, f
  <2>1. b = BumpEpoch(a, f) BY DEF b
  <2>2. /\ Sound(m, b, won) /\ (b.ok <=> a.ok) /\ b.s.epoch = f
        /\ (b.s.participating <=> a.s.participating)
        /\ ~b.s.electing_me /\ b.s.acked_me = {} /\ b.s.leader_acked = a.s.leader_acked
        /\ (b.s.expire_event <=> a.s.expire_event) /\ b.s.state = "electing"
    BY <1>7, <1>9, <2>1, BumpEpochOK
  <2>. QED BY <1>3, <1>4, <2>2
<1>. HIDE DEF b, f
<1>11. Sound(m, b, W) BY <1>10, SoundGrows
<1>12. /\ msg \in LooseMessage
       /\ \A j \in q \ {m} : msg \in Allowed(m, j, b.s.epoch, W)
  <2>1. msg = [op |-> "VICTORY", epoch |-> f, quorum |-> q] BY <1>10 DEF Msg
  <2>2. \A j \in q \ {m} : m < j
    <3>1. \A j \in q : m <= j /\ j \in Int BY <1>1, NAssumption DEF Candidate, Mon
    <3>. QED BY <1>5, <3>1
  <2>3. Victory_(m, msg) = [epoch |-> f, leader |-> m, quorum |-> q] BY <2>1 DEF Victory_
  <2>4. msg \in LooseMessage /\ msg.op = "VICTORY" /\ msg.epoch = f /\ msg.quorum = q
    BY <1>1, <1>9, <2>1 DEF LooseMessage
  <2>. HIDE DEF msg
  <2>5. ASSUME NEW j \in q \ {m} PROVE msg \in Allowed(m, j, b.s.epoch, W)
    BY <1>9, <1>10, <2>2, <2>3, <2>4 DEF Allowed
  <2>. QED BY <2>4, <2>5
<1>. HIDE DEF msg
<1>13. Sound(m, g, W) /\ g.s = b.s /\ (g.ok <=> b.ok)
  <2>1. q \ {m} \in SUBSET Mon BY <1>1
  <2>. HIDE DEF W, q
  <2>. QED BY <1>11, <1>12, <2>1, SendOK
<1>. HIDE DEF g
<1>14. g \in LooseContext /\ g.s \in LooseState BY <1>13 DEF Sound, Base
<1>15. /\ u \in LooseState /\ u.state = "leader" /\ u.leader = m /\ u.quorum = q
       /\ u.epoch = f /\ u.participating /\ ~u.electing_me /\ u.acked_me = {}
       /\ u.leader_acked = -1 /\ (u.probe_timeout <=> g.s.probe_timeout)
  <2>. HIDE DEF q
  <2>. QED BY <1>1, <1>10, <1>13, <1>14 DEF LooseState
<1>. HIDE DEF u
<1>16. d \in LooseContext /\ d.s = u /\ d.out = g.out /\ d.ok
  <2>1. d = [g EXCEPT !.s = u] BY <1>8 DEF WinElection, u
  <2>. QED BY <1>10, <1>13, <1>14, <1>15, <2>1 DEF LooseContext
<1>17. ~g.s.probe_timeout BY <1>10, <1>13 DEF Sound, Base
<1>18. Base(m, u)
  <2>1. Candidate(m, u) BY <1>15 DEF Candidate
  <2>. QED BY <1>5, <1>9, <1>15, <1>17, <2>1 DEF Base, Serving
<1>19. Sound(m, d, W)
  <2>1. g.s.epoch <= d.s.epoch BY <1>9, <1>10, <1>13, <1>15, <1>16
  <2>. HIDE DEF W
  <2>. QED BY <1>13, <1>16, <1>18, <2>1, StateOK
<1>20. W = won \union {Declared(m, d)} BY <1>15, <1>16 DEF Declared
<1>21. Wins(m, c.s, d)
  <2>1. \A r \in q : m <= r /\ (r # m => mon[r].epoch >= c.s.epoch)
    BY <1>1 DEF Candidate
  <2>2. Requires(m) => \A r \in q : r \notin LackCon \union LackMon
    BY <1>1 DEF Candidate
  <2>. HIDE DEF W
  <2>. QED BY <1>1, <1>15, <1>16, <2>1, <2>2 DEF Wins, f
<1>22. Armed(d.s) BY <1>15, <1>16 DEF Armed, Waits
<1>. HIDE DEF W
<1>. QED BY <1>16, <1>19, <1>20, <1>21, <1>22 DEF Outcome

-----------------------------------------------------------------------------
(* The handlers *)

(* A handler that leaves the state alone. *)
LEMMA SameOutcome ==
  ASSUME NEW m \in Mon, NEW s, NEW d, Sound(m, d, won), Armed(s), d.s = s,
         s.state # "aborted", OldPeersRankLast => d.ok
  PROVE  Outcome(m, s, d)
<1>1. s.epoch \in Nat BY DEF Sound, Base, LooseState
<1>. QED BY <1>1 DEF Outcome, Leaves, Stays

(* A proposal: nak'ed, deferred to, answered by an election of m's own, or
   ignored. *)
LEMMA HandleProposeOK ==
  ASSUME NEW m \in Mon, NEW c, Sound(m, c, won), c.ok, Engaged(c.s), Armed(c.s),
         NEW from \in Mon, NEW e, NEW msg \in Allowed(from, m, e, won),
         msg.op = "PROPOSE", msg.epoch <= MaxEpoch,
         NEW d, d = HandlePropose(c, m, from, msg)
  PROVE  Outcome(m, c.s, d)
<1>0. c.s.state # "aborted" BY DEF Engaged, Serving
<1>1. /\ msg \in LooseMessage /\ msg.epoch \in Nat \ {0} /\ msg.epoch % 2 = 1 /\ from # m
      /\ ~(msg.epoch % 2 = 0)
  BY DEF Allowed, LooseMessage
<1>2. c.s \in LooseState /\ c.s.epoch \in Nat BY DEF Sound, Base, LooseState
<1>3. Waits(c.s) => c.s.expire_event BY DEF Engaged, Armed
<1>. DEFINE nak == Msg("NAK", msg.epoch, {})
            n == Send(c, {from}, nak)
<1>4. Sound(m, n, won) /\ n.s = c.s /\ (n.ok <=> c.ok)
  <2>1. nak = [op |-> "NAK", epoch |-> msg.epoch, quorum |-> {}] BY DEF Msg
  <2>2. nak \in LooseMessage /\ \A j \in {from} : nak \in Allowed(m, j, c.s.epoch, won)
    BY <1>1, <2>1 DEF Allowed, LooseMessage
  <2>. HIDE DEF nak
  <2>. QED BY <2>2, SendOK
<1>5. NakOldPeer(c, from, msg) = n BY DEF NakOldPeer
<1>. HIDE DEF n
<1>6. CASE MissingCon(m, from)
  <2>1. d = n BY <1>1, <1>5, <1>6, Zenon DEF HandlePropose
  <2>. QED BY <1>4, <2>1, <1>0, SameOutcome
<1>7. CASE ~MissingCon(m, from) /\ MissingMon(m, from)
  <2>1. d = CompareRanks(n, m, from) BY <1>1, <1>5, <1>7, Zenon DEF HandlePropose
  <2>2. from < m => ~OldPeersRankLast
    BY <1>7, NAssumption DEF OldPeersRankLast, Mon
  <2>3. /\ Sound(m, d, won) /\ (d.ok <=> c.ok) /\ Armed(d.s) /\ c.s.epoch <= d.s.epoch
        /\ d.s.state = "electing" \/ (d.s.state = c.s.state /\ d.s.epoch = c.s.epoch)
    BY <1>1, <1>3, <1>4, <2>1, <2>2, CompareRanksOK
  <2>. QED BY <2>3 DEF Outcome, Leaves, Stays, Engaged, Serving
<1>8. CASE /\ ~MissingCon(m, from) /\ ~MissingMon(m, from) /\ msg.epoch > c.s.epoch
  <2>. DEFINE b == BumpEpoch(c, msg.epoch)
  <2>1. d = CompareRanks(b, m, from) BY <1>1, <1>8, Zenon DEF HandlePropose
  <2>2. c.s.epoch <= msg.epoch BY <1>1, <1>2, <1>8
  <2>3. /\ Sound(m, b, won) /\ (b.ok <=> c.ok)
        /\ b.s.state = "electing" /\ b.s.epoch = msg.epoch
        /\ (b.s.participating <=> c.s.participating) /\ ~b.s.electing_me
        /\ b.s.leader_acked = c.s.leader_acked /\ (b.s.expire_event <=> c.s.expire_event)
    <3>. HIDE DEF b
    <3>. QED BY <1>1, <2>2, BumpEpochOK DEF b
  <2>. HIDE DEF b
  <2>4. Engaged(b.s) /\ (Waits(b.s) => b.s.expire_event)
    BY <1>3, <2>3 DEF Engaged, Waits
  <2>5. /\ Sound(m, d, won) /\ (d.ok <=> b.ok) /\ Armed(d.s) /\ b.s.epoch <= d.s.epoch
        /\ d.s.state = "electing" \/ (d.s.state = b.s.state /\ d.s.epoch = b.s.epoch)
    BY <1>1, <2>1, <2>3, <2>4, CompareRanksOK
  <2>6. c.s.epoch <= d.s.epoch /\ d.s.state = "electing"
    BY <1>1, <1>2, <2>2, <2>3, <2>5 DEF Sound, Base, LooseState
  <2>. QED BY <2>3, <2>5, <2>6 DEF Outcome, Leaves, Serving
<1>9. CASE /\ ~MissingCon(m, from) /\ ~MissingMon(m, from) /\ msg.epoch = c.s.epoch
  <2>0. ~(msg.epoch > c.s.epoch) BY <1>1, <1>2, <1>9
  <2>1. d = CompareRanks(c, m, from) BY <1>1, <1>9, <2>0, Zenon DEF HandlePropose
  <2>2. /\ Sound(m, d, won) /\ (d.ok <=> c.ok) /\ Armed(d.s) /\ c.s.epoch <= d.s.epoch
        /\ d.s.state = "electing" \/ (d.s.state = c.s.state /\ d.s.epoch = c.s.epoch)
    BY <1>1, <1>3, <1>9, <2>1, CompareRanksOK
  <2>. QED BY <2>2 DEF Outcome, Leaves, Stays, Engaged, Serving
<1>10. CASE /\ ~MissingCon(m, from) /\ ~MissingMon(m, from) /\ msg.epoch < c.s.epoch
            /\ c.s.epoch % 2 = 0 /\ from \notin c.s.quorum
  <2>. DEFINE b == StartElection(c, m)
  <2>0. ~(msg.epoch > c.s.epoch) /\ msg.epoch # c.s.epoch BY <1>1, <1>2, <1>10
  <2>1. d = CompareRanks(b, m, from) BY <1>1, <1>10, <2>0, Zenon DEF HandlePropose
  <2>2. /\ Sound(m, b, won) /\ (b.ok <=> c.ok) /\ b.s.state = "electing"
        /\ c.s.epoch <= b.s.epoch /\ b.s.epoch \in Nat
        /\ (b.s.participating <=> c.s.participating)
        /\ b.s.expire_event /\ b.s.epoch % 2 = 1
    <3>. HIDE DEF b
    <3>. QED BY StartElectionOK DEF b, Engaged
  <2>. HIDE DEF b
  <2>3. Engaged(b.s) BY <2>2 DEF Engaged
  <2>4. /\ Sound(m, d, won) /\ (d.ok <=> b.ok) /\ Armed(d.s) /\ b.s.epoch <= d.s.epoch
        /\ d.s.state = "electing" \/ (d.s.state = b.s.state /\ d.s.epoch = b.s.epoch)
    BY <1>1, <2>1, <2>2, <2>3, CompareRanksOK
  <2>5. c.s.epoch <= d.s.epoch /\ d.s.state = "electing"
    BY <1>2, <2>2, <2>4 DEF Sound, Base, LooseState
  <2>. QED BY <2>2, <2>4, <2>5 DEF Outcome, Leaves, Serving
<1>11. CASE /\ ~MissingCon(m, from) /\ ~MissingMon(m, from) /\ msg.epoch < c.s.epoch
            /\ ~(c.s.epoch % 2 = 0 /\ from \notin c.s.quorum)
  <2>0. ~(msg.epoch > c.s.epoch) /\ msg.epoch # c.s.epoch BY <1>1, <1>2, <1>11
  <2>1. d = c BY <1>1, <1>11, <2>0, Zenon DEF HandlePropose
  <2>. QED BY <2>1, <1>0, SameOutcome
<1>. QED BY <1>1, <1>2, <1>6, <1>7, <1>8, <1>9, <1>10, <1>11

(* Restarting a participant after its epoch was bumped. *)
LEMMA BumpAndStartOK ==
  ASSUME NEW m \in Mon, NEW c, Sound(m, c, won), c.ok, c.s.participating,
         NEW e \in Nat, c.s.epoch <= e,
         NEW d, d = Start(BumpEpoch(c, e), m)
  PROVE  Outcome(m, c.s, d)
<1>. DEFINE b == BumpEpoch(c, e)
<1>1. /\ Sound(m, b, won) /\ (b.ok <=> c.ok)
      /\ b.s.state = "electing" /\ b.s.epoch = e
      /\ (b.s.participating <=> c.s.participating)
  <2>. HIDE DEF b
  <2>. QED BY BumpEpochOK DEF b
<1>. HIDE DEF b
<1>2. d = Start(b, m) BY DEF b
<1>3. /\ Sound(m, d, won) /\ (d.ok <=> b.ok)
      /\ d.s.state = (IF b.s.epoch % 2 = 0 THEN "electing" ELSE b.s.state)
      /\ d.s.epoch = (IF b.s.epoch % 2 = 0 THEN b.s.epoch + 1 ELSE b.s.epoch)
      /\ d.s.electing_me /\ d.s.expire_event
  BY <1>1, <1>2, StartOK
<1>4. d.s.state = "electing" /\ c.s.epoch <= d.s.epoch
  BY <1>1, <1>3 DEF Sound, Base, LooseState
<1>. QED BY <1>1, <1>3, <1>4 DEF Outcome, Leaves, Serving, Armed, Waits

(* Of the state a handler began in only the epoch and the role matter. *)
LEMMA OutcomeSame ==
  ASSUME NEW m \in Mon, NEW s, NEW t, NEW d, s.epoch = t.epoch, s.state = t.state,
         Outcome(m, s, d)
  PROVE  Outcome(m, t, d)
BY DEF Outcome, Leaves, Stays, Wins, Joins, Serving

(* An acknowledgement: one more behind m, and a victory when all are. *)
LEMMA HandleAckOK ==
  ASSUME NEW m \in Mon, NEW c, Sound(m, c, won), c.ok, Engaged(c.s), Armed(c.s),
         NEW from \in Mon, mon[from].epoch \in Nat,
         NEW msg \in Allowed(from, m, mon[from].epoch, won),
         msg.op = "ACK", ~(msg.epoch < c.s.epoch),
         NEW d, d = HandleAck(c, m, from, msg)
  PROVE  Outcome(m, c.s, d)
<1>0. c.s.state # "aborted" BY DEF Engaged, Serving
<1>1. /\ msg \in LooseMessage /\ msg.epoch \in Nat \ {0} /\ from # m /\ m < from
      /\ (OldPeersRankLast => msg.epoch % 2 = 1) /\ msg.epoch <= mon[from].epoch
  BY DEF Allowed, LooseMessage
<1>2. /\ c \in LooseContext /\ c.s \in LooseState /\ c.s.epoch \in Nat
      /\ c.s.electing_me \in BOOLEAN /\ Candidate(m, c.s)
  BY DEF Sound, Base, LooseState
<1>3. CASE msg.epoch % 2 = 0
  <2>1. d = Check(c, FALSE) BY <1>3, Zenon DEF HandleAck
  <2>2. PICK p \in BOOLEAN : p = FALSE OBVIOUS
  <2>3. d = Check(c, p) BY <2>1, <2>2, Zenon
  <2>5. Sound(m, d, won) /\ d.s = c.s BY <2>3, CheckOK
  <2>4. ~OldPeersRankLast BY <1>1, <1>3
  <2>. QED BY <2>4, <2>5, <1>0, SameOutcome
<1>. SUFFICES ASSUME ~(msg.epoch % 2 = 0) PROVE Outcome(m, c.s, d)
  BY <1>3
<1>4. CASE msg.epoch > c.s.epoch
  <2>1. d = Start(BumpEpoch(c, msg.epoch), m) BY <1>4, Zenon DEF HandleAck
  <2>2. c.s.epoch <= msg.epoch /\ msg.epoch \in Nat BY <1>1, <1>2, <1>4
  <2>. QED BY <2>1, <2>2, BumpAndStartOK DEF Engaged
<1>5. CASE ~(msg.epoch > c.s.epoch) /\ (MissingCon(m, from) \/ MissingMon(m, from))
  <2>1. d = c BY <1>5, Zenon DEF HandleAck
  <2>. QED BY <2>1, <1>0, SameOutcome
<1>. SUFFICES ASSUME ~(msg.epoch > c.s.epoch),
                     ~(MissingCon(m, from) \/ MissingMon(m, from))
              PROVE  Outcome(m, c.s, d)
  BY <1>4, <1>5
<1>6. msg.epoch = c.s.epoch /\ c.s.epoch % 2 # 0 BY <1>1, <1>2
<1>7. c.s.state = "electing" /\ Waits(c.s)
  BY <1>6 DEF Engaged, Armed, Sound, Base
<1>8. CASE ~c.s.electing_me
  <2>1. d = Check(c, c.s.leader_acked >= 0) BY <1>8, Zenon DEF HandleAck
  <2>2. c.s.leader_acked >= 0 BY <1>7, <1>8 DEF Waits
  <2>3. d = c BY <1>2, <2>1, <2>2, CheckHolds
  <2>. QED BY <2>3, <1>0, SameOutcome
<1>9. CASE c.s.electing_me
  <2>. DEFINE b == [c EXCEPT !.s.acked_me = @ \union {from}]
              t == b.s
  <2>1. d = IF Cardinality(b.s.acked_me) = N THEN Victory(b, m) ELSE b
    BY <1>9, Zenon DEF HandleAck
  <2>2. /\ b \in LooseContext /\ b.out = c.out /\ b.ok /\ t \in LooseState
        /\ t.acked_me = c.s.acked_me \union {from} /\ t.electing_me
        /\ t.state = "electing" /\ t.epoch = c.s.epoch /\ t.participating
        /\ t.leader_acked = c.s.leader_acked /\ t.expire_event
        /\ (t.probe_timeout <=> c.s.probe_timeout)
    BY <1>2, <1>7, <1>9 DEF LooseContext, LooseState, Engaged, Armed
  <2>. HIDE DEF b
  <2>3. Candidate(m, t)
    <3>1. m \in Int /\ from \in Int BY NAssumption DEF Mon
    <3>2. mon[from].epoch >= c.s.epoch BY <1>1, <1>2, <1>6
    <3>3. Requires(m) => from \notin LackCon \union LackMon BY DEF MissingCon, MissingMon
    <3>4. m <= from BY <1>1, <3>1
    <3>. QED BY <1>2, <1>9, <2>2, <3>2, <3>3, <3>4 DEF Candidate
  <2>4. Base(m, t) BY <1>7, <2>2, <2>3 DEF Sound, Base, Serving
  <2>5. Sound(m, b, won)
    <3>1. c.s.epoch <= b.s.epoch BY <1>2, <2>2
    <3>. QED BY <2>2, <2>4, <3>1, StateOK
  <2>6. CASE Cardinality(b.s.acked_me) = N
    <3>1. 2 * Cardinality(b.s.acked_me) > N BY <2>6, NAssumption
    <3>2. d = Victory(b, m) BY <2>1, <2>6
    <3>3. Outcome(m, b.s, d) BY <2>2, <2>5, <3>1, <3>2, VictoryOK
    <3>. QED BY <1>7, <2>2, <3>3, OutcomeSame
  <2>7. CASE Cardinality(b.s.acked_me) # N
    <3>1. d = b BY <2>1, <2>7
    <3>2. c.s.epoch <= d.s.epoch BY <1>2, <2>2, <3>1
    <3>. QED BY <2>2, <2>5, <3>1, <3>2 DEF Outcome, Leaves, Serving, Armed, Waits
  <2>. QED BY <2>6, <2>7
<1>. QED BY <1>2, <1>8, <1>9

(* A victory of the next epoch is followed; any other calls an election. *)
LEMMA HandleVictoryOK ==
  ASSUME NEW m \in Mon, NEW c, Sound(m, c, won), c.ok, Engaged(c.s), Armed(c.s),
         NEW from \in Mon, NEW e, NEW msg \in Allowed(from, m, e, won),
         msg.op = "VICTORY", ~(msg.epoch < c.s.epoch),
         NEW d, d = HandleVictory(c, m, from, msg)
  PROVE  Outcome(m, c.s, d)
<1>. DEFINE a == [c EXCEPT !.s.leader_acked = -1]
            b == BumpEpoch(a, msg.epoch)
<1>1. /\ msg \in LooseMessage /\ msg.epoch \in Nat \ {0} /\ msg.quorum \in SUBSET Mon
      /\ msg.epoch % 2 = 0 /\ from < m /\ m \in msg.quorum
      /\ [epoch |-> msg.epoch, leader |-> from, quorum |-> msg.quorum] \in won
  BY DEF Allowed, LooseMessage, Victory_
<1>2. /\ c \in LooseContext /\ c.s \in LooseState /\ c.s.epoch \in Nat /\ Candidate(m, c.s)
      /\ c.s.epoch <= msg.epoch
  BY <1>1 DEF Sound, Base, LooseState
<1>3. /\ a \in LooseContext /\ a.out = c.out /\ a.ok /\ a.s \in LooseState
      /\ a.s.acked_me = c.s.acked_me /\ (a.s.electing_me <=> c.s.electing_me)
      /\ a.s.state = c.s.state /\ a.s.epoch = c.s.epoch
      /\ (a.s.participating <=> c.s.participating)
      /\ a.s.leader_acked = -1
      /\ (a.s.probe_timeout <=> c.s.probe_timeout)
  BY <1>2 DEF LooseContext, LooseState
<1>4. Check(a, from < m /\ msg.epoch % 2 = 0) = a BY <1>1, <1>3, CheckHolds
<1>5. d = IF msg.epoch # c.s.epoch + 1 THEN Start(b, m)
          ELSE [LoseElection(b, msg.quorum, from) EXCEPT !.s.expire_event = FALSE]
  BY <1>4, Zenon DEF HandleVictory
<1>. HIDE DEF a
<1>6. Sound(m, a, won)
  <2>1. Candidate(m, a.s) BY <1>2, <1>3 DEF Candidate
  <2>2. -1 < m BY NAssumption DEF Mon
  <2>3. Base(m, a.s) BY <1>3, <2>1, <2>2 DEF Sound, Base, Serving
  <2>4. c.s.epoch <= a.s.epoch BY <1>2, <1>3
  <2>. QED BY <1>3, <2>3, <2>4, StateOK
<1>7. CASE msg.epoch # c.s.epoch + 1
  <2>1. d = Start(BumpEpoch(a, msg.epoch), m) BY <1>5, <1>7
  <2>2. a.s.epoch <= msg.epoch /\ msg.epoch \in Nat /\ a.s.participating
    BY <1>1, <1>2, <1>3 DEF Engaged
  <2>3. Outcome(m, a.s, d) BY <1>3, <1>6, <2>1, <2>2, BumpAndStartOK
  <2>. QED BY <1>3, <2>3, OutcomeSame
<1>8. CASE msg.epoch = c.s.epoch + 1
  <2>1. /\ Sound(m, b, won) /\ (b.ok <=> a.ok) /\ b.s.epoch = msg.epoch
        /\ (b.s.participating <=> a.s.participating)
        /\ ~b.s.electing_me /\ b.s.acked_me = {} /\ b.s.leader_acked = a.s.leader_acked
        /\ b.s.state = "electing"
    <3>. HIDE DEF b
    <3>1. a.s.epoch <= msg.epoch /\ msg.epoch \in Nat BY <1>1, <1>2, <1>3
    <3>. QED BY <1>6, <3>1, BumpEpochOK DEF b
  <2>. HIDE DEF b
  <2>2. b \in LooseContext /\ b.s \in LooseState /\ ~b.s.probe_timeout
    BY <2>1 DEF Sound, Base
  <2>. DEFINE u == [b.s EXCEPT !.state = "peon", !.leader = from, !.quorum = msg.quorum,
                               !.outside_quorum = {}]
              g == [b EXCEPT !.s = u]
  <2>3. d = [g EXCEPT !.s.expire_event = FALSE] BY <1>5, <1>8, Zenon DEF LoseElection
  <2>4. /\ u \in LooseState /\ u.state = "peon" /\ u.leader = from /\ u.quorum = msg.quorum
        /\ u.epoch = msg.epoch /\ u.participating /\ ~u.electing_me /\ u.acked_me = {}
        /\ u.leader_acked = -1 /\ ~u.probe_timeout
    BY <1>1, <1>3, <2>1, <2>2 DEF LooseState, Engaged
  <2>. HIDE DEF u
  <2>5. g \in LooseContext /\ g.s = u /\ g.out = b.out /\ g.ok
    BY <1>3, <2>1, <2>2, <2>4 DEF LooseContext
  <2>. HIDE DEF g
  <2>6. /\ d \in LooseContext /\ d.out = b.out /\ d.ok
        /\ d.s \in LooseState /\ d.s.state = "peon" /\ d.s.leader = from
        /\ d.s.quorum = msg.quorum
        /\ d.s.epoch = msg.epoch /\ d.s.participating /\ ~d.s.electing_me
        /\ d.s.acked_me = {} /\ d.s.leader_acked = -1 /\ ~d.s.probe_timeout
    <3>. DEFINE w == [u EXCEPT !.expire_event = FALSE]
    <3>1. /\ w \in LooseState /\ w.state = "peon" /\ w.leader = from
          /\ w.quorum = msg.quorum
          /\ w.epoch = msg.epoch /\ w.participating /\ ~w.electing_me
          /\ w.acked_me = {} /\ w.leader_acked = -1 /\ ~w.probe_timeout
      BY <2>4 DEF LooseState
    <3>. HIDE DEF w
    <3>2. d = [g EXCEPT !.s = w] BY <2>3, <2>5 DEF w
    <3>. QED BY <2>5, <3>1, <3>2 DEF LooseContext
  <2>7. Base(m, d.s)
    <3>1. Candidate(m, d.s) BY <2>6 DEF Candidate
    <3>2. -1 < m BY NAssumption DEF Mon
    <3>. QED BY <1>1, <2>6, <3>1, <3>2 DEF Base, Serving
  <2>8. Sound(m, d, won)
    <3>1. b.s.epoch <= d.s.epoch BY <1>1, <2>1, <2>6
    <3>. QED BY <2>1, <2>6, <2>7, <3>1, StateOK
  <2>9. Joins(m, c.s, d) BY <1>1, <1>8, <2>6 DEF Joins
  <2>10. Armed(d.s) BY <2>6 DEF Armed, Waits
  <2>. QED BY <2>6, <2>8, <2>9, <2>10 DEF Outcome
<1>. QED BY <1>7, <1>8

(* A process that has just started, and one that is down. *)
LEMMA BootedOK ==
  ASSUME NEW m \in Mon, NEW e \in Nat \ {0}
  PROVE  /\ Base(m, Booted(e)) /\ Booted(e).epoch = e
         /\ Base(m, Down(e)) /\ Down(e).epoch = e /\ Down(e).state = "down"
<1>1. -1 < m BY NAssumption DEF Mon
<1>. DEFINE t == Booted(e)
            u == Down(e)
<1>2. /\ t \in LooseState /\ t.state = "probing" /\ t.epoch = e /\ t.participating
      /\ ~t.electing_me /\ t.acked_me = {} /\ t.leader_acked = -1
  BY DEF Booted, LooseState
<1>3. u = [t EXCEPT !.state = "down"] BY DEF Down
<1>4. ~t.probe_timeout BY DEF Booted
<1>. HIDE DEF t, u
<1>5. /\ u \in LooseState /\ u.state = "down" /\ u.epoch = e /\ u.participating
      /\ ~u.electing_me /\ u.acked_me = {} /\ u.leader_acked = -1 /\ ~u.probe_timeout
  BY <1>2, <1>3, <1>4 DEF LooseState
<1>6. Candidate(m, t) /\ Candidate(m, u) BY <1>2, <1>5 DEF Candidate
<1>7. Base(m, t) /\ Base(m, u) BY <1>1, <1>2, <1>4, <1>5, <1>6 DEF Base, Serving
<1>. QED BY <1>2, <1>5, <1>7 DEF t, u

(* A handler starts in a sound context. *)
LEMMA ContextOK ==
  ASSUME NEW m \in Mon, NEW W, NEW s, Base(m, s), NEW c, c = Context(s)
  PROVE  Sound(m, c, W) /\ c.s = s /\ c.ok
<1>1. c.s = s /\ c.ok /\ c.out = [j \in Mon |-> <<>>] BY DEF Context
<1>2. s \in LooseState BY DEF Base
<1>3. \A S : <<>> \in Seq(S) BY EmptySeq
<1>4. c \in LooseContext BY <1>2, <1>3 DEF Context, LooseContext
<1>5. \A j \in Mon : c.out[j] \in Seq(Allowed(m, j, c.s.epoch, W)) BY <1>1, <1>3
<1>. QED BY <1>1, <1>4, <1>5 DEF Sound

(* exit(0) leaves the store alone. *)
LEMMA HandleNakOK ==
  ASSUME NEW m \in Mon, NEW c, Sound(m, c, won), c.ok, NEW d, d = HandleNak(c)
  PROVE  Outcome(m, c.s, d)
<1>1. c \in LooseContext /\ c.s.epoch \in Nat \ {0} BY DEF Sound, Base, LooseState
<1>. DEFINE t == Down(c.s.epoch)
<1>2. Base(m, t) /\ t.epoch = c.s.epoch /\ t.state = "down" BY <1>1, BootedOK
<1>3. d = [c EXCEPT !.s = t] BY DEF HandleNak
<1>. HIDE DEF t
<1>4. t \in LooseState BY <1>2 DEF Base
<1>5. d \in LooseContext /\ d.s = t /\ d.out = c.out /\ d.ok
  BY <1>1, <1>3, <1>4 DEF LooseContext
<1>6. c.s.epoch <= d.s.epoch BY <1>1, <1>2, <1>5
<1>7. Sound(m, d, won) BY <1>2, <1>5, <1>6, StateOK
<1>. QED BY <1>2, <1>5, <1>6, <1>7 DEF Outcome, Leaves, Serving, Armed

(* Elector::dispatch() of a message that its sender may have sent. *)
LEMMA DispatchOK ==
  ASSUME NEW m \in Mon, NEW c, Sound(m, c, won), c.ok, Armed(c.s),
         c.s.state \notin {"down", "aborted"},
         NEW from \in Mon, mon[from].epoch \in Nat,
         NEW msg \in Allowed(from, m, mon[from].epoch, won), msg.epoch <= MaxEpoch,
         NEW d, d = Dispatch(c, m, from, msg)
  PROVE  Outcome(m, c.s, d)
<1>1. /\ msg \in LooseMessage /\ msg.epoch \in Nat
      /\ msg.op \in {"PROPOSE", "ACK", "NAK", "VICTORY"}
  BY DEF Allowed, LooseMessage
<1>2. /\ c.s \in LooseState /\ c.s.epoch \in Nat
      /\ c.s.state \in {"probing", "electing", "leader", "peon"}
  BY DEF Sound, Base, LooseState
<1>3. CASE c.s.state = "probing" \/ ~c.s.participating
  <2>1. d = c BY <1>3, Zenon DEF Dispatch
  <2>. QED BY <2>1, SameOutcome
<1>. SUFFICES ASSUME ~(c.s.state = "probing" \/ ~c.s.participating)
              PROVE  Outcome(m, c.s, d)
  BY <1>3
<1>4. Engaged(c.s) BY <1>2 DEF Engaged, Serving
<1>5. CASE msg.op = "PROPOSE"
  <2>1. d = HandlePropose(c, m, from, msg) BY <1>5, Zenon DEF Dispatch
  <2>. QED BY <1>4, <1>5, <2>1, HandleProposeOK
<1>6. CASE msg.op # "PROPOSE" /\ msg.epoch < c.s.epoch
  <2>1. d = c BY <1>6, Zenon DEF Dispatch
  <2>. QED BY <2>1, SameOutcome
<1>7. CASE msg.op = "ACK" /\ ~(msg.epoch < c.s.epoch)
  <2>1. d = HandleAck(c, m, from, msg) BY <1>7 DEF Dispatch
  <2>. QED BY <1>4, <1>7, <2>1, HandleAckOK
<1>8. CASE msg.op = "VICTORY" /\ ~(msg.epoch < c.s.epoch)
  <2>1. d = HandleVictory(c, m, from, msg) BY <1>8 DEF Dispatch
  <2>. QED BY <1>4, <1>8, <2>1, HandleVictoryOK
<1>9. CASE msg.op = "NAK" /\ ~(msg.epoch < c.s.epoch)
  <2>1. d = HandleNak(c) BY <1>9 DEF Dispatch
  <2>. QED BY <2>1, HandleNakOK
<1>. QED BY <1>1, <1>5, <1>6, <1>7, <1>8, <1>9

(* Calling an election leaves a monitor electing, and a participant with its
   timer armed. *)
LEMMA StartElectionOutcome ==
  ASSUME NEW m \in Mon, NEW c, Sound(m, c, won), c.ok, NEW d, d = StartElection(c, m)
  PROVE  Outcome(m, c.s, d)
<1>1. /\ Sound(m, d, won) /\ (d.ok <=> c.ok) /\ d.s.state = "electing"
      /\ c.s.epoch <= d.s.epoch /\ (d.s.participating <=> c.s.participating)
      /\ c.s.participating => d.s.electing_me /\ d.s.expire_event
  BY StartElectionOK
<1>. QED BY <1>1 DEF Outcome, Leaves, Serving, Armed, Waits

(* Going back to probing leaves any quorum. *)
LEMMA BootstrapOutcome ==
  ASSUME NEW m \in Mon, NEW c, Sound(m, c, won), c.ok, NEW d, d = Bootstrap(c, m)
  PROVE  Outcome(m, c.s, d)
<1>1. /\ Sound(m, d, won) /\ (d.ok <=> c.ok) /\ d.s.state = "probing"
      /\ d.s.epoch = c.s.epoch
  BY BootstrapOK
<1>2. c.s.epoch \in Nat BY DEF Sound, Base, LooseState
<1>. QED BY <1>1, <1>2 DEF Outcome, Leaves, Serving, Armed

(* A probe answered: an election, or one more monitor known to be about. *)
LEMMA HandleProbeReplyOK ==
  ASSUME NEW m \in Mon, NEW c, Sound(m, c, won), c.ok, c.s.state = "probing",
         NEW from \in Mon, NEW quorum \in BOOLEAN,
         NEW d, d = HandleProbeReply(c, m, from, quorum)
  PROVE  Outcome(m, c.s, d)
<1>. DEFINE b == [c EXCEPT !.s.outside_quorum = @ \union {from}]
<1>1. c \in LooseContext /\ c.s \in LooseState /\ c.s.epoch \in Nat /\ Candidate(m, c.s)
  BY DEF Sound, Base, LooseState
<1>2. d \in {StartElection(c, m), StartElection(b, m), b}
  BY DEF HandleProbeReply
<1>3. /\ b \in LooseContext /\ b.out = c.out /\ b.ok /\ b.s \in LooseState
      /\ b.s.acked_me = c.s.acked_me /\ (b.s.electing_me <=> c.s.electing_me)
      /\ b.s.state = "probing" /\ b.s.epoch = c.s.epoch
      /\ (b.s.participating <=> c.s.participating)
      /\ b.s.leader_acked = c.s.leader_acked
      /\ (b.s.probe_timeout <=> c.s.probe_timeout)
  BY <1>1 DEF LooseContext, LooseState
<1>. HIDE DEF b
<1>4. Sound(m, b, won)
  <2>1. Candidate(m, b.s) BY <1>1, <1>3 DEF Candidate
  <2>2. Base(m, b.s) BY <1>3, <2>1 DEF Sound, Base, Serving
  <2>3. c.s.epoch <= b.s.epoch BY <1>1, <1>3
  <2>. QED BY <1>3, <2>2, <2>3, StateOK
<1>5. CASE d = StartElection(c, m) BY <1>5, StartElectionOutcome
<1>6. CASE d = StartElection(b, m)
  <2>1. Outcome(m, b.s, d) BY <1>3, <1>4, <1>6, StartElectionOutcome
  <2>. QED BY <1>3, <2>1, OutcomeSame
<1>7. CASE d = b
  <2>1. Armed(d.s) BY <1>3, <1>7 DEF Armed, Serving
  <2>2. c.s.epoch <= d.s.epoch BY <1>1, <1>3, <1>7
  <2>. QED BY <1>3, <1>4, <1>7, <2>1, <2>2 DEF Outcome, Leaves, Serving
<1>. QED BY <1>2, <1>5, <1>6, <1>7

(* The election timer: a majority, a new round, or back to probing. *)
LEMMA ExpireHandlerOK ==
  ASSUME NEW m \in Mon, NEW c, Sound(m, c, won), c.ok, c.s.state # "aborted",
         NEW d, d = ExpireHandler(c, m)
  PROVE  Outcome(m, c.s, d)
<1>1. /\ c \in LooseContext /\ c.s \in LooseState /\ c.s.epoch \in Nat
      /\ c.s.acked_me \subseteq Mon
  BY DEF Sound, Base, LooseState
<1>2. CASE c.s.electing_me /\ Cardinality(c.s.acked_me) > N \div 2
  <2>1. d = Victory(c, m) BY <1>2 DEF ExpireHandler
  <2>2. Cardinality(c.s.acked_me) \in Nat
    BY <1>1, MonIsFinite, FS_Subset, FS_CardinalityType
  <2>3. 2 * Cardinality(c.s.acked_me) > N BY <1>2, <2>2, NAssumption
  <2>. QED BY <1>2, <2>1, <2>3, VictoryOK
<1>3. CASE /\ ~(c.s.electing_me /\ Cardinality(c.s.acked_me) > N \div 2)
           /\ m \in EverJoined
  <2>1. d = Start(c, m) BY <1>3, Zenon DEF ExpireHandler
  <2>2. CASE c.s.participating
    <3>1. /\ Sound(m, d, won) /\ (d.ok <=> c.ok)
          /\ d.s.state = (IF c.s.epoch % 2 = 0 THEN "electing" ELSE c.s.state)
          /\ d.s.epoch = (IF c.s.epoch % 2 = 0 THEN c.s.epoch + 1 ELSE c.s.epoch)
          /\ d.s.participating
          /\ d.s.electing_me /\ d.s.acked_me = {m}
          /\ d.s.leader_acked = -1 /\ d.s.expire_event
      BY <2>1, <2>2, StartOK
    <3>2. ~Serving(d.s) /\ d.s.state # "aborted" /\ c.s.epoch <= d.s.epoch
      BY <1>1, <3>1 DEF Sound, Base, Serving
    <3>. QED BY <3>1, <3>2 DEF Outcome, Leaves, Armed, Waits
  <2>3. CASE ~c.s.participating
    <3>1. d = c BY <2>1, <2>3, Zenon DEF Start
    <3>2. Armed(c.s) BY <2>3 DEF Armed
    <3>. QED BY <3>1, <3>2, SameOutcome
  <2>. QED BY <2>2, <2>3
<1>4. CASE /\ ~(c.s.electing_me /\ Cardinality(c.s.acked_me) > N \div 2)
           /\ m \notin EverJoined
  <2>1. d = Bootstrap(c, m) BY <1>4, Zenon DEF ExpireHandler
  <2>. QED BY <2>1, BootstrapOutcome
<1>. QED BY <1>2, <1>3, <1>4

(* The probe timer runs while probing only. *)
LEMMA ProbeTimeoutHandlerOK ==
  ASSUME NEW m \in Mon, NEW c, Sound(m, c, won), c.ok, c.s.state = "probing",
         NEW d, d = ProbeTimeoutHandler(c, m)
  PROVE  Outcome(m, c.s, d)
<1>. DEFINE b == [c EXCEPT !.s.probe_timeout = FALSE]
<1>1. c \in LooseContext /\ c.s \in LooseState /\ c.s.epoch \in Nat /\ Candidate(m, c.s)
  BY DEF Sound, Base, LooseState
<1>2. /\ b \in LooseContext /\ b.out = c.out /\ b.ok /\ b.s \in LooseState
      /\ b.s.acked_me = c.s.acked_me /\ (b.s.electing_me <=> c.s.electing_me)
      /\ b.s.state = "probing" /\ b.s.epoch = c.s.epoch
      /\ (b.s.participating <=> c.s.participating)
      /\ b.s.leader_acked = c.s.leader_acked /\ ~b.s.probe_timeout
  BY <1>1 DEF LooseContext, LooseState
<1>3. Check(b, c.s.state = "probing") = b BY <1>2, CheckHolds
<1>4. d = Bootstrap(b, m) BY <1>3, Zenon DEF ProbeTimeoutHandler
<1>. HIDE DEF b
<1>5. Sound(m, b, won)
  <2>1. Candidate(m, b.s) BY <1>1, <1>2 DEF Candidate
  <2>2. Base(m, b.s) BY <1>2, <2>1 DEF Sound, Base, Serving
  <2>3. c.s.epoch <= b.s.epoch BY <1>1, <1>2
  <2>. QED BY <1>2, <2>2, <2>3, StateOK
<1>6. Outcome(m, b.s, d) BY <1>2, <1>4, <1>5, BootstrapOutcome
<1>. QED BY <1>2, <1>6, OutcomeSame

(* "quorum exit": the monitor calls an election and takes no part in it. *)
LEMMA QuorumExitOK ==
  ASSUME NEW m \in Mon, NEW c, Sound(m, c, won), c.ok,
         NEW d, d = [StartElection(c, m) EXCEPT !.s.participating = FALSE]
  PROVE  Outcome(m, c.s, d)
<1>. DEFINE b == StartElection(c, m)
<1>1. /\ Sound(m, b, won) /\ (b.ok <=> c.ok)
      /\ b.s.state = "electing" /\ b.s.epoch \in Nat /\ c.s.epoch <= b.s.epoch
      /\ ~c.s.participating => b.s.acked_me = c.s.acked_me
      /\ c.s.participating => b.s.acked_me = {m}
  BY StartElectionOK
<1>. HIDE DEF b
<1>2. b.s.acked_me \subseteq {m} BY <1>1 DEF Sound, Base, Candidate
<1>3. b \in LooseContext /\ b.s \in LooseState /\ Candidate(m, b.s)
  BY <1>1 DEF Sound, Base
<1>4. d = [b EXCEPT !.s.participating = FALSE] BY DEF b
<1>. DEFINE t == [b.s EXCEPT !.participating = FALSE]
<1>5. /\ t \in LooseState /\ ~t.participating /\ t.acked_me = b.s.acked_me
      /\ (t.electing_me <=> b.s.electing_me) /\ t.state = "electing"
      /\ t.epoch = b.s.epoch /\ t.leader_acked = b.s.leader_acked
      /\ (t.probe_timeout <=> b.s.probe_timeout)
  BY <1>1, <1>3 DEF LooseState
<1>6. d = [b EXCEPT !.s = t] BY <1>3, <1>4 DEF LooseContext
<1>. HIDE DEF t
<1>7. d \in LooseContext /\ d.s = t /\ d.out = b.out /\ d.ok
  BY <1>1, <1>3, <1>5, <1>6 DEF LooseContext
<1>8. Sound(m, d, won)
  <2>1. Candidate(m, t) BY <1>2, <1>3, <1>5 DEF Candidate
  <2>2. Base(m, t) BY <1>1, <1>5, <2>1 DEF Sound, Base, Serving
  <2>3. d.s.epoch = b.s.epoch /\ b.s.epoch \in Nat BY <1>1, <1>5, <1>7
  <2>4. b.s.epoch <= d.s.epoch BY <2>3
  <2>. QED BY <1>1, <1>7, <2>2, <2>4, StateOK
<1>9. Armed(d.s) BY <1>5, <1>7 DEF Armed
<1>. QED BY <1>1, <1>5, <1>7, <1>8, <1>9 DEF Outcome, Leaves, Serving

-----------------------------------------------------------------------------
(* The inductive invariant.  Of the messages under way only what their sender
   could have sent in an epoch it has reached matters, so that neither crashes
   nor delays need to be followed. *)
IInv ==
  /\ TypeOK
  /\ \A m \in Mon : Base(m, mon[m]) /\ Armed(mon[m])
  /\ \A i, j \in Mon : net[i][j] \in Seq(Allowed(i, j, mon[i].epoch, won))
  /\ QuorumHasFeatures
  /\ NoAssertFails

(* What a monitor could have sent stays possible when epochs and victories
   grow. *)
LEMMA AllowedNext ==
  ASSUME NEW i \in Mon, NEW j \in Mon, setting' = setting, won \subseteq won',
         mon[i].epoch \in Nat, mon'[i].epoch \in Nat, mon[i].epoch <= mon'[i].epoch,
         NEW seq \in Seq(Allowed(i, j, mon[i].epoch, won))
  PROVE  seq \in Seq(Allowed(i, j, mon[i].epoch, won)')
<1>1. OldPeersRankLast' <=> OldPeersRankLast
  BY DEF OldPeersRankLast, MissingMon, Requires, LackCon, LackMon
<1>2. Allowed(i, j, mon[i].epoch, won) \subseteq Allowed(i, j, mon[i].epoch, won)'
  BY <1>1 DEF Allowed, LooseMessage, Victory_
<1>. QED BY <1>2, SeqMonotone

(* What a handler sends respects the bound on the epochs. *)
LEMMA AllowedIsMessage ==
  ASSUME NEW i, NEW j, NEW e \in Nat, e <= MaxEpoch, NEW W
  PROVE  Allowed(i, j, e, W) \subseteq Message
<1>1. MaxEpoch \in Nat BY BoundAssumption
<1>. SUFFICES ASSUME NEW msg \in Allowed(i, j, e, W) PROVE msg \in Message
  OBVIOUS
<1>2. /\ msg \in LooseMessage /\ msg.epoch \in Nat \ {0}
      /\ msg.epoch <= (IF msg.op = "NAK" THEN MaxEpoch ELSE e)
  BY DEF Allowed, LooseMessage
<1>3. msg.epoch \in 1 .. MaxEpoch BY <1>1, <1>2
<1>. QED BY <1>2, <1>3 DEF LooseMessage, Message

(* The state that Finish leaves of m. *)
LEMMA FinishState ==
  ASSUME IInv, NEW m \in Mon, NEW c, Outcome(m, mon[m], c), NEW queues, Finish(m, c, queues),
         setting' = setting
  PROVE  /\ mon' \in [Mon -> MonState]
         /\ \A q \in Mon : q # m => mon'[q] = mon[q]
         /\ mon'[m].epoch = c.s.epoch
         /\ mon'[m].state = (IF c.ok THEN c.s.state ELSE "aborted")
         /\ c.ok => mon'[m] = c.s
         /\ c.s.epoch \in 1 .. MaxEpoch /\ mon[m].epoch <= c.s.epoch
         /\ Base(m, mon[m])' /\ Armed(mon[m])'
         /\ NoAssertFails'
<1>. DEFINE t == IF c.ok THEN c.s ELSE [c.s EXCEPT !.state = "aborted"]
<1>1. PICK W : Sound(m, c, W) BY DEF Outcome
<1>2. /\ c \in LooseContext /\ c.ok \in BOOLEAN /\ c.s \in LooseState /\ Base(m, c.s)
      /\ c.s.epoch \in Nat \ {0}
  BY <1>1 DEF Sound, Base, LooseContext, LooseState
<1>3. mon \in [Mon -> MonState] /\ mon[m].epoch \in Nat
  BY BoundAssumption DEF IInv, TypeOK, MonState
<1>4. c.s.epoch \in 1 .. MaxEpoch BY <1>2, BoundAssumption DEF Finish
<1>5. mon[m].epoch <= c.s.epoch
  BY <1>2, <1>3 DEF Outcome, Leaves, Stays, Wins, Joins
<1>6. mon' = [mon EXCEPT ![m] = t] BY DEF Finish
<1>7. /\ t \in LooseState /\ t.epoch = c.s.epoch
      /\ t.state = (IF c.ok THEN c.s.state ELSE "aborted")
      /\ t.acked_me = c.s.acked_me /\ (t.electing_me <=> c.s.electing_me)
      /\ (t.participating <=> c.s.participating) /\ t.leader_acked = c.s.leader_acked
      /\ (t.probe_timeout <=> c.s.probe_timeout)
      /\ (t.expire_event <=> c.s.expire_event)
      /\ c.ok => t = c.s
  BY <1>2 DEF LooseState
<1>. HIDE DEF t
<1>8. t \in MonState BY <1>4, <1>7 DEF LooseState, MonState
<1>9. /\ mon' \in [Mon -> MonState] /\ mon'[m] = t
      /\ \A q \in Mon : q # m => mon'[q] = mon[q]
  BY <1>3, <1>6, <1>8
<1>10. Base(m, mon[m])'
  <2>1. Base(m, t)
    <3>1. Candidate(m, t) BY <1>2, <1>7 DEF Base, Candidate
    <3>. QED BY <1>2, <1>7, <3>1 DEF Base, Serving
  <2>2. Candidate(m, mon[m])'
    <3>1. Candidate(m, t) BY <2>1 DEF Base
    <3>2. (Requires(m)' <=> Requires(m)) /\ LackCon' = LackCon /\ LackMon' = LackMon
      BY DEF Requires, LackCon, LackMon
    <3>3. t.acked_me \subseteq Mon BY <1>7 DEF LooseState
    <3>. QED BY <1>9, <3>1, <3>2, <3>3 DEF Candidate
  <2>. QED BY <1>9, <2>1, <2>2 DEF Base, Serving
<1>11. Armed(mon[m])'
  <2>1. Armed(t) BY <1>7 DEF Outcome, Armed, Waits, Serving
  <2>. QED BY <1>9, <2>1 DEF Armed, Waits, Serving
<1>12. NoAssertFails'
  <2>1. OldPeersRankLast' <=> OldPeersRankLast
    BY DEF OldPeersRankLast, MissingMon, Requires, LackCon, LackMon
  <2>2. ASSUME OldPeersRankLast PROVE mon'[m].state # "aborted"
    <3>1. c.ok BY <2>2 DEF Outcome
    <3>2. c.s.state # "aborted"
      BY DEF Outcome, Leaves, Stays, Wins, Joins, Serving
    <3>. QED BY <1>7, <1>9, <3>1, <3>2
  <2>. QED BY <1>9, <2>1, <2>2 DEF NoAssertFails, IInv
<1>. QED BY <1>4, <1>5, <1>7, <1>9, <1>10, <1>11, <1>12

(* What Finish records: nothing, a victory of m, or that m follows one. *)
LEMMA FinishRecords ==
  ASSUME IInv, NEW m \in Mon, NEW c, Outcome(m, mon[m], c), NEW queues, Finish(m, c, queues)
  PROVE  \/ /\ Leaves(mon[m], c) \/ Stays(mon[m], c)
            /\ won' = won /\ joined' = joined
         \/ /\ Joins(m, mon[m], c) /\ won' = won
            /\ joined' = joined \union {[mon |-> m, epoch |-> c.s.epoch,
                                         leader |-> c.s.leader]}
         \/ /\ Wins(m, mon[m], c)
            /\ won' = won \union {Declared(m, c)}
            /\ joined' = joined \union {[mon |-> m, epoch |-> c.s.epoch, leader |-> m]}
<1>. DEFINE entered == Serving(c.s) /\ c.s.epoch # mon[m].epoch
<1>1. mon[m].epoch \in Nat BY BoundAssumption DEF IInv, TypeOK, MonState
<1>2. /\ won' = IF entered /\ c.s.state = "leader" THEN won \union {Declared(m, c)} ELSE won
      /\ joined' = IF entered
                   THEN joined \union {[mon |-> m, epoch |-> c.s.epoch, leader |-> c.s.leader]}
                   ELSE joined
  BY DEF Finish, Declared, Serving
<1>3. CASE Leaves(mon[m], c)
  <2>1. ~entered BY <1>3 DEF Leaves
  <2>. QED BY <1>2, <1>3, <2>1
<1>4. CASE Stays(mon[m], c)
  <2>1. ~entered BY <1>4 DEF Stays
  <2>. QED BY <1>2, <1>4, <2>1
<1>5. CASE Joins(m, mon[m], c)
  <2>1. entered /\ c.s.state # "leader" BY <1>1, <1>5 DEF Joins, Serving
  <2>. QED BY <1>2, <1>5, <2>1
<1>6. CASE Wins(m, mon[m], c)
  <2>1. entered /\ c.s.state = "leader" /\ c.s.leader = m BY <1>1, <1>6 DEF Wins, Serving
  <2>. QED BY <1>2, <1>6, <2>1
<1>. QED BY <1>3, <1>4, <1>5, <1>6 DEF Outcome

(* What is under way after Finish. *)
LEMMA FinishNet ==
  ASSUME IInv, NEW m \in Mon, NEW c, Outcome(m, mon[m], c),
         NEW queues \in [Mon -> [Mon -> Seq(Message)]],
         \A i, j \in Mon : queues[i][j] \in Seq(Allowed(i, j, mon[i].epoch, won)),
         Finish(m, c, queues), setting' = setting
  PROVE  /\ net' \in [Mon -> [Mon -> Seq(Message)]]
         /\ \A i, j \in Mon : net'[i][j] \in Seq(Allowed(i, j, mon[i].epoch, won)')
<1>1. /\ \A q \in Mon : q # m => mon'[q] = mon[q]
      /\ mon'[m].epoch = c.s.epoch /\ c.s.epoch \in 1 .. MaxEpoch
      /\ mon[m].epoch <= c.s.epoch
  BY FinishState
<1>2. \A q \in Mon : mon[q].epoch \in Nat BY BoundAssumption DEF IInv, TypeOK, MonState
<1>3. c.s.epoch \in Nat /\ c.s.epoch <= MaxEpoch BY <1>1, BoundAssumption
<1>4. \A q \in Mon : mon'[q].epoch \in Nat /\ mon[q].epoch <= mon'[q].epoch
  <2>. SUFFICES ASSUME NEW q \in Mon
                PROVE  mon'[q].epoch \in Nat /\ mon[q].epoch <= mon'[q].epoch
    OBVIOUS
  <2>1. CASE q = m BY <1>1, <1>3, <2>1
  <2>2. CASE q # m BY <1>1, <1>2, <2>2
  <2>. QED BY <2>1, <2>2
<1>5. won \subseteq won' BY FinishRecords
<1>6. \A i, j \in Mon : queues[i][j] \in Seq(Allowed(i, j, mon[i].epoch, won)')
  BY <1>2, <1>4, <1>5, AllowedNext
<1>7. PICK lost : net' = Post(queues, m, c.out, lost) BY DEF Finish
<1>8. /\ Sound(m, c, won')
  <2>1. CASE Sound(m, c, won) BY <1>5, <2>1, SoundGrows
  <2>2. CASE Wins(m, mon[m], c) /\ Sound(m, c, won \union {Declared(m, c)})
    <3>1. won' = won \union {Declared(m, c)}
      <4>1. /\ ~Leaves(mon[m], c) /\ ~Stays(mon[m], c) /\ ~Joins(m, mon[m], c)
        <5>1. c.s.state = "leader" /\ c.s.epoch = mon[m].epoch + 1 BY <2>2 DEF Wins
        <5>2. c.s.epoch # mon[m].epoch BY <1>2, <5>1
        <5>. QED BY <5>1, <5>2 DEF Leaves, Stays, Joins, Serving
      <4>. QED BY <4>1, FinishRecords
    <3>. QED BY <2>2, <3>1
  <2>. QED BY <2>1, <2>2 DEF Outcome
<1>9. ASSUME NEW j \in Mon
      PROVE  /\ c.out[j] \in Seq(Message)
             /\ c.out[j] \in Seq(Allowed(m, j, mon[m].epoch, won)')
  <2>1. c.out[j] \in Seq(Allowed(m, j, c.s.epoch, won')) BY <1>8 DEF Sound
  <2>2. Allowed(m, j, c.s.epoch, won') \subseteq Message BY <1>3, AllowedIsMessage
  <2>3. OldPeersRankLast' <=> OldPeersRankLast
    BY DEF OldPeersRankLast, MissingMon, Requires, LackCon, LackMon
  <2>4. Allowed(m, j, c.s.epoch, won') \subseteq Allowed(m, j, mon[m].epoch, won)'
    BY <1>1, <2>3 DEF Allowed, LooseMessage, Victory_
  <2>. QED BY <2>1, <2>2, <2>4, SeqMonotone
<1>. DEFINE row == [j \in Mon |-> IF j \in lost THEN queues[m][j]
                                                ELSE queues[m][j] \o c.out[j]]
<1>10. \A j \in Mon : row[j] = queues[m][j] \/ row[j] = queues[m][j] \o c.out[j] OBVIOUS
<1>11. \A j \in Mon : row[j] \in Seq(Message)
  <2>. SUFFICES ASSUME NEW j \in Mon PROVE row[j] \in Seq(Message)
    OBVIOUS
  <2>. HIDE DEF row
  <2>1. queues[m][j] \in Seq(Message) OBVIOUS
  <2>2. c.out[j] \in Seq(Message) BY <1>9
  <2>3. queues[m][j] \o c.out[j] \in Seq(Message) BY <2>1, <2>2, ConcatProperties
  <2>. QED BY <1>10, <2>1, <2>3
<1>12. \A j \in Mon : row[j] \in Seq(Allowed(m, j, mon[m].epoch, won)')
  <2>. HIDE DEF row
  <2>. QED BY <1>6, <1>9, <1>10, ConcatProperties
<1>13. net' = [queues EXCEPT ![m] = row] BY <1>7 DEF Post
<1>14. row \in [Mon -> Seq(Message)] BY <1>11
<1>. HIDE DEF row
<1>15. net' \in [Mon -> [Mon -> Seq(Message)]] BY <1>13, <1>14
<1>16. \A i \in Mon : net'[i] = IF i = m THEN row ELSE queues[i] BY <1>13
<1>17. ASSUME NEW i \in Mon, NEW j \in Mon
       PROVE  net'[i][j] \in Seq(Allowed(i, j, mon[i].epoch, won)')
  <2>1. CASE i = m BY <1>12, <1>16, <2>1
  <2>2. CASE i # m BY <1>6, <1>16, <2>2
  <2>. QED BY <2>1, <2>2
<1>. QED BY <1>15, <1>17

(* Every handler keeps the inductive invariant ... *)
LEMMA FinishIInv ==
  ASSUME IInv, NEW m \in Mon, NEW c, Outcome(m, mon[m], c),
         NEW queues \in [Mon -> [Mon -> Seq(Message)]],
         \A i, j \in Mon : queues[i][j] \in Seq(Allowed(i, j, mon[i].epoch, won)),
         Finish(m, c, queues), setting' = setting,
         spent' \in [{"expire", "boot", "command", "crash"} -> Nat]
  PROVE  IInv'
<1>1. /\ mon' \in [Mon -> MonState]
      /\ \A q \in Mon : q # m => mon'[q] = mon[q]
      /\ mon'[m].epoch = c.s.epoch
      /\ c.s.epoch \in 1 .. MaxEpoch /\ mon[m].epoch <= c.s.epoch
      /\ Base(m, mon[m])' /\ Armed(mon[m])'
      /\ NoAssertFails'
  BY FinishState
<1>2. /\ net' \in [Mon -> [Mon -> Seq(Message)]]
      /\ \A i, j \in Mon : net'[i][j] \in Seq(Allowed(i, j, mon[i].epoch, won)')
  BY FinishNet
<1>3. c.s \in LooseState
  <2>1. PICK W : Sound(m, c, W) BY DEF Outcome
  <2>. QED BY <2>1 DEF Sound, Base
<1>4. TypeOK'
  <2>1. won' \subseteq [epoch : 1 .. MaxEpoch, leader : Mon, quorum : SUBSET Mon]
    <3>1. Declared(m, c) \in [epoch : 1 .. MaxEpoch, leader : Mon, quorum : SUBSET Mon]
      BY <1>1, <1>3 DEF Declared, LooseState
    <3>2. won' = won \/ won' = won \union {Declared(m, c)} BY FinishRecords
    <3>. QED BY <3>1, <3>2 DEF IInv, TypeOK
  <2>2. joined' \subseteq [mon : Mon, epoch : 1 .. MaxEpoch, leader : {-1} \union Mon]
    <3>1. c.s.leader \in {-1} \union Mon BY <1>3 DEF LooseState
    <3>2. \/ joined' = joined
          \/ joined' = joined \union {[mon |-> m, epoch |-> c.s.epoch, leader |-> c.s.leader]}
          \/ joined' = joined \union {[mon |-> m, epoch |-> c.s.epoch, leader |-> m]}
      BY FinishRecords
    <3>. DEFINE J == [mon : Mon, epoch : 1 .. MaxEpoch, leader : {-1} \union Mon]
    <3>3. \A l \in {-1} \union Mon : [mon |-> m, epoch |-> c.s.epoch, leader |-> l] \in J
      BY <1>1
    <3>4. joined \subseteq J BY DEF IInv, TypeOK
    <3>5. m \in {-1} \union Mon OBVIOUS
    <3>. SUFFICES joined' \subseteq J OBVIOUS
    <3>. HIDE DEF J
    <3>. QED BY <3>1, <3>2, <3>3, <3>4, <3>5
  <2>. QED BY <1>1, <1>2, <2>1, <2>2 DEF TypeOK, IInv
<1>5. ASSUME NEW q \in Mon PROVE Base(q, mon[q])' /\ Armed(mon[q])'
  <2>1. CASE q = m BY <1>1, <2>1
  <2>2. CASE q # m
    <3>1. Base(q, mon[q]) /\ Armed(mon[q]) /\ mon'[q] = mon[q] BY <1>1, <2>2 DEF IInv
    <3>2. Candidate(q, mon[q])'
      <4>1. Candidate(q, mon[q]) /\ mon[q] \in LooseState BY <3>1 DEF Base
      <4>2. (Requires(q)' <=> Requires(q)) /\ LackCon' = LackCon /\ LackMon' = LackMon
        BY DEF Requires, LackCon, LackMon
      <4>3. ASSUME mon[q].electing_me, NEW r \in mon[q].acked_me, r # q
            PROVE  mon'[r].epoch >= mon[q].epoch
        <5>1. mon[r].epoch >= mon[q].epoch /\ r \in Mon
          BY <4>1, <4>3 DEF Candidate, LooseState
        <5>2. mon[r].epoch \in Nat /\ mon[q].epoch \in Nat /\ c.s.epoch \in Nat
          <6>1. mon \in [Mon -> MonState] BY DEF IInv, TypeOK
          <6>2. mon[r] \in MonState /\ mon[q] \in MonState BY <5>1, <6>1
          <6>3. mon[r].epoch \in 1 .. MaxEpoch /\ mon[q].epoch \in 1 .. MaxEpoch
            BY <6>2 DEF MonState
          <6>4. c.s.epoch \in 1 .. MaxEpoch BY <1>1
          <6>5. \A x \in 1 .. MaxEpoch : x \in Nat BY BoundAssumption
          <6>. QED BY <6>3, <6>4, <6>5
        <5>3. CASE r = m BY <1>1, <5>1, <5>2, <5>3
        <5>4. CASE r # m BY <1>1, <5>1, <5>4
        <5>. QED BY <5>3, <5>4
      <4>. QED BY <3>1, <4>1, <4>2, <4>3 DEF Candidate
    <3>. QED BY <3>1, <3>2 DEF Base, Armed, Waits, Serving
  <2>. QED BY <2>1, <2>2
<1>6. QuorumHasFeatures'
  <2>1. \A l \in Mon : Requires(l)' <=> Requires(l) BY DEF Requires, LackCon, LackMon
  <2>2. LackCon' = LackCon /\ LackMon' = LackMon BY DEF LackCon, LackMon
  <2>3. CASE won' = won
    BY <2>1, <2>2, <2>3 DEF IInv, QuorumHasFeatures, TypeOK
  <2>4. CASE Wins(m, mon[m], c) /\ won' = won \union {Declared(m, c)}
    <3>1. Requires(m) => c.s.quorum \cap (LackCon \union LackMon) = {}
      BY <2>4 DEF Wins
    <3>2. \A v \in won : v.leader \in Mon BY DEF IInv, TypeOK
    <3>3. \A v \in won' : v \in won \/ (v.leader = m /\ v.quorum = c.s.quorum)
      BY <2>4 DEF Declared
    <3>. QED BY <2>1, <2>2, <3>1, <3>2, <3>3 DEF IInv, QuorumHasFeatures
  <2>. QED BY <2>3, <2>4, FinishRecords
<1>. QED BY <1>1, <1>2, <1>4, <1>5, <1>6 DEF IInv

(* ... and is a step of the abstract quorum: the monitor leaves, wins, follows,
   or stays what it was. *)
LEMMA FinishRefines ==
  ASSUME IInv, NEW m \in Mon, NEW c, Outcome(m, mon[m], c), NEW queues, Finish(m, c, queues),
         setting' = setting
  PROVE  MQ!Next \/ UNCHANGED MQ!vars
<1>. DEFINE epoch_ == [q \in Mon |-> mon[q].epoch]
            Role(s) == IF s.state \in {"leader", "peon"} THEN s.state ELSE "out"
            role_ == [q \in Mon |-> Role(mon[q])]
<1>1. /\ mon' \in [Mon -> MonState]
      /\ \A q \in Mon : q # m => mon'[q] = mon[q]
      /\ mon'[m].epoch = c.s.epoch
      /\ mon'[m].state = (IF c.ok THEN c.s.state ELSE "aborted")
      /\ c.s.epoch \in 1 .. MaxEpoch /\ mon[m].epoch <= c.s.epoch
      /\ Base(m, mon[m])'
  BY FinishState
<1>2. epoch_' = [epoch_ EXCEPT ![m] = c.s.epoch] BY <1>1
<1>3. \A r : Role(mon'[m]) = r => role_' = [role_ EXCEPT ![m] = r] BY <1>1
<1>4. mon[m].epoch \in Nat /\ c.s.epoch \in Nat
  BY <1>1, BoundAssumption DEF IInv, TypeOK, MonState
<1>5. CASE ~Serving(mon'[m]) /\ won' = won /\ joined' = joined
  <2>1. role_' = [role_ EXCEPT ![m] = "out"] BY <1>3, <1>5 DEF Serving
  <2>2. c.s.epoch \in MQ!Epoch /\ c.s.epoch >= epoch_[m] BY <1>1, <1>4 DEF MQ!Epoch
  <2>3. MQ!Leave(m) BY <1>2, <1>5, <2>1, <2>2 DEF MQ!Leave
  <2>. QED BY <2>3 DEF MQ!Next
<1>6. CASE Stays(mon[m], c) /\ Serving(mon'[m]) /\ won' = won /\ joined' = joined
  <2>1. mon'[m].state = mon[m].state /\ mon'[m].epoch = mon[m].epoch
    BY <1>1, <1>6 DEF Stays, Serving
  <2>2. epoch_' = epoch_ /\ role_' = role_ BY <1>1, <2>1
  <2>. QED BY <1>6, <2>2 DEF MQ!vars
<1>7. CASE /\ Joins(m, mon[m], c) /\ won' = won
           /\ joined' = joined \union {[mon |-> m, epoch |-> c.s.epoch, leader |-> c.s.leader]}
  <2>. DEFINE v == [epoch |-> c.s.epoch, leader |-> c.s.leader, quorum |-> c.s.quorum]
  <2>1. /\ v \in won /\ v.epoch = c.s.epoch /\ v.leader = c.s.leader /\ m \in v.quorum
        /\ c.ok /\ c.s.state = "peon" /\ c.s.epoch = mon[m].epoch + 1
    BY <1>7 DEF Joins
  <2>. HIDE DEF v
  <2>2. role_' = [role_ EXCEPT ![m] = "peon"] BY <1>1, <1>3, <2>1
  <2>3. v.epoch > epoch_[m] BY <1>4, <2>1
  <2>4. MQ!LoseElection(m, v) BY <1>2, <1>7, <2>1, <2>2, <2>3 DEF MQ!LoseElection
  <2>. QED BY <2>1, <2>4 DEF MQ!Next
<1>8. CASE /\ Wins(m, mon[m], c) /\ won' = won \union {Declared(m, c)}
           /\ joined' = joined \union {[mon |-> m, epoch |-> c.s.epoch, leader |-> m]}
  <2>. DEFINE e == c.s.epoch
              Q == c.s.quorum
  <2>1. /\ c.ok /\ c.s.state = "leader" /\ e = mon[m].epoch + 1
        /\ m \in Q /\ 2 * Cardinality(Q) > N
        /\ \A q \in Q : m <= q /\ (q # m => mon[q].epoch >= mon[m].epoch)
    BY <1>8 DEF Wins
  <2>2. role_' = [role_ EXCEPT ![m] = "leader"] BY <1>1, <1>3, <2>1
  <2>3. e % 2 = 0 BY <1>1, <2>1 DEF Base, Serving
  <2>4. Q \in SUBSET Mon
    <3>1. PICK W : Sound(m, c, W) BY DEF Outcome
    <3>. QED BY <3>1 DEF Sound, Base, LooseState
  <2>5. MQ!Majority(Q)
    <3>1. Cardinality(Mon) = N BY MonIsFinite
    <3>2. 2 * Cardinality(Q) > Cardinality(Mon) BY <2>1, <3>1
    <3>3. MQ!Cardinality(Q) = Cardinality(Q) /\ MQ!Cardinality(Mon) = Cardinality(Mon)
      BY Zenon DEF MQ!Cardinality, Cardinality
    <3>. QED BY <3>2, <3>3 DEF MQ!Majority
  <2>6. \A q \in Q : m <= q /\ epoch_[q] + 1 >= e
    <3>. SUFFICES ASSUME NEW q \in Q PROVE m <= q /\ mon[q].epoch + 1 >= e BY <2>4
    <3>1. mon[q].epoch \in Nat BY <2>4, BoundAssumption DEF IInv, TypeOK, MonState
    <3>2. CASE q = m BY <1>4, <2>1, <3>2
    <3>3. CASE q # m BY <1>4, <2>1, <3>1, <3>3
    <3>. QED BY <3>2, <3>3
  <2>7. e \in MQ!Epoch /\ e > epoch_[m] BY <1>1, <1>4, <2>1 DEF MQ!Epoch
  <2>8. MQ!WinElection(m, e, Q)
    BY <1>2, <1>8, <2>1, <2>2, <2>3, <2>5, <2>6, <2>7 DEF MQ!WinElection, Declared
  <2>. QED BY <2>4, <2>7, <2>8 DEF MQ!Next
<1>9. Leaves(mon[m], c) => ~Serving(mon'[m]) BY <1>1 DEF Leaves, Serving
<1>. QED BY <1>5, <1>6, <1>7, <1>8, <1>9, FinishRecords

-----------------------------------------------------------------------------
(* The actions *)

(* The bounds that are used up are counted by natural numbers. *)
LEMMA SpendOK ==
  ASSUME TypeOK,
         \/ UNCHANGED spent
         \/ \E what \in {"expire", "boot", "command", "crash"} : \E max : Spend(what, max)
  PROVE  spent' \in [{"expire", "boot", "command", "crash"} -> Nat]
<1>1. spent \in [{"expire", "boot", "command", "crash"} -> Nat] BY DEF TypeOK
<1>2. CASE UNCHANGED spent BY <1>1, <1>2
<1>3. ASSUME NEW what \in {"expire", "boot", "command", "crash"}, NEW max, Spend(what, max)
      PROVE  spent' \in [{"expire", "boot", "command", "crash"} -> Nat]
  <2>1. spent' = [spent EXCEPT ![what] = spent[what] + 1] BY <1>3 DEF Spend
  <2>. QED BY <1>1, <2>1
<1>. QED BY <1>2, <1>3

(* What the invariant says of a monitor m and of the network. *)
LEMMA IInvFacts ==
  ASSUME IInv, NEW m \in Mon
  PROVE  /\ TypeOK /\ mon[m] \in LooseState /\ mon[m].epoch \in 1 .. MaxEpoch
         /\ mon[m].epoch \in Nat \ {0}
         /\ Base(m, mon[m]) /\ Armed(mon[m])
         /\ net \in [Mon -> [Mon -> Seq(Message)]]
         /\ \A i, j \in Mon : net[i][j] \in Seq(Allowed(i, j, mon[i].epoch, won))
<1>1. TypeOK /\ Base(m, mon[m]) /\ Armed(mon[m]) BY DEF IInv
<1>2. mon[m] \in MonState /\ net \in [Mon -> [Mon -> Seq(Message)]] BY <1>1 DEF TypeOK
<1>3. mon[m].epoch \in 1 .. MaxEpoch BY <1>2 DEF MonState
<1>4. mon[m].epoch \in Nat \ {0} BY <1>3, BoundAssumption
<1>. QED BY <1>1, <1>2, <1>3, <1>4 DEF IInv, Base

(* What an action has to keep, and to implement. *)
Kept == IInv' /\ (MQ!Next \/ UNCHANGED MQ!vars)

(* A handler that takes no message from the network. *)
LEMMA FinishOK ==
  ASSUME IInv, NEW m \in Mon, NEW c, Outcome(m, mon[m], c), Finish(m, c, net),
         setting' = setting,
         spent' \in [{"expire", "boot", "command", "crash"} -> Nat]
  PROVE  Kept
<1>1. /\ net \in [Mon -> [Mon -> Seq(Message)]]
      /\ \A i, j \in Mon : net[i][j] \in Seq(Allowed(i, j, mon[i].epoch, won))
  BY IInvFacts
<1>. QED BY <1>1, FinishIInv, FinishRefines DEF Kept

(* Deliver: what arrives is what its sender could have sent. *)
LEMMA DeliverOK ==
  ASSUME IInv, NEW m \in Mon, NEW i \in Mon, Deliver(i, m), setting' = setting
  PROVE  Kept
<1>. DEFINE msg == Head(net[i][m])
            c == Dispatch(Context(mon[m]), m, i, msg)
            queues == [net EXCEPT ![i][m] = Tail(@)]
<1>1. /\ net \in [Mon -> [Mon -> Seq(Message)]]
      /\ \A k, j \in Mon : net[k][j] \in Seq(Allowed(k, j, mon[k].epoch, won))
      /\ TypeOK /\ Base(m, mon[m]) /\ Armed(mon[m])
  BY IInvFacts
<1>2. mon[i].epoch \in Nat BY IInvFacts
<1>3. Up(m) /\ net[i][m] # <<>> /\ Finish(m, c, queues) /\ UNCHANGED spent BY DEF Deliver
<1>4. net[i][m] \in Seq(Message) /\ net[i][m] \in Seq(Allowed(i, m, mon[i].epoch, won))
  BY <1>1
<1>5. /\ msg \in Message /\ Tail(net[i][m]) \in Seq(Message)
      /\ msg \in Allowed(i, m, mon[i].epoch, won)
      /\ Tail(net[i][m]) \in Seq(Allowed(i, m, mon[i].epoch, won))
  BY <1>3, <1>4, HeadTailProperties
<1>6. msg.epoch <= MaxEpoch BY <1>5, BoundAssumption DEF Message
<1>7. Outcome(m, mon[m], c)
  <2>1. PICK b : b = Context(mon[m]) OBVIOUS
  <2>2. Sound(m, b, won) /\ b.s = mon[m] /\ b.ok BY <1>1, <2>1, ContextOK
  <2>3. b.s.state \notin {"down", "aborted"} BY <1>3, <2>2 DEF Up
  <2>. HIDE DEF msg
  <2>4. c = Dispatch(b, m, i, msg) BY <2>1
  <2>. HIDE DEF c
  <2>5. Outcome(m, b.s, c) BY <1>1, <1>2, <1>5, <1>6, <2>2, <2>3, <2>4, DispatchOK
  <2>. QED BY <2>2, <2>5
<1>8. queues \in [Mon -> [Mon -> Seq(Message)]] BY <1>1, <1>5
<1>9. ASSUME NEW k \in Mon, NEW j \in Mon
      PROVE  queues[k][j] \in Seq(Allowed(k, j, mon[k].epoch, won))
  <2>1. CASE k = i /\ j = m
    <3>1. queues[k][j] = Tail(net[i][m]) BY <1>1, <2>1
    <3>. QED BY <1>5, <2>1, <3>1
  <2>2. CASE ~(k = i /\ j = m)
    <3>1. queues[k][j] = net[k][j] BY <1>1, <2>2
    <3>. QED BY <1>1, <3>1
  <2>. QED BY <2>1, <2>2
<1>10. spent' \in [{"expire", "boot", "command", "crash"} -> Nat] BY <1>1, <1>3, SpendOK
<1>. HIDE DEF c, queues
<1>. QED BY <1>3, <1>7, <1>8, <1>9, <1>10, FinishIInv, FinishRefines DEF Kept

(* ProbeReply *)
LEMMA ProbeReplyOK ==
  ASSUME IInv, NEW m \in Mon, NEW i \in Mon, NEW q \in BOOLEAN, ProbeReply(m, i, q),
         setting' = setting
  PROVE  Kept
<1>1. TypeOK /\ Base(m, mon[m]) BY IInvFacts
<1>2. PICK b : b = Context(mon[m]) OBVIOUS
<1>3. Sound(m, b, won) /\ b.s = mon[m] /\ b.ok BY <1>1, <1>2, ContextOK
<1>4. PICK c : c = HandleProbeReply(b, m, i, q) OBVIOUS
<1>5. mon[m].state = "probing" /\ Finish(m, c, net) /\ UNCHANGED spent
  BY <1>2, <1>4 DEF ProbeReply
<1>6. b.s.state = "probing" BY <1>3, <1>5
<1>7. Outcome(m, b.s, c) BY <1>3, <1>4, <1>6, HandleProbeReplyOK
<1>8. spent' \in [{"expire", "boot", "command", "crash"} -> Nat] BY <1>1, <1>5, SpendOK
<1>. QED BY <1>3, <1>5, <1>7, <1>8, FinishOK

(* The timer that fires is no longer armed. *)
LEMMA ExpireOK ==
  ASSUME IInv, NEW m \in Mon, Expire(m), setting' = setting
  PROVE  Kept
<1>. DEFINE s == [mon[m] EXCEPT !.expire_event = FALSE]
<1>1. TypeOK /\ Base(m, mon[m]) /\ mon[m] \in LooseState BY IInvFacts
<1>2. /\ s \in LooseState /\ s.state = mon[m].state /\ s.epoch = mon[m].epoch
      /\ (s.participating <=> mon[m].participating) /\ s.acked_me = mon[m].acked_me
      /\ (s.electing_me <=> mon[m].electing_me) /\ s.leader_acked = mon[m].leader_acked
      /\ (s.probe_timeout <=> mon[m].probe_timeout)
  BY <1>1 DEF LooseState
<1>3. PICK b : b = Context(s) OBVIOUS
<1>4. PICK c : c = ExpireHandler(b, m) OBVIOUS
<1>5. Up(m) /\ Finish(m, c, net) /\ Spend("expire", MaxExpire)
  BY <1>3, <1>4 DEF Expire, FireExpire
<1>. HIDE DEF s
<1>6. Base(m, s)
  <2>1. Candidate(m, s) BY <1>1, <1>2 DEF Base, Candidate
  <2>. QED BY <1>1, <1>2, <2>1 DEF Base, Serving
<1>7. Sound(m, b, won) /\ b.s = s /\ b.ok BY <1>3, <1>6, ContextOK
<1>8. b.s.state # "aborted" BY <1>2, <1>5, <1>7 DEF Up
<1>9. Outcome(m, b.s, c) BY <1>4, <1>7, <1>8, ExpireHandlerOK
<1>10. Outcome(m, mon[m], c) BY <1>2, <1>7, <1>9, OutcomeSame
<1>11. spent' \in [{"expire", "boot", "command", "crash"} -> Nat] BY <1>1, <1>5, SpendOK
<1>. QED BY <1>5, <1>10, <1>11, FinishOK

(* ProbeTimeout: the timer is armed while probing only, so its assert holds. *)
LEMMA ProbeTimeoutOK ==
  ASSUME IInv, NEW m \in Mon, ProbeTimeout(m), setting' = setting
  PROVE  Kept
<1>1. TypeOK /\ Base(m, mon[m]) BY IInvFacts
<1>2. PICK b : b = Context(mon[m]) OBVIOUS
<1>3. Sound(m, b, won) /\ b.s = mon[m] /\ b.ok BY <1>1, <1>2, ContextOK
<1>4. PICK c : c = ProbeTimeoutHandler(b, m) OBVIOUS
<1>5. Up(m) /\ mon[m].probe_timeout /\ Finish(m, c, net) /\ UNCHANGED spent
  BY <1>2, <1>4 DEF ProbeTimeout
<1>6. b.s.state = "probing" BY <1>1, <1>3, <1>5 DEF Base, Up
<1>7. Outcome(m, b.s, c) BY <1>3, <1>4, <1>6, ProbeTimeoutHandlerOK
<1>8. spent' \in [{"expire", "boot", "command", "crash"} -> Nat] BY <1>1, <1>5, SpendOK
<1>. QED BY <1>3, <1>5, <1>7, <1>8, FinishOK

(* CallBootstrap *)
LEMMA CallBootstrapOK ==
  ASSUME IInv, NEW m \in Mon, CallBootstrap(m), setting' = setting
  PROVE  Kept
<1>1. TypeOK /\ Base(m, mon[m]) BY IInvFacts
<1>2. PICK b : b = Context(mon[m]) OBVIOUS
<1>3. Sound(m, b, won) /\ b.s = mon[m] /\ b.ok BY <1>1, <1>2, ContextOK
<1>4. PICK c : c = Bootstrap(b, m) OBVIOUS
<1>5. Finish(m, c, net) /\ Spend("boot", MaxBoot)
  BY <1>2, <1>4 DEF CallBootstrap, Disturb
<1>6. Outcome(m, b.s, c) BY <1>3, <1>4, BootstrapOutcome
<1>7. spent' \in [{"expire", "boot", "command", "crash"} -> Nat] BY <1>1, <1>5, SpendOK
<1>. QED BY <1>3, <1>5, <1>6, <1>7, FinishOK

(* QuorumExit *)
LEMMA ExitOK ==
  ASSUME IInv, NEW m \in Mon, QuorumExit(m), setting' = setting
  PROVE  Kept
<1>1. TypeOK /\ Base(m, mon[m]) BY IInvFacts
<1>2. PICK b : b = Context(mon[m]) OBVIOUS
<1>3. Sound(m, b, won) /\ b.s = mon[m] /\ b.ok BY <1>1, <1>2, ContextOK
<1>4. PICK c : c = [StartElection(b, m) EXCEPT !.s.participating = FALSE] OBVIOUS
<1>5. Finish(m, c, net) /\ Spend("command", MaxCommand)
  BY <1>2, <1>4 DEF QuorumExit, Disturb
<1>6. Outcome(m, b.s, c) BY <1>3, <1>4, QuorumExitOK
<1>7. spent' \in [{"expire", "boot", "command", "crash"} -> Nat] BY <1>1, <1>5, SpendOK
<1>. QED BY <1>3, <1>5, <1>6, <1>7, FinishOK

(* QuorumEnter *)
LEMMA EnterOK ==
  ASSUME IInv, NEW m \in Mon, QuorumEnter(m), setting' = setting
  PROVE  Kept
<1>. DEFINE s == [mon[m] EXCEPT !.participating = TRUE]
<1>1. TypeOK /\ Base(m, mon[m]) /\ mon[m] \in LooseState BY IInvFacts
<1>2. /\ s \in LooseState /\ s.state = mon[m].state /\ s.epoch = mon[m].epoch
      /\ s.participating /\ s.acked_me = mon[m].acked_me
      /\ (s.electing_me <=> mon[m].electing_me) /\ s.leader_acked = mon[m].leader_acked
      /\ (s.probe_timeout <=> mon[m].probe_timeout)
  BY <1>1 DEF LooseState
<1>3. PICK b : b = Context(s) OBVIOUS
<1>4. PICK c : c = StartElection(b, m) OBVIOUS
<1>5. Finish(m, c, net) /\ (Spend("command", MaxCommand) \/ UNCHANGED spent)
  BY <1>3, <1>4 DEF QuorumEnter, Disturb
<1>. HIDE DEF s
<1>6. Base(m, s)
  <2>1. Candidate(m, s) BY <1>1, <1>2 DEF Base, Candidate
  <2>. QED BY <1>1, <1>2, <2>1 DEF Base, Serving
<1>7. Sound(m, b, won) /\ b.s = s /\ b.ok BY <1>3, <1>6, ContextOK
<1>8. Outcome(m, b.s, c) BY <1>4, <1>7, StartElectionOutcome
<1>9. Outcome(m, mon[m], c) BY <1>2, <1>7, <1>8, OutcomeSame
<1>10. spent' \in [{"expire", "boot", "command", "crash"} -> Nat] BY <1>1, <1>5, SpendOK
<1>. QED BY <1>5, <1>9, <1>10, FinishOK

(* Restart: the epoch is read back from the store. *)
LEMMA RestartOK ==
  ASSUME IInv, NEW m \in Mon, Restart(m), setting' = setting
  PROVE  Kept
<1>. DEFINE s == Booted(mon[m].epoch)
<1>1. TypeOK /\ mon[m].epoch \in Nat \ {0} BY IInvFacts
<1>2. Base(m, s) /\ s.epoch = mon[m].epoch BY <1>1, BootedOK
<1>3. PICK b : b = Context(s) OBVIOUS
<1>4. PICK c : c = Bootstrap(b, m) OBVIOUS
<1>5. mon[m].state = "down" /\ Finish(m, c, net) /\ UNCHANGED spent
  BY <1>3, <1>4 DEF Restart
<1>. HIDE DEF s
<1>6. Sound(m, b, won) /\ b.s = s /\ b.ok BY <1>2, <1>3, ContextOK
<1>7. /\ Sound(m, c, won) /\ (c.ok <=> b.ok)
      /\ c.s.state = "probing" /\ c.s.epoch = b.s.epoch
  BY <1>4, <1>6, BootstrapOK
<1>8. Outcome(m, mon[m], c)
  <2>1. mon[m].epoch <= c.s.epoch BY <1>1, <1>2, <1>6, <1>7
  <2>. QED BY <1>6, <1>7, <2>1 DEF Outcome, Leaves, Serving, Armed
<1>9. spent' \in [{"expire", "boot", "command", "crash"} -> Nat] BY <1>1, <1>5, SpendOK
<1>. QED BY <1>5, <1>8, <1>9, FinishOK

(* A crash loses messages and leaves the epoch. *)
LEMMA CrashOK ==
  ASSUME IInv, NEW m \in Mon, Crash(m), setting' = setting
  PROVE  Kept
<1>. DEFINE s == Down(mon[m].epoch)
<1>1. /\ TypeOK /\ mon[m].epoch \in Nat \ {0} /\ mon[m].epoch \in 1 .. MaxEpoch
      /\ net \in [Mon -> [Mon -> Seq(Message)]]
      /\ \A i, j \in Mon : net[i][j] \in Seq(Allowed(i, j, mon[i].epoch, won))
  BY IInvFacts
<1>2. Base(m, s) /\ s.epoch = mon[m].epoch /\ s.state = "down" BY <1>1, BootedOK
<1>3. /\ mon' = [mon EXCEPT ![m] = s] /\ won' = won /\ joined' = joined
      /\ Spend("crash", MaxCrash)
  BY DEF Crash, Disturb
<1>4. ~s.electing_me /\ s.acked_me = {} BY DEF Down, Booted
<1>. HIDE DEF s
<1>5. s \in MonState BY <1>1, <1>2 DEF Base, LooseState, MonState
<1>6. /\ mon' \in [Mon -> MonState] /\ mon'[m] = s
      /\ \A q \in Mon : q # m => mon'[q] = mon[q]
      /\ \A q \in Mon : mon'[q].epoch = mon[q].epoch
  <2>1. mon \in [Mon -> MonState] BY <1>1 DEF TypeOK
  <2>. QED BY <1>2, <1>3, <1>5, <2>1
<1>7. PICK keep \in [Mon -> 0 .. MaxQueue] :
        /\ \A j \in Mon : keep[j] <= Len(net[m][j])
        /\ net' = [i \in Mon |-> [j \in Mon |->
                     IF j = m THEN <<>>
                     ELSE IF i = m THEN SubSeq(net[m][j], 1, keep[j])
                     ELSE net[i][j]]]
  BY DEF Crash
<1>8. OldPeersRankLast' <=> OldPeersRankLast
  BY DEF OldPeersRankLast, MissingMon, Requires, LackCon, LackMon
<1>9. ASSUME NEW S, NEW i \in Mon, NEW j \in Mon, net[i][j] \in Seq(S)
      PROVE  net'[i][j] \in Seq(S)
  <2>1. net'[i][j] = IF j = m THEN <<>>
                     ELSE IF i = m THEN SubSeq(net[m][j], 1, keep[j])
                     ELSE net[i][j]
    BY <1>7
  <2>2. CASE j = m BY <2>1, <2>2, EmptySeq
  <2>3. CASE j # m /\ i = m
    <3>1. keep[j] \in Int /\ keep[j] <= Len(net[i][j]) BY <1>7, <2>3, BoundAssumption
    <3>2. Len(net[i][j]) \in Nat /\ \A k \in 1 .. Len(net[i][j]) : net[i][j][k] \in S
      BY <1>9, LenProperties, ElementOfSeq
    <3>3. \A k \in 1 .. keep[j] : net[i][j][k] \in S BY <3>1, <3>2
    <3>4. SubSeq(net[i][j], 1, keep[j]) \in Seq(S) BY <3>1, <3>3, SubSeqProperties
    <3>. QED BY <2>1, <2>3, <3>4
  <2>4. CASE j # m /\ i # m BY <1>9, <2>1, <2>4
  <2>. QED BY <2>2, <2>3, <2>4
<1>10. net' \in [Mon -> [Mon -> Seq(Message)]]
  <2>1. \A i, j \in Mon : net'[i][j] \in Seq(Message) BY <1>1, <1>9
  <2>2. net' = [i \in Mon |-> [j \in Mon |-> net'[i][j]]] BY <1>7
  <2>. QED BY <2>1, <2>2
<1>11. \A i, j \in Mon : net'[i][j] \in Seq(Allowed(i, j, mon[i].epoch, won)')
  <2>1. \A i, j \in Mon : Allowed(i, j, mon[i].epoch, won) = Allowed(i, j, mon[i].epoch, won)'
    BY <1>3, <1>6, <1>8 DEF Allowed, Victory_
  <2>. QED BY <1>1, <1>9, <2>1
<1>12. TypeOK'
  <2>1. spent' \in [{"expire", "boot", "command", "crash"} -> Nat] BY <1>1, <1>3, SpendOK
  <2>. QED BY <1>1, <1>3, <1>6, <1>10, <2>1 DEF TypeOK
<1>13. ASSUME NEW q \in Mon PROVE Base(q, mon[q])' /\ Armed(mon[q])'
  <2>1. CASE q = m
    <3>1. Candidate(m, mon[m])' BY <1>4, <1>6 DEF Candidate
    <3>. QED BY <1>2, <1>6, <2>1, <3>1 DEF Base, Serving, Armed
  <2>2. CASE q # m
    <3>1. Base(q, mon[q]) /\ Armed(mon[q]) /\ mon'[q] = mon[q] BY <1>6, <2>2 DEF IInv
    <3>2. mon[q].acked_me \subseteq Mon BY <3>1 DEF Base, LooseState
    <3>3. (Requires(q)' <=> Requires(q)) /\ LackCon' = LackCon /\ LackMon' = LackMon
      BY DEF Requires, LackCon, LackMon
    <3>4. Candidate(q, mon[q])' BY <1>6, <3>1, <3>2, <3>3 DEF Base, Candidate
    <3>. QED BY <3>1, <3>4 DEF Base, Armed, Waits, Serving
  <2>. QED BY <2>1, <2>2
<1>14. QuorumHasFeatures' BY <1>3 DEF IInv, QuorumHasFeatures, Requires, LackCon, LackMon
<1>15. NoAssertFails' BY <1>2, <1>6, <1>8 DEF IInv, NoAssertFails
<1>16. MQ!Leave(m)
  <2>1. mon[m].epoch \in MQ!Epoch /\ mon[m].epoch >= mon[m].epoch BY <1>1 DEF MQ!Epoch
  <2>. QED BY <1>2, <1>3, <1>6, <2>1 DEF MQ!Leave
<1>. QED BY <1>11, <1>12, <1>13, <1>14, <1>15, <1>16 DEF IInv, Kept, MQ!Next

-----------------------------------------------------------------------------
(* The results *)

(* Monitors that have just bootstrapped satisfy the invariant. *)
LEMMA InitIInv == Init => IInv
<1>. SUFFICES ASSUME Init PROVE IInv
  OBVIOUS
<1>1. ASSUME NEW m \in Mon
      PROVE  /\ mon[m] \in MonState /\ Base(m, mon[m]) /\ Armed(mon[m])
             /\ mon[m].state = "probing"
  <2>1. Base(m, Booted(1)) /\ Booted(1).epoch = 1 BY BootedOK
  <2>2. PICK b : b = Context(Booted(1)) OBVIOUS
  <2>3. PICK d : d = Bootstrap(b, m) OBVIOUS
  <2>4. Sound(m, b, won) /\ b.s = Booted(1) BY <2>1, <2>2, ContextOK
  <2>5. Sound(m, d, won) /\ d.s.state = "probing" /\ d.s.epoch = b.s.epoch
    BY <2>3, <2>4, BootstrapOK
  <2>6. mon[m] = d.s BY <2>2, <2>3 DEF Init
  <2>7. 1 \in 1 .. MaxEpoch BY BoundAssumption
  <2>. QED BY <2>1, <2>4, <2>5, <2>6, <2>7
       DEF Sound, Base, LooseState, MonState, Armed, Serving
<1>2. \A S : <<>> \in Seq(S) BY EmptySeq
<1>3. TypeOK BY <1>1, <1>2 DEF Init, TypeOK
<1>4. \A i, j \in Mon : net[i][j] \in Seq(Allowed(i, j, mon[i].epoch, won))
  BY <1>2 DEF Init
<1>5. QuorumHasFeatures BY DEF Init, QuorumHasFeatures
<1>6. NoAssertFails BY <1>1 DEF NoAssertFails
<1>. QED BY <1>1, <1>3, <1>4, <1>5, <1>6 DEF IInv

(* Every step keeps it and is one of MonQuorum, or none. *)
LEMMA NextOK ==
  ASSUME IInv, [Next]_vars
  PROVE  Kept
<1>1. CASE UNCHANGED vars
  <2>. USE <1>1 DEF vars
  <2>1. IInv'
    <3>1. /\ LackCon' = LackCon /\ LackMon' = LackMon
          /\ \A m \in Mon : Requires(m)' <=> Requires(m)
      BY DEF Requires, LackCon, LackMon
    <3>2. OldPeersRankLast' <=> OldPeersRankLast
      BY DEF OldPeersRankLast, MissingMon, Requires, LackCon, LackMon
    <3>3. TypeOK' BY DEF IInv, TypeOK
    <3>4. \A m \in Mon : Base(m, mon[m])' /\ Armed(mon[m])'
      BY <3>1 DEF IInv, Base, Candidate, Armed, Waits, Serving
    <3>5. \A i, j \in Mon : Allowed(i, j, mon[i].epoch, won)' = Allowed(i, j, mon[i].epoch, won)
      BY <3>2 DEF Allowed, Victory_
    <3>6. \A i, j \in Mon : net'[i][j] \in Seq(Allowed(i, j, mon[i].epoch, won)')
      BY <3>5 DEF IInv
    <3>7. QuorumHasFeatures' BY DEF IInv, QuorumHasFeatures, Requires, LackCon, LackMon
    <3>8. NoAssertFails' BY <3>2 DEF IInv, NoAssertFails
    <3>. QED BY <3>3, <3>4, <3>6, <3>7, <3>8 DEF IInv
  <2>2. UNCHANGED MQ!vars BY DEF MQ!vars
  <2>. QED BY <2>1, <2>2 DEF Kept
<1>2. ASSUME NEW m \in Mon, Step(m), setting' = setting PROVE Kept
  <2>1. CASE \E i \in Mon : Deliver(i, m) BY <1>2, <2>1, DeliverOK
  <2>2. CASE \E i \in Mon, q \in BOOLEAN : ProbeReply(m, i, q) BY <1>2, <2>2, ProbeReplyOK
  <2>3. CASE Expire(m) BY <1>2, <2>3, ExpireOK
  <2>4. CASE ProbeTimeout(m) BY <1>2, <2>4, ProbeTimeoutOK
  <2>5. CASE CallBootstrap(m) BY <1>2, <2>5, CallBootstrapOK
  <2>6. CASE QuorumExit(m) BY <1>2, <2>6, ExitOK
  <2>7. CASE QuorumEnter(m) BY <1>2, <2>7, EnterOK
  <2>8. CASE Crash(m) BY <1>2, <2>8, CrashOK
  <2>9. CASE Restart(m) BY <1>2, <2>9, RestartOK
  <2>. QED BY <1>2, <2>1, <2>2, <2>3, <2>4, <2>5, <2>6, <2>7, <2>8, <2>9 DEF Step
<1>. QED BY <1>1, <1>2 DEF Next

(* The invariant holds of every reachable state. *)
THEOREM Invariance == Spec => []IInv
<1>1. IInv /\ [Next]_vars => IInv' BY NextOK DEF Kept
<1>. QED BY <1>1, InitIInv, PTL DEF Spec

(* The election keeps its types: epochs, ranks, messages and histories. *)
THEOREM TypeCorrect == Spec => []TypeOK
<1>1. IInv => TypeOK BY DEF IInv
<1>. QED BY <1>1, Invariance, PTL

(* No assert of Elector.cc fails, in a monmap of any size, with any mix of
   features in which old peers rank last, whatever crashes, restarts, timeouts
   and commands come between. *)
THEOREM AssertsHold == Spec => []NoAssertFails
<1>1. IInv => NoAssertFails BY DEF IInv
<1>. QED BY <1>1, Invariance, PTL

(* Whom a candidate counts in acked_me has reached its epoch in its store. *)
THEOREM AckersReached == Spec => []AckersReachedEpoch
<1>1. ASSUME IInv, NEW m \in Mon, mon[m].electing_me, NEW q \in mon[m].acked_me
      PROVE  mon[q].epoch >= mon[m].epoch
  <2>1. Candidate(m, mon[m]) /\ mon[m].epoch \in Nat BY <1>1, IInvFacts DEF Base
  <2>. QED BY <1>1, <2>1 DEF Candidate
<1>2. IInv => AckersReachedEpoch BY <1>1 DEF AckersReachedEpoch
<1>. QED BY <1>2, Invariance, PTL

(* A participant that waits for an election to end has its timer armed. *)
THEOREM TimerArmed == Spec => []ElectingHasTimer
<1>1. IInv => ElectingHasTimer BY DEF IInv, Armed, ElectingHasTimer
<1>. QED BY <1>1, Invariance, PTL

(* A monitor that has left the quorum by command neither leads nor follows. *)
THEOREM ExitedOut == Spec => []ExitedStaysOut
<1>1. IInv => ExitedStaysOut BY DEF IInv, Base, Serving, ExitedStaysOut
<1>. QED BY <1>1, Invariance, PTL

(* A leader that requires features has only monitors with them behind it. *)
THEOREM FeaturesHeld == Spec => []QuorumHasFeatures
<1>1. IInv => QuorumHasFeatures BY DEF IInv
<1>. QED BY <1>1, Invariance, PTL

(* The election implements the abstract quorum: each handler is one of its
   steps, or changes nothing that the rest of the monitor sees. *)
THEOREM Refinement == Spec => ImplementsMonQuorum
<1>1. Init => MQ!Init
  <2>. SUFFICES ASSUME Init PROVE MQ!Init
    OBVIOUS
  <2>1. ASSUME NEW m \in Mon PROVE mon[m].epoch = 1 /\ mon[m].state = "probing"
    <3>1. mon[m] = Bootstrap(Context(Booted(1)), m).s BY DEF Init
    <3>. QED BY <3>1 DEF Bootstrap, Context, Reset, Booted
  <2>. QED BY <2>1 DEF Init, MQ!Init
<1>2. IInv /\ [Next]_vars => [MQ!Next]_(MQ!vars) BY NextOK DEF Kept
<1>. QED BY <1>1, <1>2, Invariance, PTL DEF Spec, ImplementsMonQuorum, MQ!Spec

-----------------------------------------------------------------------------
(* What MonQuorum_proofs proves of the abstract quorum, said of the election. *)
MQP == INSTANCE MonQuorum_proofs WITH
         epoch <- [m \in Mon |-> mon[m].epoch],
         role <- [m \in Mon |-> IF mon[m].state \in {"leader", "peon"}
                                THEN mon[m].state ELSE "out"]

(* The ranks and the epochs are as MonQuorum assumes. *)
LEMMA QuorumAssumptions ==
  (MaxEpoch \in Nat \ {0}) /\ (MQP!IsFiniteSet(Mon) /\ Mon \subseteq Nat)
<1>1. MQP!IsFiniteSet(Mon) <=> IsFiniteSet(Mon) BY Zenon DEF MQP!IsFiniteSet, IsFiniteSet
<1>. QED BY <1>1, MonIsFinite, NAssumption, BoundAssumption DEF Mon

(* The election is an instance of what MonQuorum_proofs is about. *)
LEMMA RefinementP == Spec => MQP!Spec
<1>1. MQ!Init => MQP!Init BY DEF MQ!Init, MQP!Init
<1>2. MQ!vars = MQP!vars BY DEF MQ!vars, MQP!vars
<1>3. UNCHANGED MQ!vars => UNCHANGED MQP!vars BY DEF MQ!vars, MQP!vars
<1>4. MQ!Epoch = MQP!Epoch BY DEF MQ!Epoch, MQP!Epoch
<1>5. \A m \in Mon : MQ!Leave(m) => MQP!Leave(m) BY <1>4 DEF MQ!Leave, MQP!Leave
<1>6. ASSUME NEW m \in Mon, NEW e \in MQ!Epoch, NEW Q \in SUBSET Mon,
             MQ!WinElection(m, e, Q)
      PROVE  MQP!WinElection(m, e, Q)
  <2>1. MQP!Majority(Q) = MQ!Majority(Q)
    BY Zenon DEF MQ!Majority, MQP!Majority, MQ!Cardinality, MQP!Cardinality
  <2>. QED BY <1>6, <2>1 DEF MQ!WinElection, MQP!WinElection
<1>7. ASSUME NEW m \in Mon, NEW v \in won, MQ!LoseElection(m, v)
      PROVE  MQP!LoseElection(m, v)
  BY <1>7 DEF MQ!LoseElection, MQP!LoseElection
<1>8. MQ!Next => MQP!Next BY <1>4, <1>5, <1>6, <1>7 DEF MQ!Next, MQP!Next
<1>9. [MQ!Next]_(MQ!vars) => [MQP!Next]_(MQP!vars) BY <1>3, <1>8
<1>. QED BY <1>1, <1>9, Refinement, PTL DEF ImplementsMonQuorum, MQ!Spec, MQP!Spec

(* In the election as Elector.cc runs it, with its lost, late and repeated
   messages, no monitor follows two leaders in one epoch and of the victories
   declared for an epoch only one leader's can be complete. *)
THEOREM ElectionIsSafe ==
  Spec => [](MQP!OneLeaderPerEpoch /\ MQP!OneCompleteQuorum)
<1>1. (MaxEpoch \in Nat \ {0}) /\ (MQP!IsFiniteSet(Mon) /\ Mon \subseteq Nat)
  BY QuorumAssumptions
<1>2. MQP!Spec => []MQP!OneLeaderPerEpoch BY <1>1, MQP!FollowsOneLeader, Zenon
<1>3. MQP!Spec => []MQP!OneCompleteQuorum BY <1>1, MQP!CompletesOneQuorum, Zenon
<1>. QED BY <1>2, <1>3, RefinementP, PTL

=============================================================================
