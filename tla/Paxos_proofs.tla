--------------------------- MODULE Paxos_proofs ---------------------------
(***************************************************************************)
(* Proofs about Paxos.  The handlers are compositions of operators on a    *)
(* context; Sound says that the monitor m, in the middle of a handler, is  *)
(* in order with every other monitor, and each lemma says that a piece of  *)
(* a handler keeps it so.                                                  *)
(***************************************************************************)
EXTENDS PaxosSession

Contexts == [s : LooseState, role : {"out", "leader", "peon"}, epoch : Nat,
             out : [Mon -> Messages], ok : BOOLEAN]

NodeOf(c, T) == [epoch |-> c.epoch, role |-> c.role, s |-> c.s, T |-> T]

(* The queue q to B, when the handler of epoch e that has sent w is done. *)
Extended(e, q, w, B) == IF IsCurrent(e, B) THEN q \o w ELSE q

(* The log of state s has grown since state p. *)
Grown(p, s) ==
  /\ p.last_committed \in Nat /\ p.last_committed <= s.last_committed
  /\ \A v \in Version : v <= p.last_committed => s.values[v] = p.values[v]

(* Monitor m in a handler that started in state p: it has come to c, with T
   counted; W are the monitors, O the messages m had sent before and I the ones
   it has not yet received. *)
Sound(m, p, c, T, W, O, I) ==
  /\ c \in Contexts /\ c.ok /\ T \in SUBSET Mon
  /\ Local(m, NodeOf(c, T)) /\ Grown(p, c.s)
  /\ c.out[m] = <<>>
  /\ \A j \in Mon : \A k \in DOMAIN c.out[j] : c.out[j][k].epoch = c.epoch
  /\ \A j \in Mon \ {m} :
       Pair(m, j, NodeOf(c, T), W[j], Extended(c.epoch, O[j], c.out[j], W[j]), I[j])

Sends(c, d, to, x) ==
  d.out = [j \in Mon |-> IF j \in to THEN Append(c.out[j], x[j]) ELSE c.out[j]]

Worlds == [Mon -> Node]
Queues == [Mon -> Messages]

-----------------------------------------------------------------------------
(* Contexts *)

LEMMA ContextTypes ==
  ASSUME NEW c \in Contexts
  PROVE  /\ c.s \in LooseState /\ c.role \in {"out", "leader", "peon"} /\ c.epoch \in Nat
         /\ c.out \in [Mon -> Messages] /\ c.ok \in BOOLEAN
  BY DEF Contexts

LEMMA NodeIs ==
  ASSUME NEW c \in Contexts, NEW T \in SUBSET Mon
  PROVE  /\ NodeOf(c, T) \in Node
         /\ NodeOf(c, T).epoch = c.epoch /\ NodeOf(c, T).role = c.role
         /\ NodeOf(c, T).s = c.s /\ NodeOf(c, T).T = T
  BY DEF Contexts, NodeOf, Node

(* Sending appends to the queue, whatever was sent before. *)
LEMMA ExtendedPush ==
  ASSUME NEW q \in Messages, NEW w \in Messages, NEW w2, NEW x \in LooseMessage, NEW e, NEW B,
         NEW j, NEW to, w2 = IF j \in to THEN Append(w, x) ELSE w
  PROVE  Pushes(j, to, Extended(e, q, w, B), Extended(e, q, w2, B), x, e, B)
<1>1. q \in Seq(LooseMessage) /\ w \in Seq(LooseMessage)
  BY DEF Messages
<1>2. q \o Append(w, x) = Append(q \o w, x)
  <2>1. PICK a : a = Append(w, x)
    OBVIOUS
  <2>2. a \in Seq(LooseMessage) /\ Len(a) = Len(w) + 1 /\ (\A k \in 1 .. Len(w) : a[k] = w[k])
        /\ a[Len(w) + 1] = x
    BY <1>1, <2>1, AppendProperties
  <2>3. PICK b : b = q \o w
    OBVIOUS
  <2>4. b \in Seq(LooseMessage) /\ Len(b) = Len(q) + Len(w)
        /\ \A k \in 1 .. Len(q) + Len(w) : b[k] = IF k <= Len(q) THEN q[k] ELSE w[k - Len(q)]
    BY <1>1, <2>3, ConcatProperties
  <2>5. PICK l : l = q \o a
    OBVIOUS
  <2>6. l \in Seq(LooseMessage) /\ Len(l) = Len(q) + Len(a)
        /\ \A k \in 1 .. Len(q) + Len(a) : l[k] = IF k <= Len(q) THEN q[k] ELSE a[k - Len(q)]
    <3>1. a \in Seq(LooseMessage)
      BY <2>2
    <3>. QED BY <1>1, <2>5, <3>1, ConcatProperties
  <2>7. PICK r : r = Append(b, x)
    OBVIOUS
  <2>8. r \in Seq(LooseMessage) /\ Len(r) = Len(b) + 1 /\ (\A k \in 1 .. Len(b) : r[k] = b[k])
        /\ r[Len(b) + 1] = x
    BY <2>4, <2>7, AppendProperties
  <2>9. Len(q) \in Nat /\ Len(w) \in Nat
    BY <1>1, LenProperties
  <2>10. Len(l) = Len(r)
    BY <2>2, <2>4, <2>6, <2>8, <2>9
  <2>11. ASSUME NEW k \in 1 .. Len(l) PROVE l[k] = r[k]
    <3>1. k \in 1 .. Len(q) + Len(a) /\ Len(a) = Len(w) + 1 /\ Len(b) = Len(q) + Len(w)
      BY <2>2, <2>4, <2>6
    <3>2. CASE k <= Len(q)
      <4>1. k \in 1 .. Len(b) /\ k \in 1 .. Len(q) + Len(w)
        BY <2>9, <3>1, <3>2
      <4>. QED BY <2>4, <2>6, <2>8, <3>1, <3>2, <4>1
    <3>3. CASE k > Len(q) /\ k <= Len(b)
      <4>1. k - Len(q) \in 1 .. Len(w) /\ k \in 1 .. Len(b) /\ ~(k <= Len(q))
            /\ k \in 1 .. Len(q) + Len(w)
        BY <2>9, <3>1, <3>3
      <4>2. l[k] = a[k - Len(q)] /\ a[k - Len(q)] = w[k - Len(q)]
        BY <2>2, <2>6, <3>1, <4>1
      <4>3. r[k] = b[k] /\ b[k] = w[k - Len(q)]
        BY <2>4, <2>8, <4>1
      <4>. QED BY <4>2, <4>3
    <3>4. CASE k > Len(b)
      <4>1. k = Len(b) + 1 /\ k - Len(q) = Len(w) + 1 /\ ~(k <= Len(q))
        BY <2>9, <3>1, <3>4
      <4>2. l[k] = a[k - Len(q)]
        BY <2>6, <3>1, <4>1
      <4>. QED BY <2>2, <2>8, <4>1, <4>2
    <3>. QED BY <2>9, <3>1, <3>2, <3>3, <3>4
  <2>12. l = r
    BY <2>6, <2>8, <2>10, <2>11, SeqEqual
  <2>. QED BY <2>1, <2>3, <2>5, <2>7, <2>12
<1>. QED BY <1>2 DEF Pushes, Extended

(* A step of a handler that sends x[j] to each j in to, and may take messages. *)
LEMMA SoundAnswer ==
  ASSUME NEW m \in Mon, NEW p, NEW c, NEW d \in Contexts, NEW T, NEW T2 \in SUBSET Mon,
         NEW W \in Worlds, NEW O \in Queues, NEW I, NEW I2,
         NEW to \in SUBSET (Mon \ {m}), NEW x \in [Mon -> LooseMessage],
         Sound(m, p, c, T, W, O, I),
         d.ok, d.epoch = c.epoch, Local(m, NodeOf(d, T2)), Grown(p, d.s), Sends(c, d, to, x),
         \A j \in Mon : x[j].epoch = c.epoch,
         \A j \in Mon \ {m} : \A q, q2 :
           /\ Pair(m, j, NodeOf(c, T), W[j], q, I[j])
           /\ Pushes(j, to, q, q2, x[j], c.epoch, W[j])
           => Pair(m, j, NodeOf(d, T2), W[j], q2, I2[j])
  PROVE  Sound(m, p, d, T2, W, O, I2)
<1>1. c \in Contexts /\ c.out \in [Mon -> Messages] /\ d.out \in [Mon -> Messages]
  BY ContextTypes DEF Sound
<1>2. d.out[m] = <<>>
  BY <1>1 DEF Sends, Sound
<1>3. ASSUME NEW j \in Mon, NEW k \in DOMAIN d.out[j] PROVE d.out[j][k].epoch = d.epoch
  <2>1. CASE j \notin to
    BY <1>1, <2>1 DEF Sends, Sound
  <2>2. CASE j \in to
    <3>1. PICK w : w = c.out[j]
      OBVIOUS
    <3>2. w \in Seq(LooseMessage) /\ x[j] \in LooseMessage
      BY <1>1, <3>1 DEF Messages
    <3>3. d.out[j] = Append(w, x[j])
      BY <2>2, <3>1 DEF Sends
    <3>4. PICK w2 : w2 = Append(w, x[j])
      OBVIOUS
    <3>5. /\ w2 \in Seq(LooseMessage) /\ Len(w2) = Len(w) + 1
          /\ \A l \in 1 .. Len(w) : w2[l] = w[l]
          /\ w2[Len(w) + 1] = x[j]
      BY <3>2, <3>4, AppendProperties
    <3>6. Len(w) \in Nat /\ DOMAIN w = 1 .. Len(w) /\ DOMAIN w2 = 1 .. Len(w2)
      BY <3>2, <3>5, LenProperties
    <3>7. k \in 1 .. Len(w) \/ k = Len(w) + 1
      BY <3>3, <3>4, <3>5, <3>6
    <3>8. CASE k \in 1 .. Len(w)
      BY <3>1, <3>3, <3>4, <3>5, <3>6, <3>8 DEF Sound
    <3>9. CASE k = Len(w) + 1
      BY <3>3, <3>4, <3>5, <3>9
    <3>. QED BY <3>7, <3>8, <3>9
  <2>. QED BY <2>1, <2>2
<1>4. ASSUME NEW j \in Mon \ {m}
      PROVE  Pair(m, j, NodeOf(d, T2), W[j], Extended(d.epoch, O[j], d.out[j], W[j]), I2[j])
  <2>1. d.out[j] = IF j \in to THEN Append(c.out[j], x[j]) ELSE c.out[j]
    BY DEF Sends
  <2>2. O[j] \in Messages /\ c.out[j] \in Messages /\ x[j] \in LooseMessage
    BY <1>1 DEF Queues
  <2>3. Pushes(j, to, Extended(c.epoch, O[j], c.out[j], W[j]), Extended(c.epoch, O[j], d.out[j], W[j]),
               x[j], c.epoch, W[j])
    BY <2>1, <2>2, ExtendedPush
  <2>4. Pair(m, j, NodeOf(c, T), W[j], Extended(c.epoch, O[j], c.out[j], W[j]), I[j])
    BY DEF Sound
  <2>. QED BY <2>3, <2>4
<1>. QED BY <1>2, <1>3, <1>4 DEF Sound

LEMMA SoundSend ==
  ASSUME NEW m \in Mon, NEW p, NEW c, NEW d \in Contexts, NEW T, NEW T2 \in SUBSET Mon,
         NEW W \in Worlds, NEW O \in Queues, NEW I \in Queues,
         NEW to \in SUBSET (Mon \ {m}), NEW x \in [Mon -> LooseMessage],
         Sound(m, p, c, T, W, O, I),
         d.ok, d.epoch = c.epoch, Local(m, NodeOf(d, T2)), Grown(p, d.s), Sends(c, d, to, x),
         \A j \in Mon : x[j].epoch = c.epoch,
         \A j \in Mon \ {m} : \A q, q2 :
           /\ Pair(m, j, NodeOf(c, T), W[j], q, I[j])
           /\ Pushes(j, to, q, q2, x[j], c.epoch, W[j])
           => Pair(m, j, NodeOf(d, T2), W[j], q2, I[j])
  PROVE  Sound(m, p, d, T2, W, O, I)
  BY SoundAnswer

(* A step of a handler that sends nothing; it may take messages. *)
LEMMA SoundStep ==
  ASSUME NEW m \in Mon, NEW p, NEW c, NEW d \in Contexts, NEW T, NEW T2 \in SUBSET Mon,
         NEW W, NEW O, NEW I, NEW I2,
         Sound(m, p, c, T, W, O, I),
         d.ok, d.epoch = c.epoch, d.out = c.out, Local(m, NodeOf(d, T2)), Grown(p, d.s),
         \A j \in Mon \ {m} : \A q :
           Pair(m, j, NodeOf(c, T), W[j], q, I[j]) => Pair(m, j, NodeOf(d, T2), W[j], q, I2[j])
  PROVE  Sound(m, p, d, T2, W, O, I2)
<1>1. ASSUME NEW j \in Mon \ {m}
      PROVE  Pair(m, j, NodeOf(d, T2), W[j], Extended(d.epoch, O[j], d.out[j], W[j]), I2[j])
  BY DEF Sound
<1>. QED BY <1>1 DEF Sound

-----------------------------------------------------------------------------
(* A leader proposes *)

ToAll(x) == [j \in Mon |-> x]

LEMMA MsgIs ==
  ASSUME NEW c \in Contexts, NEW op \in {"victory", "collect", "last", "begin", "accept", "commit",
                                         "lease", "lease_ack"}
  PROVE  /\ Msg(c, op) \in LooseMessage
         /\ Msg(c, op).op = op /\ Msg(c, op).epoch = c.epoch /\ Msg(c, op).pn = 0
         /\ Msg(c, op).last_committed = c.s.last_committed /\ Msg(c, op).values = NoValues
         /\ NoGap(Msg(c, op))
<1>1. NoValues \in [Version -> Value] /\ \A v \in Version : NoValues[v] = NoValue
  BY DEF NoValues, Value, NoValue
<1>2. Msg(c, op) \in LooseMessage
  BY <1>1 DEF Msg, LooseMessage, Contexts, LooseState
<1>3. Msg(c, op).values = NoValues
  BY DEF Msg
<1>. QED BY <1>1, <1>2, <1>3 DEF Msg, NoGap

BeginDoes(c, m, value, v, d) ==
  /\ d \in Contexts /\ d.role = c.role /\ d.epoch = c.epoch
  /\ d.ok <=> /\ c.ok /\ c.role = "leader" /\ c.s.state \in Updating
              /\ c.s.num_last > N \div 2 /\ c.s.new_value = NoValue
  /\ d.s = [c.s EXCEPT !.accepted = {m}, !.new_value = value, !.values[v] = value,
                       !.pending_v = v, !.pending_pn = c.s.accepted_pn,
                       !.timers["accept"] = @ + 1]
  /\ Sends(c, d, c.s.quorum \ {m},
           ToAll([Msg(c, "begin") EXCEPT !.values[v] = value, !.pn = c.s.accepted_pn]))

LEMMA BeginIs ==
  ASSUME NEW c \in Contexts, NEW m \in Mon, NEW value \in Value, NEW d, NEW v,
         v = c.s.last_committed + 1, v \in Version,
         d = Begin(c, m, value)
  PROVE  BeginDoes(c, m, value, v, d)
<1>1. c.s \in LooseState /\ v \in Nat
  BY MonTypes DEF Contexts
<1>2. PICK s1 : s1 = [c.s EXCEPT !.accepted = {m}, !.new_value = value, !.values[v] = value,
                                 !.pending_v = v, !.pending_pn = c.s.accepted_pn]
  OBVIOUS
<1>3. s1 \in LooseState
  BY ZenonT(60), <1>1, <1>2 DEF LooseState
<1>4. [s1 EXCEPT !.timers["accept"] = @ + 1] \in LooseState
  BY <1>3 DEF LooseState, Timer
<1>5. d.s = [s1 EXCEPT !.timers["accept"] = @ + 1]
  BY <1>2 DEF Begin, Arm, Send, Check, Msg, Peers, Contexts
<1>6. [s1 EXCEPT !.timers["accept"] = @ + 1]
        = [c.s EXCEPT !.accepted = {m}, !.new_value = value, !.values[v] = value,
                      !.pending_v = v, !.pending_pn = c.s.accepted_pn,
                      !.timers["accept"] = @ + 1]
  BY <1>1, <1>2 DEF LooseState
<1>7. [Msg(c, "begin") EXCEPT !.values[v] = value, !.pn = c.s.accepted_pn] \in LooseMessage
  <2>1. Msg(c, "begin") \in LooseMessage
    BY MsgIs
  <2>2. c.s.accepted_pn \in Nat
    BY <1>1 DEF LooseState
  <2>. QED BY <2>1, <2>2 DEF LooseMessage
<1>8. PICK x : x = [Msg(c, "begin") EXCEPT !.values[v] = value, !.pn = c.s.accepted_pn]
  OBVIOUS
<1>9. d.out = [j \in Mon |-> IF j \in c.s.quorum \ {m} THEN Append(c.out[j], x) ELSE c.out[j]]
  BY <1>8 DEF Begin, Arm, Send, Check, Peers, Contexts
<1>10. Sends(c, d, c.s.quorum \ {m}, ToAll(x))
  BY <1>9 DEF Sends, ToAll
<1>11. d.out \in [Mon -> Messages]
  <2>1. \A j \in Mon : c.out[j] \in Seq(LooseMessage)
    BY DEF Contexts, Messages
  <2>2. \A j \in Mon : Append(c.out[j], x) \in Seq(LooseMessage)
    BY <1>7, <1>8, <2>1, AppendProperties
  <2>. QED BY <1>9, <2>1, <2>2 DEF Messages
<1>12. d.role = c.role /\ d.epoch = c.epoch
  BY DEF Begin, Arm, Send, Check, Msg, Peers, Contexts
<1>13. d.ok = (c.ok /\ c.role = "leader" /\ c.s.state \in {"updating", "updating_previous"}
                /\ c.s.num_last > N \div 2 /\ c.s.new_value = NoValue)
  BY DEF Begin, Arm, Send, Check, Msg, Peers, Contexts
<1>14. d = [s |-> d.s, role |-> d.role, epoch |-> d.epoch, out |-> d.out, ok |-> d.ok]
  BY DEF Begin, Arm, Send, Check, Msg, Peers, Contexts
<1>15. d \in Contexts
  BY <1>4, <1>5, <1>11, <1>12, <1>13, <1>14 DEF Contexts
<1>16. d.ok <=> /\ c.ok /\ c.role = "leader" /\ c.s.state \in Updating
                /\ c.s.num_last > N \div 2 /\ c.s.new_value = NoValue
  BY <1>13 DEF Updating
<1>. QED BY <1>5, <1>6, <1>8, <1>10, <1>12, <1>15, <1>16 DEF BeginDoes

(* h is c but for what no session is about. *)
AlikeFields(s, t) ==
  /\ t.leader = s.leader
  /\ t.last_pn = s.last_pn /\ t.stored_pn = s.stored_pn /\ t.accepted_pn = s.accepted_pn
  /\ t.last_committed = s.last_committed /\ t.values = s.values
  /\ t.pending_v = s.pending_v /\ t.pending_pn = s.pending_pn
  /\ t.quorum = s.quorum /\ t.num_last = s.num_last
  /\ t.peer_last_committed = s.peer_last_committed
  /\ t.accepted = s.accepted /\ t.new_value = s.new_value

Alike(c, h) ==
  /\ h \in Contexts /\ h.ok /\ h.role = c.role /\ h.epoch = c.epoch /\ h.out = c.out
  /\ AlikeFields(c.s, h.s)

(* What holds of a leader that is done with recovery. *)
LEMMA LeaderFacts ==
  ASSUME NEW m \in Mon, NEW c \in Contexts, NEW T \in SUBSET Mon,
         Local(m, NodeOf(c, T)), c.role = "leader"
  PROVE  /\ c.s.leader = m
         /\ c.epoch % 2 = 0 /\ c.s.quorum \in Majorities /\ c.s.quorum \in SUBSET Mon /\ m \in c.s.quorum
         /\ c.s.accepted_pn = c.s.last_pn /\ c.s.last_pn % 100 = m /\ c.s.last_pn # 0
         /\ T \subseteq c.s.quorum /\ m \in T /\ c.s.num_last = Cardinality(T)
         /\ c.s.state # "recovering" => T = c.s.quorum /\ c.s.num_last > N \div 2
         /\ c.s.peer_last_committed[m] = -1
         /\ c.s.state \in Proposing \union {"recovering", "active"}
         /\ InRound(m, c.s) /\ Logged(c.s) /\ Numbers(m, c.s)
<1>1. PICK A : A = NodeOf(c, T)
  OBVIOUS
<1>2. A.role = c.role /\ A.s = c.s /\ A.T = T /\ A.epoch = c.epoch
  BY <1>1, NodeIs
<1>3. Local(m, A) /\ Leading(m, A)
  BY <1>1, <1>2 DEF Local
<1>4. c.s.leader = m /\ c.s.quorum \in Majorities /\ m \in c.s.quorum
      /\ c.s.accepted_pn = c.s.last_pn /\ c.s.last_pn % 100 = m /\ c.s.last_pn # 0
      /\ T \subseteq c.s.quorum /\ m \in T /\ c.s.num_last = Cardinality(T)
      /\ (c.s.state # "recovering" => T = c.s.quorum)
      /\ c.s.peer_last_committed[m] = -1
  BY <1>2, <1>3 DEF Leading
<1>5. c.s.quorum \in SUBSET Mon
  BY <1>4 DEF Majorities
<1>6. c.s.state # "recovering" => c.s.num_last > N \div 2
  <2>. SUFFICES ASSUME c.s.state # "recovering" PROVE c.s.num_last > N \div 2
    OBVIOUS
  <2>1. 2 * Cardinality(T) > N
    BY <1>4 DEF Majorities, Majority
  <2>2. c.s.num_last \in Nat
    BY DEF Contexts, LooseState
  <2>. QED BY <1>4, <2>1, <2>2, MonTypes
<1>. QED BY <1>2, <1>3, <1>4, <1>5, <1>6 DEF Local

LEMMA SoundPropose ==
  ASSUME NEW m \in Mon, NEW p, NEW c, NEW T, NEW W \in Worlds, NEW O \in Queues, NEW I \in Queues,
         NEW h, NEW d, NEW value \in Value,
         Sound(m, p, c, T, W, O, I), c.role = "leader", c.s.state = "active",
         Alike(c, h), h.s.state \in Updating, value # NoValue,
         d = Begin(h, m, value), d.s.pending_v <= MaxOp
  PROVE  Sound(m, p, d, T, W, O, I)
<1>1. c \in Contexts /\ h \in Contexts /\ T \in SUBSET Mon /\ c.s \in LooseState
  BY ContextTypes DEF Sound, Alike
<1>2. AlikeFields(c.s, h.s)
  BY DEF Alike
<1>3. PICK v : v = c.s.last_committed + 1
  OBVIOUS
<1>4. v \in Version /\ v = h.s.last_committed + 1
  <2>1. d.s.pending_v = h.s.last_committed + 1
    BY <1>1 DEF Begin, Arm, Send, Check, Msg, Peers, Contexts, LooseState
  <2>2. c.s.last_committed \in 0 .. MaxOp /\ MaxOp \in Nat
    BY <1>1, MonTypes DEF LooseState
  <2>. QED BY <1>2, <1>3, <2>1, <2>2 DEF AlikeFields, Version
<1>0. BeginDoes(h, m, value, v, d)
  BY <1>1, <1>4, BeginIs
<1>5. PICK x : x = [Msg(h, "begin") EXCEPT !.values[v] = value, !.pn = h.s.accepted_pn]
  OBVIOUS
<1>6. /\ d \in Contexts /\ d.role = h.role /\ d.epoch = h.epoch
      /\ Sends(h, d, h.s.quorum \ {m}, ToAll(x))
  BY <1>0, <1>5 DEF BeginDoes
<1>7. d.ok <=> /\ h.ok /\ h.role = "leader" /\ h.s.state \in Updating
               /\ h.s.num_last > N \div 2 /\ h.s.new_value = NoValue
  BY <1>0 DEF BeginDoes
<1>8. d.s = [h.s EXCEPT !.accepted = {m}, !.new_value = value, !.values[v] = value,
                        !.pending_v = v, !.pending_pn = h.s.accepted_pn,
                        !.timers["accept"] = @ + 1]
  BY <1>0 DEF BeginDoes
<1>9. /\ c.s.leader = m /\ c.epoch % 2 = 0 /\ c.s.quorum \in SUBSET Mon /\ c.s.quorum \in Majorities /\ m \in c.s.quorum
      /\ c.s.accepted_pn = c.s.last_pn /\ c.s.last_pn % 100 = m /\ c.s.last_pn # 0
      /\ m \in T /\ c.s.num_last = Cardinality(T)
      /\ T = c.s.quorum /\ c.s.num_last > N \div 2
      /\ c.s.peer_last_committed[m] = -1
      /\ InRound(m, c.s) /\ Logged(c.s) /\ Numbers(m, c.s)
  BY <1>1, LeaderFacts DEF Sound
<1>10. /\ d.s.leader = c.s.leader /\ d.s.last_pn = c.s.last_pn /\ d.s.stored_pn = c.s.stored_pn
       /\ d.s.accepted_pn = c.s.accepted_pn
       /\ d.s.last_committed = c.s.last_committed
       /\ d.s.values = [c.s.values EXCEPT ![v] = value]
       /\ d.s.pending_v = v /\ d.s.pending_pn = c.s.accepted_pn
       /\ d.s.quorum = c.s.quorum /\ d.s.num_last = c.s.num_last
       /\ d.s.peer_last_committed = c.s.peer_last_committed
       /\ d.s.accepted = {m} /\ d.s.new_value = value /\ d.s.state = h.s.state
  <2>1. h.s \in LooseState
    BY <1>1, ContextTypes
  <2>. QED BY <1>2, <1>8, <2>1 DEF AlikeFields, LooseState
<1>11. /\ c.s.values \in [Version -> Value] /\ c.s.last_committed \in Nat /\ c.s.accepted_pn \in Nat
       /\ v \in Nat
  BY <1>1, <1>3, MonTypes DEF LooseState
<1>12. d.ok
  BY <1>2, <1>7, <1>9 DEF Alike, AlikeFields, InRound, Proposing, Updating, InWriting
<1>13. Local(m, NodeOf(d, T))
  <2>1. PICK A : A = NodeOf(d, T)
    OBVIOUS
  <2>2. A.role = "leader" /\ A.s = d.s /\ A.T = T /\ A.epoch = c.epoch
    BY <1>1, <1>6, <2>1, NodeIs DEF Alike
  <2>3. Logged(d.s)
    <3>1. \A w \in Version : w <= d.s.last_committed => d.s.values[w] # NoValue
      BY <1>3, <1>9, <1>10, <1>11 DEF Logged
    <3>2. \A w \in Version : w > d.s.last_committed + 1 => d.s.values[w] = NoValue
      BY <1>3, <1>9, <1>10, <1>11 DEF Logged
    <3>. QED BY <1>3, <1>9, <1>10, <3>1, <3>2 DEF Logged
  <2>4. Numbers(m, d.s)
    BY <1>9, <1>10 DEF Numbers
  <2>5. Leading(m, A)
    BY <1>9, <1>10, <2>2 DEF Leading
  <2>6. InRound(m, d.s)
    <3>1. At(d.s.values, v) = value
      BY <1>4, <1>10, <1>11 DEF At
    <3>. QED BY <1>3, <1>9, <1>10, <3>1 DEF InRound, Proposing, Updating, InWriting
  <2>7. A.s.state \in Proposing
    BY <1>10, <2>2 DEF Proposing
  <2>8. Local(m, A)
    BY <1>9, <2>2, <2>3, <2>4, <2>5, <2>6, <2>7 DEF Local
  <2>. QED BY <2>1, <2>8
<1>14. Grown(p, d.s)
  <2>1. p.last_committed \in Nat /\ p.last_committed <= c.s.last_committed
        /\ \A w \in Version : w <= p.last_committed => c.s.values[w] = p.values[w]
    BY DEF Sound, Grown
  <2>2. \A w \in Version : w <= p.last_committed => d.s.values[w] = p.values[w]
    <3>. SUFFICES ASSUME NEW w \in Version, w <= p.last_committed PROVE d.s.values[w] = p.values[w]
      OBVIOUS
    <3>1. CASE w = v
      <4>1. c.s.values[w] = p.values[w]
        BY <2>1
      <4>. QED BY <1>3, <1>9, <1>10, <1>11, <2>1, <3>1, <4>1 DEF Logged
    <3>2. CASE w # v
      BY <1>10, <1>11, <2>1, <3>2
    <3>. QED BY <3>1, <3>2
  <2>. QED BY <1>10, <2>1, <2>2 DEF Grown
<1>15. /\ x \in LooseMessage /\ x.op = "begin" /\ x.epoch = c.epoch /\ x.pn = c.s.accepted_pn
       /\ x.last_committed = c.s.last_committed /\ x.values = [NoValues EXCEPT ![v] = value]
  <2>1. /\ Msg(h, "begin") \in LooseMessage /\ Msg(h, "begin").op = "begin"
        /\ Msg(h, "begin").epoch = h.epoch
        /\ Msg(h, "begin").last_committed = h.s.last_committed
        /\ Msg(h, "begin").values = NoValues
    BY <1>1, MsgIs
  <2>2. h.s.accepted_pn = c.s.accepted_pn /\ h.s.last_committed = c.s.last_committed
        /\ h.epoch = c.epoch
    BY <1>2 DEF AlikeFields, Alike
  <2>. QED BY <1>4, <1>5, <1>11, <2>1, <2>2 DEF LooseMessage
<1>16. At(x.values, x.last_committed + 1) = value /\ NoGap(x)
  <2>1. \A w \in Version : x.values[w] = IF w = v THEN value ELSE NoValue
    BY <1>15 DEF NoValues
  <2>. QED BY <1>3, <1>4, <1>11, <1>15, <2>1, MonTypes DEF At, NoGap
<1>17. ASSUME NEW j \in Mon \ {m}, NEW q, NEW q2,
              Pair(m, j, NodeOf(c, T), W[j], q, I[j]),
              Pushes(j, c.s.quorum \ {m}, q, q2, x, c.epoch, W[j])
       PROVE  Pair(m, j, NodeOf(d, T), W[j], q2, I[j])
  <2>1. PICK A : A = NodeOf(c, T)
    OBVIOUS
  <2>2. A \in Node /\ A.epoch = c.epoch /\ A.role = "leader" /\ A.s = c.s /\ A.T = T
    BY <1>1, <2>1, NodeIs
  <2>3. PICK A2 : A2 = NodeOf(d, T)
    OBVIOUS
  <2>4. A2 \in Node /\ A2.epoch = c.epoch /\ A2.role = "leader" /\ A2.s = d.s /\ A2.T = T
    BY <1>1, <1>6, <2>3, NodeIs DEF Alike
  <2>5. PICK B : B = W[j]
    OBVIOUS
  <2>6. B \in Node
    BY <2>5 DEF Worlds
  <2>7. Pair(m, j, A, B, q, I[j])
    BY <1>17, <2>1, <2>5
  <2>8. q \in Messages /\ I[j] \in Messages /\ Link(m, j, A, B, q, I[j])
    BY <2>7 DEF Pair
  <2>9. Pushes(j, A.s.quorum, q, q2, x, A.epoch, B) /\ Pushes(j, A.s.quorum, q, q2, x, A2.epoch, B)
    BY <1>17, <2>2, <2>4, <2>5 DEF Pushes
  <2>10. Link(m, j, A2, B, q2, I[j])
    <3>1. /\ A.T = A.s.quorum /\ A.s.state = "active" /\ A2.s.state \in Updating
          /\ A2.s.accepted = {m} /\ A2.s.quorum = A.s.quorum
          /\ A2.s.last_committed = A.s.last_committed
          /\ A2.s.accepted_pn = A.s.accepted_pn /\ A2.s.last_pn = A.s.last_pn
          /\ A2.s.peer_last_committed = A.s.peer_last_committed
      BY <1>9, <1>10, <2>2, <2>4
    <3>2. /\ x.op = "begin" /\ x.epoch = A.epoch /\ x.pn = A.s.accepted_pn
          /\ x.last_committed = A.s.last_committed /\ x \in LooseMessage
          /\ At(x.values, x.last_committed + 1) # NoValue
      BY <1>15, <1>16, <2>2
    <3>. QED BY <2>2, <2>4, <2>6, <2>8, <2>9, <3>1, <3>2, LinkPropose
  <2>11. StaysLeader(m, A, A2) /\ Fits(x, A2)
    <3>1. x.pn # 0
      BY <1>9, <1>15
    <3>. QED BY <1>10, <1>11, <1>15, <1>16, <2>2, <2>4, <3>1 DEF StaysLeader, Fits
  <2>12. x.op \in Downs /\ x \in LooseMessage
    BY <1>15 DEF Downs
  <2>13. Pair(m, j, A2, B, q2, I[j])
    BY <2>2, <2>4, <2>6, <2>7, <2>9, <2>10, <2>11, <2>12, PairSend
  <2>. QED BY <2>3, <2>5, <2>13
<1>18. /\ ToAll(x) \in [Mon -> LooseMessage] /\ \A j \in Mon : ToAll(x)[j] = x
  BY <1>15 DEF ToAll
<1>19. Sends(c, d, c.s.quorum \ {m}, ToAll(x)) /\ d.epoch = c.epoch
  BY <1>2, <1>6 DEF Sends, Alike, AlikeFields
<1>20. c.s.quorum \ {m} \in SUBSET (Mon \ {m})
  BY <1>9
<1>. QED BY <1>1, <1>6, <1>12, <1>13, <1>14, <1>15, <1>17, <1>18, <1>19, <1>20, SoundSend

-----------------------------------------------------------------------------
(* A leader hands out leases and finishes a round *)

LEMMA LocalAlike ==
  ASSUME NEW m \in Mon, NEW c \in Contexts, NEW g \in Contexts, NEW T \in SUBSET Mon,
         Local(m, NodeOf(c, T)), c.role = "leader", g.role = c.role, g.epoch = c.epoch,
         AlikeFields(c.s, g.s), g.s.state = c.s.state
  PROVE  Local(m, NodeOf(g, T)) /\ \A p : Grown(p, c.s) => Grown(p, g.s)
<1>1. PICK A : A = NodeOf(g, T)
  OBVIOUS
<1>2. A.role = "leader" /\ A.s = g.s /\ A.T = T /\ A.epoch = c.epoch
  BY <1>1, NodeIs
<1>3. /\ c.s.leader = m /\ c.epoch % 2 = 0 /\ c.s.quorum \in Majorities /\ m \in c.s.quorum
      /\ c.s.accepted_pn = c.s.last_pn /\ c.s.last_pn % 100 = m /\ c.s.last_pn # 0
      /\ T \subseteq c.s.quorum /\ m \in T /\ c.s.num_last = Cardinality(T)
      /\ (c.s.state # "recovering" => T = c.s.quorum)
      /\ c.s.peer_last_committed[m] = -1
      /\ c.s.state \in Proposing \union {"recovering", "active"}
      /\ InRound(m, c.s) /\ Logged(c.s) /\ Numbers(m, c.s)
  BY LeaderFacts
<1>4. Logged(g.s)
  BY <1>3 DEF Logged, AlikeFields
<1>5. Numbers(m, g.s) /\ InRound(m, g.s)
  BY <1>3 DEF Numbers, InRound, AlikeFields
<1>6. Leading(m, A)
  BY <1>2, <1>3 DEF Leading, AlikeFields
<1>7. Local(m, A)
  BY <1>2, <1>3, <1>4, <1>5, <1>6 DEF Local
<1>. QED BY <1>1, <1>7 DEF Grown, AlikeFields

(* A leader changes what no session is about. *)
LEMMA SoundSame ==
  ASSUME NEW m \in Mon, NEW p, NEW c, NEW T, NEW W \in Worlds, NEW O \in Queues, NEW I \in Queues,
         NEW g \in Contexts,
         Sound(m, p, c, T, W, O, I), c.role = "leader", g.ok, g.role = c.role, g.epoch = c.epoch,
         g.out = c.out, AlikeFields(c.s, g.s), g.s.state = c.s.state
  PROVE  Sound(m, p, g, T, W, O, I)
<1>1. c \in Contexts /\ T \in SUBSET Mon
  BY DEF Sound
<1>2. Local(m, NodeOf(g, T)) /\ Grown(p, g.s)
  BY <1>1, LocalAlike DEF Sound
<1>3. ASSUME NEW j \in Mon \ {m}, NEW q, Pair(m, j, NodeOf(c, T), W[j], q, I[j])
      PROVE  Pair(m, j, NodeOf(g, T), W[j], q, I[j])
  <2>1. PICK A : A = NodeOf(c, T)
    OBVIOUS
  <2>2. A \in Node /\ A.epoch = c.epoch /\ A.role = "leader" /\ A.s = c.s /\ A.T = T
    BY <1>1, <2>1, NodeIs
  <2>3. PICK A2 : A2 = NodeOf(g, T)
    OBVIOUS
  <2>4. A2 \in Node /\ A2.epoch = c.epoch /\ A2.role = "leader" /\ A2.s = g.s /\ A2.T = T
    BY <1>1, <2>3, NodeIs
  <2>5. PICK B : B = W[j]
    OBVIOUS
  <2>6. B \in Node
    BY <2>5 DEF Worlds
  <2>7. Pair(m, j, A, B, q, I[j])
    BY <1>3, <2>1, <2>5
  <2>8. Link(m, j, A, B, q, I[j])
    BY <2>7 DEF Pair
  <2>9. SameLeader(A, A2)
    BY <2>2, <2>4 DEF SameLeader, AlikeFields
  <2>10. Link(m, j, A2, B, q, I[j])
    BY <2>8, <2>9, LinkSameLeader
  <2>11. StaysLeader(m, A, A2)
    <3>1. c.s.last_committed \in Nat
      BY <2>2, NodeTypes
    <3>. QED BY <2>2, <2>4, <3>1 DEF StaysLeader, AlikeFields
  <2>12. Pair(m, j, A2, B, q, I[j])
    BY <2>2, <2>4, <2>6, <2>7, <2>10, <2>11, PairKeep
  <2>. QED BY <2>3, <2>5, <2>12
<1>. QED BY <1>1, <1>2, <1>3, SoundStep

LEMMA SoundLease ==
  ASSUME NEW m \in Mon, NEW p, NEW c, NEW T, NEW W \in Worlds, NEW O \in Queues, NEW I \in Queues,
         NEW g \in Contexts, NEW x \in LooseMessage,
         Sound(m, p, c, T, W, O, I), c.role = "leader", c.s.state = "active",
         g.ok, g.role = c.role, g.epoch = c.epoch,
         AlikeFields(c.s, g.s), g.s.state = "active",
         x.op = "lease", x.epoch = c.epoch, x.last_committed = c.s.last_committed, NoGap(x),
         Sends(c, g, c.s.quorum \ {m}, ToAll(x))
  PROVE  Sound(m, p, g, T, W, O, I)
<1>1. c \in Contexts /\ T \in SUBSET Mon
  BY DEF Sound
<1>2. Local(m, NodeOf(g, T)) /\ Grown(p, g.s)
  BY <1>1, LocalAlike DEF Sound
<1>3. T = c.s.quorum /\ c.s.quorum \in SUBSET Mon
  BY <1>1, LeaderFacts DEF Sound
<1>4. ASSUME NEW j \in Mon \ {m}, NEW q, NEW q2,
             Pair(m, j, NodeOf(c, T), W[j], q, I[j]),
             Pushes(j, c.s.quorum \ {m}, q, q2, x, c.epoch, W[j])
      PROVE  Pair(m, j, NodeOf(g, T), W[j], q2, I[j])
  <2>1. PICK A : A = NodeOf(c, T)
    OBVIOUS
  <2>2. A \in Node /\ A.epoch = c.epoch /\ A.role = "leader" /\ A.s = c.s /\ A.T = T
    BY <1>1, <2>1, NodeIs
  <2>3. PICK A2 : A2 = NodeOf(g, T)
    OBVIOUS
  <2>4. A2 \in Node /\ A2.epoch = c.epoch /\ A2.role = "leader" /\ A2.s = g.s /\ A2.T = T
    BY <1>1, <2>3, NodeIs
  <2>5. PICK B : B = W[j]
    OBVIOUS
  <2>6. B \in Node
    BY <2>5 DEF Worlds
  <2>7. Pair(m, j, A, B, q, I[j])
    BY <1>4, <2>1, <2>5
  <2>8. q \in Messages /\ I[j] \in Messages /\ Link(m, j, A, B, q, I[j])
    BY <2>7 DEF Pair
  <2>9. Pushes(j, A.s.quorum, q, q2, x, A.epoch, B) /\ Pushes(j, A.s.quorum, q, q2, x, A2.epoch, B)
    BY <1>4, <2>2, <2>4, <2>5 DEF Pushes
  <2>10. SameLeader(A, A2)
    BY <2>2, <2>4 DEF SameLeader, AlikeFields
  <2>11. Link(m, j, A, B, q2, I[j])
    BY <1>3, <2>2, <2>6, <2>8, <2>9, LinkExtend
  <2>12. Link(m, j, A2, B, q2, I[j])
    BY <2>10, <2>11, LinkSameLeader
  <2>13. StaysLeader(m, A, A2) /\ Fits(x, A2)
    <3>1. c.s.last_committed \in Nat
      BY <2>2, NodeTypes
    <3>. QED BY <2>2, <2>4, <3>1 DEF StaysLeader, AlikeFields, Fits
  <2>14. x.op \in Downs
    BY DEF Downs
  <2>15. Pair(m, j, A2, B, q2, I[j])
    BY <2>2, <2>4, <2>6, <2>7, <2>9, <2>12, <2>13, <2>14, PairSend
  <2>. QED BY <2>3, <2>5, <2>15
<1>5. /\ ToAll(x) \in [Mon -> LooseMessage] /\ \A j \in Mon : ToAll(x)[j] = x
  BY DEF ToAll
<1>6. c.s.quorum \ {m} \in SUBSET (Mon \ {m})
  BY <1>3
<1>7. \A j \in Mon \ {m} : \A q, q2 :
        /\ Pair(m, j, NodeOf(c, T), W[j], q, I[j])
        /\ Pushes(j, c.s.quorum \ {m}, q, q2, ToAll(x)[j], c.epoch, W[j])
        => Pair(m, j, NodeOf(g, T), W[j], q2, I[j])
  BY <1>4, <1>5
<1>8. \A j \in Mon : ToAll(x)[j].epoch = c.epoch
  BY <1>5
<1>. QED BY SMTT(60), <1>1, <1>2, <1>5, <1>6, <1>7, <1>8, SoundSend

(* Exactly the timers of S are armed, once. *)
Timers(s, S) == \A t \in Timer : s.timers[t] = IF t \in S THEN 1 ELSE 0

(* The timers that are armed, and the operations in a round, where there is one. *)
Timed(r, s) ==
  /\ r = "out" => Timers(s, {})
  /\ r = "peon" => Timers(s, {"lease"})
  /\ r = "leader" =>
       /\ s.state = "recovering" => Timers(s, {"collect"})
       /\ s.state \in Updating => Timers(s, {"accept"})
       /\ s.state \in InWriting => Timers(s, {})
       /\ s.state = "active" => Timers(s, {"lease_renew"}) \/ Timers(s, {"lease_renew", "lease_ack"})
       /\ s.state \notin Proposing => s.committing = NoValue

LeaseDoes(c, m, d) ==
  /\ d \in Contexts /\ d.role = c.role /\ d.epoch = c.epoch
  /\ d.ok <=> c.ok /\ c.role = "leader"
  /\ AlikeFields(c.s, d.s) /\ d.s.state = c.s.state
  /\ d.s.pending_proposal = c.s.pending_proposal /\ d.s.committing = c.s.committing
  /\ Timers(c.s, {}) \/ Timers(c.s, {"lease_ack"}) => Timers(d.s, {"lease_renew", "lease_ack"})
  /\ Sends(c, d, c.s.quorum \ {m}, ToAll(Msg(c, "lease")))

LEMMA LeaseIs ==
  ASSUME NEW c \in Contexts, NEW m \in Mon, NEW d, d = ExtendLease(c, m)
  PROVE  LeaseDoes(c, m, d)
<1>1. c.s \in LooseState /\ c.s.timers \in [Timer -> Nat]
  BY DEF Contexts, LooseState
<1>2. PICK s1 : s1 = [c.s EXCEPT !.lease = TRUE, !.acked_lease = {m}]
  OBVIOUS
<1>3. s1 \in LooseState /\ s1.timers = c.s.timers
  BY <1>1, <1>2 DEF LooseState
<1>4. PICK tm : tm = IF c.s.timers["lease_ack"] = 0
                     THEN [c.s.timers EXCEPT !["lease_ack"] = @ + 1] ELSE c.s.timers
  OBVIOUS
<1>5. tm \in [Timer -> Nat]
  BY <1>1, <1>4 DEF Timer
<1>6. PICK tm2 : tm2 = [tm EXCEPT !["lease_renew"] = @ + 1]
  OBVIOUS
<1>7. tm2 \in [Timer -> Nat]
  BY <1>5, <1>6 DEF Timer
<1>8. d.s = [s1 EXCEPT !.timers = tm2]
  <2>1. PICK e : e = Send([Check(c, c.role = "leader") EXCEPT
                             !.s = [c.s EXCEPT !.lease = TRUE, !.acked_lease = {m}]],
                          Peers(c, m), Msg(c, "lease"))
    OBVIOUS
  <2>2. e.s = s1 /\ e = [e EXCEPT !.s = s1]
        /\ e = [s |-> e.s, role |-> e.role, epoch |-> e.epoch, out |-> e.out, ok |-> e.ok]
    BY <1>2, <2>1 DEF Send, Check, Contexts
  <2>3. PICK f : f = IF e.s.timers["lease_ack"] = 0 THEN Arm(e, "lease_ack") ELSE e
    OBVIOUS
  <2>4. f.s = [s1 EXCEPT !.timers = tm]
        /\ f = [s |-> f.s, role |-> f.role, epoch |-> f.epoch, out |-> f.out, ok |-> f.ok]
    <3>1. CASE c.s.timers["lease_ack"] = 0
      BY <1>3, <1>4, <2>2, <2>3, <3>1 DEF Arm, LooseState
    <3>2. CASE c.s.timers["lease_ack"] # 0
      <4>1. f = e /\ tm = s1.timers
        BY <1>3, <1>4, <2>2, <2>3, <3>2
      <4>2. [s1 EXCEPT !.timers = tm] = s1
        BY <1>3, <4>1 DEF LooseState
      <4>. QED BY <2>2, <4>1, <4>2
    <3>. QED BY <3>1, <3>2
  <2>5. d = Arm(f, "lease_renew")
    BY <2>1, <2>3 DEF ExtendLease
  <2>6. d.s = [f.s EXCEPT !.timers["lease_renew"] = @ + 1]
    BY <2>4, <2>5 DEF Arm
  <2>. QED BY <1>3, <1>5, <1>6, <2>4, <2>6 DEF LooseState
<1>9. d.s \in LooseState /\ d.s.timers = tm2
  BY <1>3, <1>7, <1>8 DEF LooseState
<1>10. AlikeFields(c.s, d.s) /\ d.s.state = c.s.state
       /\ d.s.pending_proposal = c.s.pending_proposal /\ d.s.committing = c.s.committing
  BY <1>1, <1>2, <1>8 DEF LooseState, AlikeFields
<1>11. Timers(c.s, {}) \/ Timers(c.s, {"lease_ack"}) => Timers(d.s, {"lease_renew", "lease_ack"})
  BY <1>1, <1>4, <1>5, <1>6, <1>7, <1>9 DEF Timers, Timer
<1>12. PICK x : x = Msg(c, "lease")
  OBVIOUS
<1>13. d.out = [j \in Mon |-> IF j \in c.s.quorum \ {m} THEN Append(c.out[j], x) ELSE c.out[j]]
  BY <1>12 DEF ExtendLease, Arm, Send, Check, Peers, Contexts
<1>14. Sends(c, d, c.s.quorum \ {m}, ToAll(x))
  BY <1>13 DEF Sends, ToAll
<1>15. d.out \in [Mon -> Messages]
  <2>1. \A j \in Mon : c.out[j] \in Seq(LooseMessage)
    BY DEF Contexts, Messages
  <2>2. x \in LooseMessage
    BY <1>12, MsgIs
  <2>3. \A j \in Mon : Append(c.out[j], x) \in Seq(LooseMessage)
    BY <2>1, <2>2, AppendProperties
  <2>. QED BY <1>13, <2>1, <2>3 DEF Messages
<1>16. d.role = c.role /\ d.epoch = c.epoch /\ d.ok = (c.ok /\ c.role = "leader")
  BY DEF ExtendLease, Arm, Send, Check, Peers, Contexts
<1>17. d = [s |-> d.s, role |-> d.role, epoch |-> d.epoch, out |-> d.out, ok |-> d.ok]
  BY DEF ExtendLease, Arm, Send, Check, Peers, Contexts
<1>18. d \in Contexts
  BY <1>9, <1>15, <1>16, <1>17 DEF Contexts
<1>. QED BY <1>10, <1>11, <1>12, <1>14, <1>16, <1>18 DEF LeaseDoes

(* d is c with other timers. *)
ButTimers(s, t) ==
  /\ t.last_pn = s.last_pn /\ t.stored_pn = s.stored_pn /\ t.last_committed = s.last_committed
  /\ t.values = s.values /\ t.pending_v = s.pending_v /\ t.pending_pn = s.pending_pn
  /\ t.state = s.state /\ t.accepted_pn = s.accepted_pn /\ t.leader = s.leader
  /\ t.quorum = s.quorum /\ t.uncommitted_v = s.uncommitted_v
  /\ t.uncommitted_pn = s.uncommitted_pn /\ t.uncommitted_value = s.uncommitted_value
  /\ t.num_last = s.num_last /\ t.peer_last_committed = s.peer_last_committed
  /\ t.accepted = s.accepted /\ t.new_value = s.new_value
  /\ t.pending_proposal = s.pending_proposal /\ t.committing = s.committing
  /\ t.lease = s.lease /\ t.acked_lease = s.acked_lease

OnlyTimers(c, d) ==
  /\ d \in Contexts /\ d.ok = c.ok /\ d.role = c.role /\ d.epoch = c.epoch /\ d.out = c.out
  /\ ButTimers(c.s, d.s)

LEMMA NewTimers ==
  ASSUME NEW c \in Contexts, NEW tm \in [Timer -> Nat], NEW d,
         d = [c EXCEPT !.s = [c.s EXCEPT !.timers = tm]]
  PROVE  OnlyTimers(c, d) /\ d.s.timers = tm
<1>1. c.s \in LooseState
  BY ContextTypes
<1>2. PICK s1 : s1 = [c.s EXCEPT !.timers = tm]
  OBVIOUS
<1>3. s1 \in LooseState /\ s1.timers = tm
  BY <1>1, <1>2 DEF LooseState
<1>4. d.s = s1 /\ d.ok = c.ok /\ d.role = c.role /\ d.epoch = c.epoch /\ d.out = c.out
  BY <1>2 DEF Contexts
<1>5. d \in Contexts
  BY <1>2, <1>3 DEF Contexts
<1>6. ButTimers(c.s, s1)
  BY <1>1, <1>2 DEF ButTimers, LooseState
<1>. QED BY <1>3, <1>4, <1>5, <1>6 DEF OnlyTimers

LEMMA CancelledIs ==
  ASSUME NEW n \in Nat
  PROVE  Cancelled(n) \in Nat /\ (n \in {0, 1} => Cancelled(n) = 0)
  BY DEF Cancelled

LEMMA CancelIs ==
  ASSUME NEW c \in Contexts, NEW t \in Timer, NEW d, d = Cancel(c, t)
  PROVE  OnlyTimers(c, d) /\ \A S \in SUBSET Timer : Timers(c.s, S) => Timers(d.s, S \ {t})
<1>1. c.s.timers \in [Timer -> Nat]
  BY DEF Contexts, LooseState
<1>2. PICK tm : tm = [c.s.timers EXCEPT ![t] = Cancelled(@)]
  OBVIOUS
<1>3. tm \in [Timer -> Nat]
  BY <1>1, <1>2, CancelledIs
<1>4. d = [c EXCEPT !.s = [c.s EXCEPT !.timers = tm]]
  BY <1>2 DEF Cancel, Contexts, LooseState
<1>5. OnlyTimers(c, d) /\ d.s.timers = tm
  BY <1>3, <1>4, NewTimers
<1>6. ASSUME NEW S \in SUBSET Timer, Timers(c.s, S) PROVE Timers(d.s, S \ {t})
  <2>1. Cancelled(c.s.timers[t]) = 0
    BY <1>1, <1>6, CancelledIs DEF Timers
  <2>. QED BY <1>1, <1>2, <1>5, <1>6, <2>1 DEF Timers
<1>. QED BY <1>5, <1>6

LEMMA CancelEventsIs ==
  ASSUME NEW c \in Contexts, NEW d, d = CancelEvents(c)
  PROVE  OnlyTimers(c, d) /\ \A S \in SUBSET Timer : Timers(c.s, S) => Timers(d.s, {})
<1>1. c.s.timers \in [Timer -> Nat]
  BY DEF Contexts, LooseState
<1>2. PICK tm : tm = [t \in Timer |-> Cancelled(c.s.timers[t])]
  OBVIOUS
<1>3. tm \in [Timer -> Nat]
  BY <1>1, <1>2, CancelledIs
<1>4. d = [c EXCEPT !.s = [c.s EXCEPT !.timers = tm]]
  BY <1>2 DEF CancelEvents, Contexts, LooseState
<1>5. OnlyTimers(c, d) /\ d.s.timers = tm
  BY <1>3, <1>4, NewTimers
<1>6. ASSUME NEW S \in SUBSET Timer, Timers(c.s, S) PROVE Timers(d.s, {})
  <2>1. \A t \in Timer : Cancelled(c.s.timers[t]) = 0
    BY <1>1, <1>6, CancelledIs DEF Timers
  <2>. QED BY <1>2, <1>5, <2>1 DEF Timers
<1>. QED BY <1>5, <1>6

LEMMA CheckIs ==
  ASSUME NEW c \in Contexts, NEW P \in BOOLEAN, NEW d, d = Check(c, P)
  PROVE  /\ d \in Contexts /\ d.s = c.s /\ d.role = c.role /\ d.epoch = c.epoch /\ d.out = c.out
         /\ d.ok = (c.ok /\ P)
         /\ P => d = c
<1>1. d \in Contexts /\ d.s = c.s /\ d.role = c.role /\ d.epoch = c.epoch /\ d.out = c.out
      /\ d.ok = (c.ok /\ P)
  BY DEF Check, Contexts
<1>2. ASSUME P PROVE d = c
  <2>1. (c.ok /\ P) = c.ok
    BY <1>2 DEF Contexts
  <2>. QED BY <2>1 DEF Check, Contexts
<1>. QED BY <1>1, <1>2

LEMMA BeginVersion ==
  ASSUME NEW c \in Contexts, NEW m \in Mon, NEW value \in Value, NEW d,
         d = Begin(c, m, value), d.s.pending_v <= MaxOp
  PROVE  c.s.last_committed + 1 \in Version
<1>1. d.s.pending_v = c.s.last_committed + 1
  BY DEF Begin, Arm, Send, Check, Msg, Peers, Contexts, LooseState
<1>2. c.s.last_committed \in 0 .. MaxOp /\ MaxOp \in Nat
  BY MonTypes DEF Contexts, LooseState
<1>. QED BY <1>1, <1>2 DEF Version

BeginKept(c, d) ==
  /\ d.s.state = c.s.state /\ d.s.committing = c.s.committing
  /\ d.s.pending_proposal = c.s.pending_proposal
  /\ d.role = c.role /\ d.epoch = c.epoch
  /\ Timers(c.s, {}) => Timers(d.s, {"accept"})

LEMMA BeginKeeps ==
  ASSUME NEW c \in Contexts, NEW m \in Mon, NEW value \in Value, NEW d,
         d = Begin(c, m, value), d.s.pending_v <= MaxOp
  PROVE  BeginKept(c, d)
<1>0. c.s.last_committed + 1 \in Version
  BY BeginVersion
<1>. BeginDoes(c, m, value, c.s.last_committed + 1, d)
  BY <1>0, BeginIs
<1>1. c.s \in LooseState /\ c.s.timers \in [Timer -> Nat]
  BY DEF Contexts, LooseState
<1>2. /\ d.s.state = c.s.state /\ d.s.committing = c.s.committing
      /\ d.s.pending_proposal = c.s.pending_proposal
      /\ d.s.timers = [c.s.timers EXCEPT !["accept"] = @ + 1]
  BY <1>1 DEF BeginDoes, LooseState
<1>3. Timers(c.s, {}) => Timers(d.s, {"accept"})
  BY <1>1, <1>2 DEF Timers, Timer
<1>. QED BY <1>2, <1>3 DEF BeginDoes, BeginKept

LEMMA SoundProposePending ==
  ASSUME NEW m \in Mon, NEW p, NEW c, NEW T, NEW W \in Worlds, NEW O \in Queues, NEW I \in Queues,
         NEW d,
         Sound(m, p, c, T, W, O, I), c.role = "leader", c.s.state = "active",
         Timed(c.role, c.s), c.s.pending_proposal # NoValue,
         d = ProposePending(c, m), d.s.pending_v <= MaxOp
  PROVE  /\ Sound(m, p, d, T, W, O, I) /\ Timed(d.role, d.s)
         /\ d.role = c.role /\ d.epoch = c.epoch
         /\ d.s.committing = c.s.pending_proposal
<1>1. c \in Contexts /\ c.s \in LooseState /\ c.s.pending_proposal \in Value
  BY ContextTypes DEF Sound, LooseState
<1>2. PICK c1 : c1 = Check(c, c.s.state = "active" /\ c.s.pending_proposal # NoValue)
  OBVIOUS
<1>3. c1 = c
  BY <1>1, <1>2, CheckIs
<1>4. PICK c2 : c2 = CancelEvents(c)
  OBVIOUS
<1>5. OnlyTimers(c, c2) /\ Timers(c2.s, {})
  <2>1. \E S \in SUBSET Timer : Timers(c.s, S)
    <3>1. {"lease_renew"} \in SUBSET Timer /\ {"lease_renew", "lease_ack"} \in SUBSET Timer
      BY DEF Timer
    <3>. QED BY <3>1 DEF Timed
  <2>. QED BY <1>1, <1>4, <2>1, CancelEventsIs
<1>6. c2 \in Contexts /\ c2.s \in LooseState /\ c2.ok /\ c2.role = c.role /\ c2.epoch = c.epoch /\ c2.out = c.out
  BY <1>5, ContextTypes DEF OnlyTimers, Sound
<1>7. PICK h : h = [c2 EXCEPT !.s = [c2.s EXCEPT !.committing = c2.s.pending_proposal,
                                                !.pending_proposal = NoValue,
                                                !.state = "updating"]]
  OBVIOUS
<1>8. PICK s1 : s1 = [c2.s EXCEPT !.committing = c2.s.pending_proposal,
                                  !.pending_proposal = NoValue, !.state = "updating"]
  OBVIOUS
<1>9. s1 \in LooseState /\ s1.state = "updating" /\ s1.timers = c2.s.timers
      /\ s1.committing = c2.s.pending_proposal
  BY <1>6, <1>8 DEF LooseState, State, Value, NoValue
<1>10. AlikeFields(c2.s, s1)
  BY <1>6, <1>8 DEF LooseState, AlikeFields
<1>11. h \in Contexts /\ h.s = s1 /\ h.ok /\ h.role = c.role /\ h.epoch = c.epoch /\ h.out = c.out
  BY <1>6, <1>7, <1>8, <1>9 DEF Contexts
<1>12. Alike(c, h) /\ h.s.state \in Updating /\ h.s.committing = c.s.pending_proposal
       /\ Timers(h.s, {})
  BY <1>5, <1>9, <1>10, <1>11 DEF Alike, AlikeFields, OnlyTimers, ButTimers, Updating, Timers
<1>13. d = Begin(h, m, c.s.pending_proposal)
  BY <1>2, <1>3, <1>4, <1>7 DEF ProposePending
<1>14. Sound(m, p, d, T, W, O, I)
  BY <1>1, <1>12, <1>13, SoundPropose
<1>15. d.s.state = h.s.state /\ d.s.committing = h.s.committing /\ d.role = h.role /\ d.epoch = h.epoch
       /\ Timers(d.s, {"accept"})
  <2>1. h \in Contexts
    BY <1>11
  <2>2. BeginKept(h, d)
    BY <1>1, <1>13, <2>1, BeginKeeps
  <2>. QED BY <1>12, <2>2 DEF BeginKept
<1>17. Timed(d.role, d.s)
  BY <1>9, <1>11, <1>15 DEF Timed, Proposing, Updating, InWriting
<1>. QED BY <1>11, <1>12, <1>14, <1>15, <1>17

LEMMA SoundFinish ==
  ASSUME NEW m \in Mon, NEW p, NEW c, NEW T, NEW W \in Worlds, NEW O \in Queues, NEW I \in Queues,
         NEW h, NEW d,
         Sound(m, p, c, T, W, O, I), c.role = "leader", c.s.state = "active",
         Alike(c, h), Timers(h.s, {}) \/ Timers(h.s, {"lease_ack"}), h.s.committing = NoValue,
         d = FinishRound(ExtendLease(h, m), m), d.s.pending_v <= MaxOp
  PROVE  /\ Sound(m, p, d, T, W, O, I) /\ Timed(d.role, d.s)
         /\ d.role = c.role /\ d.epoch = c.epoch
         /\ h.s.pending_proposal \subseteq d.s.pending_proposal \union d.s.committing
<1>1. c \in Contexts /\ h \in Contexts /\ h.role = "leader" /\ h.epoch = c.epoch
      /\ AlikeFields(c.s, h.s) /\ h.ok /\ h.out = c.out
  BY DEF Alike, Sound
<1>2. PICK e : e = ExtendLease(h, m)
  OBVIOUS
<1>3. LeaseDoes(h, m, e)
  BY <1>1, <1>2, LeaseIs
<1>4. e \in Contexts /\ e.role = "leader" /\ e.epoch = c.epoch /\ e.ok
      /\ AlikeFields(h.s, e.s) /\ e.s.pending_proposal = h.s.pending_proposal
      /\ e.s.committing = h.s.committing /\ Timers(e.s, {"lease_renew", "lease_ack"})
      /\ Sends(h, e, h.s.quorum \ {m}, ToAll(Msg(h, "lease")))
  BY <1>1, <1>3 DEF LeaseDoes
<1>5. PICK g : g = [Check(e, e.role = "leader") EXCEPT !.s.state = "active"]
  OBVIOUS
<1>6. Check(e, e.role = "leader") = e
  BY <1>4, CheckIs
<1>7. PICK s1 : s1 = [e.s EXCEPT !.state = "active"]
  OBVIOUS
<1>8. s1 \in LooseState /\ AlikeFields(e.s, s1) /\ s1.state = "active" /\ s1.timers = e.s.timers
      /\ s1.pending_proposal = e.s.pending_proposal /\ s1.committing = e.s.committing
  <2>1. e.s \in LooseState
    BY <1>4, ContextTypes
  <2>. QED BY <1>7, <2>1 DEF LooseState, State, AlikeFields
<1>9. g \in Contexts /\ g.s = s1 /\ g.ok /\ g.role = "leader" /\ g.epoch = c.epoch /\ g.out = e.out
  BY <1>4, <1>5, <1>6, <1>7, <1>8 DEF Contexts
<1>10. AlikeFields(c.s, g.s) /\ g.s.state = "active"
  BY <1>1, <1>4, <1>8, <1>9 DEF AlikeFields
<1>11. PICK x : x = Msg(h, "lease")
  OBVIOUS
<1>12. x \in LooseMessage /\ x.op = "lease" /\ x.epoch = c.epoch
       /\ x.last_committed = c.s.last_committed /\ NoGap(x)
  <2>1. /\ Msg(h, "lease") \in LooseMessage
        /\ Msg(h, "lease").op = "lease" /\ Msg(h, "lease").epoch = h.epoch
        /\ Msg(h, "lease").last_committed = h.s.last_committed
        /\ NoGap(Msg(h, "lease"))
    BY <1>1, MsgIs
  <2>. QED BY <1>1, <1>11, <2>1 DEF AlikeFields
<1>13. Sends(c, g, c.s.quorum \ {m}, ToAll(x))
  BY <1>1, <1>4, <1>9, <1>11 DEF Sends, AlikeFields
<1>14. Sound(m, p, g, T, W, O, I)
  BY <1>9, <1>10, <1>12, <1>13, SoundLease
<1>15. Timers(g.s, {"lease_renew", "lease_ack"}) /\ g.s.committing = NoValue
       /\ g.s.pending_proposal = h.s.pending_proposal
  BY <1>4, <1>8, <1>9 DEF Timers
<1>16. Timed(g.role, g.s)
  BY <1>9, <1>10, <1>15 DEF Timed, Proposing, Updating, InWriting
<1>17. d = IF g.s.pending_proposal # NoValue THEN ProposePending(g, m) ELSE g
  BY <1>2, <1>5 DEF FinishRound
<1>18. CASE g.s.pending_proposal # NoValue
  BY <1>9, <1>10, <1>14, <1>15, <1>16, <1>17, <1>18, SoundProposePending
<1>19. CASE g.s.pending_proposal = NoValue
  BY <1>9, <1>14, <1>15, <1>16, <1>17, <1>19
<1>. QED BY <1>18, <1>19

-----------------------------------------------------------------------------
(* store_state() *)

(* All that store_state() may change is the log and what was learnt about the
   version after it. *)
ButLog(s, t) ==
  /\ t.last_pn = s.last_pn /\ t.stored_pn = s.stored_pn
  /\ t.pending_v = s.pending_v /\ t.pending_pn = s.pending_pn
  /\ t.state = s.state /\ t.accepted_pn = s.accepted_pn /\ t.leader = s.leader
  /\ t.quorum = s.quorum
  /\ t.num_last = s.num_last /\ t.peer_last_committed = s.peer_last_committed
  /\ t.accepted = s.accepted /\ t.new_value = s.new_value
  /\ t.pending_proposal = s.pending_proposal /\ t.committing = s.committing
  /\ t.lease = s.lease /\ t.acked_lease = s.acked_lease /\ t.timers = s.timers

(* What was found is forgotten if it is known by now. *)
Outdates(s, t) ==
  \/ /\ s.uncommitted_v # 0 /\ s.uncommitted_v <= t.last_committed
     /\ t.uncommitted_v = 0 /\ t.uncommitted_pn = 0 /\ t.uncommitted_value = NoValue
  \/ /\ s.uncommitted_v = 0 \/ s.uncommitted_v > t.last_committed \/ t.last_committed = s.last_committed
     /\ t.uncommitted_v = s.uncommitted_v /\ t.uncommitted_pn = s.uncommitted_pn
     /\ t.uncommitted_value = s.uncommitted_value

StoreDoes(c, msg, d) ==
  /\ d \in Contexts /\ d.ok = c.ok /\ d.role = c.role /\ d.epoch = c.epoch /\ d.out = c.out
  /\ ButLog(c.s, d.s) /\ Outdates(c.s, d.s)
  /\ c.s.last_committed <= d.s.last_committed
  /\ Learns(c.s.last_committed, d.s.last_committed, msg)
  /\ \A v \in Version :
       d.s.values[v] = IF v > c.s.last_committed /\ v <= d.s.last_committed
                       THEN msg.values[v] ELSE c.s.values[v]
  /\ \A v \in Version : v > c.s.last_committed /\ v <= d.s.last_committed => msg.values[v] # NoValue

LEMMA StoreIs ==
  ASSUME NEW c \in Contexts, NEW msg \in LooseMessage, NEW d, NoGap(msg), d = StoreState(c, msg)
  PROVE  StoreDoes(c, msg, d)
<1>1. c.s \in LooseState /\ c.s.last_committed \in 0 .. MaxOp /\ MaxOp \in Nat
      /\ c.s.values \in [Version -> Value] /\ msg.values \in [Version -> Value]
      /\ msg.last_committed \in 0 .. MaxOp
  BY MonTypes DEF Contexts, LooseState, LooseMessage
<1>2. PICK b : b = c.s.last_committed
  OBVIOUS
<1>3. PICK given : given = {v \in Version : msg.values[v] # NoValue}
  OBVIOUS
<1>4. PICK new : new = {v \in given : v > b /\ v <= msg.last_committed}
  OBVIOUS
<1>5. PICK future : future = (\A v \in given : v > b + 1)
  OBVIOUS
<1>6. CASE future \/ new = {}
  <2>1. d = c
    BY <1>2, <1>3, <1>4, <1>5, <1>6 DEF StoreState
  <2>2. ~(b < msg.last_committed /\ \A v \in b + 1 .. msg.last_committed : msg.values[v] # NoValue)
    <3>. SUFFICES ASSUME b < msg.last_committed,
                         \A v \in b + 1 .. msg.last_committed : msg.values[v] # NoValue
                  PROVE  FALSE
      OBVIOUS
    <3>1. b + 1 \in Version /\ b + 1 \in b + 1 .. msg.last_committed
      BY <1>1, <1>2 DEF Version
    <3>2. b + 1 \in given
      BY <1>3, <3>1
    <3>3. b + 1 \in new
      BY <1>1, <1>2, <1>4, <3>1, <3>2
    <3>. QED BY <1>1, <1>2, <1>5, <1>6, <3>2, <3>3
  <2>3. Learns(b, b, msg)
    BY <2>2 DEF Learns
  <2>4. ButLog(c.s, c.s) /\ Outdates(c.s, c.s)
    BY DEF ButLog, Outdates
  <2>5. ButLog(c.s, d.s) /\ Outdates(c.s, d.s) /\ d.s = c.s
    BY <2>1, <2>4
  <2>. QED BY <1>1, <1>2, <2>1, <2>3, <2>5, MonTypes DEF StoreDoes
<1>7. CASE ~future /\ new # {}
  <2>1. PICK v0 \in given : ~(v0 > b + 1)
    BY <1>5, <1>7
  <2>2. v0 \in Version /\ v0 \in Nat /\ msg.values[v0] # NoValue /\ v0 <= b + 1
    <3>1. v0 \in Version /\ msg.values[v0] # NoValue
      BY <1>3, <2>1
    <3>2. v0 \in Nat /\ b \in Nat
      BY <1>1, <1>2, <3>1, MonTypes
    <3>. QED BY <2>1, <3>1, <3>2
  <2>3. PICK w0 : w0 \in new
    BY <1>7
  <2>4. w0 \in Nat /\ w0 > b /\ w0 <= msg.last_committed
    BY <1>3, <1>4, <2>3, MonTypes
  <2>5. new = b + 1 .. msg.last_committed
    <3>1. ASSUME NEW v \in b + 1 .. msg.last_committed PROVE v \in new
      <4>1. v \in Version /\ v > b /\ v <= msg.last_committed
        BY <1>1, <1>2, <3>1 DEF Version
      <4>2. msg.values[v] # NoValue
        BY <1>1, <1>2, <2>2, <4>1 DEF NoGap
      <4>. QED BY <1>3, <1>4, <4>1, <4>2
    <3>2. ASSUME NEW v \in new PROVE v \in b + 1 .. msg.last_committed
      BY <1>1, <1>2, <1>3, <1>4, <3>2, MonTypes
    <3>. QED BY <3>1, <3>2
  <2>6. PICK lc : lc = CHOOSE v \in new : \A w \in new : w <= v
    OBVIOUS
  <2>7. lc = msg.last_committed
    <3>1. msg.last_committed \in new /\ \A w \in new : w <= msg.last_committed
      BY <1>1, <1>2, <2>4, <2>5
    <3>2. lc \in new /\ \A w \in new : w <= lc
      BY <2>6, <3>1
    <3>. QED BY <1>1, <1>2, <2>5, <3>1, <3>2
  <2>8. PICK vals : vals = [v \in Version |-> IF v \in new THEN msg.values[v] ELSE c.s.values[v]]
    OBVIOUS
  <2>9. vals \in [Version -> Value]
    BY <1>1, <2>8
  <2>10. PICK stale : stale = (c.s.uncommitted_v # 0 /\ c.s.uncommitted_v <= lc)
    OBVIOUS
  <2>11. PICK s1 : s1 = [c.s EXCEPT
             !.last_committed = lc, !.values = vals,
             !.uncommitted_v = IF stale THEN 0 ELSE @,
             !.uncommitted_pn = IF stale THEN 0 ELSE @,
             !.uncommitted_value = IF stale THEN NoValue ELSE @]
    OBVIOUS
  <2>12. d = [c EXCEPT !.s = s1]
    <3>1. [v \in Version |-> IF v \in new THEN msg.values[v] ELSE c.s.values[v]] = vals
      BY <2>8
    <3>. QED BY <1>2, <1>3, <1>4, <1>5, <1>7, <2>6, <2>10, <2>11, <3>1 DEF StoreState
  <2>13. s1 \in LooseState
    <3>1. NoValue \in Value
      BY DEF NoValue, Value
    <3>2. (IF stale THEN 0 ELSE c.s.uncommitted_v) \in Nat
          /\ (IF stale THEN 0 ELSE c.s.uncommitted_pn) \in Nat
          /\ (IF stale THEN NoValue ELSE c.s.uncommitted_value) \in Value
      BY <1>1, <3>1 DEF LooseState
    <3>. QED BY ZenonT(60), <1>1, <2>7, <2>9, <2>11, <3>2 DEF LooseState
  <2>14. s1.last_committed = msg.last_committed /\ s1.values = vals /\ ButLog(c.s, s1)
    BY <1>1, <2>7, <2>11 DEF LooseState, ButLog
  <2>15. d \in Contexts /\ d.s = s1 /\ d.ok = c.ok /\ d.role = c.role /\ d.epoch = c.epoch /\ d.out = c.out
    BY <2>12, <2>13 DEF Contexts
  <2>16. Learns(b, msg.last_committed, msg)
    BY <1>1, <1>2, <2>4 DEF Learns
  <2>17. \A v \in Version : v \in new <=> v > b /\ v <= msg.last_committed
    <3>1. \A v \in Version : v \in Nat
      BY MonTypes
    <3>2. b \in Nat /\ msg.last_committed \in Nat
      BY <1>1, <1>2
    <3>. QED BY <2>5, <3>1, <3>2
  <2>18. \A v \in Version : v > b /\ v <= msg.last_committed => msg.values[v] # NoValue
    BY <1>3, <1>4, <2>17
  <2>19. \A v \in Version : s1.values[v] = IF v > b /\ v <= msg.last_committed
                                           THEN msg.values[v] ELSE c.s.values[v]
    BY <2>8, <2>14, <2>17
  <2>20. b <= msg.last_committed
    BY <1>1, <1>2, <2>4
  <2>21. Outdates(c.s, s1)
    <3>1. /\ s1.uncommitted_v = IF stale THEN 0 ELSE c.s.uncommitted_v
          /\ s1.uncommitted_pn = IF stale THEN 0 ELSE c.s.uncommitted_pn
          /\ s1.uncommitted_value = IF stale THEN NoValue ELSE c.s.uncommitted_value
      BY <1>1, <2>11 DEF LooseState
    <3>2. c.s.uncommitted_v \in Nat /\ lc \in Nat /\ s1.last_committed = lc
      BY <1>1, <2>7, <2>14 DEF LooseState
    <3>3. CASE stale
      <4>1. s1.uncommitted_v = 0 /\ s1.uncommitted_pn = 0 /\ s1.uncommitted_value = NoValue
        BY <3>1, <3>3
      <4>. QED BY <2>10, <3>2, <3>3, <4>1 DEF Outdates
    <3>4. CASE ~stale
      <4>1. /\ s1.uncommitted_v = c.s.uncommitted_v /\ s1.uncommitted_pn = c.s.uncommitted_pn
            /\ s1.uncommitted_value = c.s.uncommitted_value
        BY <3>1, <3>4
      <4>2. ~(c.s.uncommitted_v # 0 /\ c.s.uncommitted_v <= lc)
        BY <2>10, <3>4
      <4>3. c.s.uncommitted_v = 0 \/ c.s.uncommitted_v > s1.last_committed
        BY <3>2, <4>2
      <4>. QED BY <4>1, <4>3 DEF Outdates
    <3>. QED BY <3>3, <3>4
  <2>. QED BY <1>2, <2>14, <2>15, <2>16, <2>18, <2>19, <2>20, <2>21 DEF StoreDoes
<1>. QED BY <1>6, <1>7

LEMMA StoreKeepsLog ==
  ASSUME NEW c \in Contexts, NEW msg, NEW d, StoreDoes(c, msg, d), Logged(c.s)
  PROVE  Logged(d.s) /\ \A p : Grown(p, c.s) => Grown(p, d.s)
<1>1. /\ c.s.last_committed \in Nat /\ d.s.last_committed \in Nat
      /\ c.s.last_committed <= d.s.last_committed
      /\ c.s.last_committed \in 0 .. MaxOp /\ d.s.last_committed \in 0 .. MaxOp /\ MaxOp \in Nat
  BY MonTypes DEF StoreDoes, Contexts, LooseState
<1>2. \A v \in Version : v \in Nat
  BY MonTypes
<1>3. \A v \in Version : v <= d.s.last_committed => d.s.values[v] # NoValue
  BY <1>1, <1>2 DEF StoreDoes, Logged
<1>4. \A v \in Version : v > d.s.last_committed + 1 => d.s.values[v] = NoValue
  BY <1>1, <1>2 DEF StoreDoes, Logged
<1>5. At(d.s.values, d.s.last_committed + 1) # NoValue =>
        d.s.pending_v = d.s.last_committed + 1 /\ d.s.pending_pn # 0
  <2>1. CASE d.s.last_committed = c.s.last_committed
    <3>1. At(d.s.values, d.s.last_committed + 1) = At(c.s.values, c.s.last_committed + 1)
      BY <1>1, <1>2, <2>1 DEF StoreDoes, At
    <3>. QED BY <2>1, <3>1 DEF Logged, StoreDoes, ButLog
  <2>2. CASE d.s.last_committed > c.s.last_committed
    <3>1. At(d.s.values, d.s.last_committed + 1) = NoValue
      BY <1>1, <1>2, <2>2 DEF StoreDoes, Logged, At
    <3>. QED BY <3>1
  <2>. QED BY <1>1, <2>1, <2>2
<1>6. \A p : Grown(p, c.s) => Grown(p, d.s)
  BY <1>1, <1>2 DEF Grown, StoreDoes
<1>. QED BY <1>3, <1>4, <1>5, <1>6 DEF Logged

-----------------------------------------------------------------------------
(* A leader hears an answer to its collect *)

Behind(s) == {j \in Mon : s.peer_last_committed[j] >= 0 /\ s.peer_last_committed[j] < s.last_committed}

Catchup(c) ==
  [j \in Mon |-> [Msg(c, "commit") EXCEPT
                    !.values = Share(c.s, c.s.peer_last_committed[j] + 1, c.s.last_committed)]]

LEMMA CatchupIs ==
  ASSUME NEW c \in Contexts, NEW j \in Mon, NEW x, x = Catchup(c)[j], Logged(c.s)
  PROVE  /\ x \in LooseMessage /\ x.op = "commit" /\ x.epoch = c.epoch
         /\ x.last_committed = c.s.last_committed /\ NoGap(x)
         /\ c.s.peer_last_committed[j] >= 0 =>
              \A v \in c.s.peer_last_committed[j] + 1 .. c.s.last_committed : x.values[v] # NoValue
<1>1. c.s.values \in [Version -> Value] /\ c.s.last_committed \in 0 .. MaxOp /\ MaxOp \in Nat
      /\ c.s.peer_last_committed[j] \in Int
  BY MonTypes DEF Contexts, LooseState
<1>2. PICK k : k = c.s.peer_last_committed[j] + 1
  OBVIOUS
<1>3. PICK l : l = c.s.last_committed
  OBVIOUS
<1>4. PICK vals : vals = Share(c.s, k, l)
  OBVIOUS
<1>5. vals \in [Version -> Value] /\ \A v \in Version : vals[v] = IF v \in k .. l THEN c.s.values[v] ELSE NoValue
  BY <1>1, <1>4 DEF Share, Value, NoValue
<1>6. x = [Msg(c, "commit") EXCEPT !.values = vals]
  BY <1>2, <1>3, <1>4 DEF Catchup
<1>7. /\ Msg(c, "commit") \in LooseMessage /\ Msg(c, "commit").op = "commit"
      /\ Msg(c, "commit").epoch = c.epoch /\ Msg(c, "commit").last_committed = c.s.last_committed
  BY MsgIs
<1>8. x \in LooseMessage /\ x.op = "commit" /\ x.epoch = c.epoch
      /\ x.last_committed = c.s.last_committed /\ x.values = vals
  BY <1>5, <1>6, <1>7 DEF LooseMessage
<1>9. \A v \in Version : v \in k .. l => vals[v] # NoValue
  <2>1. \A v \in Version : v <= l => c.s.values[v] # NoValue
    BY <1>3 DEF Logged
  <2>. QED BY <1>1, <1>2, <1>3, <1>5, <2>1
<1>10. NoGap(x)
  <2>. SUFFICES ASSUME NEW v \in Version, NEW w \in Version, v < w, w <= x.last_committed,
                       x.values[v] # NoValue
                PROVE  x.values[w] # NoValue
    BY DEF NoGap
  <2>1. v \in k .. l
    BY <1>5, <1>8
  <2>2. w \in k .. l
    BY <1>1, <1>2, <1>3, <1>8, <2>1, MonTypes
  <2>. QED BY <1>8, <1>9, <2>2
<1>11. ASSUME c.s.peer_last_committed[j] >= 0, NEW v \in k .. l PROVE x.values[v] # NoValue
  <2>1. v \in Version
    BY <1>1, <1>2, <1>3, <1>11 DEF Version
  <2>. QED BY <1>8, <1>9, <1>11, <2>1
<1>. QED BY <1>2, <1>3, <1>8, <1>10, <1>11

LEMMA ShareIs ==
  ASSUME NEW c \in Contexts, NEW d, d = ShareWithPeers(c), Logged(c.s)
  PROVE  /\ d \in Contexts /\ d.s = c.s /\ d.ok = c.ok /\ d.role = c.role /\ d.epoch = c.epoch
         /\ Sends(c, d, Behind(c.s), Catchup(c))
         /\ Catchup(c) \in [Mon -> LooseMessage]
<1>1. \A j \in Mon : Catchup(c)[j] \in LooseMessage
  BY CatchupIs
<1>2. Catchup(c) \in [Mon -> LooseMessage]
  BY <1>1 DEF Catchup
<1>3. d.s = c.s /\ d.ok = c.ok /\ d.role = c.role /\ d.epoch = c.epoch
  BY DEF ShareWithPeers, Contexts
<1>4. d.out = [j \in Mon |-> IF j \in Behind(c.s) THEN Append(c.out[j], Catchup(c)[j]) ELSE c.out[j]]
  <2>1. d.out = [j \in Mon |->
           IF c.s.peer_last_committed[j] >= 0 /\ c.s.peer_last_committed[j] < c.s.last_committed
           THEN Append(c.out[j], [Msg(c, "commit") EXCEPT
                         !.values = Share(c.s, c.s.peer_last_committed[j] + 1, c.s.last_committed)])
           ELSE c.out[j]]
    BY DEF ShareWithPeers, Contexts
  <2>2. \A j \in Mon : j \in Behind(c.s) <=> c.s.peer_last_committed[j] >= 0
                                              /\ c.s.peer_last_committed[j] < c.s.last_committed
    BY DEF Behind
  <2>3. \A j \in Mon : Catchup(c)[j] = [Msg(c, "commit") EXCEPT
                         !.values = Share(c.s, c.s.peer_last_committed[j] + 1, c.s.last_committed)]
    BY DEF Catchup
  <2>. QED BY <2>1, <2>2, <2>3
<1>5. d.out \in [Mon -> Messages]
  <2>1. \A j \in Mon : c.out[j] \in Seq(LooseMessage)
    BY DEF Contexts, Messages
  <2>2. \A j \in Mon : Append(c.out[j], Catchup(c)[j]) \in Seq(LooseMessage)
    BY <1>1, <2>1, AppendProperties
  <2>. QED BY <1>4, <2>1, <2>2 DEF Messages
<1>6. d = [c EXCEPT !.out = d.out]
  BY DEF ShareWithPeers, Contexts
<1>7. d \in Contexts
  BY <1>5, <1>6 DEF Contexts
<1>. QED BY <1>2, <1>3, <1>4, <1>7 DEF Sends

(* What a last says to its leader. *)
LastIs(m, c, T, msg, from, B) ==
  /\ msg \in LooseMessage /\ NoGap(msg) /\ c.s.state = "recovering" /\ from \in c.s.quorum \ T
  /\ msg.last_committed <= B.s.last_committed
  /\ \A v \in c.s.last_committed + 1 .. msg.last_committed : msg.values[v] # NoValue
  /\ msg.pn % 100 = m => msg.pn <= c.s.last_pn

LEMMA LastExpected ==
  ASSUME NEW m \in Mon, NEW p, NEW c, NEW T, NEW W \in Worlds, NEW O \in Queues, NEW I \in Queues,
         NEW from \in Mon \ {m}, NEW msg,
         Sound(m, p, c, T, W, O, I),
         I[from] # <<>>, msg = I[from][1], msg.op = "last"
  PROVE  c.role = "leader" /\ LastIs(m, c, T, msg, from, W[from])
<1>1. c \in Contexts /\ T \in SUBSET Mon
  BY DEF Sound
<1>2. PICK A : A = NodeOf(c, T)
  OBVIOUS
<1>3. A \in Node /\ A.epoch = c.epoch /\ A.role = c.role /\ A.s = c.s /\ A.T = T
  BY <1>1, <1>2, NodeIs
<1>4. PICK B : B = W[from]
  OBVIOUS
<1>5. PICK U : U = I[from]
  OBVIOUS
<1>6. PICK D : Pair(m, from, A, B, D, U)
  BY <1>2, <1>4, <1>5 DEF Sound
<1>7. U \in Messages /\ Link(m, from, A, B, D, U) /\ Queue(from, m, B, A, U)
  BY <1>6 DEF Pair
<1>8. 1 \in DOMAIN U /\ U[1] \in LooseMessage
  BY <1>5, <1>7, TailFacts
<1>9. c.role = "leader" /\ from \in c.s.quorum /\ (msg.pn % 100 = m => msg.pn <= c.s.last_pn)
  BY <1>3, <1>5, <1>7, <1>8 DEF Link, Answered, Ups
<1>10. Tells(m, A, B, msg)
  BY <1>5, <1>7, <1>8 DEF Link, Answered
<1>11. \A v \in c.s.last_committed + 1 .. msg.last_committed : msg.values[v] # NoValue
  BY <1>3, <1>10 DEF Tells
<1>12. from \notin T
  <2>1. Has(U, "last")
    BY <1>5, <1>8 DEF Has
  <2>. QED BY <1>3, <1>7, <1>9, <2>1 DEF Link, Informed
<1>13. c.s.state = "recovering"
  BY <1>1, <1>9, <1>12, LeaderFacts DEF Sound
<1>14. NoGap(msg) /\ msg.last_committed <= B.s.last_committed
  BY <1>5, <1>7, <1>8 DEF Queue, Sent
<1>. QED BY <1>4, <1>5, <1>8, <1>9, <1>11, <1>12, <1>13, <1>14 DEF LastIs

(* d is c after what handle_last() does to every answer. *)
(* The first of the messages that m has not yet received from that peer. *)
Heading(I, from, msg, op) == I[from] # <<>> /\ msg = I[from][1] /\ msg.op = op

Took(I, from, I2) == I2 = [I EXCEPT ![from] = Tail(@)]

Hearing(c, from, msg, d) ==
  d = ShareWithPeers(StoreState([c EXCEPT !.s.peer_last_committed[from] = msg.last_committed], msg))

Heard(c, from, msg, d) ==
  /\ d.s.leader = c.s.leader
  /\ d \in Contexts /\ d.ok = c.ok /\ d.role = c.role /\ d.epoch = c.epoch
  /\ d.s.last_pn = c.s.last_pn /\ d.s.stored_pn = c.s.stored_pn
  /\ d.s.state = c.s.state /\ d.s.accepted_pn = c.s.accepted_pn
  /\ d.s.quorum = c.s.quorum /\ d.s.num_last = c.s.num_last
  /\ d.s.peer_last_committed = [c.s.peer_last_committed EXCEPT ![from] = msg.last_committed]
  /\ d.s.accepted = c.s.accepted /\ d.s.new_value = c.s.new_value
  /\ d.s.pending_proposal = c.s.pending_proposal /\ d.s.committing = c.s.committing
  /\ d.s.timers = c.s.timers

LEMMA SoundHear ==
  ASSUME NEW m \in Mon, NEW p, NEW c, NEW T, NEW W \in Worlds, NEW O \in Queues, NEW I \in Queues,
         NEW from \in Mon \ {m}, NEW msg, NEW d,
         Sound(m, p, c, T, W, O, I), Heading(I, from, msg, "last"), Hearing(c, from, msg, d)
  PROVE  Sound(m, p, d, T, W, O, I) /\ Heard(c, from, msg, d)
<1>. USE DEF Heading, Hearing
<1>1. c \in Contexts /\ c.s \in LooseState /\ T \in SUBSET Mon /\ c.ok /\ Local(m, NodeOf(c, T))
  BY ContextTypes DEF Sound
<1>2. c.role = "leader" /\ LastIs(m, c, T, msg, from, W[from])
  BY LastExpected
<1>3. msg \in LooseMessage /\ NoGap(msg) /\ c.s.state = "recovering" /\ from \in c.s.quorum
      /\ msg.last_committed \in 0 .. MaxOp /\ msg.last_committed <= W[from].s.last_committed
      /\ (\A v \in c.s.last_committed + 1 .. msg.last_committed : msg.values[v] # NoValue)
  BY <1>2 DEF LastIs, LooseMessage
<1>4. /\ c.s.leader = m /\ c.epoch % 2 = 0 /\ c.s.quorum \in SUBSET Mon /\ c.s.quorum \in Majorities /\ m \in c.s.quorum
      /\ c.s.accepted_pn = c.s.last_pn /\ c.s.last_pn % 100 = m /\ c.s.last_pn # 0
      /\ T \subseteq c.s.quorum /\ m \in T /\ c.s.num_last = Cardinality(T)
      /\ c.s.peer_last_committed[m] = -1
      /\ InRound(m, c.s) /\ Logged(c.s) /\ Numbers(m, c.s)
  BY <1>1, <1>2, LeaderFacts
<1>5. PICK s1 : s1 = [c.s EXCEPT !.peer_last_committed[from] = msg.last_committed]
  OBVIOUS
<1>6. /\ s1 \in LooseState
      /\ s1.peer_last_committed = [c.s.peer_last_committed EXCEPT ![from] = msg.last_committed]
  <2>1. msg.last_committed \in Int
    BY <1>3, MonTypes
  <2>. QED BY <1>1, <1>5, <2>1 DEF LooseState
<1>7. /\ s1.leader = c.s.leader /\ s1.last_pn = c.s.last_pn /\ s1.stored_pn = c.s.stored_pn
      /\ s1.state = c.s.state /\ s1.accepted_pn = c.s.accepted_pn
      /\ s1.quorum = c.s.quorum /\ s1.num_last = c.s.num_last
      /\ s1.accepted = c.s.accepted /\ s1.new_value = c.s.new_value
      /\ s1.pending_proposal = c.s.pending_proposal /\ s1.committing = c.s.committing
      /\ s1.timers = c.s.timers
      /\ s1.last_committed = c.s.last_committed /\ s1.values = c.s.values
      /\ s1.pending_v = c.s.pending_v /\ s1.pending_pn = c.s.pending_pn
  BY <1>1, <1>5 DEF LooseState
<1>8. PICK c1 : c1 = [c EXCEPT !.s.peer_last_committed[from] = msg.last_committed]
  OBVIOUS
<1>9. c1 \in Contexts /\ c1.s = s1 /\ c1.ok = c.ok /\ c1.role = c.role /\ c1.epoch = c.epoch /\ c1.out = c.out
  BY <1>1, <1>5, <1>6, <1>8 DEF Contexts
<1>10. PICK c2 : c2 = StoreState(c1, msg)
  OBVIOUS
<1>11. StoreDoes(c1, msg, c2)
  BY <1>3, <1>9, <1>10, StoreIs
<1>12. Logged(c1.s)
  BY <1>4, <1>7, <1>9 DEF Logged
<1>13. Logged(c2.s) /\ Grown(p, c2.s)
  <2>1. Grown(p, c1.s)
    BY <1>7, <1>9 DEF Sound, Grown
  <2>. QED BY <1>9, <1>11, <1>12, <2>1, StoreKeepsLog
<1>14. c2 \in Contexts /\ c2.ok = c.ok /\ c2.role = c.role /\ c2.epoch = c.epoch /\ c2.out = c.out
       /\ ButLog(s1, c2.s) /\ c.s.last_committed <= c2.s.last_committed
       /\ Learns(c.s.last_committed, c2.s.last_committed, msg)
  BY <1>7, <1>9, <1>11 DEF StoreDoes
<1>15. d = ShareWithPeers(c2)
  BY <1>8, <1>10
<1>16. /\ d \in Contexts /\ d.s = c2.s /\ d.ok = c2.ok /\ d.role = c2.role /\ d.epoch = c2.epoch
       /\ Sends(c2, d, Behind(c2.s), Catchup(c2))
       /\ Catchup(c2) \in [Mon -> LooseMessage]
  BY <1>13, <1>14, <1>15, ShareIs
<1>17. Heard(c, from, msg, d)
  BY SMTT(60), <1>6, <1>7, <1>14, <1>16 DEF Heard, ButLog
<1>18. Local(m, NodeOf(d, T))
  <2>1. PICK A : A = NodeOf(d, T)
    OBVIOUS
  <2>2. A.role = "leader" /\ A.s = d.s /\ A.T = T /\ A.epoch = c.epoch
    BY <1>1, <1>2, <1>14, <1>16, <2>1, NodeIs
  <2>3. d.s.peer_last_committed[m] = -1
    BY SMTT(60), <1>1, <1>4, <1>17 DEF Heard, LooseState
  <2>4. Leading(m, A)
    <3>1. /\ d.s.leader = c.s.leader /\ d.s.quorum = c.s.quorum /\ d.s.accepted_pn = c.s.accepted_pn
          /\ d.s.last_pn = c.s.last_pn /\ d.s.num_last = c.s.num_last /\ d.s.state = c.s.state
      BY <1>17 DEF Heard
    <3>2. /\ d.s.leader = m /\ d.s.quorum \in Majorities /\ m \in d.s.quorum
          /\ d.s.accepted_pn = d.s.last_pn /\ d.s.last_pn % 100 = m /\ d.s.last_pn # 0
          /\ T \subseteq d.s.quorum /\ m \in T /\ d.s.num_last = Cardinality(T)
          /\ d.s.state = "recovering"
      BY <1>3, <1>4, <3>1
    <3>. QED BY <2>2, <2>3, <3>2 DEF Leading
  <2>5. Numbers(m, d.s)
    BY <1>4, <1>17 DEF Heard, Numbers
  <2>6. InRound(m, d.s)
    <3>1. d.s.state \notin Proposing /\ d.s.state \notin InWriting /\ c.s.state \notin Proposing
      BY <1>3, <1>17 DEF Heard, Proposing, Updating, InWriting
    <3>. QED BY <1>4, <1>17, <3>1 DEF Heard, InRound
  <2>7. A.s.state = "recovering"
    BY <1>3, <1>17, <2>2 DEF Heard
  <2>8. Local(m, A)
    BY <1>4, <1>13, <1>16, <2>2, <2>4, <2>5, <2>6, <2>7 DEF Local
  <2>. QED BY <2>1, <2>8
<1>19. m \notin Behind(c2.s)
  <2>1. c2.s.peer_last_committed[m] = -1
    BY <1>1, <1>4, <1>16, <1>17 DEF Heard, LooseState
  <2>. QED BY <2>1 DEF Behind
<1>20. /\ c.s.last_committed \in Nat /\ d.s.last_committed \in Nat /\ msg.last_committed \in Nat
       /\ c.s.last_committed <= d.s.last_committed
       /\ msg.last_committed <= d.s.last_committed
  <2>1. c.s.last_committed \in Nat /\ d.s.last_committed \in Nat /\ msg.last_committed \in Nat
    <3>1. c.s.last_committed \in 0 .. MaxOp
      BY <1>1 DEF LooseState
    <3>2. d.s \in LooseState
      BY <1>16, ContextTypes
    <3>3. d.s.last_committed \in 0 .. MaxOp
      BY <3>2 DEF LooseState
    <3>. QED BY <1>3, <3>1, <3>3, MonTypes
  <2>. QED BY <1>3, <1>14, <1>16, <2>1 DEF Learns
<1>21. ASSUME NEW j \in Mon \ {m}, NEW q, NEW q2,
              Pair(m, j, NodeOf(c, T), W[j], q, I[j]),
              Pushes(j, Behind(c2.s), q, q2, Catchup(c2)[j], c.epoch, W[j])
       PROVE  Pair(m, j, NodeOf(d, T), W[j], q2, I[j])
  <2>1. PICK A : A = NodeOf(c, T)
    OBVIOUS
  <2>2. A \in Node /\ A.epoch = c.epoch /\ A.role = "leader" /\ A.s = c.s /\ A.T = T
    BY <1>1, <1>2, <2>1, NodeIs
  <2>3. PICK A2 : A2 = NodeOf(d, T)
    OBVIOUS
  <2>4. A2 \in Node /\ A2.epoch = c.epoch /\ A2.role = "leader" /\ A2.s = d.s /\ A2.T = T
    BY <1>1, <1>2, <1>14, <1>16, <2>3, NodeIs
  <2>5. PICK B : B = W[j]
    OBVIOUS
  <2>6. B \in Node
    BY <2>5 DEF Worlds
  <2>7. Pair(m, j, A, B, q, I[j])
    BY <1>21, <2>1, <2>5
  <2>8. q \in Messages /\ I[j] \in Messages /\ Link(m, j, A, B, q, I[j])
    BY <2>7 DEF Pair
  <2>9. PICK y : y = Catchup(c2)[j]
    OBVIOUS
  <2>10. PICK k : k = A2.s.peer_last_committed[j]
    OBVIOUS
  <2>11. k \in Int /\ k = c2.s.peer_last_committed[j]
    BY <1>16, <2>4, <2>10, NodeTypes
  <2>12. /\ y \in LooseMessage /\ y.op = "commit" /\ y.epoch = A.epoch
         /\ y.last_committed = A2.s.last_committed /\ NoGap(y)
         /\ k >= 0 => \A v \in k + 1 .. A2.s.last_committed : y.values[v] # NoValue
    BY <1>13, <1>14, <1>16, <2>2, <2>4, <2>9, <2>11, CatchupIs
  <2>13. \/ k = A.s.peer_last_committed[j]
         \/ /\ I[j] # <<>> /\ I[j][1].op = "last"
            /\ k = I[j][1].last_committed /\ k <= B.s.last_committed /\ k <= A2.s.last_committed
    <3>1. CASE j # from
      BY <1>1, <1>17, <2>2, <2>4, <2>10, <3>1 DEF Heard, LooseState
    <3>2. CASE j = from
      <4>1. k = msg.last_committed
        BY <1>1, <1>17, <2>4, <2>10, <3>2 DEF Heard, LooseState
      <4>. QED BY <1>3, <1>20, <2>4, <2>5, <3>2, <4>1
    <3>. QED BY <3>1, <3>2
  <2>14. /\ Pushes(j, Behind(c2.s), q, q2, y, A.epoch, B)
         /\ j \in Behind(c2.s) <=> k >= 0 /\ k < A2.s.last_committed
    BY <1>16, <1>21, <2>2, <2>4, <2>5, <2>9, <2>11 DEF Behind
  <2>15. /\ A2.s.state = "recovering" /\ A.s.state = "recovering"
         /\ A2.s.quorum = A.s.quorum /\ A2.s.accepted = A.s.accepted
         /\ A2.s.accepted_pn = A.s.accepted_pn /\ A2.s.last_pn = A.s.last_pn
         /\ A.s.last_committed <= A2.s.last_committed /\ A2.s.stored_pn = A.s.stored_pn
    BY SMTT(60), <1>3, <1>17, <1>20, <2>2, <2>4 DEF Heard
  <2>16. Link(m, j, A2, B, q2, I[j])
    <3>1. j \in Mon /\ m # j /\ k \in Int /\ k = A2.s.peer_last_committed[j]
      BY <2>10, <2>11
    <3>2. A2.epoch = A.epoch /\ A2.T = A.T /\ A.role = "leader" /\ A2.role = "leader"
          /\ A \in Node /\ A2 \in Node
      BY <2>2, <2>4
    <3>3. HearStep(j, A, A2, B, I[j], k, y)
      BY <2>12, <2>13, <2>15, <3>1, <3>2 DEF HearStep
    <3>. QED BY <2>6, <2>8, <2>12, <2>14, <3>1, <3>2, <3>3, LinkHear
  <2>17. StaysLeader(m, A, A2) /\ Fits(y, A2)
    BY <1>20, <2>2, <2>4, <2>12, <2>15 DEF StaysLeader, Fits
  <2>18. y.op \in Downs
    BY <2>12 DEF Downs
  <2>19. Pushes(j, Behind(c2.s), q, q2, y, A2.epoch, B)
    BY <1>21, <2>4, <2>5, <2>9
  <2>20. Pair(m, j, A2, B, q2, I[j])
    BY <2>2, <2>4, <2>6, <2>7, <2>12, <2>16, <2>17, <2>18, <2>19, PairSend
  <2>. QED BY <2>3, <2>5, <2>20
<1>22. Behind(c2.s) \in SUBSET (Mon \ {m})
  BY <1>19 DEF Behind
<1>23. Sends(c, d, Behind(c2.s), Catchup(c2)) /\ d.ok /\ d.epoch = c.epoch /\ Grown(p, d.s)
  BY <1>1, <1>13, <1>14, <1>16 DEF Sends
<1>24. \A j \in Mon : Catchup(c2)[j].epoch = c.epoch
  BY <1>13, <1>14, CatchupIs
<1>25. Sound(m, p, d, T, W, O, I)
  BY <1>1, <1>16, <1>18, <1>21, <1>22, <1>23, <1>24, SoundSend
<1>. QED BY <1>17, <1>25

(* The answer is done with. *)
LEMMA SoundTail ==
  ASSUME NEW m \in Mon, NEW p, NEW c, NEW T, NEW W, NEW O, NEW I \in Queues, NEW I2,
         NEW from \in Mon \ {m}, NEW msg, NEW op \in Ups,
         Sound(m, p, c, T, W, O, I), Heading(I, from, msg, op), Took(I, from, I2)
  PROVE  Sound(m, p, c, T, W, O, I2)
<1>. USE DEF Heading, Took
<1>1. c \in Contexts /\ T \in SUBSET Mon
  BY DEF Sound
<1>2. ASSUME NEW j \in Mon \ {m}, NEW q, Pair(m, j, NodeOf(c, T), W[j], q, I[j])
      PROVE  Pair(m, j, NodeOf(c, T), W[j], q, I2[j])
  <2>1. CASE j # from
    BY <1>2, <2>1 DEF Queues
  <2>2. CASE j = from
    <3>1. I2[j] = Tail(I[j])
      BY <2>2 DEF Queues
    <3>2. Pair(m, j, NodeOf(c, T), W[j], q, I2[j])
      BY <1>2, <2>2, <3>1, PairHeard
    <3>. QED BY <3>2
  <2>. QED BY <2>1, <2>2
<1>. QED BY <1>1, <1>2, SoundStep DEF Sound

ButLearnt(s, t) ==
  /\ t.last_pn = s.last_pn /\ t.stored_pn = s.stored_pn /\ t.last_committed = s.last_committed
  /\ t.values = s.values /\ t.pending_v = s.pending_v /\ t.pending_pn = s.pending_pn
  /\ t.state = s.state /\ t.accepted_pn = s.accepted_pn /\ t.leader = s.leader
  /\ t.quorum = s.quorum /\ t.num_last = s.num_last + 1
  /\ t.peer_last_committed = s.peer_last_committed
  /\ t.accepted = s.accepted /\ t.new_value = s.new_value
  /\ t.pending_proposal = s.pending_proposal /\ t.committing = s.committing
  /\ t.lease = s.lease /\ t.acked_lease = s.acked_lease /\ t.timers = s.timers

Counted(c, d) ==
  /\ d \in Contexts /\ d.ok = c.ok /\ d.role = c.role /\ d.epoch = c.epoch /\ d.out = c.out
  /\ ButLearnt(c.s, d.s)

LEMMA LearnIs ==
  ASSUME NEW c \in Contexts, NEW msg \in LooseMessage, NEW d,
         d = Learn([c EXCEPT !.s.num_last = @ + 1], msg)
  PROVE  Counted(c, d)
<1>1. c.s \in LooseState
  BY ContextTypes
<1>2. PICK s1 : s1 = [c.s EXCEPT !.num_last = @ + 1]
  OBVIOUS
<1>3. s1 \in LooseState /\ ButLearnt(c.s, s1)
  BY <1>1, <1>2 DEF LooseState, ButLearnt
<1>4. PICK c1 : c1 = [c EXCEPT !.s.num_last = @ + 1]
  OBVIOUS
<1>5. c1 \in Contexts /\ c1.s = s1 /\ c1.ok = c.ok /\ c1.role = c.role /\ c1.epoch = c.epoch /\ c1.out = c.out
  BY <1>1, <1>2, <1>3, <1>4 DEF Contexts
<1>6. PICK v : v = msg.last_committed + 1
  OBVIOUS
<1>7. PICK s2 : s2 = [s1 EXCEPT !.uncommitted_v = v, !.uncommitted_pn = msg.uncommitted_pn,
                                !.uncommitted_value = At(msg.values, v)]
  OBVIOUS
<1>8. s2 \in LooseState /\ ButLearnt(c.s, s2)
  <2>1. v \in Nat /\ msg.uncommitted_pn \in Nat /\ At(msg.values, v) \in Value
    BY <1>6, MonTypes DEF LooseMessage, At, NoValue, Value
  <2>. QED BY <1>3, <1>7, <2>1 DEF LooseState, ButLearnt
<1>9. d = c1 \/ d = [c1 EXCEPT !.s = s2]
  BY <1>4, <1>5, <1>6, <1>7 DEF Learn
<1>10. CASE d = c1
  BY <1>3, <1>5, <1>10 DEF Counted
<1>11. CASE d = [c1 EXCEPT !.s = s2]
  <2>1. d \in Contexts /\ d.s = s2 /\ d.ok = c1.ok /\ d.role = c1.role /\ d.epoch = c1.epoch /\ d.out = c1.out
    BY <1>5, <1>8, <1>11 DEF Contexts
  <2>. QED BY <1>5, <1>8, <2>1 DEF Counted
<1>. QED BY <1>9, <1>10, <1>11

LEMMA SoundCount ==
  ASSUME NEW m \in Mon, NEW p, NEW c, NEW T, NEW W \in Worlds, NEW O \in Queues, NEW I \in Queues,
         NEW I2, NEW from \in Mon \ {m}, NEW msg, NEW d,
         Sound(m, p, c, T, W, O, I), Heading(I, from, msg, "last"), Took(I, from, I2),
         msg.pn = c.s.accepted_pn, c.s.peer_last_committed[from] >= 0,
         Counted(c, d)
  PROVE  Sound(m, p, d, T \union {from}, W, O, I2)
<1>. USE DEF Heading, Took
<1>. PICK T2 : T2 = T \union {from}
  OBVIOUS
<1>. SUFFICES Sound(m, p, d, T2, W, O, I2)
  OBVIOUS
<1>1. c \in Contexts /\ c.s \in LooseState /\ T \in SUBSET Mon /\ c.ok /\ Local(m, NodeOf(c, T))
      /\ T2 \in SUBSET Mon
  BY ContextTypes DEF Sound
<1>2. c.role = "leader" /\ LastIs(m, c, T, msg, from, W[from])
  BY LastExpected
<1>3. c.s.state = "recovering" /\ from \in c.s.quorum /\ from \notin T
  BY <1>2 DEF LastIs
<1>4. /\ c.s.leader = m /\ c.epoch % 2 = 0 /\ c.s.quorum \in SUBSET Mon /\ c.s.quorum \in Majorities /\ m \in c.s.quorum
      /\ c.s.accepted_pn = c.s.last_pn /\ c.s.last_pn % 100 = m /\ c.s.last_pn # 0
      /\ T \subseteq c.s.quorum /\ m \in T /\ c.s.num_last = Cardinality(T)
      /\ c.s.peer_last_committed[m] = -1
      /\ InRound(m, c.s) /\ Logged(c.s) /\ Numbers(m, c.s)
  BY <1>1, <1>2, LeaderFacts
<1>5. d \in Contexts /\ d.ok /\ d.role = "leader" /\ d.epoch = c.epoch /\ d.out = c.out
      /\ ButLearnt(c.s, d.s)
  BY <1>1, <1>2 DEF Counted
<1>6. Local(m, NodeOf(d, T2))
  <2>1. PICK A : A = NodeOf(d, T2)
    OBVIOUS
  <2>2. A.role = "leader" /\ A.s = d.s /\ A.T = T2 /\ A.epoch = c.epoch
    BY <1>1, <1>5, <2>1, NodeIs
  <2>3. Cardinality(T2) = Cardinality(T) + 1
    <3>1. IsFiniteSet(Mon)
      BY FS_Interval, MonTypes DEF Mon
    <3>2. IsFiniteSet(T)
      BY <1>1, <3>1, FS_Subset
    <3>. QED BY <1>3, <3>2, FS_AddElement
  <2>4. Leading(m, A)
    BY <1>3, <1>4, <1>5, <2>2, <2>3 DEF Leading, ButLearnt
  <2>5. Numbers(m, d.s) /\ Logged(d.s)
    BY <1>4, <1>5 DEF ButLearnt, Numbers, Logged
  <2>6. InRound(m, d.s)
    BY <1>4, <1>5 DEF ButLearnt, InRound
  <2>7. A.s.state = "recovering"
    BY <1>3, <1>5, <2>2 DEF ButLearnt
  <2>8. Local(m, A)
    BY <1>4, <2>2, <2>4, <2>5, <2>6, <2>7 DEF Local
  <2>. QED BY <2>1, <2>8
<1>7. Grown(p, d.s)
  BY <1>5 DEF Sound, Grown, ButLearnt
<1>8. ASSUME NEW j \in Mon \ {m}, NEW q, Pair(m, j, NodeOf(c, T), W[j], q, I[j])
      PROVE  Pair(m, j, NodeOf(d, T2), W[j], q, I2[j])
  <2>1. PICK A : A = NodeOf(c, T)
    OBVIOUS
  <2>2. A \in Node /\ A.epoch = c.epoch /\ A.role = "leader" /\ A.s = c.s /\ A.T = T
    BY <1>1, <1>2, <2>1, NodeIs
  <2>3. PICK A2 : A2 = NodeOf(d, T2)
    OBVIOUS
  <2>4. A2 \in Node /\ A2.epoch = c.epoch /\ A2.role = "leader" /\ A2.s = d.s /\ A2.T = T2
    BY <1>1, <1>5, <2>3, NodeIs
  <2>5. PICK B : B = W[j]
    OBVIOUS
  <2>6. B \in Node
    BY <2>5 DEF Worlds
  <2>7. Pair(m, j, A, B, q, I[j])
    BY <1>8, <2>1, <2>5
  <2>8. /\ A2.epoch = A.epoch /\ A2.role = A.role
        /\ A2.s.quorum = A.s.quorum /\ A2.s.state = A.s.state
        /\ A2.s.accepted_pn = A.s.accepted_pn /\ A2.s.last_pn = A.s.last_pn
        /\ A2.s.last_committed = A.s.last_committed /\ A2.s.accepted = A.s.accepted
        /\ A2.s.peer_last_committed = A.s.peer_last_committed
        /\ A2.s.stored_pn = A.s.stored_pn
    BY <1>5, <2>2, <2>4 DEF ButLearnt
  <2>9. StaysLeader(m, A, A2)
    <3>1. A.s.last_committed \in Nat
      BY <2>2, NodeTypes
    <3>. QED BY <2>2, <2>8, <3>1 DEF StaysLeader
  <2>10. Pair(m, j, A, B, q, I2[j]) /\ (j \in A2.T => j \in A.T \/ Countable(m, j, A, B, q, I2[j]))
    <3>1. CASE j # from
      <4>1. I2[j] = I[j]
        BY <3>1 DEF Queues
      <4>2. j \in A2.T => j \in A.T
        BY <2>2, <2>4, <3>1
      <4>. QED BY <2>7, <4>1, <4>2
    <3>2. CASE j = from
      <4>1. PICK U : U = I[j]
        OBVIOUS
      <4>2. PICK U2 : U2 = I2[j]
        OBVIOUS
      <4>3. U2 = Tail(U) /\ U # <<>> /\ U[1] = msg
        BY <3>2, <4>1, <4>2 DEF Queues
      <4>4. U \in Messages /\ Link(m, j, A, B, q, U) /\ Pair(m, j, A, B, q, U)
        BY <2>7, <4>1 DEF Pair
      <4>5. Pair(m, j, A, B, q, U2)
        <5>1. U[1].op \in Ups
          BY <4>3 DEF Ups
        <5>. QED BY <4>3, <4>4, <5>1, PairHeard
      <4>6. /\ 1 \in DOMAIN U
            /\ \A k \in DOMAIN U2 : k + 1 \in DOMAIN U /\ U2[k] = U[k + 1] /\ k \in Nat /\ 1 < k + 1
        <5>1. U2 \in Messages /\ 1 \in DOMAIN U
              /\ \A k \in DOMAIN U2 : k + 1 \in DOMAIN U /\ U2[k] = U[k + 1] /\ k \in Nat
          <6>1. U \in Messages /\ U # <<>> /\ U2 = Tail(U)
            BY <4>3, <4>4
          <6>2. U2 \in Messages /\ 1 \in DOMAIN U
            BY <6>1, TailFacts
          <6>3. \A k \in DOMAIN U2 : k + 1 \in DOMAIN U /\ U2[k] = U[k + 1] /\ k \in Nat
            BY <6>1, TailFacts
          <6>. QED BY <6>2, <6>3
        <5>2. \A k \in DOMAIN U2 : k >= 1
          BY <5>1, MessageTypes
        <5>. QED BY <5>1, <5>2
      <4>7. ~Has(q, "collect") /\ \A l \in DOMAIN U : 1 < l => U[l].op # "last"
        BY <2>2, <4>3, <4>4, <4>6 DEF Link, Answered
      <4>8. ~Has(U2, "last")
        BY <4>6, <4>7 DEF Has
      <4>9. Follows(B, m, A.epoch) => A.s.accepted_pn <= B.s.accepted_pn
        <5>1. Tells(m, A, B, msg)
          BY <4>3, <4>4, <4>6 DEF Link, Answered
        <5>. QED BY <2>2, <5>1 DEF Tells
      <4>10. Countable(m, j, A, B, q, U2)
        BY <2>2, <3>2, <4>7, <4>8, <4>9 DEF Countable
      <4>. QED BY <4>2, <4>5, <4>10
    <3>. QED BY <3>1, <3>2
  <2>11. Link(m, j, A, B, q, I2[j])
    BY <2>10 DEF Pair
  <2>12. Link(m, j, A2, B, q, I2[j])
    BY <2>8, <2>10, <2>11, LinkCount
  <2>13. Pair(m, j, A2, B, q, I2[j])
    BY <2>2, <2>4, <2>6, <2>9, <2>10, <2>12, PairKeep
  <2>. QED BY <2>3, <2>5, <2>13
<1>. QED BY <1>1, <1>5, <1>6, <1>7, <1>8, SoundStep

LEMMA MonFinite == IsFiniteSet(Mon)
  BY FS_Interval, MonTypes DEF Mon

(* All answers are in. *)
Activated(c, g) ==
  /\ g.s.leader = c.s.leader
  /\ g \in Contexts /\ g.ok = c.ok /\ g.role = c.role /\ g.epoch = c.epoch /\ g.out = c.out
  /\ g.s.last_pn = c.s.last_pn /\ g.s.stored_pn = c.s.stored_pn
  /\ g.s.accepted_pn = c.s.accepted_pn
  /\ g.s.last_committed = c.s.last_committed /\ g.s.values = c.s.values
  /\ g.s.pending_v = c.s.pending_v /\ g.s.pending_pn = c.s.pending_pn
  /\ g.s.quorum = c.s.quorum /\ g.s.num_last = c.s.num_last
  /\ g.s.peer_last_committed = [q \in Mon |-> -1]
  /\ g.s.new_value = c.s.new_value
  /\ g.s.state = "active"

LEMMA SoundActivate ==
  ASSUME NEW m \in Mon, NEW p, NEW c, NEW T, NEW W \in Worlds, NEW O \in Queues, NEW I \in Queues,
         NEW g,
         Sound(m, p, c, T, W, O, I), c.role = "leader", c.s.state = "recovering",
         T = c.s.quorum, Activated(c, g)
  PROVE  Sound(m, p, g, T, W, O, I)
<1>1. c \in Contexts /\ c.s \in LooseState /\ T \in SUBSET Mon /\ c.ok /\ Local(m, NodeOf(c, T))
  BY ContextTypes DEF Sound
<1>2. /\ c.s.leader = m /\ c.epoch % 2 = 0 /\ c.s.quorum \in SUBSET Mon /\ c.s.quorum \in Majorities /\ m \in c.s.quorum
      /\ c.s.accepted_pn = c.s.last_pn /\ c.s.last_pn % 100 = m /\ c.s.last_pn # 0
      /\ T \subseteq c.s.quorum /\ m \in T /\ c.s.num_last = Cardinality(T)
      /\ InRound(m, c.s) /\ Logged(c.s) /\ Numbers(m, c.s)
  BY <1>1, LeaderFacts
<1>3. g \in Contexts /\ g.ok /\ g.role = "leader" /\ g.epoch = c.epoch /\ g.out = c.out
      /\ \A j \in Mon : g.s.peer_last_committed[j] = -1
  BY <1>1 DEF Activated
<1>4. Local(m, NodeOf(g, T))
  <2>1. PICK A : A = NodeOf(g, T)
    OBVIOUS
  <2>2. A.role = "leader" /\ A.s = g.s /\ A.T = T /\ A.epoch = c.epoch
    BY <1>1, <1>3, <2>1, NodeIs
  <2>3. Leading(m, A)
    BY <1>2, <1>3, <2>2 DEF Leading, Activated
  <2>4. Numbers(m, g.s) /\ Logged(g.s)
    BY <1>2 DEF Activated, Numbers, Logged
  <2>5. InRound(m, g.s)
    <3>1. g.s.state \notin Proposing /\ g.s.state \notin InWriting /\ c.s.state \notin Proposing
          /\ g.s.new_value = c.s.new_value
      BY DEF Activated, Proposing, Updating, InWriting
    <3>. QED BY <1>2, <3>1 DEF InRound
  <2>6. A.s.state = "active"
    BY <2>2 DEF Activated
  <2>7. Local(m, A)
    BY <1>2, <2>2, <2>3, <2>4, <2>5, <2>6 DEF Local
  <2>. QED BY <2>1, <2>7
<1>5. Grown(p, g.s)
  BY DEF Sound, Grown, Activated
<1>6. ASSUME NEW j \in Mon \ {m}, NEW q, Pair(m, j, NodeOf(c, T), W[j], q, I[j])
      PROVE  Pair(m, j, NodeOf(g, T), W[j], q, I[j])
  <2>1. PICK A : A = NodeOf(c, T)
    OBVIOUS
  <2>2. A \in Node /\ A.epoch = c.epoch /\ A.role = "leader" /\ A.s = c.s /\ A.T = T
    BY <1>1, <2>1, NodeIs
  <2>3. PICK A2 : A2 = NodeOf(g, T)
    OBVIOUS
  <2>4. A2 \in Node /\ A2.epoch = c.epoch /\ A2.role = "leader" /\ A2.s = g.s /\ A2.T = T
    BY <1>1, <1>3, <2>3, NodeIs
  <2>5. PICK B : B = W[j]
    OBVIOUS
  <2>6. B \in Node
    BY <2>5 DEF Worlds
  <2>7. Pair(m, j, A, B, q, I[j])
    BY <1>6, <2>1, <2>5
  <2>8. /\ A2.epoch = A.epoch /\ A2.role = A.role /\ A2.T = A.T
        /\ A.s.state = "recovering" /\ A2.s.state = "active"
        /\ A2.s.quorum = A.s.quorum
        /\ A2.s.accepted_pn = A.s.accepted_pn /\ A2.s.last_pn = A.s.last_pn
        /\ A2.s.last_committed = A.s.last_committed
        /\ A2.s.peer_last_committed[j] = -1
        /\ A2.s.stored_pn = A.s.stored_pn
    BY <1>3, <2>2, <2>4 DEF Activated
  <2>9. StaysLeader(m, A, A2)
    <3>1. A.s.last_committed \in Nat
      BY <2>2, NodeTypes
    <3>. QED BY <2>2, <2>8, <3>1 DEF StaysLeader
  <2>10. Link(m, j, A, B, q, I[j])
    BY <2>7 DEF Pair
  <2>11. Link(m, j, A2, B, q, I[j])
    BY <2>2, <2>6, <2>8, <2>10, LinkActivate
  <2>12. Pair(m, j, A2, B, q, I[j])
    BY <2>2, <2>4, <2>6, <2>7, <2>9, <2>11, PairKeep
  <2>. QED BY <2>3, <2>5, <2>12
<1>. QED BY <1>1, <1>3, <1>4, <1>5, <1>6, SoundStep

-----------------------------------------------------------------------------
(* collect() *)

LEMMA NewNumber ==
  ASSUME NEW a \in Nat, NEW b \in Nat, NEW m \in Mon, NEW n, n = NewProposalNumber(a, b, m)
  PROVE  n \in Nat /\ n > a /\ n > b /\ n % 100 = m /\ n # 0
<1>1. PICK x : x = Larger(a, b)
  OBVIOUS
<1>2. x \in Nat /\ x >= a /\ x >= b
  BY <1>1 DEF Larger
<1>3. m \in Nat /\ m < 100
  BY NAssumption DEF Mon
<1>4. PICK y : y = x \div 100
  OBVIOUS
<1>5. y \in Nat /\ x < 100 * y + 100
  BY <1>2, <1>4
<1>6. n = (y + 1) * 100 + m
  BY <1>1, <1>4 DEF NewProposalNumber
<1>7. n \in Nat /\ n > x
  BY <1>2, <1>3, <1>5, <1>6
<1>8. n % 100 = m
  BY <1>3, <1>5, <1>6
<1>. QED BY <1>2, <1>7, <1>8

(* What the store of state s has for the next version is what state t has found. *)
Finds(s, t) ==
  LET v == s.last_committed + 1
      found == At(s.values, v) # NoValue
  IN  /\ t.uncommitted_v = IF found THEN v ELSE 0
      /\ t.uncommitted_pn = IF found THEN PendingPn(s, s.accepted_pn) ELSE 0
      /\ t.uncommitted_value = At(s.values, v)

CollectDoes(c, m, pn, d) ==
  /\ Finds(c.s, d.s)
  /\ d.s.leader = c.s.leader
  /\ d \in Contexts /\ d.role = c.role /\ d.epoch = c.epoch
  /\ d.ok <=> c.ok /\ c.role = "leader"
  /\ pn \in Nat /\ pn > c.s.last_pn /\ pn > c.s.accepted_pn /\ pn % 100 = m /\ pn # 0
  /\ d.s.last_pn = pn /\ d.s.accepted_pn = pn /\ d.s.stored_pn = c.s.stored_pn
  /\ d.s.last_committed = c.s.last_committed /\ d.s.values = c.s.values
  /\ d.s.pending_v = c.s.pending_v /\ d.s.pending_pn = c.s.pending_pn
  /\ d.s.quorum = c.s.quorum /\ d.s.num_last = 1
  /\ d.s.peer_last_committed = [q \in Mon |-> -1]
  /\ d.s.new_value = c.s.new_value
  /\ d.s.pending_proposal = c.s.pending_proposal /\ d.s.committing = c.s.committing
  /\ d.s.state = "recovering"
  /\ Timers(c.s, {}) => Timers(d.s, {"collect"})
  /\ Sends(c, d, c.s.quorum \ {m}, ToAll([Msg(c, "collect") EXCEPT !.pn = pn]))

LEMMA CollectIs ==
  ASSUME NEW c \in Contexts, NEW m \in Mon, NEW oldpn \in Nat, NEW d, d = Collect(c, m, oldpn)
  PROVE  \E pn : CollectDoes(c, m, pn, d)
<1>1. c.s \in LooseState /\ c.s.timers \in [Timer -> Nat] /\ c.s.last_pn \in Nat /\ c.s.accepted_pn \in Nat
  BY DEF Contexts, LooseState
<1>2. PICK pn : pn = NewProposalNumber(c.s.last_pn, Larger(c.s.accepted_pn, oldpn), m)
  OBVIOUS
<1>3. pn \in Nat /\ pn > c.s.last_pn /\ pn > c.s.accepted_pn /\ pn % 100 = m /\ pn # 0
  <2>1. PICK a : a = c.s.last_pn
    OBVIOUS
  <2>2. PICK b : b = Larger(c.s.accepted_pn, oldpn)
    OBVIOUS
  <2>3. a \in Nat /\ b \in Nat /\ b >= c.s.accepted_pn
    BY <1>1, <2>1, <2>2 DEF Larger
  <2>4. pn = NewProposalNumber(a, b, m)
    BY <1>2, <2>1, <2>2
  <2>5. pn \in Nat /\ pn > a /\ pn > b /\ pn % 100 = m /\ pn # 0
    BY <2>3, <2>4, NewNumber
  <2>. QED BY <1>1, <2>1, <2>3, <2>5
<1>4. PICK v : v = c.s.last_committed + 1
  OBVIOUS
<1>5. PICK uv : uv = IF At(c.s.values, v) # NoValue THEN v ELSE 0
  OBVIOUS
<1>6. PICK upn : upn = IF At(c.s.values, v) # NoValue THEN PendingPn(c.s, c.s.accepted_pn) ELSE 0
  OBVIOUS
<1>7. uv \in Nat /\ upn \in Nat /\ At(c.s.values, v) \in Value
  <2>1. v \in Nat
    BY <1>1, <1>4, MonTypes DEF LooseState
  <2>2. PendingPn(c.s, c.s.accepted_pn) \in Nat
    BY <1>1 DEF PendingPn, LooseState
  <2>3. At(c.s.values, v) \in Value
    BY <1>1 DEF At, NoValue, Value, LooseState
  <2>. QED BY <1>5, <1>6, <2>1, <2>2, <2>3
<1>8. PICK s1 : s1 = [c.s EXCEPT
              !.state = "recovering",
              !.uncommitted_v = uv,
              !.uncommitted_pn = upn,
              !.uncommitted_value = At(c.s.values, v),
              !.peer_last_committed = [q \in Mon |-> -1],
              !.last_pn = pn,
              !.accepted_pn = pn,
              !.num_last = 1]
  OBVIOUS
<1>9. s1 \in LooseState
  <2>1. [q \in Mon |-> -1] \in [Mon -> Int] /\ "recovering" \in State
    BY DEF State
  <2>. QED BY ZenonT(60), <1>1, <1>3, <1>7, <1>8, <2>1 DEF LooseState
<1>10. /\ s1.leader = c.s.leader /\ s1.last_pn = pn /\ s1.accepted_pn = pn /\ s1.stored_pn = c.s.stored_pn
       /\ s1.last_committed = c.s.last_committed /\ s1.values = c.s.values
       /\ s1.pending_v = c.s.pending_v /\ s1.pending_pn = c.s.pending_pn
       /\ s1.quorum = c.s.quorum /\ s1.num_last = 1
       /\ s1.peer_last_committed = [q \in Mon |-> -1]
       /\ s1.new_value = c.s.new_value
       /\ s1.pending_proposal = c.s.pending_proposal /\ s1.committing = c.s.committing
       /\ s1.state = "recovering" /\ s1.timers = c.s.timers
  BY <1>1, <1>8 DEF LooseState
<1>11. PICK d1 : d1 = [c EXCEPT !.s = s1]
  OBVIOUS
<1>12. d1 \in Contexts /\ d1.s = s1 /\ d1.ok = c.ok /\ d1.role = c.role /\ d1.epoch = c.epoch /\ d1.out = c.out
  BY <1>9, <1>11 DEF Contexts
<1>13. PICK x : x = [Msg(c, "collect") EXCEPT !.pn = pn]
  OBVIOUS
<1>14. Msg(d1, "collect") = Msg(c, "collect")
  BY <1>10, <1>12 DEF Msg
<1>15. PICK e : e = Send(Check(d1, c.role = "leader"), Peers(c, m), x)
  OBVIOUS
<1>16. d = Arm(e, "collect")
  BY <1>2, <1>4, <1>5, <1>6, <1>8, <1>11, <1>13, <1>14, <1>15 DEF Collect
<1>17. /\ e.s = s1 /\ e.role = c.role /\ e.epoch = c.epoch /\ e.ok = (c.ok /\ c.role = "leader")
       /\ e.out = [j \in Mon |-> IF j \in c.s.quorum \ {m} THEN Append(c.out[j], x) ELSE c.out[j]]
       /\ e = [s |-> e.s, role |-> e.role, epoch |-> e.epoch, out |-> e.out, ok |-> e.ok]
  BY <1>12, <1>15 DEF Send, Check, Peers, Contexts
<1>18. x \in LooseMessage
  BY <1>3, <1>13, MsgIs DEF LooseMessage
<1>19. e.out \in [Mon -> Messages]
  <2>1. \A j \in Mon : c.out[j] \in Seq(LooseMessage)
    BY DEF Contexts, Messages
  <2>2. \A j \in Mon : Append(c.out[j], x) \in Seq(LooseMessage)
    BY <1>18, <2>1, AppendProperties
  <2>. QED BY <1>17, <2>1, <2>2 DEF Messages
<1>20. e \in Contexts
  BY <1>9, <1>17, <1>19 DEF Contexts
<1>21. PICK tm : tm = [c.s.timers EXCEPT !["collect"] = @ + 1]
  OBVIOUS
<1>22. tm \in [Timer -> Nat]
  BY <1>1, <1>21 DEF Timer
<1>23. d = [e EXCEPT !.s = [e.s EXCEPT !.timers = tm]]
  <2>1. s1 = [s1 EXCEPT !.timers = c.s.timers]
    BY <1>9, <1>10 DEF LooseState
  <2>2. e.s.timers = c.s.timers
    BY <1>10, <1>17
  <2>. QED BY <1>16, <1>20, <1>21, <2>2 DEF Arm, Contexts, LooseState
<1>24. OnlyTimers(e, d) /\ d.s.timers = tm
  BY <1>20, <1>22, <1>23, NewTimers
<1>25. ButTimers(s1, d.s) /\ d \in Contexts /\ d.ok = (c.ok /\ c.role = "leader") /\ d.role = c.role
       /\ d.epoch = c.epoch /\ d.out = e.out
  BY <1>17, <1>24 DEF OnlyTimers
<1>26. Timers(c.s, {}) => Timers(d.s, {"collect"})
  BY <1>1, <1>21, <1>24 DEF Timers, Timer
<1>27. Sends(c, d, c.s.quorum \ {m}, ToAll(x))
  BY <1>17, <1>25 DEF Sends, ToAll
<1>28. /\ d.s.leader = c.s.leader /\ d.s.last_pn = pn /\ d.s.accepted_pn = pn /\ d.s.stored_pn = c.s.stored_pn
       /\ d.s.last_committed = c.s.last_committed /\ d.s.values = c.s.values
       /\ d.s.pending_v = c.s.pending_v /\ d.s.pending_pn = c.s.pending_pn
       /\ d.s.quorum = c.s.quorum /\ d.s.num_last = 1
       /\ d.s.peer_last_committed = [q \in Mon |-> -1]
       /\ d.s.new_value = c.s.new_value
       /\ d.s.pending_proposal = c.s.pending_proposal /\ d.s.committing = c.s.committing
       /\ d.s.state = "recovering"
  BY <1>10, <1>25 DEF ButTimers
<1>29. Finds(c.s, d.s)
  <2>1. s1.uncommitted_v = uv /\ s1.uncommitted_pn = upn /\ s1.uncommitted_value = At(c.s.values, v)
    BY <1>1, <1>8 DEF LooseState
  <2>2. d.s.uncommitted_v = uv /\ d.s.uncommitted_pn = upn /\ d.s.uncommitted_value = At(c.s.values, v)
    BY <1>25, <2>1 DEF ButTimers
  <2>. QED BY <1>4, <1>5, <1>6, <2>2 DEF Finds
<1>30. CollectDoes(c, m, pn, d)
  BY <1>3, <1>13, <1>25, <1>26, <1>27, <1>28, <1>29 DEF CollectDoes
<1>. QED BY <1>30

(* What a leader has queued is still there. *)
Keeps(s, t) == s.pending_proposal \union s.committing \subseteq t.pending_proposal \union t.committing

(* What a handler of m that stays in its quorum comes to. *)
Stays(m, p, c, d, W, O, I) ==
  /\ \E T : Sound(m, p, d, T, W, O, I)
  /\ Timed(d.role, d.s) /\ d.role = c.role /\ d.epoch = c.epoch
  /\ Keeps(c.s, d.s)

(* A peon has promised more: the leader starts again. *)
Recollects(c, m, oldpn, d) == d = Collect(Cancel(c, "collect"), m, oldpn)

LEMMA SoundRecollect ==
  ASSUME NEW m \in Mon, NEW p, NEW c, NEW T, NEW W \in Worlds, NEW O \in Queues, NEW I \in Queues,
         NEW d, NEW oldpn \in Nat,
         Sound(m, p, c, T, W, O, I), c.role = "leader", c.s.state = "recovering",
         Timed(c.role, c.s), Recollects(c, m, oldpn, d)
  PROVE  Stays(m, p, c, d, W, O, I)
<1>. USE DEF Recollects
<1>1. c \in Contexts /\ c.s \in LooseState /\ T \in SUBSET Mon /\ c.ok /\ Local(m, NodeOf(c, T))
  BY ContextTypes DEF Sound
<1>2. /\ c.s.leader = m /\ c.epoch % 2 = 0 /\ c.s.quorum \in SUBSET Mon /\ c.s.quorum \in Majorities /\ m \in c.s.quorum
      /\ c.s.accepted_pn = c.s.last_pn
      /\ InRound(m, c.s) /\ Logged(c.s) /\ Numbers(m, c.s)
  BY <1>1, LeaderFacts
<1>3. PICK h : h = Cancel(c, "collect")
  OBVIOUS
<1>4. OnlyTimers(c, h) /\ Timers(h.s, {})
  <2>1. "collect" \in Timer /\ {"collect"} \in SUBSET Timer /\ {"collect"} \ {"collect"} = {}
    BY DEF Timer
  <2>2. Timers(c.s, {"collect"})
    BY DEF Timed
  <2>. QED BY <1>1, <1>3, <2>1, <2>2, CancelIs
<1>5. h \in Contexts /\ h.ok /\ h.role = "leader" /\ h.epoch = c.epoch /\ h.out = c.out /\ ButTimers(c.s, h.s)
  BY <1>1, <1>4 DEF OnlyTimers
<1>6. PICK pn : CollectDoes(h, m, pn, d)
  BY <1>3, <1>5, CollectIs
<1>7. d \in Contexts /\ d.ok /\ d.role = "leader" /\ d.epoch = c.epoch
  BY <1>5, <1>6 DEF CollectDoes
<1>8. /\ d.s.leader = c.s.leader /\ pn \in Nat /\ pn > c.s.last_pn /\ pn % 100 = m /\ pn # 0
      /\ d.s.last_pn = pn /\ d.s.accepted_pn = pn /\ d.s.stored_pn = c.s.stored_pn
      /\ d.s.last_committed = c.s.last_committed /\ d.s.values = c.s.values
      /\ d.s.pending_v = c.s.pending_v /\ d.s.pending_pn = c.s.pending_pn
      /\ d.s.quorum = c.s.quorum /\ d.s.num_last = 1
      /\ \A j \in Mon : d.s.peer_last_committed[j] = -1
      /\ d.s.new_value = c.s.new_value /\ d.s.state = "recovering"
  BY <1>5, <1>6 DEF CollectDoes, ButTimers
<1>9. d.s.pending_proposal = c.s.pending_proposal /\ d.s.committing = c.s.committing
  BY <1>5, <1>6 DEF CollectDoes, ButTimers
<1>10. Timed(d.role, d.s)
  <2>1. Timers(d.s, {"collect"}) /\ d.s.state \notin Updating /\ d.s.state \notin InWriting
    BY <1>4, <1>6, <1>8 DEF CollectDoes, Updating, InWriting
  <2>2. d.s.committing = NoValue
    BY <1>9 DEF Timed, Proposing, Updating, InWriting
  <2>. QED BY <1>7, <1>8, <2>1, <2>2 DEF Timed
<1>11. PICK x : x = [Msg(h, "collect") EXCEPT !.pn = pn]
  OBVIOUS
<1>12. x \in LooseMessage /\ x.op = "collect" /\ x.pn = pn /\ x.epoch = c.epoch
       /\ x.last_committed = c.s.last_committed /\ NoGap(x)
  <2>1. /\ Msg(h, "collect") \in LooseMessage
        /\ Msg(h, "collect").op = "collect" /\ Msg(h, "collect").epoch = c.epoch
        /\ Msg(h, "collect").last_committed = c.s.last_committed
        /\ NoGap(Msg(h, "collect"))
    BY <1>5, MsgIs DEF ButTimers
  <2>2. x.last_committed = Msg(h, "collect").last_committed /\ x.values = Msg(h, "collect").values
    BY <1>11, <2>1 DEF LooseMessage
  <2>3. NoGap(x)
    BY <2>1, <2>2 DEF NoGap
  <2>. QED BY <1>8, <1>11, <2>1, <2>2, <2>3 DEF LooseMessage
<1>13. PICK to : to = c.s.quorum \ {m}
  OBVIOUS
<1>14. Sends(c, d, to, ToAll(x)) /\ to \in SUBSET (Mon \ {m})
  <2>1. Sends(h, d, h.s.quorum \ {m}, ToAll(x))
    BY <1>6, <1>11 DEF CollectDoes
  <2>2. h.s.quorum = c.s.quorum
    BY <1>5 DEF ButTimers
  <2>. QED BY <1>2, <1>5, <1>13, <2>1, <2>2 DEF Sends
<1>15. ToAll(x) \in [Mon -> LooseMessage] /\ \A j \in Mon : ToAll(x)[j] = x
  BY <1>12 DEF ToAll
<1>16. {m} \in SUBSET Mon /\ Cardinality({m}) = 1
  BY FS_Singleton
<1>17. Local(m, NodeOf(d, {m}))
  <2>1. PICK A : A = NodeOf(d, {m})
    OBVIOUS
  <2>2. A.role = "leader" /\ A.s = d.s /\ A.T = {m} /\ A.epoch = c.epoch
    BY <1>7, <1>16, <2>1, NodeIs
  <2>3. Leading(m, A)
    BY <1>2, <1>8, <1>16, <2>2 DEF Leading
  <2>4. Numbers(m, d.s) /\ Logged(d.s)
    <3>1. c.s.stored_pn \in Nat /\ c.s.accepted_pn \in Nat
      BY <1>1 DEF LooseState
    <3>2. Numbers(m, d.s)
      BY <1>2, <1>8, <3>1 DEF Numbers
    <3>. QED BY <1>2, <1>8, <3>2 DEF Logged
  <2>5. InRound(m, d.s)
    <3>1. d.s.state \notin Proposing /\ d.s.state \notin InWriting /\ c.s.state \notin Proposing
      BY <1>8 DEF Proposing, Updating, InWriting
    <3>. QED BY <1>2, <1>8, <3>1 DEF InRound
  <2>6. Local(m, A)
    BY <1>2, <1>8, <2>2, <2>3, <2>4, <2>5 DEF Local
  <2>. QED BY <2>1, <2>6
<1>18. Grown(p, d.s)
  BY <1>8 DEF Sound, Grown
<1>19. ASSUME NEW j \in Mon \ {m}, NEW q, NEW q2, Pair(m, j, NodeOf(c, T), W[j], q, I[j]),
              Pushes(j, to, q, q2, ToAll(x)[j], c.epoch, W[j])
       PROVE  Pair(m, j, NodeOf(d, {m}), W[j], q2, I[j])
  <2>1. PICK A : A = NodeOf(c, T)
    OBVIOUS
  <2>2. A \in Node /\ A.epoch = c.epoch /\ A.role = "leader" /\ A.s = c.s /\ A.T = T
    BY <1>1, <2>1, NodeIs
  <2>3. PICK A2 : A2 = NodeOf(d, {m})
    OBVIOUS
  <2>4. A2 \in Node /\ A2.epoch = c.epoch /\ A2.role = "leader" /\ A2.s = d.s /\ A2.T = {m}
    BY <1>7, <1>16, <2>3, NodeIs
  <2>5. PICK B : B = W[j]
    OBVIOUS
  <2>6. B \in Node
    BY <2>5 DEF Worlds
  <2>7. Pair(m, j, A, B, q, I[j]) /\ Pushes(j, to, q, q2, x, A.epoch, B)
    BY <1>15, <1>19, <2>1, <2>2, <2>5
  <2>8. /\ A2.epoch = A.epoch /\ A.s.state = "recovering" /\ A2.s.state = "recovering"
        /\ A2.s.quorum = A.s.quorum /\ A2.s.last_committed = A.s.last_committed
        /\ A2.s.peer_last_committed[j] = -1
        /\ A2.s.last_pn > A.s.last_pn /\ A2.s.last_pn % 100 = m /\ A2.s.accepted_pn = A2.s.last_pn
        /\ A2.s.stored_pn = A.s.stored_pn
        /\ x.epoch = A2.epoch /\ x.pn = A2.s.last_pn
    BY <1>8, <1>12, <2>2, <2>4
  <2>9. StaysLeader(m, A, A2)
    <3>1. A.s.last_committed \in Nat
      BY <2>2, NodeTypes
    <3>. QED BY <2>2, <2>4, <2>8, <3>1 DEF StaysLeader
  <2>10. Link(m, j, A, B, q, I[j]) /\ q \in Messages /\ I[j] \in Messages
    BY <2>7 DEF Pair
  <2>11. Pushes(j, A.s.quorum, q, q2, x, A.epoch, B)
    BY <1>13, <2>2, <2>7 DEF Pushes
  <2>12. Link(m, j, A2, B, q2, I[j])
    BY <1>12, <2>2, <2>4, <2>6, <2>8, <2>10, <2>11, LinkRecollect
  <2>13. Fits(x, A2) /\ x.op \in Downs
    BY <1>12, <2>2, <2>4, <2>8 DEF Fits, Downs
  <2>14. Pushes(j, to, q, q2, x, A2.epoch, B)
    BY <2>7, <2>8
  <2>15. Pair(m, j, A2, B, q2, I[j])
    BY <1>12, <2>2, <2>4, <2>6, <2>7, <2>9, <2>12, <2>13, <2>14, PairSend
  <2>. QED BY <2>3, <2>5, <2>15
<1>20. Sound(m, p, d, {m}, W, O, I)
  <2>1. \A j \in Mon \ {m} : \A q, q2 :
          /\ Pair(m, j, NodeOf(c, T), W[j], q, I[j])
          /\ Pushes(j, to, q, q2, ToAll(x)[j], c.epoch, W[j])
          => Pair(m, j, NodeOf(d, {m}), W[j], q2, I[j])
    BY <1>19
  <2>2. \A j \in Mon : ToAll(x)[j].epoch = c.epoch
    BY <1>12, <1>15
  <2>3. PICK X : X = ToAll(x)
    OBVIOUS
  <2>4. PICK T2 : T2 = {m}
    OBVIOUS
  <2>5. X \in [Mon -> LooseMessage] /\ T2 \in SUBSET Mon /\ Local(m, NodeOf(d, T2)) /\ Sends(c, d, to, X)
    BY <1>14, <1>15, <1>16, <1>17, <2>3, <2>4
  <2>6. \A j \in Mon : X[j].epoch = c.epoch
    BY <2>2, <2>3
  <2>7. \A j \in Mon \ {m} : \A q, q2 :
          /\ Pair(m, j, NodeOf(c, T), W[j], q, I[j])
          /\ Pushes(j, to, q, q2, X[j], c.epoch, W[j])
          => Pair(m, j, NodeOf(d, T2), W[j], q2, I[j])
    BY <2>1, <2>3, <2>4
  <2>8. Sound(m, p, d, T2, W, O, I)
    BY <1>7, <1>14, <1>18, <2>5, <2>6, <2>7, SoundSend
  <2>. QED BY <2>4, <2>8
<1>. QED BY <1>7, <1>9, <1>10, <1>20 DEF Keeps, Stays

(* Timed and Keeps are about these only. *)
LEMMA TimedSame ==
  ASSUME NEW r, NEW s, NEW t, t.timers = s.timers, t.state = s.state,
         t.pending_proposal = s.pending_proposal, t.committing = s.committing
  PROVE  (Timed(r, s) => Timed(r, t)) /\ Keeps(s, t)
  BY DEF Timed, Timers, Keeps

WithState(f, st, g) ==
  /\ g \in Contexts /\ g.ok = f.ok /\ g.role = f.role /\ g.epoch = f.epoch /\ g.out = f.out
  /\ AlikeFields(f.s, g.s) /\ g.s.state = st
  /\ g.s.pending_proposal = f.s.pending_proposal /\ g.s.committing = f.s.committing
  /\ g.s.timers = f.s.timers

LEMMA StateIs ==
  ASSUME NEW f \in Contexts, NEW st \in State, NEW g, g = [f EXCEPT !.s.state = st]
  PROVE  WithState(f, st, g)
<1>1. PICK s1 : s1 = [f.s EXCEPT !.state = st]
  OBVIOUS
<1>2. s1 \in LooseState
  BY <1>1 DEF Contexts, LooseState
<1>3. g = [f EXCEPT !.s = s1]
  BY <1>1 DEF Contexts
<1>4. g \in Contexts /\ g.s = s1 /\ g.ok = f.ok /\ g.role = f.role /\ g.epoch = f.epoch /\ g.out = f.out
  BY <1>2, <1>3 DEF Contexts
<1>5. AlikeFields(f.s, s1) /\ s1.state = st
      /\ s1.pending_proposal = f.s.pending_proposal /\ s1.committing = f.s.committing
      /\ s1.timers = f.s.timers
  BY <1>1 DEF Contexts, LooseState, AlikeFields
<1>. QED BY <1>4, <1>5 DEF WithState

(* What recovery has found is the same. *)
SameFound(s, t) ==
  /\ t.uncommitted_v = s.uncommitted_v /\ t.uncommitted_pn = s.uncommitted_pn
  /\ t.uncommitted_value = s.uncommitted_value

AllIn(c, f) ==
  /\ f.s.leader = c.s.leader
  /\ f \in Contexts /\ f.ok = c.ok /\ f.role = c.role /\ f.epoch = c.epoch /\ f.out = c.out
  /\ f.s.last_pn = c.s.last_pn /\ f.s.stored_pn = c.s.stored_pn
  /\ f.s.accepted_pn = c.s.accepted_pn
  /\ f.s.last_committed = c.s.last_committed /\ f.s.values = c.s.values
  /\ f.s.pending_v = c.s.pending_v /\ f.s.pending_pn = c.s.pending_pn
  /\ f.s.quorum = c.s.quorum /\ f.s.num_last = c.s.num_last
  /\ f.s.peer_last_committed = [q \in Mon |-> -1]
  /\ f.s.accepted = c.s.accepted /\ f.s.new_value = c.s.new_value /\ f.s.state = c.s.state
  /\ f.s.uncommitted_value \in Value /\ SameFound(c.s, f.s)
  /\ f.s.pending_proposal = c.s.pending_proposal /\ f.s.committing = c.s.committing
  /\ Timers(c.s, {"collect"}) => Timers(f.s, {})

LEMMA AllInIs ==
  ASSUME NEW c \in Contexts, NEW f,
         f = Cancel([c EXCEPT !.s.peer_last_committed = [q \in Mon |-> -1]], "collect")
  PROVE  AllIn(c, f)
<1>1. PICK s1 : s1 = [c.s EXCEPT !.peer_last_committed = [q \in Mon |-> -1]]
  OBVIOUS
<1>2. s1 \in LooseState
  <2>1. [q \in Mon |-> -1] \in [Mon -> Int]
    OBVIOUS
  <2>. QED BY <1>1, <2>1 DEF Contexts, LooseState
<1>3. PICK g : g = [c EXCEPT !.s = s1]
  OBVIOUS
<1>4. g \in Contexts /\ g.s = s1 /\ g.ok = c.ok /\ g.role = c.role /\ g.epoch = c.epoch /\ g.out = c.out
  BY <1>2, <1>3 DEF Contexts
<1>5. f = Cancel(g, "collect")
  BY <1>1, <1>3 DEF Contexts
<1>6. /\ s1.leader = c.s.leader /\ s1.last_pn = c.s.last_pn /\ s1.stored_pn = c.s.stored_pn
      /\ s1.accepted_pn = c.s.accepted_pn
      /\ s1.last_committed = c.s.last_committed /\ s1.values = c.s.values
      /\ s1.pending_v = c.s.pending_v /\ s1.pending_pn = c.s.pending_pn
      /\ s1.quorum = c.s.quorum /\ s1.num_last = c.s.num_last
      /\ s1.peer_last_committed = [q \in Mon |-> -1]
      /\ s1.accepted = c.s.accepted /\ s1.new_value = c.s.new_value /\ s1.state = c.s.state
      /\ s1.pending_proposal = c.s.pending_proposal /\ s1.committing = c.s.committing
      /\ s1.timers = c.s.timers
  BY <1>1 DEF Contexts, LooseState
<1>7. OnlyTimers(g, f) /\ (Timers(g.s, {"collect"}) => Timers(f.s, {}))
  <2>1. "collect" \in Timer /\ {"collect"} \in SUBSET Timer /\ {"collect"} \ {"collect"} = {}
    BY DEF Timer
  <2>. QED BY <1>4, <1>5, <2>1, CancelIs
<1>8. f \in Contexts /\ f.ok = c.ok /\ f.role = c.role /\ f.epoch = c.epoch /\ f.out = c.out
      /\ ButTimers(s1, f.s)
  BY <1>4, <1>7 DEF OnlyTimers
<1>9. f.s.uncommitted_value \in Value
  BY <1>8 DEF Contexts, LooseState
<1>10. Timers(c.s, {"collect"}) => Timers(f.s, {})
  BY <1>4, <1>6, <1>7 DEF Timers
<1>11. SameFound(c.s, f.s)
  <2>1. SameFound(c.s, s1)
    BY <1>1 DEF Contexts, LooseState, SameFound
  <2>. QED BY <1>8, <2>1 DEF ButTimers, SameFound
<1>. QED BY <1>6, <1>8, <1>9, <1>10, <1>11 DEF AllIn, ButTimers

(* The last answer is in: propose what was found, or be done. *)
LEMMA SoundAllIn ==
  ASSUME NEW m \in Mon, NEW p, NEW c, NEW T, NEW W \in Worlds, NEW O \in Queues, NEW I \in Queues,
         NEW f, NEW d,
         Sound(m, p, c, T, W, O, I), c.role = "leader", c.s.state = "recovering",
         T = c.s.quorum, Timed(c.role, c.s), AllIn(c, f), d.s.pending_v <= MaxOp,
         \/ /\ f.s.uncommitted_value # NoValue
            /\ d = Begin([f EXCEPT !.s.state = "updating_previous"], m, f.s.uncommitted_value)
         \/ d = FinishRound(ExtendLease(f, m), m)
  PROVE  Stays(m, p, c, d, W, O, I)
<1>1. c \in Contexts /\ c.ok /\ f \in Contexts /\ f.ok
  BY DEF Sound, AllIn
<1>2. Timers(f.s, {}) /\ f.s.committing = NoValue /\ c.s.committing = NoValue
  BY DEF Timed, AllIn, Proposing, Updating, InWriting
<1>3. "active" \in State /\ "updating_previous" \in State
  BY DEF State
<1>4. PICK g : g = [f EXCEPT !.s.state = "active"]
  OBVIOUS
<1>5. WithState(f, "active", g)
  BY <1>1, <1>3, <1>4, StateIs
<1>6. Activated(c, g)
  BY <1>5 DEF WithState, AllIn, AlikeFields, Activated
<1>7. Sound(m, p, g, T, W, O, I) /\ g.role = "leader" /\ g.s.state = "active" /\ g.epoch = c.epoch
  BY <1>6, SoundActivate DEF Activated
<1>8. Alike(g, f)
  <2>1. AlikeFields(g.s, f.s)
    BY <1>5 DEF WithState, AlikeFields
  <2>. QED BY <1>1, <1>5, <2>1 DEF WithState, Alike
<1>9. CASE /\ f.s.uncommitted_value # NoValue
           /\ d = Begin([f EXCEPT !.s.state = "updating_previous"], m, f.s.uncommitted_value)
  <2>1. PICK h : h = [f EXCEPT !.s.state = "updating_previous"]
    OBVIOUS
  <2>2. WithState(f, "updating_previous", h)
    BY <1>1, <1>3, <2>1, StateIs
  <2>3. h \in Contexts /\ h.ok /\ Alike(g, h) /\ h.s.state \in Updating
    <3>1. AlikeFields(g.s, h.s)
      BY <1>5, <2>2 DEF WithState, AlikeFields
    <3>. QED BY <1>1, <1>5, <2>2, <3>1 DEF WithState, Alike, Updating
  <2>4. PICK value : value = f.s.uncommitted_value
    OBVIOUS
  <2>5. value \in Value /\ value # NoValue /\ d = Begin(h, m, value)
    BY <1>9, <2>1, <2>4 DEF AllIn
  <2>6. Sound(m, p, d, T, W, O, I)
    BY <1>7, <2>3, <2>5, SoundPropose
  <2>7. BeginKept(h, d)
    BY <2>3, <2>5, BeginKeeps
  <2>8. Timers(h.s, {})
    BY <1>2, <2>2 DEF WithState, Timers
  <2>9. /\ d.s.state = "updating_previous" /\ d.s.committing = NoValue
        /\ d.s.pending_proposal = c.s.pending_proposal
        /\ d.role = c.role /\ d.epoch = c.epoch /\ Timers(d.s, {"accept"})
    BY <1>2, <2>2, <2>7, <2>8 DEF BeginKept, WithState, AllIn
  <2>10. Timed(d.role, d.s)
    BY <2>9 DEF Timed, Updating, InWriting, Proposing
  <2>11. Keeps(c.s, d.s)
    BY <1>2, <2>9 DEF Keeps
  <2>. QED BY <2>6, <2>9, <2>10, <2>11 DEF Stays
<1>10. CASE d = FinishRound(ExtendLease(f, m), m)
  <2>1. /\ Sound(m, p, d, T, W, O, I) /\ Timed(d.role, d.s)
        /\ d.role = g.role /\ d.epoch = g.epoch
        /\ f.s.pending_proposal \subseteq d.s.pending_proposal \union d.s.committing
    BY SMTT(60), <1>2, <1>7, <1>8, <1>10, SoundFinish
  <2>2. Keeps(c.s, d.s)
    BY <1>2, <2>1 DEF Keeps, AllIn, NoValue
  <2>. QED BY <1>7, <2>1, <2>2 DEF Stays
<1>. QED BY <1>9, <1>10

(* Recovery has found a value for the next version. *)
Unfinished(s) == s.uncommitted_v = s.last_committed + 1 /\ s.uncommitted_value # NoValue

(* handle_last(), case by case. *)
LastDoes(c, m, msg, d, d1, e, f) ==
  /\ msg.pn < c.s.accepted_pn => d = d1
  /\ msg.pn > c.s.accepted_pn => d = Collect(Cancel(d1, "collect"), m, msg.pn)
  /\ msg.pn = c.s.accepted_pn =>
       /\ e.s.num_last # Cardinality(e.s.quorum) => d = e
       /\ e.s.num_last = Cardinality(e.s.quorum) =>
            \/ /\ Unfinished(f.s)
               /\ d = Begin([f EXCEPT !.s.state = "updating_previous"], m, f.s.uncommitted_value)
            \/ ~Unfinished(f.s) /\ d = FinishRound(ExtendLease(f, m), m)

LEMMA LastCases ==
  ASSUME NEW c, NEW m, NEW from, NEW msg, NEW d, NEW d1, NEW e, NEW f,
         c.role = "leader", msg.pn \in Nat, c.s.accepted_pn \in Nat,
         d = HandleLast(c, m, from, msg), Hearing(c, from, msg, d1),
         e = Learn([d1 EXCEPT !.s.num_last = @ + 1], msg),
         f = Cancel([e EXCEPT !.s.peer_last_committed = [q \in Mon |-> -1]], "collect")
  PROVE  LastDoes(c, m, msg, d, d1, e, f)
<1>1. d = IF c.role # "leader" \/ msg.pn < c.s.accepted_pn
          THEN IF c.role # "leader" THEN c ELSE d1
          ELSE IF msg.pn > c.s.accepted_pn THEN Collect(Cancel(d1, "collect"), m, msg.pn)
          ELSE IF e.s.num_last # Cardinality(e.s.quorum) THEN e
          ELSE IF f.s.uncommitted_v = f.s.last_committed + 1 /\ f.s.uncommitted_value # NoValue
               THEN Begin([f EXCEPT !.s.state = "updating_previous"], m, f.s.uncommitted_value)
               ELSE FinishRound(ExtendLease(f, m), m)
  BY ZenonT(60) DEF HandleLast, Hearing
<1>2. PICK b : b = Begin([f EXCEPT !.s.state = "updating_previous"], m, f.s.uncommitted_value)
  OBVIOUS
<1>3. PICK g : g = FinishRound(ExtendLease(f, m), m)
  OBVIOUS
<1>4. PICK k : k = Collect(Cancel(d1, "collect"), m, msg.pn)
  OBVIOUS
<1>5. d = IF msg.pn < c.s.accepted_pn THEN d1
          ELSE IF msg.pn > c.s.accepted_pn THEN k
          ELSE IF e.s.num_last # Cardinality(e.s.quorum) THEN e
          ELSE IF f.s.uncommitted_v = f.s.last_committed + 1 /\ f.s.uncommitted_value # NoValue
               THEN b ELSE g
  BY <1>1, <1>2, <1>3, <1>4
<1>6. msg.pn < c.s.accepted_pn => d = d1
  BY <1>5
<1>7. msg.pn > c.s.accepted_pn => d = k
  BY <1>5
<1>8. msg.pn = c.s.accepted_pn => IF e.s.num_last # Cardinality(e.s.quorum) THEN d = e
                                  ELSE (Unfinished(f.s) /\ d = b) \/ (~Unfinished(f.s) /\ d = g)
  BY SMTT(60), <1>5 DEF Unfinished
<1>. QED BY <1>2, <1>3, <1>4, <1>6, <1>7, <1>8, Zenon DEF LastDoes

LEMMA SoundLast ==
  ASSUME NEW m \in Mon, NEW p, NEW c, NEW T, NEW W \in Worlds, NEW O \in Queues, NEW I \in Queues,
         NEW I2, NEW from \in Mon \ {m}, NEW msg, NEW d,
         Sound(m, p, c, T, W, O, I), Timed(c.role, c.s),
         Heading(I, from, msg, "last"), Took(I, from, I2),
         d = HandleLast(c, m, from, msg), d.s.pending_v <= MaxOp
  PROVE  Stays(m, p, c, d, W, O, I2)
<1>1. c \in Contexts /\ c.ok
  BY DEF Sound
<1>2. c.role = "leader" /\ LastIs(m, c, T, msg, from, W[from])
  BY LastExpected DEF Heading
<1>3. msg \in LooseMessage /\ c.s.state = "recovering" /\ msg.pn \in Nat /\ msg.last_committed \in Nat
      /\ c.s.accepted_pn \in Nat
  <2>1. msg \in LooseMessage /\ c.s.state = "recovering"
    BY <1>2 DEF LastIs
  <2>2. msg.pn \in Nat /\ msg.last_committed \in Nat
    BY <2>1, MonTypes DEF LooseMessage
  <2>. QED BY <1>1, <2>1, <2>2 DEF Contexts, LooseState
<1>4. PICK d1 : Hearing(c, from, msg, d1)
  BY DEF Hearing
<1>5. Sound(m, p, d1, T, W, O, I) /\ Heard(c, from, msg, d1)
  BY <1>4, SoundHear
<1>e. PICK e : e = Learn([d1 EXCEPT !.s.num_last = @ + 1], msg)
  OBVIOUS
<1>f. PICK f : f = Cancel([e EXCEPT !.s.peer_last_committed = [q \in Mon |-> -1]], "collect")
  OBVIOUS
<1>d. LastDoes(c, m, msg, d, d1, e, f)
  BY <1>2, <1>3, <1>4, <1>e, <1>f, LastCases
<1>6. /\ d1 \in Contexts /\ d1.role = "leader" /\ d1.epoch = c.epoch /\ d1.s.state = "recovering"
      /\ d1.s.accepted_pn = c.s.accepted_pn /\ d1.s.quorum = c.s.quorum
  BY <1>2, <1>3, <1>5 DEF Heard
<1>7. Timed(d1.role, d1.s) /\ Keeps(c.s, d1.s)
  <2>1. /\ d1.s.timers = c.s.timers /\ d1.s.state = c.s.state /\ d1.role = c.role
        /\ d1.s.pending_proposal = c.s.pending_proposal /\ d1.s.committing = c.s.committing
    BY <1>5 DEF Heard
  <2>. QED BY <2>1, TimedSame
<1>8. I2 \in Queues
  <2>1. I[from] \in Messages
    BY DEF Queues
  <2>2. Tail(I[from]) \in Messages
    BY <2>1, TailFacts DEF Heading
  <2>. QED BY <2>2 DEF Queues, Took
<1>9. CASE msg.pn < c.s.accepted_pn
  <2>1. d = d1
    BY <1>9, <1>d DEF LastDoes
  <2>2. Sound(m, p, d1, T, W, O, I2)
    <3>1. "last" \in Ups
      BY DEF Ups
    <3>. QED BY <1>5, <3>1, SoundTail
  <2>. QED BY <1>2, <1>6, <1>7, <2>1, <2>2 DEF Stays
<1>10. CASE msg.pn > c.s.accepted_pn
  <2>1. d = Collect(Cancel(d1, "collect"), m, msg.pn)
    BY <1>10, <1>d DEF LastDoes
  <2>2. Sound(m, p, d1, T, W, O, I2)
    <3>1. "last" \in Ups
      BY DEF Ups
    <3>. QED BY <1>5, <3>1, SoundTail
  <2>3. Stays(m, p, d1, d, W, O, I2)
    <3>1. PICK n : n = msg.pn
      OBVIOUS
    <3>2. n \in Nat /\ Recollects(d1, m, n, d)
      BY <1>3, <2>1, <3>1 DEF Recollects
    <3>. QED BY <1>6, <1>7, <1>8, <2>2, <3>2, SoundRecollect
  <2>. QED BY <1>2, <1>6, <1>7, <2>3 DEF Stays, Keeps
<1>11. CASE msg.pn = c.s.accepted_pn
  <2>3. Counted(d1, e)
    BY <1>3, <1>6, <1>e, LearnIs
  <2>4. PICK T2 : T2 = T \union {from}
    OBVIOUS
  <2>5. d1.s.peer_last_committed[from] >= 0
    <3>1. c.s.peer_last_committed \in [Mon -> Int]
      BY <1>1 DEF Contexts, LooseState
    <3>2. d1.s.peer_last_committed[from] = msg.last_committed
      BY <1>5, <3>1 DEF Heard
    <3>. QED BY <1>3, <3>2
  <2>6. Sound(m, p, e, T2, W, O, I2)
    <3>1. msg.pn = d1.s.accepted_pn
      BY <1>6, <1>11
    <3>. QED BY <1>5, <2>3, <2>4, <2>5, <3>1, SoundCount
  <2>7. /\ e \in Contexts /\ e.role = "leader" /\ e.epoch = c.epoch /\ e.s.state = "recovering"
        /\ e.s.timers = d1.s.timers /\ e.s.state = d1.s.state
        /\ e.s.pending_proposal = d1.s.pending_proposal /\ e.s.committing = d1.s.committing
    BY <1>6, <2>3 DEF Counted, ButLearnt
  <2>8. Timed(e.role, e.s) /\ Keeps(d1.s, e.s)
    <3>1. Timed("leader", d1.s)
      BY <1>6, <1>7
    <3>. QED BY <2>7, <3>1, TimedSame
  <2>9. Keeps(c.s, e.s)
    BY <1>7, <2>8 DEF Keeps
  <2>10. CASE e.s.num_last # Cardinality(e.s.quorum)
    <3>1. d = e
      BY <1>11, <1>d, <2>10 DEF LastDoes
    <3>. QED BY <1>2, <2>6, <2>7, <2>8, <2>9, <3>1 DEF Stays
  <2>11. CASE e.s.num_last = Cardinality(e.s.quorum)
    <3>1. T2 = e.s.quorum
      <4>1. T2 \subseteq e.s.quorum /\ e.s.num_last = Cardinality(T2) /\ e.s.quorum \in SUBSET Mon
        BY <2>6, <2>7, LeaderFacts DEF Sound
      <4>3. IsFiniteSet(e.s.quorum)
        BY <4>1, MonFinite, FS_Subset
      <4>. QED BY <2>11, <4>1, <4>3, FS_Subset
    <3>3. AllIn(e, f)
      BY <1>f, <2>7, AllInIs
    <3>5. \/ /\ f.s.uncommitted_value # NoValue
             /\ d = Begin([f EXCEPT !.s.state = "updating_previous"], m, f.s.uncommitted_value)
          \/ d = FinishRound(ExtendLease(f, m), m)
      BY <1>11, <1>d, <2>11 DEF LastDoes, Unfinished
    <3>6. Stays(m, p, e, d, W, O, I2)
      BY <1>8, <2>6, <2>7, <2>8, <3>1, <3>3, <3>5, SoundAllIn
    <3>. QED BY <1>2, <2>7, <2>9, <3>6 DEF Stays, Keeps
  <2>. QED BY <2>10, <2>11
<1>. QED
  <2>1. c.s.accepted_pn \in Nat
    BY <1>1 DEF Contexts, LooseState
  <2>. QED BY <1>3, <1>9, <1>10, <1>11, <2>1

-----------------------------------------------------------------------------
(* handle_accept() *)

(* Rounds and numbers do not change. *)
SameRound(s, t) ==
  /\ t.leader = s.leader
  /\ t.last_pn = s.last_pn /\ t.stored_pn = s.stored_pn /\ t.accepted_pn = s.accepted_pn
  /\ t.last_committed = s.last_committed /\ t.values = s.values
  /\ t.pending_v = s.pending_v /\ t.pending_pn = s.pending_pn
  /\ t.quorum = s.quorum /\ t.num_last = s.num_last
  /\ t.peer_last_committed = s.peer_last_committed /\ t.new_value = s.new_value
  /\ t.pending_proposal = s.pending_proposal /\ t.committing = s.committing

AcceptDoes(c, from, d) ==
  /\ d \in Contexts /\ d.ok = c.ok /\ d.role = c.role /\ d.epoch = c.epoch /\ d.out = c.out
  /\ SameRound(c.s, d.s)
  /\ d.s.accepted = c.s.accepted \union {from}
  /\ \/ d.s.state = c.s.state /\ d.s.timers = c.s.timers
     \/ /\ d.s.accepted = d.s.quorum /\ d.s.state \in InWriting
        /\ c.s.state = "updating_previous" => d.s.state = "writing_previous"
        /\ Timers(c.s, {"accept"}) => Timers(d.s, {})

LEMMA AcceptIs ==
  ASSUME NEW c \in Contexts, NEW m, NEW from \in Mon, NEW msg, NEW d,
         c.s.state \in Updating, msg.pn = c.s.accepted_pn, msg.last_committed = c.s.last_committed,
         from \notin c.s.accepted, d = HandleAccept(c, m, from, msg)
  PROVE  AcceptDoes(c, from, d)
<1>1. c.s \in LooseState /\ c.s.last_committed \in Nat
  BY MonTypes DEF Contexts, LooseState
<1>2. ~(msg.pn # c.s.accepted_pn \/ msg.last_committed < c.s.last_committed - 1)
  BY <1>1
<1>3. PICK b : b = /\ msg.last_committed \in {c.s.last_committed, c.s.last_committed - 1}
                   /\ c.s.state \in {"updating", "updating_previous"}
                   /\ from \notin c.s.accepted
  OBVIOUS
<1>4. b = TRUE
  BY <1>3 DEF Updating
<1>5. PICK k : k = Check(c, b)
  OBVIOUS
<1>6. k = c
  BY <1>4, <1>5, CheckIs
<1>7. PICK e : e = [c EXCEPT !.s.accepted = @ \union {from}]
  OBVIOUS
<1>8. d = IF e.s.accepted = c.s.quorum THEN CommitStart(e) ELSE e
  BY <1>2, <1>3, <1>5, <1>6, <1>7 DEF HandleAccept
<1>9. PICK s1 : s1 = [c.s EXCEPT !.accepted = @ \union {from}]
  OBVIOUS
<1>10. s1 \in LooseState
  BY <1>1, <1>9 DEF LooseState
<1>11. e \in Contexts /\ e.s = s1 /\ e.ok = c.ok /\ e.role = c.role /\ e.epoch = c.epoch /\ e.out = c.out
  <2>1. e = [c EXCEPT !.s = s1]
    BY <1>7, <1>9 DEF Contexts
  <2>. QED BY <1>10, <2>1 DEF Contexts
<1>12. SameRound(c.s, s1) /\ s1.accepted = c.s.accepted \union {from} /\ s1.state = c.s.state
       /\ s1.timers = c.s.timers
  BY <1>1, <1>9 DEF LooseState, SameRound
<1>13. CASE e.s.accepted # c.s.quorum
  BY <1>8, <1>11, <1>12, <1>13 DEF AcceptDoes
<1>14. CASE e.s.accepted = c.s.quorum
  <2>1. PICK st : st = IF e.s.state = "updating_previous" THEN "writing_previous" ELSE "writing"
    OBVIOUS
  <2>2. st \in State /\ st \in InWriting
    BY <2>1 DEF State, InWriting
  <2>3. PICK g : g = [e EXCEPT !.s.state = st]
    OBVIOUS
  <2>4. WithState(e, st, g)
    BY <1>11, <2>2, <2>3, StateIs
  <2>5. d = Cancel(g, "accept")
    <3>1. g = [e EXCEPT !.s.state = IF @ = "updating_previous" THEN "writing_previous" ELSE "writing"]
      BY <1>11, <2>1, <2>3 DEF Contexts, LooseState
    <3>. QED BY <1>8, <1>14, <3>1 DEF CommitStart
  <2>6. OnlyTimers(g, d) /\ (Timers(g.s, {"accept"}) => Timers(d.s, {}))
    <3>1. "accept" \in Timer /\ {"accept"} \in SUBSET Timer /\ {"accept"} \ {"accept"} = {}
      BY DEF Timer
    <3>2. g \in Contexts
      BY <2>4 DEF WithState
    <3>. QED BY <2>5, <3>1, <3>2, CancelIs
  <2>7. d \in Contexts /\ d.ok = c.ok /\ d.role = c.role /\ d.epoch = c.epoch /\ d.out = c.out
    BY <1>11, <2>4, <2>6 DEF WithState, OnlyTimers
  <2>8. SameRound(s1, d.s) /\ d.s.accepted = s1.accepted /\ d.s.state = st
    <3>1. AlikeFields(s1, g.s) /\ g.s.state = st
          /\ g.s.pending_proposal = s1.pending_proposal /\ g.s.committing = s1.committing
      BY <1>11, <2>4 DEF WithState
    <3>2. ButTimers(g.s, d.s)
      BY <2>6 DEF OnlyTimers
    <3>. QED BY <3>1, <3>2 DEF AlikeFields, ButTimers, SameRound
  <2>9. Timers(c.s, {"accept"}) => Timers(d.s, {})
    BY <1>11, <1>12, <2>4, <2>6 DEF WithState, Timers
  <2>10. SameRound(c.s, d.s) /\ d.s.accepted = c.s.accepted \union {from} /\ d.s.accepted = d.s.quorum
    BY <1>11, <1>12, <1>14, <2>8 DEF SameRound
  <2>11. c.s.state = "updating_previous" => d.s.state = "writing_previous"
    BY <1>11, <1>12, <2>1, <2>8
  <2>. QED BY <2>2, <2>7, <2>8, <2>9, <2>10, <2>11 DEF AcceptDoes
<1>. QED BY <1>13, <1>14

LEMMA SoundAccept ==
  ASSUME NEW m \in Mon, NEW p, NEW c, NEW T, NEW W \in Worlds, NEW O \in Queues, NEW I \in Queues,
         NEW I2, NEW from \in Mon \ {m}, NEW msg, NEW d,
         Sound(m, p, c, T, W, O, I), Timed(c.role, c.s),
         Heading(I, from, msg, "accept"), Took(I, from, I2),
         d = HandleAccept(c, m, from, msg)
  PROVE  c.role = "leader" /\ Stays(m, p, c, d, W, O, I2)
<1>1. c \in Contexts /\ c.s \in LooseState /\ T \in SUBSET Mon /\ c.ok /\ Local(m, NodeOf(c, T))
  BY ContextTypes DEF Sound
<1>2. /\ c.role = "leader" /\ from \in c.s.quorum /\ c.s.state \in Updating
      /\ msg.pn = c.s.accepted_pn /\ msg.last_committed = c.s.last_committed
      /\ from \notin c.s.accepted
  <2>1. PICK A : A = NodeOf(c, T)
    OBVIOUS
  <2>2. A.role = c.role /\ A.s = c.s
    BY <1>1, <2>1, NodeIs
  <2>3. PICK B : B = W[from]
    OBVIOUS
  <2>4. PICK U : U = I[from]
    OBVIOUS
  <2>5. PICK D : Link(m, from, A, B, D, U) /\ U \in Messages
    BY <2>1, <2>3, <2>4 DEF Sound, Pair
  <2>6. U # <<>> /\ U[1] = msg /\ U[1].op = "accept"
    BY <2>4 DEF Heading
  <2>7. /\ A.role = "leader" /\ from \in A.s.quorum /\ A.s.state \in Updating
        /\ U[1].pn = A.s.accepted_pn /\ U[1].last_committed = A.s.last_committed
        /\ from \notin A.s.accepted
    BY <2>5, <2>6, AcceptExpected
  <2>. QED BY <2>2, <2>6, <2>7
<1>3. /\ c.s.leader = m /\ c.epoch % 2 = 0 /\ c.s.quorum \in SUBSET Mon /\ c.s.quorum \in Majorities /\ m \in c.s.quorum
      /\ c.s.accepted_pn = c.s.last_pn /\ c.s.last_pn % 100 = m /\ c.s.last_pn # 0
      /\ T = c.s.quorum /\ c.s.num_last = Cardinality(T)
      /\ c.s.peer_last_committed[m] = -1
      /\ InRound(m, c.s) /\ Logged(c.s) /\ Numbers(m, c.s)
  <2>1. c.s.state # "recovering"
    BY <1>2 DEF Updating
  <2>. QED BY <1>1, <1>2, <2>1, LeaderFacts
<1>4. AcceptDoes(c, from, d)
  BY <1>1, <1>2, AcceptIs
<1>5. d \in Contexts /\ d.ok /\ d.role = "leader" /\ d.epoch = c.epoch /\ d.out = c.out
      /\ SameRound(c.s, d.s) /\ d.s.accepted = c.s.accepted \union {from}
  BY <1>1, <1>2, <1>4 DEF AcceptDoes
<1>6. d.s.state \in Proposing /\ c.s.state \in Proposing /\ d.s.state # "recovering"
      /\ (d.s.state \in InWriting => d.s.accepted = d.s.quorum)
      /\ (d.s.state \notin Updating => d.s.accepted = d.s.quorum)
  BY <1>2, <1>4 DEF AcceptDoes, Proposing, Updating, InWriting
<1>7. Local(m, NodeOf(d, T))
  <2>1. PICK A : A = NodeOf(d, T)
    OBVIOUS
  <2>2. A.role = "leader" /\ A.s = d.s /\ A.T = T /\ A.epoch = c.epoch
    BY <1>1, <1>5, <2>1, NodeIs
  <2>3. Leading(m, A)
    BY <1>3, <1>5, <2>2 DEF Leading, SameRound
  <2>4. Numbers(m, d.s) /\ Logged(d.s)
    BY <1>3, <1>5 DEF SameRound, Numbers, Logged
  <2>5. InRound(m, d.s)
    <3>1. m \in d.s.accepted /\ d.s.accepted \subseteq d.s.quorum
      BY <1>2, <1>3, <1>5, <1>6 DEF InRound, SameRound
    <3>2. At(d.s.values, d.s.last_committed + 1) = d.s.new_value /\ d.s.new_value # NoValue
      BY <1>3, <1>5, <1>6 DEF InRound, SameRound
    <3>. QED BY <1>6, <3>1, <3>2 DEF InRound
  <2>6. Local(m, A)
    BY <1>3, <1>6, <2>2, <2>3, <2>4, <2>5 DEF Local
  <2>. QED BY <2>1, <2>6
<1>8. Grown(p, d.s)
  BY <1>5 DEF Sound, Grown, SameRound
<1>9. ASSUME NEW j \in Mon \ {m}, NEW q, Pair(m, j, NodeOf(c, T), W[j], q, I[j])
      PROVE  Pair(m, j, NodeOf(d, T), W[j], q, I2[j])
  <2>1. PICK A : A = NodeOf(c, T)
    OBVIOUS
  <2>2. A \in Node /\ A.epoch = c.epoch /\ A.role = "leader" /\ A.s = c.s /\ A.T = T
    BY <1>1, <1>2, <2>1, NodeIs
  <2>3. PICK A2 : A2 = NodeOf(d, T)
    OBVIOUS
  <2>4. A2 \in Node /\ A2.epoch = c.epoch /\ A2.role = "leader" /\ A2.s = d.s /\ A2.T = T
    BY <1>1, <1>5, <2>3, NodeIs
  <2>5. PICK B : B = W[j]
    OBVIOUS
  <2>6. B \in Node
    BY <2>5 DEF Worlds
  <2>7. Pair(m, j, A, B, q, I[j])
    BY <1>9, <2>1, <2>5
  <2>8. /\ A2.role = A.role /\ A2.epoch = A.epoch /\ A2.T = A.T /\ A2.s.state \in Proposing
        /\ A2.s.quorum = A.s.quorum /\ A2.s.last_committed = A.s.last_committed
        /\ A2.s.accepted_pn = A.s.accepted_pn /\ A2.s.last_pn = A.s.last_pn
        /\ A2.s.peer_last_committed = A.s.peer_last_committed
        /\ A2.s.stored_pn = A.s.stored_pn
        /\ A2.s.accepted = A.s.accepted \union {from}
    BY <1>5, <1>6, <2>2, <2>4 DEF SameRound
  <2>9. StaysLeader(m, A, A2)
    <3>1. A.s.last_committed \in Nat
      BY <2>2, NodeTypes
    <3>. QED BY <2>2, <2>8, <3>1 DEF StaysLeader
  <2>10. CASE j = from
    <3>1. PICK U : U = I[j]
      OBVIOUS
    <3>2. PICK U2 : U2 = I2[j]
      OBVIOUS
    <3>3. U2 = Tail(U) /\ U # <<>> /\ U[1].op = "accept"
      BY <2>10, <3>1, <3>2 DEF Heading, Took, Queues
    <3>4. U \in Messages /\ Link(m, j, A, B, q, U) /\ Pair(m, j, A, B, q, U)
      BY <2>7, <3>1 DEF Pair
    <3>5. A2.s.accepted = A.s.accepted \union {j}
      BY <2>8, <2>10
    <3>6. Link(m, j, A2, B, q, U2)
      BY <2>8, <3>3, <3>4, <3>5, LinkAccepted
    <3>7. Pair(m, j, A2, B, q, U2)
      BY <2>2, <2>4, <2>6, <2>9, <3>3, <3>4, <3>6, PairAccepted
    <3>. QED BY <2>3, <2>5, <3>2, <3>7
  <2>11. CASE j # from
    <3>1. I2[j] = I[j]
      BY <2>11 DEF Took, Queues
    <3>2. Link(m, j, A, B, q, I[j]) /\ A.T = A.s.quorum /\ A.s.state \in Updating
      BY <1>2, <1>3, <2>2, <2>7 DEF Pair
    <3>3. j \in A2.s.accepted <=> j \in A.s.accepted
      BY <2>8, <2>11
    <3>4. j \in A.s.quorum => j \in A.s.accepted \/ A2.s.state \in Updating
      BY <1>6, <2>4, <2>8, <3>3
    <3>5. Link(m, j, A2, B, q, I[j])
      BY <2>2, <2>6, <2>8, <3>2, <3>3, <3>4, LinkOtherAccepted
    <3>6. Pair(m, j, A2, B, q, I[j])
      BY <2>2, <2>4, <2>6, <2>7, <2>9, <3>5, PairKeep
    <3>. QED BY <2>3, <2>5, <3>1, <3>6
  <2>. QED BY <2>10, <2>11
<1>10. Sound(m, p, d, T, W, O, I2)
  BY <1>1, <1>5, <1>7, <1>8, <1>9, SoundStep
<1>11. Timed(d.role, d.s)
  <2>1. Timers(c.s, {"accept"})
    BY <1>2 DEF Timed
  <2>2. CASE d.s.state = c.s.state /\ d.s.timers = c.s.timers
    <3>1. d.role = c.role /\ d.s.pending_proposal = c.s.pending_proposal /\ d.s.committing = c.s.committing
      BY <1>2, <1>5 DEF SameRound
    <3>. QED BY <2>2, <3>1, TimedSame
  <2>3. CASE d.s.state \in InWriting /\ Timers(d.s, {})
    BY <1>5, <2>3 DEF Timed, InWriting, Updating, Proposing
  <2>. QED BY <1>4, <2>1, <2>2, <2>3 DEF AcceptDoes
<1>12. Keeps(c.s, d.s)
  BY <1>5 DEF Keeps, SameRound
<1>. QED BY <1>2, <1>5, <1>10, <1>11, <1>12 DEF Stays

-----------------------------------------------------------------------------
(* commit_finish() *)

CommitDoes(c, m, e, x) ==
  /\ e.s.leader = c.s.leader
  /\ e \in Contexts /\ e.ok /\ e.role = c.role /\ e.epoch = c.epoch
  /\ e.s.last_pn = c.s.last_pn /\ e.s.stored_pn = c.s.stored_pn /\ e.s.accepted_pn = c.s.accepted_pn
  /\ e.s.last_committed = c.s.last_committed + 1 /\ e.s.values = c.s.values
  /\ e.s.pending_v = c.s.pending_v /\ e.s.pending_pn = c.s.pending_pn
  /\ e.s.quorum = c.s.quorum /\ e.s.num_last = c.s.num_last
  /\ e.s.peer_last_committed = c.s.peer_last_committed /\ e.s.new_value = NoValue
  /\ e.s.pending_proposal = c.s.pending_proposal /\ e.s.committing = NoValue
  /\ e.s.timers = c.s.timers
  /\ x \in LooseMessage /\ x.op = "commit" /\ x.epoch = c.epoch
  /\ x.last_committed = c.s.last_committed + 1 /\ NoGap(x)
  /\ x.values[c.s.last_committed + 1] = c.s.new_value
  /\ \A v \in Version : v # c.s.last_committed + 1 => x.values[v] = NoValue
  /\ Sends(c, e, c.s.quorum \ {m}, ToAll(x))

LEMMA CommitIs ==
  ASSUME NEW c \in Contexts, NEW m \in Mon, NEW d, d = CommitFinishHandler(c, m),
         c.ok, c.role = "leader", c.s.state \in InWriting, c.s.last_committed + 1 \in Version
  PROVE  \E e, x : CommitDoes(c, m, e, x) /\ d = FinishRound(ExtendLease(e, m), m)
<1>1. c.s \in LooseState /\ c.s.last_committed \in Nat /\ c.s.new_value \in Value
      /\ c.s.accepted_pn \in Nat
  BY MonTypes DEF Contexts, LooseState
<1>2. PICK lc : lc = c.s.last_committed + 1
  OBVIOUS
<1>3. lc \in Nat /\ lc \in Version /\ lc \in 0 .. MaxOp
  BY <1>1, <1>2 DEF Version
<1>4. PICK b : b = (c.s.state \in {"writing", "writing_previous"})
  OBVIOUS
<1>5. Check(c, b) = c
  BY <1>4, CheckIs DEF InWriting
<1>6. PICK s1 : s1 = [c.s EXCEPT !.lease = FALSE, !.last_committed = lc,
                              !.new_value = NoValue, !.state = "refresh",
                              !.committing = NoValue]
  OBVIOUS
<1>7. s1 \in LooseState
  BY <1>1, <1>3, <1>6 DEF LooseState, State, NoValue, Value
<1>8. /\ s1.leader = c.s.leader /\ s1.last_pn = c.s.last_pn /\ s1.stored_pn = c.s.stored_pn /\ s1.accepted_pn = c.s.accepted_pn
      /\ s1.last_committed = lc /\ s1.values = c.s.values
      /\ s1.pending_v = c.s.pending_v /\ s1.pending_pn = c.s.pending_pn
      /\ s1.quorum = c.s.quorum /\ s1.num_last = c.s.num_last
      /\ s1.peer_last_committed = c.s.peer_last_committed /\ s1.new_value = NoValue
      /\ s1.pending_proposal = c.s.pending_proposal /\ s1.committing = NoValue
      /\ s1.timers = c.s.timers
  BY <1>1, <1>6 DEF LooseState
<1>9. PICK d1 : d1 = [c EXCEPT !.s = s1]
  OBVIOUS
<1>10. d1 \in Contexts /\ d1.s = s1 /\ d1.ok /\ d1.role = c.role /\ d1.epoch = c.epoch /\ d1.out = c.out
  BY <1>7, <1>9 DEF Contexts
<1>11. PICK y : y = Msg(d1, "commit")
  OBVIOUS
<1>12. y \in LooseMessage /\ y.op = "commit" /\ y.epoch = c.epoch /\ y.last_committed = lc
       /\ y.values = NoValues
  BY <1>8, <1>10, <1>11, MsgIs
<1>13. PICK x : x = [y EXCEPT !.pn = c.s.accepted_pn, !.values[lc] = c.s.new_value]
  OBVIOUS
<1>14. x \in LooseMessage /\ x.op = "commit" /\ x.epoch = c.epoch /\ x.last_committed = lc
       /\ x.values = [NoValues EXCEPT ![lc] = c.s.new_value]
  BY <1>1, <1>12, <1>13 DEF LooseMessage
<1>15. x.values[lc] = c.s.new_value /\ \A v \in Version : v # lc => x.values[v] = NoValue
  BY <1>3, <1>14 DEF NoValues
<1>16. NoGap(x)
  <2>. SUFFICES ASSUME NEW v \in Version, NEW w \in Version, v < w, w <= x.last_committed,
                       x.values[v] # NoValue
                PROVE  x.values[w] # NoValue
    BY DEF NoGap
  <2>1. v = lc /\ v \in Nat /\ w \in Nat
    BY <1>15, MonTypes
  <2>. QED BY <1>3, <1>14, <2>1
<1>17. PICK e : e = Send(d1, Peers(c, m), x)
  OBVIOUS
<1>18. /\ e.s = s1 /\ e.role = c.role /\ e.epoch = c.epoch /\ e.ok
       /\ e.out = [j \in Mon |-> IF j \in c.s.quorum \ {m} THEN Append(c.out[j], x) ELSE c.out[j]]
       /\ e = [s |-> e.s, role |-> e.role, epoch |-> e.epoch, out |-> e.out, ok |-> e.ok]
  BY <1>10, <1>17 DEF Send, Peers, Contexts
<1>19. e.out \in [Mon -> Messages]
  <2>1. \A j \in Mon : c.out[j] \in Seq(LooseMessage)
    BY DEF Contexts, Messages
  <2>2. \A j \in Mon : Append(c.out[j], x) \in Seq(LooseMessage)
    BY <1>14, <2>1, AppendProperties
  <2>. QED BY <1>18, <2>1, <2>2 DEF Messages
<1>20. e \in Contexts
  BY <1>7, <1>18, <1>19 DEF Contexts
<1>21. Sends(c, e, c.s.quorum \ {m}, ToAll(x))
  BY <1>18 DEF Sends, ToAll
<1>22. Check(e, c.role = "leader") = e
  BY <1>20, CheckIs
<1>23. d = FinishRound(ExtendLease(e, m), m)
  <2>1. d = FinishRound(ExtendLease(Check(e, c.role = "leader"), m), m)
    BY <1>2, <1>4, <1>5, <1>6, <1>9, <1>11, <1>13, <1>17, Zenon DEF CommitFinishHandler
  <2>. QED BY <1>22, <2>1
<1>24. CommitDoes(c, m, e, x)
  BY <1>2, <1>8, <1>14, <1>15, <1>16, <1>18, <1>20, <1>21 DEF CommitDoes
<1>. QED BY <1>23, <1>24

LEMMA SoundCommitted ==
  ASSUME NEW m \in Mon, NEW p, NEW c, NEW T, NEW W \in Worlds, NEW O \in Queues, NEW I \in Queues,
         NEW e, NEW x, NEW g,
         Sound(m, p, c, T, W, O, I), c.role = "leader", c.s.state \in InWriting,
         CommitDoes(c, m, e, x), WithState(e, "active", g)
  PROVE  Sound(m, p, g, T, W, O, I)
<1>1. c \in Contexts /\ c.s \in LooseState /\ T \in SUBSET Mon /\ c.ok /\ Local(m, NodeOf(c, T))
  BY ContextTypes DEF Sound
<1>2. /\ c.s.leader = m /\ c.epoch % 2 = 0 /\ c.s.quorum \in SUBSET Mon /\ c.s.quorum \in Majorities /\ m \in c.s.quorum
      /\ c.s.accepted_pn = c.s.last_pn /\ c.s.last_pn % 100 = m /\ c.s.last_pn # 0
      /\ T = c.s.quorum /\ c.s.num_last = Cardinality(T)
      /\ c.s.peer_last_committed[m] = -1
      /\ InRound(m, c.s) /\ Logged(c.s) /\ Numbers(m, c.s)
  <2>1. c.s.state # "recovering"
    BY DEF InWriting
  <2>. QED BY <1>1, <2>1, LeaderFacts
<1>3. c.s.accepted = c.s.quorum /\ c.s.new_value # NoValue
      /\ At(c.s.values, c.s.last_committed + 1) = c.s.new_value
  BY <1>2 DEF InRound, Proposing
<1>4. c.s.last_committed + 1 \in Version /\ c.s.values[c.s.last_committed + 1] = c.s.new_value
      /\ c.s.last_committed \in Nat
  BY <1>1, <1>3, MonTypes DEF At, LooseState
<1>5. g \in Contexts /\ g.ok /\ g.role = "leader" /\ g.epoch = c.epoch /\ g.out = e.out
      /\ g.s.state = "active"
  BY DEF WithState, CommitDoes
<1>6. /\ g.s.leader = c.s.leader /\ g.s.last_pn = c.s.last_pn /\ g.s.stored_pn = c.s.stored_pn /\ g.s.accepted_pn = c.s.accepted_pn
      /\ g.s.last_committed = c.s.last_committed + 1 /\ g.s.values = c.s.values
      /\ g.s.pending_v = c.s.pending_v /\ g.s.pending_pn = c.s.pending_pn
      /\ g.s.quorum = c.s.quorum /\ g.s.num_last = c.s.num_last
      /\ g.s.peer_last_committed = c.s.peer_last_committed /\ g.s.new_value = NoValue
  BY DEF WithState, CommitDoes, AlikeFields
<1>7. x \in LooseMessage /\ x.op = "commit" /\ x.epoch = c.epoch
      /\ x.last_committed = c.s.last_committed + 1 /\ NoGap(x)
      /\ x.values[c.s.last_committed + 1] # NoValue
  BY <1>3 DEF CommitDoes
<1>8. Local(m, NodeOf(g, T))
  <2>1. PICK A : A = NodeOf(g, T)
    OBVIOUS
  <2>2. A.role = "leader" /\ A.s = g.s /\ A.T = T /\ A.epoch = c.epoch
    BY <1>1, <1>5, <2>1, NodeIs
  <2>3. Leading(m, A)
    BY <1>2, <1>6, <2>2 DEF Leading
  <2>4. Numbers(m, g.s)
    BY <1>2, <1>6 DEF Numbers
  <2>5. Logged(g.s)
    <3>1. \A v \in Version : v <= g.s.last_committed => g.s.values[v] # NoValue
      <4>1. \A v \in Version : v <= c.s.last_committed + 1 =>
              v <= c.s.last_committed \/ v = c.s.last_committed + 1
        BY <1>4, MonTypes
      <4>. QED BY <1>2, <1>3, <1>4, <1>6, <4>1 DEF Logged
    <3>2. \A v \in Version : v > c.s.last_committed + 1 => g.s.values[v] = NoValue
      BY <1>2, <1>6 DEF Logged
    <3>3. \A v \in Version : v > g.s.last_committed + 1 => v > c.s.last_committed + 1
      BY <1>4, <1>6, MonTypes
    <3>4. At(g.s.values, g.s.last_committed + 1) = NoValue
      BY <1>4, <1>6, <3>2, MonTypes DEF At
    <3>. QED BY <3>1, <3>2, <3>3, <3>4 DEF Logged
  <2>6. InRound(m, g.s)
    BY <1>5, <1>6 DEF InRound, Proposing, Updating, InWriting
  <2>7. Local(m, A)
    BY <1>2, <1>5, <2>2, <2>3, <2>4, <2>5, <2>6 DEF Local
  <2>. QED BY <2>1, <2>7
<1>9. Grown(p, g.s)
  <2>1. Grown(p, c.s)
    BY DEF Sound
  <2>. QED BY <1>4, <1>6, <2>1 DEF Grown
<1>10. PICK to : to = c.s.quorum \ {m}
  OBVIOUS
<1>11. Sends(c, g, to, ToAll(x)) /\ to \in SUBSET (Mon \ {m})
  BY <1>2, <1>5, <1>10 DEF Sends, CommitDoes
<1>12. ToAll(x) \in [Mon -> LooseMessage] /\ \A j \in Mon : ToAll(x)[j] = x
  BY <1>7 DEF ToAll
<1>13. ASSUME NEW j \in Mon \ {m}, NEW q, NEW q2, Pair(m, j, NodeOf(c, T), W[j], q, I[j]),
              Pushes(j, to, q, q2, x, c.epoch, W[j])
       PROVE  Pair(m, j, NodeOf(g, T), W[j], q2, I[j])
  <2>1. PICK A : A = NodeOf(c, T)
    OBVIOUS
  <2>2. A \in Node /\ A.epoch = c.epoch /\ A.role = "leader" /\ A.s = c.s /\ A.T = T
    BY <1>1, <2>1, NodeIs
  <2>3. PICK A2 : A2 = NodeOf(g, T)
    OBVIOUS
  <2>4. A2 \in Node /\ A2.epoch = c.epoch /\ A2.role = "leader" /\ A2.s = g.s /\ A2.T = T
    BY <1>1, <1>5, <2>3, NodeIs
  <2>5. PICK B : B = W[j]
    OBVIOUS
  <2>6. B \in Node
    BY <2>5 DEF Worlds
  <2>7. Pair(m, j, A, B, q, I[j]) /\ Pushes(j, to, q, q2, x, A.epoch, B)
    BY <1>13, <2>1, <2>2, <2>5
  <2>8. /\ A2.epoch = A.epoch /\ A2.T = A.T /\ A.T = A.s.quorum
        /\ A.s.state \in InWriting /\ A.s.accepted = A.s.quorum /\ A2.s.state = "active"
        /\ A2.s.quorum = A.s.quorum /\ A2.s.last_committed = A.s.last_committed + 1
        /\ A2.s.accepted_pn = A.s.accepted_pn /\ A2.s.last_pn = A.s.last_pn
        /\ A2.s.peer_last_committed = A.s.peer_last_committed
        /\ A2.s.stored_pn = A.s.stored_pn
    BY <1>2, <1>3, <1>5, <1>6, <2>2, <2>4
  <2>9. /\ x.epoch = A.epoch /\ x.last_committed = A.s.last_committed + 1
        /\ x.values[A.s.last_committed + 1] # NoValue
    BY <1>7, <2>2
  <2>10. StaysLeader(m, A, A2)
    BY <1>4, <2>2, <2>4, <2>8 DEF StaysLeader
  <2>11. Link(m, j, A, B, q, I[j]) /\ q \in Messages /\ I[j] \in Messages
    BY <2>7 DEF Pair
  <2>12. Pushes(j, A.s.quorum, q, q2, x, A.epoch, B)
    BY <1>10, <2>2, <2>7 DEF Pushes
  <2>13. Link(m, j, A2, B, q2, I[j])
    BY <1>7, <2>2, <2>4, <2>6, <2>8, <2>9, <2>11, <2>12, LinkCommitted
  <2>14. Fits(x, A2) /\ x.op \in Downs
    BY <1>7, <2>8, <2>9 DEF Fits, Downs
  <2>15. Pushes(j, to, q, q2, x, A2.epoch, B)
    BY <2>7, <2>8
  <2>16. Pair(m, j, A2, B, q2, I[j])
    BY <1>7, <2>2, <2>4, <2>6, <2>7, <2>10, <2>13, <2>14, <2>15, PairSend
  <2>. QED BY <2>3, <2>5, <2>16
<1>14. PICK X : X = ToAll(x)
  OBVIOUS
<1>15. X \in [Mon -> LooseMessage] /\ Sends(c, g, to, X)
  BY <1>11, <1>12, <1>14
<1>16. \A j \in Mon : X[j].epoch = c.epoch
  BY <1>7, <1>12, <1>14
<1>17. \A j \in Mon \ {m} : \A q, q2 :
         /\ Pair(m, j, NodeOf(c, T), W[j], q, I[j])
         /\ Pushes(j, to, q, q2, X[j], c.epoch, W[j])
         => Pair(m, j, NodeOf(g, T), W[j], q2, I[j])
  BY <1>12, <1>13, <1>14
<1>. QED BY <1>1, <1>5, <1>8, <1>9, <1>11, <1>15, <1>16, <1>17, SoundSend

WriteDone(c, d) ==
  /\ c.role = "leader" /\ d.role = c.role /\ d.epoch = c.epoch
  /\ c.s.pending_proposal \subseteq d.s.pending_proposal \union d.s.committing

(* commit_finish() *)
LEMMA SoundCommitFinish ==
  ASSUME NEW m \in Mon, NEW p, NEW c, NEW T, NEW W \in Worlds, NEW O \in Queues, NEW I \in Queues,
         NEW d,
         Sound(m, p, c, T, W, O, I), Timed(c.role, c.s), c.s.state \in InWriting,
         d = CommitFinishHandler(c, m), d.s.pending_v <= MaxOp
  PROVE  Sound(m, p, d, T, W, O, I) /\ Timed(d.role, d.s) /\ WriteDone(c, d)
<1>1. c \in Contexts /\ c.s \in LooseState /\ T \in SUBSET Mon /\ c.ok /\ Local(m, NodeOf(c, T))
  BY ContextTypes DEF Sound
<1>2. c.role = "leader"
  <2>1. PICK A : A = NodeOf(c, T)
    OBVIOUS
  <2>2. A.role = c.role /\ A.s = c.s /\ Local(m, A)
    BY <1>1, <2>1, NodeIs
  <2>3. A.s.state \notin {"recovering", "active", "updating"}
    BY <2>2 DEF InWriting
  <2>4. c.role \in {"out", "leader", "peon"}
    BY <1>1, ContextTypes
  <2>. QED BY <2>2, <2>3, <2>4 DEF Local
<1>3. c.s.last_committed + 1 \in Version
  <2>1. InRound(m, c.s)
    BY <1>1, <1>2, LeaderFacts
  <2>2. At(c.s.values, c.s.last_committed + 1) # NoValue
    BY <2>1 DEF InRound, Proposing
  <2>. QED BY <2>2 DEF At
<1>4. PICK e, x : CommitDoes(c, m, e, x) /\ d = FinishRound(ExtendLease(e, m), m)
  BY <1>1, <1>2, <1>3, CommitIs
<1>5. e \in Contexts /\ "active" \in State /\ e.ok
  BY <1>4 DEF CommitDoes, State
<1>6. PICK g : g = [e EXCEPT !.s.state = "active"]
  OBVIOUS
<1>7. WithState(e, "active", g)
  BY <1>5, <1>6, StateIs
<1>8. Sound(m, p, g, T, W, O, I)
  BY <1>2, <1>4, <1>7, SoundCommitted
<1>9. Alike(g, e)
  <2>1. AlikeFields(g.s, e.s)
    BY <1>7 DEF WithState, AlikeFields
  <2>. QED BY <1>5, <1>7, <2>1 DEF WithState, Alike
<1>10. Timers(e.s, {}) /\ e.s.committing = NoValue /\ e.s.pending_proposal = c.s.pending_proposal
  BY <1>2, <1>4 DEF Timed, CommitDoes, Timers
<1>11. g.role = "leader" /\ g.epoch = c.epoch /\ g.s.state = "active"
  BY <1>2, <1>4, <1>7 DEF WithState, CommitDoes
<1>12. /\ Sound(m, p, d, T, W, O, I) /\ Timed(d.role, d.s)
       /\ d.role = g.role /\ d.epoch = g.epoch
       /\ e.s.pending_proposal \subseteq d.s.pending_proposal \union d.s.committing
  BY <1>4, <1>8, <1>9, <1>10, <1>11, SoundFinish
<1>. QED BY <1>2, <1>10, <1>11, <1>12 DEF WriteDone

-----------------------------------------------------------------------------
(* Leases and new operations *)

LEMMA ButTimersAlike ==
  ASSUME NEW s, NEW t, ButTimers(s, t)
  PROVE  AlikeFields(s, t) /\ t.state = s.state
         /\ t.pending_proposal = s.pending_proposal /\ t.committing = s.committing
  BY DEF ButTimers, AlikeFields

(* A leader only changes what no session is about. *)
SameSession(c, g) ==
  /\ g \in Contexts /\ g.ok = c.ok /\ g.role = c.role /\ g.epoch = c.epoch /\ g.out = c.out
  /\ AlikeFields(c.s, g.s) /\ g.s.state = c.s.state

AckDoes(c, d) ==
  /\ SameSession(c, d) /\ SameFound(c.s, d.s)
  /\ d.s.pending_proposal = c.s.pending_proposal /\ d.s.committing = c.s.committing
  /\ \/ d.s.timers = c.s.timers
     \/ /\ c.s.timers["lease_ack"] # 0
        /\ \A S \in SUBSET Timer : Timers(c.s, S) => Timers(d.s, S \ {"lease_ack"})

LEMMA AckIs ==
  ASSUME NEW c \in Contexts, NEW m, NEW from \in Mon, NEW msg, NEW d,
         d = HandleLeaseAck(c, m, from, msg)
  PROVE  AckDoes(c, d)
<1>1. c.s \in LooseState
  BY DEF Contexts
<1>2. PICK s1 : s1 = [c.s EXCEPT !.acked_lease = @ \union {from}]
  OBVIOUS
<1>3. s1 \in LooseState /\ AlikeFields(c.s, s1) /\ s1.state = c.s.state /\ s1.timers = c.s.timers
      /\ s1.pending_proposal = c.s.pending_proposal /\ s1.committing = c.s.committing /\ SameFound(c.s, s1)
  BY <1>1, <1>2 DEF LooseState, AlikeFields, SameFound
<1>4. PICK e : e = [c EXCEPT !.s.acked_lease = @ \union {from}]
  OBVIOUS
<1>5. e \in Contexts /\ e.s = s1 /\ e.ok = c.ok /\ e.role = c.role /\ e.epoch = c.epoch /\ e.out = c.out
  <2>1. e = [c EXCEPT !.s = s1]
    BY <1>2, <1>4 DEF Contexts
  <2>. QED BY <1>3, <2>1 DEF Contexts
<1>6. d = IF c.s.timers["lease_ack"] = 0 \/ from \in c.s.acked_lease THEN c
          ELSE IF e.s.acked_lease = c.s.quorum THEN Cancel(e, "lease_ack") ELSE e
  BY <1>4 DEF HandleLeaseAck
<1>7. CASE d = c
  BY <1>7 DEF SameSession, AlikeFields, SameFound, AckDoes
<1>8. CASE d = e
  BY <1>3, <1>5, <1>8 DEF SameSession, AckDoes
<1>9. CASE c.s.timers["lease_ack"] # 0 /\ d = Cancel(e, "lease_ack")
  <2>1. "lease_ack" \in Timer
    BY DEF Timer
  <2>2. OnlyTimers(e, d) /\ \A S \in SUBSET Timer : Timers(e.s, S) => Timers(d.s, S \ {"lease_ack"})
    BY <1>5, <1>9, <2>1, CancelIs
  <2>3. \A S \in SUBSET Timer : Timers(c.s, S) => Timers(d.s, S \ {"lease_ack"})
    BY <1>3, <1>5, <2>2 DEF Timers
  <2>4. AlikeFields(s1, d.s) /\ d.s.state = s1.state
        /\ d.s.pending_proposal = s1.pending_proposal /\ d.s.committing = s1.committing
    <3>1. ButTimers(s1, d.s)
      BY <1>5, <2>2 DEF OnlyTimers
    <3>. QED BY <3>1, ButTimersAlike
  <2>6. SameFound(c.s, d.s)
    <3>1. ButTimers(s1, d.s)
      BY <1>5, <2>2 DEF OnlyTimers
    <3>. QED BY <1>3, <3>1 DEF ButTimers, SameFound
  <2>5. AlikeFields(c.s, d.s)
    BY <1>3, <2>4 DEF AlikeFields
  <2>. QED BY <1>3, <1>5, <1>9, <2>2, <2>3, <2>4, <2>5, <2>6 DEF SameSession, OnlyTimers, AckDoes
<1>. QED BY <1>6, <1>7, <1>8, <1>9

(* An answer reaches a leader. *)
LEMMA AnswerExpected ==
  ASSUME NEW m \in Mon, NEW p, NEW c, NEW T, NEW W, NEW O, NEW I \in Queues,
         NEW from \in Mon \ {m}, NEW msg, NEW op \in Ups,
         Sound(m, p, c, T, W, O, I), Heading(I, from, msg, op)
  PROVE  c.role = "leader"
<1>1. PICK A : A = NodeOf(c, T)
  OBVIOUS
<1>2. A.role = c.role
  BY <1>1, NodeIs DEF Sound
<1>3. PICK U : U = I[from]
  OBVIOUS
<1>4. PICK D : Link(m, from, A, W[from], D, U) /\ U \in Messages
  BY <1>1, <1>3 DEF Sound, Pair
<1>5. U # <<>> /\ U[1].op \in Ups
  BY <1>3 DEF Heading
<1>6. 1 \in DOMAIN U
  <2>1. PICK t : t = Tail(U)
    OBVIOUS
  <2>. QED BY <1>4, <1>5, <2>1, TailFacts
<1>. QED BY <1>2, <1>4, <1>5, <1>6 DEF Link, Answered

LEMMA SoundAck ==
  ASSUME NEW m \in Mon, NEW p, NEW c, NEW T, NEW W \in Worlds, NEW O \in Queues, NEW I \in Queues,
         NEW I2, NEW from \in Mon \ {m}, NEW msg, NEW d,
         Sound(m, p, c, T, W, O, I), Timed(c.role, c.s),
         Heading(I, from, msg, "lease_ack"), Took(I, from, I2),
         d = HandleLeaseAck(c, m, from, msg)
  PROVE  c.role = "leader" /\ Stays(m, p, c, d, W, O, I2)
<1>1. c \in Contexts /\ "lease_ack" \in Ups /\ c.ok
  BY DEF Sound, Ups
<1>2. c.role = "leader"
  BY <1>1, AnswerExpected
<1>3. /\ SameSession(c, d)
      /\ d.s.pending_proposal = c.s.pending_proposal /\ d.s.committing = c.s.committing
      /\ \/ d.s.timers = c.s.timers
         \/ /\ c.s.timers["lease_ack"] # 0
            /\ \A S \in SUBSET Timer : Timers(c.s, S) => Timers(d.s, S \ {"lease_ack"})
  <2>1. AckDoes(c, d)
    BY <1>1, AckIs
  <2>. QED BY <2>1 DEF AckDoes
<1>4. d \in Contexts /\ d.ok /\ d.role = c.role /\ d.epoch = c.epoch /\ d.out = c.out
      /\ AlikeFields(c.s, d.s) /\ d.s.state = c.s.state
  BY <1>1, <1>3 DEF SameSession
<1>5. Sound(m, p, d, T, W, O, I)
  BY <1>2, <1>4, SoundSame
<1>6. Sound(m, p, d, T, W, O, I2)
  BY <1>1, <1>5, SoundTail
<1>7. Timed(d.role, d.s)
  <2>1. CASE d.s.timers = c.s.timers
    BY <1>3, <1>4, <2>1, TimedSame
  <2>2. CASE /\ c.s.timers["lease_ack"] # 0
             /\ \A S \in SUBSET Timer : Timers(c.s, S) => Timers(d.s, S \ {"lease_ack"})
    <3>1. PICK S : S = {"lease_renew", "lease_ack"}
      OBVIOUS
    <3>2. "lease_ack" \in Timer /\ S \in SUBSET Timer /\ S \ {"lease_ack"} = {"lease_renew"}
      BY <3>1 DEF Timer
    <3>3. c.s.state \in Proposing \union {"recovering", "active"}
      BY <1>2, LeaderFacts DEF Sound
    <3>4. \A R \in SUBSET Timer : Timers(c.s, R) => "lease_ack" \in R
      BY <2>2, <3>2 DEF Timers
    <3>5. c.s.state = "active" /\ Timers(c.s, S)
      <4>1. {"collect"} \in SUBSET Timer /\ {"accept"} \in SUBSET Timer /\ {} \in SUBSET Timer
            /\ {"lease_renew"} \in SUBSET Timer
        BY DEF Timer
      <4>2. ~Timers(c.s, {"collect"}) /\ ~Timers(c.s, {"accept"}) /\ ~Timers(c.s, {})
            /\ ~Timers(c.s, {"lease_renew"})
        BY <3>4, <4>1
      <4>. QED BY <1>2, <3>1, <3>3, <4>2 DEF Timed, Proposing
    <3>6. Timers(d.s, {"lease_renew"}) /\ d.s.state = "active"
      BY <1>4, <2>2, <3>2, <3>5
    <3>7. d.s.committing = NoValue
      BY <1>2, <1>3, <3>5 DEF Timed, Proposing, Updating, InWriting
    <3>. QED BY <1>2, <1>4, <3>6, <3>7 DEF Timed, Proposing, Updating, InWriting
  <2>. QED BY <1>3, <2>1, <2>2
<1>8. Keeps(c.s, d.s)
  BY <1>3 DEF Keeps
<1>. QED BY <1>2, <1>4, <1>6, <1>7, <1>8 DEF Stays

LEMMA SoundRenew ==
  ASSUME NEW m \in Mon, NEW p, NEW c, NEW T, NEW W \in Worlds, NEW O \in Queues, NEW I \in Queues,
         NEW d,
         Sound(m, p, c, T, W, O, I), Timed(c.role, c.s), c.s.timers["lease_renew"] > 0,
         d = ExtendLease(Cancel(c, "lease_renew"), m)
  PROVE  c.role = "leader" /\ Stays(m, p, c, d, W, O, I)
<1>1. c \in Contexts /\ c.ok /\ c.s.timers \in [Timer -> Nat] /\ "lease_renew" \in Timer
  BY DEF Sound, Contexts, LooseState, Timer
<1>2. \A R \in SUBSET Timer : Timers(c.s, R) => "lease_renew" \in R
  BY <1>1 DEF Timers
<1>3. PICK a : a \in {{}, {"lease_ack"}} /\ Timers(c.s, a \union {"lease_renew"})
         /\ c.role = "leader" /\ c.s.state = "active"
  <2>1. {"collect"} \in SUBSET Timer /\ {"accept"} \in SUBSET Timer /\ {} \in SUBSET Timer
        /\ {"lease"} \in SUBSET Timer
    BY DEF Timer
  <2>2. ~Timers(c.s, {"collect"}) /\ ~Timers(c.s, {"accept"}) /\ ~Timers(c.s, {}) /\ ~Timers(c.s, {"lease"})
    BY <1>2, <2>1
  <2>3. c.role = "leader"
    <3>1. c.role \in {"out", "leader", "peon"}
      BY <1>1, ContextTypes
    <3>. QED BY <2>2, <3>1 DEF Timed
  <2>4. c.s.state \in Proposing \union {"recovering", "active"}
    BY <2>3, LeaderFacts DEF Sound
  <2>5. c.s.state = "active" /\ (Timers(c.s, {"lease_renew"}) \/ Timers(c.s, {"lease_renew", "lease_ack"}))
    BY <2>2, <2>3, <2>4 DEF Timed, Proposing
  <2>6. {} \union {"lease_renew"} = {"lease_renew"}
        /\ {"lease_ack"} \union {"lease_renew"} = {"lease_renew", "lease_ack"}
    OBVIOUS
  <2>. QED BY <2>3, <2>5, <2>6
<1>4. PICK h : h = Cancel(c, "lease_renew")
  OBVIOUS
<1>5. OnlyTimers(c, h) /\ Timers(h.s, a)
  <2>1. a \union {"lease_renew"} \in SUBSET Timer /\ (a \union {"lease_renew"}) \ {"lease_renew"} = a
    BY <1>3 DEF Timer
  <2>2. OnlyTimers(c, h) /\ \A S \in SUBSET Timer : Timers(c.s, S) => Timers(h.s, S \ {"lease_renew"})
    BY <1>1, <1>4, CancelIs
  <2>. QED BY <1>3, <2>1, <2>2
<1>6. h \in Contexts /\ h.ok /\ h.role = "leader" /\ h.epoch = c.epoch /\ h.out = c.out
      /\ ButTimers(c.s, h.s)
  BY <1>1, <1>3, <1>5 DEF OnlyTimers
<1>7. LeaseDoes(h, m, d)
  BY <1>4, <1>6, LeaseIs
<1>8. Timers(h.s, {}) \/ Timers(h.s, {"lease_ack"})
  BY <1>3, <1>5
<1>9. d \in Contexts /\ d.ok /\ d.role = "leader" /\ d.epoch = c.epoch
      /\ AlikeFields(h.s, d.s) /\ d.s.state = h.s.state
      /\ d.s.pending_proposal = h.s.pending_proposal /\ d.s.committing = h.s.committing
      /\ Timers(d.s, {"lease_renew", "lease_ack"})
      /\ Sends(h, d, h.s.quorum \ {m}, ToAll(Msg(h, "lease")))
  BY <1>6, <1>7, <1>8 DEF LeaseDoes
<1>10. AlikeFields(c.s, h.s) /\ h.s.state = c.s.state
       /\ h.s.pending_proposal = c.s.pending_proposal /\ h.s.committing = c.s.committing
  BY <1>6, ButTimersAlike
<1>11. AlikeFields(c.s, d.s) /\ d.s.state = "active"
  BY <1>3, <1>9, <1>10 DEF AlikeFields
<1>12. PICK x : x = Msg(h, "lease")
  OBVIOUS
<1>13. x \in LooseMessage /\ x.op = "lease" /\ x.epoch = c.epoch
       /\ x.last_committed = c.s.last_committed /\ NoGap(x)
  <2>1. /\ Msg(h, "lease") \in LooseMessage
        /\ Msg(h, "lease").op = "lease" /\ Msg(h, "lease").epoch = h.epoch
        /\ Msg(h, "lease").last_committed = h.s.last_committed
        /\ NoGap(Msg(h, "lease"))
    BY <1>6, MsgIs
  <2>. QED BY <1>6, <1>10, <1>12, <2>1 DEF AlikeFields
<1>14. Sends(c, d, c.s.quorum \ {m}, ToAll(x))
  BY <1>6, <1>9, <1>10, <1>12 DEF Sends, AlikeFields
<1>15. Sound(m, p, d, T, W, O, I)
  BY <1>3, <1>9, <1>11, <1>13, <1>14, SoundLease
<1>16. Timed(d.role, d.s)
  <2>1. d.s.committing = NoValue
    BY <1>3, <1>9, <1>10 DEF Timed, Proposing, Updating, InWriting
  <2>. QED BY <1>9, <1>11, <2>1 DEF Timed, Proposing, Updating, InWriting
<1>17. Keeps(c.s, d.s)
  BY <1>9, <1>10 DEF Keeps
<1>. QED BY <1>3, <1>9, <1>15, <1>16, <1>17 DEF Stays

NewOperation(c, m, o, d) ==
  LET g == [c EXCEPT !.s.pending_proposal = @ \union {o}]
  IN  d = IF g.s.state = "active" THEN ProposePending(g, m) ELSE g

LEMMA SoundNewOperation ==
  ASSUME NEW m \in Mon, NEW p, NEW c, NEW T, NEW W \in Worlds, NEW O \in Queues, NEW I \in Queues,
         NEW d, NEW o \in Operation,
         Sound(m, p, c, T, W, O, I), Timed(c.role, c.s), c.role = "leader",
         NewOperation(c, m, o, d), d.s.pending_v <= MaxOp
  PROVE  Stays(m, p, c, d, W, O, I)
<1>g. PICK g : g = [c EXCEPT !.s.pending_proposal = @ \union {o}]
  OBVIOUS
<1>d. d = IF g.s.state = "active" THEN ProposePending(g, m) ELSE g
  BY <1>g DEF NewOperation
<1>1. c \in Contexts /\ c.ok /\ c.s \in LooseState
  BY ContextTypes DEF Sound
<1>2. PICK s1 : s1 = [c.s EXCEPT !.pending_proposal = @ \union {o}]
  OBVIOUS
<1>3. s1 \in LooseState /\ AlikeFields(c.s, s1) /\ s1.state = c.s.state /\ s1.timers = c.s.timers
      /\ s1.pending_proposal = c.s.pending_proposal \union {o} /\ s1.committing = c.s.committing
  BY <1>1, <1>2 DEF LooseState, AlikeFields, Value
<1>4. g \in Contexts /\ g.s = s1 /\ g.ok /\ g.role = c.role /\ g.epoch = c.epoch /\ g.out = c.out
  <2>1. g = [c EXCEPT !.s = s1]
    BY <1>g, <1>1, <1>2 DEF Contexts
  <2>. QED BY <1>1, <1>3, <2>1 DEF Contexts
<1>5. Sound(m, p, g, T, W, O, I)
  <2>1. AlikeFields(c.s, g.s) /\ g.s.state = c.s.state
    BY <1>3, <1>4
  <2>. QED BY <1>4, <2>1, SoundSame
<1>6. Timed(g.role, g.s) /\ g.role = "leader"
  <2>1. Timed("leader", c.s) => Timed("leader", s1)
    BY <1>3 DEF Timed, Timers
  <2>. QED BY <1>4, <2>1
<1>7. CASE g.s.state = "active"
  <2>1. g.s.pending_proposal # NoValue
    BY <1>3, <1>4 DEF NoValue
  <2>2. d = ProposePending(g, m)
    BY <1>d, <1>7
  <2>3. /\ Sound(m, p, d, T, W, O, I) /\ Timed(d.role, d.s)
        /\ d.role = g.role /\ d.epoch = g.epoch
        /\ d.s.committing = g.s.pending_proposal
    BY <1>4, <1>5, <1>6, <1>7, <2>1, <2>2, SoundProposePending
  <2>4. c.s.committing = NoValue
    BY <1>3, <1>4, <1>7 DEF Timed, Proposing, Updating, InWriting
  <2>5. Keeps(c.s, d.s)
    BY <1>3, <1>4, <2>3, <2>4 DEF Keeps, NoValue
  <2>. QED BY <1>4, <2>3, <2>5 DEF Stays
<1>8. CASE g.s.state # "active"
  <2>1. d = g
    BY <1>d, <1>8
  <2>2. Keeps(c.s, g.s)
    BY <1>3, <1>4 DEF Keeps
  <2>. QED BY <1>4, <1>5, <1>6, <2>1, <2>2 DEF Stays
<1>. QED BY <1>7, <1>8

-----------------------------------------------------------------------------
(* A peon takes a message of its leader *)

PeonStep(c, d) ==
  /\ d \in Contexts /\ d.ok /\ d.role = "peon" /\ d.epoch = c.epoch
  /\ d.s.leader = c.s.leader /\ d.s.last_pn = c.s.last_pn
  /\ d.s.last_committed >= c.s.last_committed

(* No number of another monitor is taken. *)
OnlyFrom(from, s, t) == \A j \in Mon \ {from} : \A pn : Below(s, pn, j) => Below(t, pn, j)

(* m, a peon of from, in a handler; d is what comes next. *)
PeonOf(m, p, c, T, W, O, I, from, d) ==
  /\ Sound(m, p, c, T, W, O, I) /\ c.role = "peon" /\ c.s.leader = from
  /\ PeonStep(c, d) /\ Local(m, NodeOf(d, T)) /\ Grown(p, d.s) /\ OnlyFrom(from, c.s, d.s)
  /\ I[from] # <<>>

LEMMA SoundReply ==
  ASSUME NEW m \in Mon, NEW p, NEW c, NEW T, NEW W \in Worlds, NEW O \in Queues, NEW I \in Queues,
         NEW I2, NEW from \in Mon \ {m}, NEW d, NEW x \in LooseMessage,
         PeonOf(m, p, c, T, W, O, I, from, d), Took(I, from, I2),
         Sends(c, d, {from}, ToAll(x)), x.op \in Ups, Fits(x, NodeOf(d, T)),
         \A q, q2 : /\ Pair(m, from, NodeOf(c, T), W[from], q, I[from])
                    /\ Push(q, q2, x, c.epoch, W[from])
                    => Link(from, m, W[from], NodeOf(d, T), I2[from], q2)
  PROVE  Sound(m, p, d, T, W, O, I2)
<1>1. c \in Contexts /\ T \in SUBSET Mon /\ d \in Contexts /\ d.ok /\ d.epoch = c.epoch
      /\ Sound(m, p, c, T, W, O, I)
  BY DEF PeonOf, Sound, PeonStep
<1>2. ASSUME NEW j \in Mon \ {m}, NEW q, NEW q2, Pair(m, j, NodeOf(c, T), W[j], q, I[j]),
             Pushes(j, {from}, q, q2, x, c.epoch, W[j])
      PROVE  Pair(m, j, NodeOf(d, T), W[j], q2, I2[j])
  <2>1. PICK A : A = NodeOf(c, T)
    OBVIOUS
  <2>2. A \in Node /\ A.epoch = c.epoch /\ A.role = "peon" /\ A.s = c.s /\ A.T = T
    BY <1>1, <2>1, NodeIs DEF PeonOf
  <2>3. PICK A2 : A2 = NodeOf(d, T)
    OBVIOUS
  <2>4. A2 \in Node /\ A2.epoch = c.epoch /\ A2.role = "peon" /\ A2.s = d.s /\ A2.T = T
    BY <1>1, <2>3, NodeIs DEF PeonOf, PeonStep
  <2>5. PICK B : B = W[j]
    OBVIOUS
  <2>6. B \in Node
    BY <2>5 DEF Worlds
  <2>7. Pair(m, j, A, B, q, I[j]) /\ StaysPeon(A, A2)
    BY <1>2, <2>1, <2>2, <2>4, <2>5 DEF PeonOf, PeonStep, StaysPeon
  <2>8. CASE j = from
    <3>1. PICK U : U = I[j]
      OBVIOUS
    <3>2. PICK U2 : U2 = I2[j]
      OBVIOUS
    <3>3. U2 = Tail(U) /\ U # <<>> /\ Pair(m, j, A, B, q, U)
      BY <2>7, <2>8, <3>1, <3>2 DEF PeonOf, Took, Queues
    <3>4. Push(q, q2, x, A2.epoch, B)
      BY <1>2, <2>4, <2>5, <2>8 DEF Push, Pushes
    <3>5. Link(j, m, B, A2, U2, q2)
      BY <1>2, <2>3, <2>4, <2>5, <2>8, <3>2, <3>4
    <3>6. Fits(x, A2)
      BY <2>3
    <3>7. Pair(m, j, A2, B, q2, U2)
      BY <2>2, <2>4, <2>6, <2>7, <3>3, <3>4, <3>5, <3>6, PairAnswer
    <3>. QED BY <2>3, <2>5, <3>2, <3>7
  <2>9. CASE j # from
    <3>1. I2[j] = I[j] /\ q2 = q
      BY <1>2, <2>9 DEF Took, Queues, Pushes
    <3>2. A.s.leader # j /\ \A pn : Below(A.s, pn, j) => Below(A2.s, pn, j)
      BY <2>2, <2>4, <2>9 DEF PeonOf, OnlyFrom
    <3>3. Pair(m, j, A2, B, q, I[j])
      BY <2>2, <2>4, <2>6, <2>7, <3>2, PairOther
    <3>. QED BY <2>3, <2>5, <3>1, <3>3
  <2>. QED BY <2>8, <2>9
<1>3. PICK X : X = ToAll(x)
  OBVIOUS
<1>4. X \in [Mon -> LooseMessage] /\ Sends(c, d, {from}, X) /\ \A j \in Mon : X[j] = x
  BY <1>3 DEF ToAll
<1>5. x.epoch = c.epoch
  BY <1>1, NodeIs DEF Fits
<1>6. \A j \in Mon : X[j].epoch = c.epoch
  BY <1>4, <1>5
<1>7. PICK to : to = {from}
  OBVIOUS
<1>8. to \in SUBSET (Mon \ {m}) /\ Sends(c, d, to, X)
  BY <1>4, <1>7
<1>9. \A j \in Mon \ {m} : \A q, q2 :
         /\ Pair(m, j, NodeOf(c, T), W[j], q, I[j])
         /\ Pushes(j, to, q, q2, X[j], c.epoch, W[j])
         => Pair(m, j, NodeOf(d, T), W[j], q2, I2[j])
  BY <1>2, <1>4, <1>7
<1>10. Local(m, NodeOf(d, T)) /\ Grown(p, d.s)
  BY DEF PeonOf
<1>. QED BY <1>1, <1>4, <1>6, <1>8, <1>9, <1>10, SoundAnswer

LEMMA SoundTakes ==
  ASSUME NEW m \in Mon, NEW p, NEW c, NEW T, NEW W \in Worlds, NEW O \in Queues, NEW I \in Queues,
         NEW I2, NEW from \in Mon \ {m}, NEW d,
         PeonOf(m, p, c, T, W, O, I, from, d), Took(I, from, I2), d.out = c.out,
         \A q : Pair(m, from, NodeOf(c, T), W[from], q, I[from])
                  => Link(from, m, W[from], NodeOf(d, T), I2[from], q)
  PROVE  Sound(m, p, d, T, W, O, I2)
<1>1. c \in Contexts /\ T \in SUBSET Mon /\ d \in Contexts /\ d.ok /\ d.epoch = c.epoch
      /\ Sound(m, p, c, T, W, O, I)
  BY DEF PeonOf, Sound, PeonStep
<1>2. ASSUME NEW j \in Mon \ {m}, NEW q, Pair(m, j, NodeOf(c, T), W[j], q, I[j])
      PROVE  Pair(m, j, NodeOf(d, T), W[j], q, I2[j])
  <2>1. PICK A : A = NodeOf(c, T)
    OBVIOUS
  <2>2. A \in Node /\ A.epoch = c.epoch /\ A.role = "peon" /\ A.s = c.s /\ A.T = T
    BY <1>1, <2>1, NodeIs DEF PeonOf
  <2>3. PICK A2 : A2 = NodeOf(d, T)
    OBVIOUS
  <2>4. A2 \in Node /\ A2.epoch = c.epoch /\ A2.role = "peon" /\ A2.s = d.s /\ A2.T = T
    BY <1>1, <2>3, NodeIs DEF PeonOf, PeonStep
  <2>5. PICK B : B = W[j]
    OBVIOUS
  <2>6. B \in Node
    BY <2>5 DEF Worlds
  <2>7. Pair(m, j, A, B, q, I[j]) /\ StaysPeon(A, A2)
    BY <1>2, <2>1, <2>2, <2>4, <2>5 DEF PeonOf, PeonStep, StaysPeon
  <2>8. CASE j = from
    <3>1. PICK U : U = I[j]
      OBVIOUS
    <3>2. PICK U2 : U2 = I2[j]
      OBVIOUS
    <3>3. U2 = Tail(U) /\ U # <<>> /\ Pair(m, j, A, B, q, U)
      BY <2>7, <2>8, <3>1, <3>2 DEF PeonOf, Took, Queues
    <3>4. Link(j, m, B, A2, U2, q)
      BY <1>2, <2>3, <2>5, <2>8, <3>2
    <3>5. Pair(m, j, A2, B, q, U2)
      BY <2>2, <2>4, <2>6, <2>7, <3>3, <3>4, PairTake
    <3>. QED BY <2>3, <2>5, <3>2, <3>5
  <2>9. CASE j # from
    <3>1. I2[j] = I[j]
      BY <2>9 DEF Took, Queues
    <3>2. A.s.leader # j /\ \A pn : Below(A.s, pn, j) => Below(A2.s, pn, j)
      BY <2>2, <2>4, <2>9 DEF PeonOf, OnlyFrom
    <3>3. Pair(m, j, A2, B, q, I[j])
      BY <2>2, <2>4, <2>6, <2>7, <3>2, PairOther
    <3>. QED BY <2>3, <2>5, <3>1, <3>3
  <2>. QED BY <2>8, <2>9
<1>3. Local(m, NodeOf(d, T)) /\ Grown(p, d.s) /\ d.out = c.out
  BY DEF PeonOf
<1>. QED BY <1>1, <1>2, <1>3, SoundStep

(* What is known of a peon that is to take a message of its leader. *)
PeonIs(m, c, T, W, I, from, msg) ==
  /\ c \in Contexts /\ T \in SUBSET Mon /\ c.ok /\ c.role = "peon" /\ c.s.leader = from
  /\ c.epoch = msg.epoch /\ c.epoch % 2 = 0 /\ msg \in LooseMessage /\ NoGap(msg)
  /\ c.s.new_value = NoValue /\ Logged(c.s) /\ Numbers(m, c.s)

LEMMA PeonFacts ==
  ASSUME NEW m \in Mon, NEW p, NEW c, NEW T, NEW W \in Worlds, NEW O \in Queues, NEW I \in Queues,
         NEW from \in Mon \ {m}, NEW msg, NEW op \in Downs,
         Sound(m, p, c, T, W, O, I), Heading(I, from, msg, op)
  PROVE  PeonIs(m, c, T, W, I, from, msg)
<1>1. c \in Contexts /\ T \in SUBSET Mon /\ c.ok /\ Local(m, NodeOf(c, T))
  BY DEF Sound
<1>2. PICK A : A = NodeOf(c, T)
  OBVIOUS
<1>3. A \in Node /\ A.epoch = c.epoch /\ A.role = c.role /\ A.s = c.s /\ A.T = T
  BY <1>1, <1>2, NodeIs
<1>4. PICK U : U = I[from]
  OBVIOUS
<1>5. PICK B : B = W[from]
  OBVIOUS
<1>6. B \in Node
  BY <1>5 DEF Worlds
<1>7. PICK D : Pair(m, from, A, B, D, U)
  BY <1>2, <1>4, <1>5 DEF Sound
<1>8. D \in Messages /\ U \in Messages /\ Link(from, m, B, A, U, D) /\ Queue(from, m, B, A, U)
  BY <1>7 DEF Pair
<1>9. U # <<>> /\ U[1] = msg /\ U[1].op \in Downs
  BY <1>4 DEF Heading
<1>10. 1 \in DOMAIN U /\ A.role = "peon" /\ A.s.leader = from /\ A.epoch = U[1].epoch
  <2>1. from \in Mon
    OBVIOUS
  <2>2. 1 \in DOMAIN U
    BY <1>3, <1>6, <1>8, <1>9, <2>1, HeadFacts
  <2>3. \A l \in DOMAIN U : ~(l < 1)
    BY <1>8, MessageTypes
  <2>4. Follows(A, from, U[1].epoch)
    BY <1>8, <1>9, <2>2, <2>3 DEF Link, Told
  <2>. QED BY <2>2, <2>4 DEF Follows
<1>11. msg \in LooseMessage /\ NoGap(msg)
  BY <1>8, <1>9, <1>10, MessageTypes DEF Queue, Sent
<1>12. c.epoch % 2 = 0 /\ c.s.new_value = NoValue /\ Logged(c.s) /\ Numbers(m, c.s)
  BY <1>1, <1>2, <1>3, <1>10 DEF Local
<1>. QED BY <1>1, <1>3, <1>9, <1>10, <1>11, <1>12 DEF PeonIs

LEMMA LocalPeon ==
  ASSUME NEW m \in Mon, NEW c \in Contexts, NEW d \in Contexts, NEW T \in SUBSET Mon,
         NEW from \in Mon \ {m}, NEW W, NEW I, NEW msg,
         PeonIs(m, c, T, W, I, from, msg), d.role = "peon", d.epoch = c.epoch, d.s.leader = from,
         d.s.new_value = NoValue, d.s.state \in {"recovering", "active", "updating"},
         Logged(d.s), Numbers(m, d.s)
  PROVE  Local(m, NodeOf(d, T))
<1>1. PICK A : A = NodeOf(d, T)
  OBVIOUS
<1>2. A.epoch = d.epoch /\ A.role = "peon" /\ A.s = d.s
  BY <1>1, NodeIs
<1>3. Local(m, A)
  BY <1>2 DEF Local, PeonIs
<1>. QED BY <1>1, <1>3

LEMMA ResetIs ==
  ASSUME NEW c \in Contexts, NEW d, d = ResetLeaseTimeout(c)
  PROVE  /\ OnlyTimers(c, d)
         /\ Timers(c.s, {}) \/ Timers(c.s, {"lease"}) => Timers(d.s, {"lease"})
<1>1. PICK e : e = Cancel(c, "lease")
  OBVIOUS
<1>2. "lease" \in Timer /\ {"lease"} \in SUBSET Timer /\ {} \in SUBSET Timer
      /\ {"lease"} \ {"lease"} = {} /\ {} \ {"lease"} = {}
  BY DEF Timer
<1>3. OnlyTimers(c, e) /\ (Timers(c.s, {}) \/ Timers(c.s, {"lease"}) => Timers(e.s, {}))
  <2>1. OnlyTimers(c, e) /\ \A S \in SUBSET Timer : Timers(c.s, S) => Timers(e.s, S \ {"lease"})
    BY <1>1, <1>2, CancelIs
  <2>2. Timers(c.s, {}) => Timers(e.s, {})
    BY <1>2, <2>1
  <2>3. Timers(c.s, {"lease"}) => Timers(e.s, {})
    BY <1>2, <2>1
  <2>. QED BY <2>1, <2>2, <2>3
<1>4. e \in Contexts /\ e.s \in LooseState /\ e.s.timers \in [Timer -> Nat]
  BY <1>3 DEF OnlyTimers, Contexts, LooseState
<1>5. PICK tm : tm = [e.s.timers EXCEPT !["lease"] = @ + 1]
  OBVIOUS
<1>6. tm \in [Timer -> Nat]
  BY <1>2, <1>4, <1>5
<1>7. d = [e EXCEPT !.s = [e.s EXCEPT !.timers = tm]]
  BY <1>1, <1>4, <1>5 DEF ResetLeaseTimeout, Arm, Contexts, LooseState
<1>8. OnlyTimers(e, d) /\ d.s.timers = tm
  BY <1>4, <1>6, <1>7, NewTimers
<1>9. OnlyTimers(c, d)
  BY <1>3, <1>8 DEF OnlyTimers, ButTimers
<1>10. Timers(e.s, {}) => Timers(d.s, {"lease"})
  BY <1>4, <1>5, <1>8 DEF Timers
<1>. QED BY <1>3, <1>9, <1>10

(* A message to the leader. *)
LEMMA ReplyIs ==
  ASSUME NEW c \in Contexts, NEW from \in Mon, NEW x \in LooseMessage, NEW d, d = Send(c, {from}, x)
  PROVE  /\ d \in Contexts /\ d.s = c.s /\ d.ok = c.ok /\ d.role = c.role /\ d.epoch = c.epoch
         /\ Sends(c, d, {from}, ToAll(x))
<1>1. /\ d.s = c.s /\ d.role = c.role /\ d.epoch = c.epoch /\ d.ok = c.ok
      /\ d.out = [j \in Mon |-> IF j \in {from} THEN Append(c.out[j], x) ELSE c.out[j]]
      /\ d = [s |-> d.s, role |-> d.role, epoch |-> d.epoch, out |-> d.out, ok |-> d.ok]
  BY DEF Send, Contexts
<1>2. d.out \in [Mon -> Messages]
  <2>1. \A j \in Mon : c.out[j] \in Seq(LooseMessage)
    BY DEF Contexts, Messages
  <2>2. \A j \in Mon : Append(c.out[j], x) \in Seq(LooseMessage)
    BY <2>1, AppendProperties
  <2>. QED BY <1>1, <2>1, <2>2 DEF Messages
<1>3. d \in Contexts
  BY <1>1, <1>2 DEF Contexts
<1>. QED BY <1>1, <1>3 DEF Sends, ToAll

PeonFields(s, t) ==
  /\ t.leader = s.leader /\ t.last_pn = s.last_pn /\ t.new_value = s.new_value
  /\ t.pending_proposal = s.pending_proposal /\ t.committing = s.committing

LEMMA TimedPeon ==
  ASSUME NEW s, Timers(s, {"lease"})
  PROVE  Timed("peon", s)
  BY DEF Timed

(* What an answer x to msg says of an uncommitted value. *)
Offers(s, msg, x) ==
  LET v == s.last_committed + 1
      offers == msg.last_committed <= s.last_committed /\ At(s.values, v) # NoValue
  IN  /\ \A w \in Version : w <= s.last_committed => x.values[w] \in {s.values[w], NoValue}
      /\ offers => x.uncommitted_pn = PendingPn(s, s.accepted_pn) /\ x.values[v] = s.values[v]
      /\ ~offers => x.uncommitted_pn = 0

(* handle_collect() *)
CollectHandled(c, from, msg, d, x) ==
  /\ d \in Contexts /\ d.ok /\ d.role = "peon" /\ d.epoch = c.epoch
  /\ PeonFields(c.s, d.s) /\ d.s.state = "recovering" /\ d.s.lease = c.s.lease
  /\ d.s.last_committed = c.s.last_committed /\ d.s.values = c.s.values
  /\ d.s.pending_v = c.s.pending_v /\ d.s.pending_pn = c.s.pending_pn
  /\ d.s.accepted_pn = Larger(c.s.accepted_pn, msg.pn)
  /\ d.s.stored_pn = IF msg.pn > c.s.accepted_pn THEN msg.pn ELSE c.s.stored_pn
  /\ Timers(c.s, {"lease"}) => Timers(d.s, {"lease"})
  /\ x \in LooseMessage /\ x.op = "last" /\ x.epoch = c.epoch /\ x.pn = d.s.accepted_pn
  /\ x.last_committed = c.s.last_committed /\ NoGap(x)
  /\ \A v \in msg.last_committed + 1 .. c.s.last_committed : x.values[v] # NoValue
  /\ Offers(c.s, msg, x)
  /\ Sends(c, d, {from}, ToAll(x))

LEMMA CollectHandledIs ==
  ASSUME NEW c \in Contexts, NEW m, NEW from \in Mon, NEW msg \in LooseMessage, NEW d,
         c.ok, c.role = "peon", Logged(c.s), d = HandleCollect(c, m, from, msg)
  PROVE  \E x : CollectHandled(c, from, msg, d, x)
<1>1. c.s \in LooseState /\ c.s.last_committed \in 0 .. MaxOp /\ c.s.values \in [Version -> Value]
      /\ c.s.accepted_pn \in Nat /\ c.s.stored_pn \in Nat /\ MaxOp \in Nat
  BY MonTypes DEF Contexts, LooseState
<1>2. msg.pn \in Nat /\ msg.last_committed \in 0 .. MaxOp
  BY DEF LooseMessage
<1>3. Check(c, c.role = "peon") = c
  BY CheckIs
<1>4. PICK a : a = IF msg.pn > c.s.accepted_pn THEN msg.pn ELSE c.s.accepted_pn
  OBVIOUS
<1>5. PICK b : b = IF msg.pn > c.s.accepted_pn THEN msg.pn ELSE c.s.stored_pn
  OBVIOUS
<1>6. a \in Nat /\ b \in Nat /\ a = Larger(c.s.accepted_pn, msg.pn)
  BY <1>1, <1>2, <1>4, <1>5 DEF Larger
<1>7. PICK s1 : s1 = [c.s EXCEPT !.state = "recovering", !.accepted_pn = a, !.stored_pn = b]
  OBVIOUS
<1>8. s1 \in LooseState
  BY <1>1, <1>6, <1>7 DEF LooseState, State
<1>9. /\ PeonFields(c.s, s1) /\ s1.state = "recovering" /\ s1.lease = c.s.lease
      /\ s1.last_committed = c.s.last_committed /\ s1.values = c.s.values
      /\ s1.pending_v = c.s.pending_v /\ s1.pending_pn = c.s.pending_pn
      /\ s1.accepted_pn = a /\ s1.stored_pn = b /\ s1.timers = c.s.timers
  BY <1>1, <1>7 DEF LooseState, PeonFields
<1>10. PICK c1 : c1 = [c EXCEPT !.s = s1]
  OBVIOUS
<1>11. c1 \in Contexts /\ c1.s = s1 /\ c1.ok /\ c1.role = "peon" /\ c1.epoch = c.epoch /\ c1.out = c.out
  BY <1>8, <1>10 DEF Contexts
<1>12. PICK e : e = ResetLeaseTimeout(c1)
  OBVIOUS
<1>13. OnlyTimers(c1, e) /\ (Timers(c1.s, {}) \/ Timers(c1.s, {"lease"}) => Timers(e.s, {"lease"}))
  BY <1>11, <1>12, ResetIs
<1>14. e \in Contexts /\ e.ok /\ e.role = "peon" /\ e.epoch = c.epoch /\ e.out = c.out /\ ButTimers(s1, e.s)
  BY <1>11, <1>13 DEF OnlyTimers
<1>15. PICK offers : offers = (msg.last_committed <= c.s.last_committed /\ At(c.s.values, c.s.last_committed + 1) # NoValue)
  OBVIOUS
<1>16. PICK hi : hi = IF offers THEN c.s.last_committed + 1 ELSE c.s.last_committed
  OBVIOUS
<1>17. PICK u : u = IF offers THEN PendingPn(c.s, c.s.accepted_pn) ELSE 0
  OBVIOUS
<1>18. hi \in Nat /\ hi >= c.s.last_committed /\ u \in Nat
  BY <1>1, <1>16, <1>17 DEF PendingPn, LooseState
<1>19. PICK lo : lo = msg.last_committed + 1
  OBVIOUS
<1>20. PICK vals : vals = Share(c.s, lo, hi)
  OBVIOUS
<1>21. vals \in [Version -> Value] /\ \A v \in Version : vals[v] = IF v \in lo .. hi THEN c.s.values[v] ELSE NoValue
  BY <1>1, <1>20 DEF Share, Value, NoValue
<1>22. PICK y : y = Msg(e, "last")
  OBVIOUS
<1>23. y \in LooseMessage /\ y.op = "last" /\ y.epoch = c.epoch /\ y.last_committed = c.s.last_committed
  BY <1>9, <1>14, <1>22, MsgIs DEF ButTimers
<1>24. PICK x : x = [y EXCEPT !.pn = e.s.accepted_pn, !.values = vals, !.uncommitted_pn = u]
  OBVIOUS
<1>25. e.s.accepted_pn = a
  BY <1>9, <1>14 DEF ButTimers
<1>26. x \in LooseMessage /\ x.op = "last" /\ x.epoch = c.epoch /\ x.pn = a
       /\ x.last_committed = c.s.last_committed /\ x.values = vals /\ x.uncommitted_pn = u
  BY <1>6, <1>18, <1>21, <1>23, <1>24, <1>25 DEF LooseMessage
<1>27. d = Send(e, {from}, x)
  BY <1>3, <1>4, <1>5, <1>7, <1>10, <1>12, <1>15, <1>16, <1>17, <1>19, <1>20, <1>22, <1>24, Zenon
     DEF HandleCollect
<1>28. /\ d \in Contexts /\ d.s = e.s /\ d.ok = e.ok /\ d.role = e.role /\ d.epoch = e.epoch
       /\ Sends(e, d, {from}, ToAll(x))
  BY <1>14, <1>26, <1>27, ReplyIs
<1>29. \A v \in Version : v \in lo .. c.s.last_committed => vals[v] # NoValue
  <2>1. \A v \in Version : v <= c.s.last_committed => c.s.values[v] # NoValue
    BY DEF Logged
  <2>2. \A v \in Version : v \in lo .. c.s.last_committed => v \in lo .. hi
    BY <1>1, <1>2, <1>18, <1>19, MonTypes
  <2>. QED BY <1>1, <1>2, <1>19, <1>21, <2>1, <2>2, MonTypes
<1>30. NoGap(x)
  <2>. SUFFICES ASSUME NEW v \in Version, NEW w \in Version, v < w, w <= x.last_committed,
                       x.values[v] # NoValue
                PROVE  x.values[w] # NoValue
    BY DEF NoGap
  <2>1. v \in lo .. hi
    BY <1>21, <1>26
  <2>2. w \in lo .. c.s.last_committed
    BY <1>1, <1>2, <1>18, <1>19, <1>26, <2>1, MonTypes
  <2>. QED BY <1>26, <1>29, <2>2
<1>31. ASSUME NEW v \in msg.last_committed + 1 .. c.s.last_committed PROVE x.values[v] # NoValue
  <2>1. v \in Version /\ v \in lo .. c.s.last_committed
    BY <1>1, <1>2, <1>19, <1>31 DEF Version
  <2>. QED BY <1>26, <1>29, <2>1
<1>32. Sends(c, d, {from}, ToAll(x))
  BY <1>14, <1>28 DEF Sends
<1>33. /\ PeonFields(c.s, d.s) /\ d.s.state = "recovering" /\ d.s.lease = c.s.lease
       /\ d.s.last_committed = c.s.last_committed /\ d.s.values = c.s.values
       /\ d.s.pending_v = c.s.pending_v /\ d.s.pending_pn = c.s.pending_pn
       /\ d.s.accepted_pn = a /\ d.s.stored_pn = b
  BY <1>9, <1>14, <1>28 DEF ButTimers, PeonFields
<1>34. Timers(c.s, {"lease"}) => Timers(d.s, {"lease"})
  BY <1>9, <1>11, <1>13, <1>28 DEF Timers
<1>35. Offers(c.s, msg, x)
  <2>1. \A w \in Version : w <= c.s.last_committed => x.values[w] \in {c.s.values[w], NoValue}
    BY <1>21, <1>26
  <2>2. ASSUME msg.last_committed <= c.s.last_committed, At(c.s.values, c.s.last_committed + 1) # NoValue
        PROVE  /\ x.uncommitted_pn = PendingPn(c.s, c.s.accepted_pn)
               /\ x.values[c.s.last_committed + 1] = c.s.values[c.s.last_committed + 1]
    <3>1. offers
      BY <1>15, <2>2
    <3>2. c.s.last_committed + 1 \in Version
      BY <2>2 DEF At
    <3>3. c.s.last_committed + 1 \in lo .. hi
      BY <1>1, <1>2, <1>16, <1>19, <2>2, <3>1
    <3>. QED BY <1>17, <1>21, <1>26, <3>1, <3>2, <3>3
  <2>3. ASSUME ~(msg.last_committed <= c.s.last_committed /\ At(c.s.values, c.s.last_committed + 1) # NoValue)
        PROVE  x.uncommitted_pn = 0
    BY <1>15, <1>17, <1>26, <2>3
  <2>. QED BY <2>1, <2>2, <2>3 DEF Offers
<1>36. CollectHandled(c, from, msg, d, x)
  BY <1>5, <1>6, <1>14, <1>26, <1>28, <1>30, <1>31, <1>32, <1>33, <1>34, <1>35 DEF CollectHandled
<1>. QED BY <1>36

(* The other monitors. *)
Locals(m, W) == \A j \in Mon \ {m} : Local(j, W[j])

(* The first message of a peon's leader. *)
HeadSent(from, msg, B) ==
  /\ msg.last_committed <= B.s.last_committed
  /\ msg.op = "begin" => msg.pn # 0
  /\ msg.op = "collect" => msg.pn % 100 = from

LEMMA HeadIsSent ==
  ASSUME NEW m \in Mon, NEW p, NEW c, NEW T, NEW W \in Worlds, NEW O \in Queues, NEW I \in Queues,
         NEW from \in Mon \ {m}, NEW msg, NEW op \in Downs,
         Sound(m, p, c, T, W, O, I), Heading(I, from, msg, op)
  PROVE  HeadSent(from, msg, W[from])
<1>1. PICK A : A = NodeOf(c, T)
  OBVIOUS
<1>2. PICK U : U = I[from]
  OBVIOUS
<1>3. PICK B : B = W[from]
  OBVIOUS
<1>4. PICK D : Pair(m, from, A, B, D, U)
  BY <1>1, <1>2, <1>3 DEF Sound
<1>5. U \in Messages /\ Link(from, m, B, A, U, D) /\ Queue(from, m, B, A, U)
  BY <1>4 DEF Pair
<1>6. U # <<>> /\ U[1] = msg
  BY <1>2 DEF Heading
<1>7. 1 \in DOMAIN U
  BY <1>5, <1>6, EmptySeq, LenProperties DEF Messages
<1>8. msg.last_committed <= B.s.last_committed /\ (msg.op = "begin" => msg.pn # 0)
  BY <1>5, <1>6, <1>7 DEF Queue, Sent
<1>9. msg.op = "collect" => msg.pn % 100 = from
  BY <1>5, <1>6, <1>7 DEF Link, Asked
<1>. QED BY <1>3, <1>8, <1>9 DEF HeadSent

(* A peon promises. *)
LEMMA SoundCollect ==
  ASSUME NEW m \in Mon, NEW p, NEW c, NEW T, NEW W \in Worlds, NEW O \in Queues, NEW I \in Queues,
         NEW I2, NEW from \in Mon \ {m}, NEW msg, NEW d,
         Sound(m, p, c, T, W, O, I), Timed(c.role, c.s), Locals(m, W),
         Heading(I, from, msg, "collect"), Took(I, from, I2),
         d = HandleCollect(c, m, from, msg)
  PROVE  Stays(m, p, c, d, W, O, I2)
<1>1. "collect" \in Downs /\ msg.op = "collect"
  BY DEF Downs, Heading
<1>2. PeonIs(m, c, T, W, I, from, msg) /\ HeadSent(from, msg, W[from])
  BY <1>1, PeonFacts, HeadIsSent
<1>3. /\ c \in Contexts /\ T \in SUBSET Mon /\ c.ok /\ c.role = "peon" /\ c.s.leader = from
      /\ c.epoch = msg.epoch /\ msg \in LooseMessage
      /\ c.s.new_value = NoValue /\ Logged(c.s) /\ Numbers(m, c.s)
  BY <1>2 DEF PeonIs
<1>4. PICK x : CollectHandled(c, from, msg, d, x)
  BY <1>3, CollectHandledIs
<1>5. d \in Contexts /\ d.ok /\ d.role = "peon" /\ d.epoch = c.epoch /\ PeonFields(c.s, d.s)
      /\ d.s.state = "recovering" /\ d.s.lease = c.s.lease
      /\ d.s.last_committed = c.s.last_committed /\ d.s.values = c.s.values
      /\ d.s.pending_v = c.s.pending_v /\ d.s.pending_pn = c.s.pending_pn
  BY <1>4 DEF CollectHandled
<1>6. /\ d.s.accepted_pn = Larger(c.s.accepted_pn, msg.pn)
      /\ d.s.stored_pn = IF msg.pn > c.s.accepted_pn THEN msg.pn ELSE c.s.stored_pn
      /\ d.s.stored_pn \in {c.s.stored_pn, d.s.accepted_pn}
  BY <1>4 DEF CollectHandled, Larger
<1>7. x \in LooseMessage /\ x.op = "last" /\ x.epoch = c.epoch /\ x.pn = d.s.accepted_pn
      /\ x.last_committed = c.s.last_committed /\ NoGap(x)
      /\ (\A v \in msg.last_committed + 1 .. c.s.last_committed : x.values[v] # NoValue)
      /\ Sends(c, d, {from}, ToAll(x))
  BY <1>4 DEF CollectHandled
<1>8. msg.pn \in Nat /\ c.s.accepted_pn \in Nat /\ c.s.stored_pn \in Nat /\ c.s.last_pn \in Nat
      /\ c.s.last_committed \in Nat /\ msg.pn % 100 = from
  BY <1>1, <1>2, <1>3, MonTypes DEF HeadSent, LooseMessage, Contexts, LooseState
<1>9. Logged(d.s)
  BY <1>3, <1>5 DEF Logged
<1>10. Numbers(m, d.s)
  BY <1>3, <1>5, <1>6, <1>8 DEF Numbers, Larger, PeonFields
<1>11. Local(m, NodeOf(d, T))
  BY <1>2, <1>3, <1>5, <1>9, <1>10, LocalPeon DEF PeonFields
<1>12. OnlyFrom(from, c.s, d.s)
  BY <1>6, <1>8 DEF OnlyFrom, Below, Larger
<1>13. Grown(p, d.s)
  BY <1>5 DEF Sound, Grown
<1>14. PeonOf(m, p, c, T, W, O, I, from, d)
  BY <1>3, <1>5, <1>8, <1>11, <1>12, <1>13 DEF PeonOf, PeonStep, Heading, PeonFields
<1>15. Fits(x, NodeOf(d, T)) /\ x.op \in Ups
  <2>1. NodeOf(d, T).epoch = d.epoch /\ NodeOf(d, T).s = d.s
    BY <1>3, <1>5, NodeIs
  <2>. QED BY <1>5, <1>7, <2>1 DEF Fits, Ups
<1>16. ASSUME NEW q, NEW q2, Pair(m, from, NodeOf(c, T), W[from], q, I[from]),
              Push(q, q2, x, c.epoch, W[from])
       PROVE  Link(from, m, W[from], NodeOf(d, T), I2[from], q2)
  <2>1. PICK A : A = NodeOf(c, T)
    OBVIOUS
  <2>2. A \in Node /\ A.epoch = c.epoch /\ A.role = "peon" /\ A.s = c.s
    BY <1>3, <2>1, NodeIs
  <2>3. PICK A2 : A2 = NodeOf(d, T)
    OBVIOUS
  <2>4. A2 \in Node /\ A2.epoch = c.epoch /\ A2.role = "peon" /\ A2.s = d.s
    BY <1>3, <1>5, <2>3, NodeIs
  <2>5. PICK B : B = W[from]
    OBVIOUS
  <2>6. B \in Node /\ Local(from, B)
    BY <2>5 DEF Worlds, Locals
  <2>7. B.role = "leader" => B.s.accepted_pn = B.s.last_pn /\ B.s.last_pn % 100 = from
    BY <2>6 DEF Local, Leading
  <2>8. PICK U : U = I[from]
    OBVIOUS
  <2>9. PICK U2 : U2 = I2[from]
    OBVIOUS
  <2>10. U2 = Tail(U) /\ U # <<>> /\ U[1] = msg /\ U[1].op = "collect"
    BY <2>8, <2>9 DEF Heading, Took, Queues
  <2>11. Link(from, m, B, A, U, q) /\ U \in Messages /\ q \in Messages
    BY <1>16, <2>1, <2>5, <2>8 DEF Pair
  <2>12. Push(q, q2, x, A.epoch, B)
    BY <1>16, <2>2, <2>5
  <2>13. U[1].last_committed <= B.s.last_committed
    BY <1>2, <2>5, <2>10 DEF HeadSent
  <2>14. /\ A2.epoch = A.epoch /\ A2.role = A.role /\ A2.s.leader = A.s.leader
         /\ A2.s.last_committed = A.s.last_committed /\ A2.s.lease = A.s.lease
         /\ A2.s.accepted_pn = Larger(A.s.accepted_pn, U[1].pn)
         /\ A2.s.stored_pn \in {A.s.stored_pn, A2.s.accepted_pn}
         /\ x.op = "last" /\ x.epoch = A.epoch /\ x.pn = A2.s.accepted_pn
         /\ x.last_committed = A.s.last_committed
         /\ \A v \in U[1].last_committed + 1 .. A.s.last_committed : x.values[v] # NoValue
    BY <1>5, <1>6, <1>7, <2>2, <2>4, <2>10 DEF PeonFields
  <2>15. Link(from, m, B, A2, U2, q2)
    BY <1>7, <2>2, <2>4, <2>6, <2>7, <2>10, <2>11, <2>12, <2>13, <2>14, LinkCollect
  <2>. QED BY <2>3, <2>5, <2>9, <2>15
<1>17. Sound(m, p, d, T, W, O, I2)
  BY <1>7, <1>14, <1>15, <1>16, SoundReply
<1>18. Timed(d.role, d.s)
  BY <1>3, <1>4, <1>5, TimedPeon DEF Timed, CollectHandled
<1>19. Keeps(c.s, d.s)
  BY <1>5 DEF Keeps, PeonFields
<1>. QED BY <1>3, <1>5, <1>17, <1>18, <1>19 DEF Stays

(* A peon ignores the message. *)
LEMMA SoundIgnores ==
  ASSUME NEW m \in Mon, NEW p, NEW c, NEW T, NEW W \in Worlds, NEW O \in Queues, NEW I \in Queues,
         NEW I2, NEW from \in Mon \ {m}, NEW msg, NEW op \in Downs \ {"commit"},
         Sound(m, p, c, T, W, O, I), Timed(c.role, c.s),
         Heading(I, from, msg, op), Took(I, from, I2)
  PROVE  Stays(m, p, c, c, W, O, I2)
<1>1. PeonIs(m, c, T, W, I, from, msg)
  BY PeonFacts
<1>2. /\ c \in Contexts /\ T \in SUBSET Mon /\ c.ok /\ c.role = "peon" /\ c.s.leader = from
      /\ c.s.last_committed \in Nat
  BY <1>1, MonTypes DEF PeonIs, Contexts, LooseState
<1>3. PeonOf(m, p, c, T, W, O, I, from, c)
  BY <1>2 DEF PeonOf, PeonStep, OnlyFrom, Sound, Heading
<1>4. ASSUME NEW q, Pair(m, from, NodeOf(c, T), W[from], q, I[from])
      PROVE  Link(from, m, W[from], NodeOf(c, T), I2[from], q)
  <2>1. PICK A : A = NodeOf(c, T)
    OBVIOUS
  <2>2. PICK B : B = W[from]
    OBVIOUS
  <2>3. PICK U : U = I[from]
    OBVIOUS
  <2>4. PICK U2 : U2 = I2[from]
    OBVIOUS
  <2>5. U2 = Tail(U) /\ U # <<>> /\ U[1].op \notin {"victory", "commit"}
    BY <2>3, <2>4 DEF Heading, Took, Queues, Downs
  <2>6. Link(from, m, B, A, U, q) /\ U \in Messages
    BY <1>4, <2>1, <2>2, <2>3 DEF Pair
  <2>7. Link(from, m, B, A, U2, q)
    BY <2>5, <2>6, LinkTailD
  <2>. QED BY <2>1, <2>2, <2>4, <2>7
<1>5. Sound(m, p, c, T, W, O, I2)
  BY <1>3, <1>4, SoundTakes
<1>. QED BY <1>2, <1>5 DEF Stays, Keeps

(* handle_begin() *)
BeginHandled(c, from, msg, v, d, x) ==
  /\ d \in Contexts /\ d.ok /\ d.role = "peon" /\ d.epoch = c.epoch
  /\ PeonFields(c.s, d.s) /\ d.s.state = "updating" /\ ~d.s.lease
  /\ d.s.last_committed = c.s.last_committed
  /\ d.s.values = [c.s.values EXCEPT ![v] = msg.values[v]]
  /\ d.s.pending_v = v /\ d.s.pending_pn = c.s.accepted_pn
  /\ d.s.accepted_pn = c.s.accepted_pn /\ d.s.stored_pn = c.s.stored_pn
  /\ d.s.timers = c.s.timers
  /\ x \in LooseMessage /\ x.op = "accept" /\ x.epoch = c.epoch /\ x.pn = c.s.accepted_pn
  /\ x.values = NoValues
  /\ x.last_committed = c.s.last_committed /\ NoGap(x)
  /\ Sends(c, d, {from}, ToAll(x))

LEMMA BeginHandledIs ==
  ASSUME NEW c \in Contexts, NEW m, NEW from \in Mon, NEW msg \in LooseMessage, NEW d, NEW v \in Version,
         c.ok, c.role = "peon", v = c.s.last_committed + 1,
         msg.pn = c.s.accepted_pn, msg.last_committed = c.s.last_committed,
         d = HandleBegin(c, m, from, msg)
  PROVE  \E x : BeginHandled(c, from, msg, v, d, x)
<1>1. c.s \in LooseState /\ c.s.accepted_pn \in Nat /\ c.s.values \in [Version -> Value]
      /\ msg.values \in [Version -> Value] /\ v \in Nat
  BY MonTypes DEF Contexts, LooseState, LooseMessage
<1>2. Check(c, msg.pn = c.s.accepted_pn /\ msg.last_committed = c.s.last_committed) = c
  BY CheckIs
<1>3. PICK s1 : s1 = [c.s EXCEPT !.state = "updating", !.lease = FALSE,
                                 !.values[v] = msg.values[v],
                                 !.pending_v = v, !.pending_pn = c.s.accepted_pn]
  OBVIOUS
<1>4. s1 \in LooseState
  BY ZenonT(60), <1>1, <1>3 DEF LooseState, State
<1>5. /\ PeonFields(c.s, s1) /\ s1.state = "updating" /\ ~s1.lease
      /\ s1.last_committed = c.s.last_committed
      /\ s1.values = [c.s.values EXCEPT ![v] = msg.values[v]]
      /\ s1.pending_v = v /\ s1.pending_pn = c.s.accepted_pn
      /\ s1.accepted_pn = c.s.accepted_pn /\ s1.stored_pn = c.s.stored_pn
      /\ s1.timers = c.s.timers
  BY <1>1, <1>3 DEF LooseState, PeonFields
<1>6. PICK e : e = [c EXCEPT !.s = s1]
  OBVIOUS
<1>7. e \in Contexts /\ e.s = s1 /\ e.ok /\ e.role = "peon" /\ e.epoch = c.epoch /\ e.out = c.out
  BY <1>4, <1>6 DEF Contexts
<1>8. PICK y : y = Msg(c, "accept")
  OBVIOUS
<1>9. y \in LooseMessage /\ y.op = "accept" /\ y.epoch = c.epoch /\ y.values = NoValues
      /\ y.last_committed = c.s.last_committed /\ NoGap(y)
  BY <1>8, MsgIs
<1>10. PICK x : x = [y EXCEPT !.pn = c.s.accepted_pn]
  OBVIOUS
<1>11. x \in LooseMessage /\ x.op = "accept" /\ x.epoch = c.epoch /\ x.pn = c.s.accepted_pn
       /\ x.last_committed = c.s.last_committed /\ x.values = NoValues /\ NoGap(x)
  BY <1>1, <1>9, <1>10 DEF LooseMessage, NoGap
<1>12. ~(msg.pn < c.s.accepted_pn)
  BY <1>1
<1>13. d = Send(e, {from}, x)
  BY <1>2, <1>3, <1>6, <1>8, <1>10, <1>12, Zenon DEF HandleBegin
<1>14. /\ d \in Contexts /\ d.s = e.s /\ d.ok = e.ok /\ d.role = e.role /\ d.epoch = e.epoch
       /\ Sends(e, d, {from}, ToAll(x))
  BY <1>7, <1>11, <1>13, ReplyIs
<1>15. Sends(c, d, {from}, ToAll(x))
  BY <1>7, <1>14 DEF Sends
<1>16. BeginHandled(c, from, msg, v, d, x)
  BY <1>5, <1>7, <1>11, <1>14, <1>15 DEF BeginHandled
<1>. QED BY <1>16

(* The begin that a peon gets is one it has promised to accept. *)
Expected(msg, s) ==
  /\ msg.pn <= s.accepted_pn
  /\ msg.pn = s.accepted_pn => msg.last_committed = s.last_committed
  /\ At(msg.values, msg.last_committed + 1) # NoValue

LEMMA BeginIsExpected ==
  ASSUME NEW m \in Mon, NEW p, NEW c, NEW T, NEW W \in Worlds, NEW O \in Queues, NEW I \in Queues,
         NEW from \in Mon \ {m}, NEW msg,
         Sound(m, p, c, T, W, O, I), Heading(I, from, msg, "begin")
  PROVE  Expected(msg, c.s)
<1>1. PICK A : A = NodeOf(c, T)
  OBVIOUS
<1>2. A \in Node /\ A.s = c.s
  BY <1>1, NodeIs DEF Sound
<1>3. PICK U : U = I[from]
  OBVIOUS
<1>4. PICK B : B = W[from]
  OBVIOUS
<1>5. B \in Node
  BY <1>4 DEF Worlds
<1>6. PICK D : Pair(m, from, A, B, D, U)
  BY <1>1, <1>3, <1>4 DEF Sound
<1>7. D \in Messages /\ U \in Messages /\ Link(from, m, B, A, U, D)
  BY <1>6 DEF Pair
<1>8. U # <<>> /\ U[1] = msg /\ U[1].op = "begin"
  BY <1>3 DEF Heading
<1>9. /\ U[1].pn <= A.s.accepted_pn
      /\ U[1].pn = A.s.accepted_pn => U[1].last_committed = A.s.last_committed
      /\ At(U[1].values, U[1].last_committed + 1) # NoValue
  BY <1>2, <1>5, <1>7, <1>8, BeginExpected
<1>. QED BY <1>2, <1>8, <1>9 DEF Expected

(* A peon accepts, or has promised otherwise. *)
LEMMA SoundBegin ==
  ASSUME NEW m \in Mon, NEW p, NEW c, NEW T, NEW W \in Worlds, NEW O \in Queues, NEW I \in Queues,
         NEW I2, NEW from \in Mon \ {m}, NEW msg, NEW d,
         Sound(m, p, c, T, W, O, I), Timed(c.role, c.s),
         Heading(I, from, msg, "begin"), Took(I, from, I2),
         d = HandleBegin(c, m, from, msg)
  PROVE  Stays(m, p, c, d, W, O, I2)
<1>1. "begin" \in Downs \ {"commit"} /\ "begin" \in Downs /\ msg.op = "begin"
  BY DEF Downs, Heading
<1>2. PeonIs(m, c, T, W, I, from, msg) /\ HeadSent(from, msg, W[from]) /\ Expected(msg, c.s)
  BY <1>1, PeonFacts, HeadIsSent, BeginIsExpected
<1>3. /\ c \in Contexts /\ T \in SUBSET Mon /\ c.ok /\ c.role = "peon" /\ c.s.leader = from
      /\ c.epoch = msg.epoch /\ msg \in LooseMessage
      /\ c.s.new_value = NoValue /\ Logged(c.s) /\ Numbers(m, c.s)
  BY <1>2 DEF PeonIs
<1>4. msg.pn \in Nat /\ c.s.accepted_pn \in Nat /\ c.s.last_committed \in Nat
      /\ c.s.values \in [Version -> Value]
  BY <1>3, MonTypes DEF LooseMessage, Contexts, LooseState
<1>5. CASE msg.pn < c.s.accepted_pn
  <2>1. d = c
    BY <1>5 DEF HandleBegin
  <2>. QED BY <1>1, <2>1, SoundIgnores
<1>6. CASE msg.pn = c.s.accepted_pn
  <2>1. PICK v : v = c.s.last_committed + 1
    OBVIOUS
  <2>2. msg.last_committed = c.s.last_committed /\ v \in Version /\ msg.values[v] # NoValue
        /\ c.s.accepted_pn # 0
    BY <1>1, <1>2, <1>6, <2>1 DEF Expected, At, HeadSent
  <2>3. PICK x : BeginHandled(c, from, msg, v, d, x)
    BY <1>3, <1>6, <2>1, <2>2, BeginHandledIs
  <2>4. /\ d \in Contexts /\ d.ok /\ d.role = "peon" /\ d.epoch = c.epoch
        /\ PeonFields(c.s, d.s) /\ d.s.state = "updating" /\ ~d.s.lease
        /\ d.s.last_committed = c.s.last_committed
        /\ d.s.values = [c.s.values EXCEPT ![v] = msg.values[v]]
        /\ d.s.pending_v = v /\ d.s.pending_pn = c.s.accepted_pn
        /\ d.s.accepted_pn = c.s.accepted_pn /\ d.s.stored_pn = c.s.stored_pn
        /\ d.s.timers = c.s.timers
    BY <2>3 DEF BeginHandled
  <2>5. /\ x \in LooseMessage /\ x.op = "accept" /\ x.epoch = c.epoch /\ x.pn = c.s.accepted_pn
        /\ x.last_committed = c.s.last_committed /\ NoGap(x)
        /\ Sends(c, d, {from}, ToAll(x))
    BY <2>3 DEF BeginHandled
  <2>6. \A w \in Version : w # v => d.s.values[w] = c.s.values[w]
    BY <1>4, <2>4
  <2>7. Logged(d.s)
    BY <1>3, <1>4, <2>1, <2>2, <2>4, <2>6, MonTypes DEF Logged, At
  <2>8. Numbers(m, d.s)
    BY <1>3, <2>4 DEF Numbers, PeonFields
  <2>9. Local(m, NodeOf(d, T))
    BY <1>2, <1>3, <2>4, <2>7, <2>8, LocalPeon DEF PeonFields
  <2>10. OnlyFrom(from, c.s, d.s)
    BY <2>4 DEF OnlyFrom, Below
  <2>11. Grown(p, d.s)
    <3>1. p.last_committed \in Nat /\ p.last_committed <= c.s.last_committed
          /\ \A w \in Version : w <= p.last_committed => c.s.values[w] = p.values[w]
      BY DEF Sound, Grown
    <3>2. \A w \in Version : w <= p.last_committed => w # v
      BY <1>4, <2>1, <3>1, MonTypes
    <3>. QED BY <2>4, <2>6, <3>1, <3>2 DEF Grown
  <2>12. PeonOf(m, p, c, T, W, O, I, from, d)
    BY <1>3, <1>4, <2>4, <2>9, <2>10, <2>11 DEF PeonOf, PeonStep, Heading, PeonFields
  <2>13. Fits(x, NodeOf(d, T)) /\ x.op \in Ups
    <3>1. NodeOf(d, T).epoch = d.epoch /\ NodeOf(d, T).s = d.s
      BY <1>3, <2>4, NodeIs
    <3>. QED BY <2>4, <2>5, <3>1 DEF Fits, Ups
  <2>14. ASSUME NEW q, NEW q2, Pair(m, from, NodeOf(c, T), W[from], q, I[from]),
                Push(q, q2, x, c.epoch, W[from])
         PROVE  Link(from, m, W[from], NodeOf(d, T), I2[from], q2)
    <3>1. PICK A : A = NodeOf(c, T)
      OBVIOUS
    <3>2. A \in Node /\ A.epoch = c.epoch /\ A.role = "peon" /\ A.s = c.s
      BY <1>3, <3>1, NodeIs
    <3>3. PICK A2 : A2 = NodeOf(d, T)
      OBVIOUS
    <3>4. A2 \in Node /\ A2.epoch = c.epoch /\ A2.role = "peon" /\ A2.s = d.s
      BY <1>3, <2>4, <3>3, NodeIs
    <3>5. PICK B : B = W[from]
      OBVIOUS
    <3>6. B \in Node
      BY <3>5 DEF Worlds
    <3>7. PICK U : U = I[from]
      OBVIOUS
    <3>8. PICK U2 : U2 = I2[from]
      OBVIOUS
    <3>9. U2 = Tail(U) /\ U # <<>> /\ U[1].op = "begin" /\ U[1].pn = A.s.accepted_pn
      BY <1>6, <3>2, <3>7, <3>8 DEF Heading, Took, Queues
    <3>10. Link(from, m, B, A, U, q) /\ U \in Messages /\ q \in Messages
      BY <2>14, <3>1, <3>5, <3>7 DEF Pair
    <3>11. Push(q, q2, x, A.epoch, B)
      BY <2>14, <3>2, <3>5
    <3>12. /\ A2.epoch = A.epoch /\ A2.role = A.role /\ A2.s.leader = A.s.leader
           /\ A2.s.last_committed = A.s.last_committed /\ ~A2.s.lease
           /\ A2.s.accepted_pn = A.s.accepted_pn /\ A2.s.stored_pn = A.s.stored_pn
           /\ x.op = "accept" /\ x.epoch = A.epoch /\ x.pn = A.s.accepted_pn
           /\ x.last_committed = A.s.last_committed
      BY <2>4, <2>5, <3>2, <3>4 DEF PeonFields
    <3>13. Link(from, m, B, A2, U2, q2)
      BY <2>5, <3>2, <3>4, <3>6, <3>9, <3>10, <3>11, <3>12, LinkBegin
    <3>. QED BY <3>3, <3>5, <3>8, <3>13
  <2>15. Sound(m, p, d, T, W, O, I2)
    BY <2>5, <2>12, <2>13, <2>14, SoundReply
  <2>16. Timed(d.role, d.s)
    BY <1>3, <2>4, TimedPeon DEF Timed, Timers
  <2>17. Keeps(c.s, d.s)
    BY <2>4 DEF Keeps, PeonFields
  <2>. QED BY <1>3, <2>4, <2>15, <2>16, <2>17 DEF Stays
<1>. QED BY <1>2, <1>4, <1>5, <1>6 DEF Expected

(* A peon learns what is committed. *)
LEMMA SoundCommit ==
  ASSUME NEW m \in Mon, NEW p, NEW c, NEW T, NEW W \in Worlds, NEW O \in Queues, NEW I \in Queues,
         NEW I2, NEW from \in Mon \ {m}, NEW msg, NEW d,
         Sound(m, p, c, T, W, O, I), Timed(c.role, c.s),
         Heading(I, from, msg, "commit"), Took(I, from, I2),
         d = HandleCommit(c, m, from, msg)
  PROVE  Stays(m, p, c, d, W, O, I2)
<1>1. "commit" \in Downs /\ msg.op = "commit"
  BY DEF Downs, Heading
<1>2. PeonIs(m, c, T, W, I, from, msg) /\ HeadSent(from, msg, W[from])
  BY <1>1, PeonFacts, HeadIsSent
<1>3. /\ c \in Contexts /\ T \in SUBSET Mon /\ c.ok /\ c.role = "peon" /\ c.s.leader = from
      /\ c.epoch = msg.epoch /\ msg \in LooseMessage /\ NoGap(msg)
      /\ c.s.new_value = NoValue /\ Logged(c.s) /\ Numbers(m, c.s)
  BY <1>2 DEF PeonIs
<1>4. Check(c, c.role = "peon") = c
  BY <1>3, CheckIs
<1>5. d = StoreState(c, msg)
  BY <1>4 DEF HandleCommit
<1>6. StoreDoes(c, msg, d)
  BY <1>3, <1>5, StoreIs
<1>7. /\ d \in Contexts /\ d.ok /\ d.role = "peon" /\ d.epoch = c.epoch /\ d.out = c.out
      /\ ButLog(c.s, d.s) /\ c.s.last_committed <= d.s.last_committed
      /\ Learns(c.s.last_committed, d.s.last_committed, msg)
  BY <1>3, <1>6 DEF StoreDoes
<1>8. Logged(d.s) /\ Grown(p, d.s)
  BY <1>3, <1>6, StoreKeepsLog DEF Sound
<1>9. Numbers(m, d.s)
  BY <1>3, <1>7 DEF Numbers, ButLog
<1>10. d.s.state \in {"recovering", "active", "updating"}
  <2>1. NodeOf(c, T).s = c.s /\ NodeOf(c, T).role = "peon" /\ Local(m, NodeOf(c, T))
    BY <1>3, NodeIs DEF Sound
  <2>. QED BY <1>7, <2>1 DEF Local, ButLog
<1>11. Local(m, NodeOf(d, T))
  BY <1>2, <1>3, <1>7, <1>8, <1>9, <1>10, LocalPeon DEF ButLog
<1>12. OnlyFrom(from, c.s, d.s)
  BY <1>7 DEF OnlyFrom, Below, ButLog
<1>13. PeonOf(m, p, c, T, W, O, I, from, d)
  <2>1. d.s.last_committed >= c.s.last_committed
    BY <1>3, <1>7, MonTypes DEF Contexts, LooseState
  <2>. QED BY <1>3, <1>7, <1>8, <1>11, <1>12, <2>1 DEF PeonOf, PeonStep, Heading, ButLog
<1>14. ASSUME NEW q, Pair(m, from, NodeOf(c, T), W[from], q, I[from])
       PROVE  Link(from, m, W[from], NodeOf(d, T), I2[from], q)
  <2>1. PICK A : A = NodeOf(c, T)
    OBVIOUS
  <2>2. A \in Node /\ A.epoch = c.epoch /\ A.role = "peon" /\ A.s = c.s
    BY <1>3, <2>1, NodeIs
  <2>3. PICK A2 : A2 = NodeOf(d, T)
    OBVIOUS
  <2>4. A2 \in Node /\ A2.epoch = c.epoch /\ A2.role = "peon" /\ A2.s = d.s
    BY <1>3, <1>7, <2>3, NodeIs
  <2>5. PICK B : B = W[from]
    OBVIOUS
  <2>6. B \in Node
    BY <2>5 DEF Worlds
  <2>7. PICK U : U = I[from]
    OBVIOUS
  <2>8. PICK U2 : U2 = I2[from]
    OBVIOUS
  <2>9. U2 = Tail(U) /\ U # <<>> /\ U[1] = msg /\ U[1].op = "commit"
    BY <2>7, <2>8 DEF Heading, Took, Queues
  <2>10. Link(from, m, B, A, U, q) /\ U \in Messages /\ q \in Messages
         /\ \A k, l \in DOMAIN U : k < l => InOrder(U[k], U[l])
    BY <1>14, <2>1, <2>5, <2>7 DEF Pair, Queue
  <2>11. U[1].last_committed <= B.s.last_committed
    BY <1>2, <2>5, <2>9 DEF HeadSent
  <2>12. /\ A2.epoch = A.epoch /\ A2.role = A.role /\ A2.s.leader = A.s.leader
         /\ A2.s.lease = A.s.lease
         /\ A2.s.accepted_pn = A.s.accepted_pn /\ A2.s.stored_pn = A.s.stored_pn
         /\ Learns(A.s.last_committed, A2.s.last_committed, U[1])
    BY <1>7, <2>2, <2>4, <2>9 DEF ButLog
  <2>13. Link(from, m, B, A2, U2, q)
    BY <2>2, <2>4, <2>6, <2>9, <2>10, <2>11, <2>12, LinkCommit
  <2>. QED BY <2>3, <2>5, <2>8, <2>13
<1>15. Sound(m, p, d, T, W, O, I2)
  BY <1>7, <1>13, <1>14, SoundTakes
<1>16. Timed(d.role, d.s) /\ Keeps(c.s, d.s)
  BY <1>3, <1>7, TimedSame DEF ButLog
<1>. QED BY <1>3, <1>7, <1>15, <1>16 DEF Stays

(* handle_lease() *)
LeaseHandled(c, from, d, x) ==
  /\ d \in Contexts /\ d.ok /\ d.role = "peon" /\ d.epoch = c.epoch
  /\ PeonFields(c.s, d.s) /\ d.s.state = "active"
  /\ d.s.last_committed = c.s.last_committed /\ d.s.values = c.s.values
  /\ d.s.pending_v = c.s.pending_v /\ d.s.pending_pn = c.s.pending_pn
  /\ d.s.accepted_pn = c.s.accepted_pn /\ d.s.stored_pn = c.s.stored_pn
  /\ Timers(c.s, {"lease"}) => Timers(d.s, {"lease"})
  /\ x \in LooseMessage /\ x.op = "lease_ack" /\ x.epoch = c.epoch /\ x.pn = 0
  /\ x.last_committed = c.s.last_committed /\ x.values = NoValues /\ NoGap(x)
  /\ Sends(c, d, {from}, ToAll(x))

LEMMA LeaseHandledIs ==
  ASSUME NEW c \in Contexts, NEW m, NEW from \in Mon, NEW msg \in LooseMessage, NEW d,
         c.ok, c.role = "peon", msg.last_committed = c.s.last_committed,
         d = HandleLease(c, m, from, msg)
  PROVE  \E x : LeaseHandled(c, from, d, x)
<1>1. c.s \in LooseState
  BY DEF Contexts
<1>2. PICK s1 : s1 = [c.s EXCEPT !.lease = TRUE, !.state = "active"]
  OBVIOUS
<1>3. s1 \in LooseState
  BY <1>1, <1>2 DEF LooseState, State
<1>4. /\ PeonFields(c.s, s1) /\ s1.state = "active"
      /\ s1.last_committed = c.s.last_committed /\ s1.values = c.s.values
      /\ s1.pending_v = c.s.pending_v /\ s1.pending_pn = c.s.pending_pn
      /\ s1.accepted_pn = c.s.accepted_pn /\ s1.stored_pn = c.s.stored_pn
      /\ s1.timers = c.s.timers
  BY <1>1, <1>2 DEF LooseState, PeonFields
<1>5. PICK c1 : c1 = [c EXCEPT !.s = s1]
  OBVIOUS
<1>6. c1 \in Contexts /\ c1.s = s1 /\ c1.ok /\ c1.role = "peon" /\ c1.epoch = c.epoch /\ c1.out = c.out
  BY <1>3, <1>5 DEF Contexts
<1>7. PICK x : x = Msg(c, "lease_ack")
  OBVIOUS
<1>8. x \in LooseMessage /\ x.op = "lease_ack" /\ x.epoch = c.epoch /\ x.pn = 0
      /\ x.last_committed = c.s.last_committed /\ x.values = NoValues /\ NoGap(x)
  BY <1>7, MsgIs
<1>9. PICK e : e = Send(c1, {from}, x)
  OBVIOUS
<1>10. /\ e \in Contexts /\ e.s = s1 /\ e.ok /\ e.role = "peon" /\ e.epoch = c.epoch
       /\ Sends(c1, e, {from}, ToAll(x))
  BY <1>6, <1>8, <1>9, ReplyIs
<1>11. d = ResetLeaseTimeout(e)
  BY <1>2, <1>5, <1>7, <1>9, Zenon DEF HandleLease
<1>12. OnlyTimers(e, d) /\ (Timers(e.s, {}) \/ Timers(e.s, {"lease"}) => Timers(d.s, {"lease"}))
  BY <1>10, <1>11, ResetIs
<1>13. d \in Contexts /\ d.ok /\ d.role = "peon" /\ d.epoch = c.epoch /\ d.out = e.out /\ ButTimers(s1, d.s)
  BY <1>10, <1>12 DEF OnlyTimers
<1>14. Sends(c, d, {from}, ToAll(x))
  BY <1>6, <1>10, <1>13 DEF Sends
<1>15. Timers(c.s, {"lease"}) => Timers(d.s, {"lease"})
  BY <1>4, <1>10, <1>12 DEF Timers
<1>16. LeaseHandled(c, from, d, x)
  BY <1>4, <1>8, <1>13, <1>14, <1>15 DEF LeaseHandled, ButTimers, PeonFields
<1>. QED BY <1>16

(* A peon takes a lease if it has what the leader has committed. *)
LEMMA SoundLeaseTaken ==
  ASSUME NEW m \in Mon, NEW p, NEW c, NEW T, NEW W \in Worlds, NEW O \in Queues, NEW I \in Queues,
         NEW I2, NEW from \in Mon \ {m}, NEW msg, NEW d,
         Sound(m, p, c, T, W, O, I), Timed(c.role, c.s),
         Heading(I, from, msg, "lease"), Took(I, from, I2),
         d = HandleLease(c, m, from, msg)
  PROVE  Stays(m, p, c, d, W, O, I2)
<1>1. "lease" \in Downs \ {"commit"} /\ "lease" \in Downs /\ msg.op = "lease"
  BY DEF Downs, Heading
<1>2. PeonIs(m, c, T, W, I, from, msg)
  BY <1>1, PeonFacts
<1>3. /\ c \in Contexts /\ T \in SUBSET Mon /\ c.ok /\ c.role = "peon" /\ c.s.leader = from
      /\ c.epoch = msg.epoch /\ msg \in LooseMessage
      /\ c.s.new_value = NoValue /\ Logged(c.s) /\ Numbers(m, c.s)
  BY <1>2 DEF PeonIs
<1>4. c.s.last_committed \in Nat
  BY <1>3, MonTypes DEF Contexts, LooseState
<1>5. CASE msg.last_committed # c.s.last_committed
  <2>1. d = c
    BY <1>5 DEF HandleLease
  <2>. QED BY <1>1, <2>1, SoundIgnores
<1>6. CASE msg.last_committed = c.s.last_committed
  <2>1. PICK x : LeaseHandled(c, from, d, x)
    BY <1>3, <1>6, LeaseHandledIs
  <2>2. /\ d \in Contexts /\ d.ok /\ d.role = "peon" /\ d.epoch = c.epoch
        /\ PeonFields(c.s, d.s) /\ d.s.state = "active"
        /\ d.s.last_committed = c.s.last_committed /\ d.s.values = c.s.values
        /\ d.s.pending_v = c.s.pending_v /\ d.s.pending_pn = c.s.pending_pn
        /\ d.s.accepted_pn = c.s.accepted_pn /\ d.s.stored_pn = c.s.stored_pn
        /\ Timers(c.s, {"lease"}) => Timers(d.s, {"lease"})
    BY <2>1 DEF LeaseHandled
  <2>3. /\ x \in LooseMessage /\ x.op = "lease_ack" /\ x.epoch = c.epoch /\ x.pn = 0
        /\ x.last_committed = c.s.last_committed /\ NoGap(x)
        /\ Sends(c, d, {from}, ToAll(x))
    BY <2>1 DEF LeaseHandled
  <2>4. Logged(d.s) /\ Numbers(m, d.s) /\ Grown(p, d.s) /\ OnlyFrom(from, c.s, d.s)
    BY <1>3, <2>2 DEF Logged, Numbers, PeonFields, Sound, Grown, OnlyFrom, Below
  <2>5. Local(m, NodeOf(d, T))
    BY <1>2, <1>3, <2>2, <2>4, LocalPeon DEF PeonFields
  <2>6. PeonOf(m, p, c, T, W, O, I, from, d)
    BY <1>3, <1>4, <2>2, <2>4, <2>5 DEF PeonOf, PeonStep, Heading, PeonFields
  <2>7. Fits(x, NodeOf(d, T)) /\ x.op \in Ups
    <3>1. NodeOf(d, T).epoch = d.epoch /\ NodeOf(d, T).s = d.s
      BY <1>3, <2>2, NodeIs
    <3>. QED BY <2>2, <2>3, <3>1 DEF Fits, Ups
  <2>8. ASSUME NEW q, NEW q2, Pair(m, from, NodeOf(c, T), W[from], q, I[from]),
               Push(q, q2, x, c.epoch, W[from])
        PROVE  Link(from, m, W[from], NodeOf(d, T), I2[from], q2)
    <3>1. PICK A : A = NodeOf(c, T)
      OBVIOUS
    <3>2. A \in Node /\ A.epoch = c.epoch /\ A.role = "peon" /\ A.s = c.s
      BY <1>3, <3>1, NodeIs
    <3>3. PICK A2 : A2 = NodeOf(d, T)
      OBVIOUS
    <3>4. A2 \in Node /\ A2.epoch = c.epoch /\ A2.role = "peon" /\ A2.s = d.s
      BY <1>3, <2>2, <3>3, NodeIs
    <3>5. PICK B : B = W[from]
      OBVIOUS
    <3>6. B \in Node
      BY <3>5 DEF Worlds
    <3>7. PICK U : U = I[from]
      OBVIOUS
    <3>8. PICK U2 : U2 = I2[from]
      OBVIOUS
    <3>9. U2 = Tail(U) /\ U # <<>> /\ U[1].op = "lease" /\ U[1].last_committed = A.s.last_committed
      BY <1>6, <3>2, <3>7, <3>8 DEF Heading, Took, Queues
    <3>10. Link(from, m, B, A, U, q) /\ U \in Messages /\ q \in Messages
      BY <2>8, <3>1, <3>5, <3>7 DEF Pair
    <3>11. Push(q, q2, x, A.epoch, B)
      BY <2>8, <3>2, <3>5
    <3>12. /\ A2.epoch = A.epoch /\ A2.role = A.role /\ A2.s.leader = A.s.leader
           /\ A2.s.last_committed = A.s.last_committed
           /\ A2.s.accepted_pn = A.s.accepted_pn /\ A2.s.stored_pn = A.s.stored_pn
           /\ x.op = "lease_ack" /\ x.epoch = A.epoch /\ x.pn = 0
      BY <2>2, <2>3, <3>2, <3>4 DEF PeonFields
    <3>13. Link(from, m, B, A2, U2, q2)
      BY <2>3, <3>2, <3>4, <3>6, <3>9, <3>10, <3>11, <3>12, LinkLease
    <3>. QED BY <3>3, <3>5, <3>8, <3>13
  <2>9. Sound(m, p, d, T, W, O, I2)
    BY <2>3, <2>6, <2>7, <2>8, SoundReply
  <2>10. Timed(d.role, d.s)
    BY <1>3, <2>2, TimedPeon DEF Timed
  <2>11. Keeps(c.s, d.s)
    BY <2>2 DEF Keeps, PeonFields
  <2>. QED BY <1>3, <2>2, <2>9, <2>10, <2>11 DEF Stays
<1>. QED BY <1>5, <1>6

(* dispatch(), for a message other than a victory. *)
Dispatched(c, m, from, msg, d) == msg.op # "victory" /\ d = Dispatch(c, m, from, msg)

LEMMA SoundDispatch ==
  ASSUME NEW m \in Mon, NEW p, NEW c, NEW T, NEW W \in Worlds, NEW O \in Queues, NEW I \in Queues,
         NEW I2, NEW from \in Mon \ {m}, NEW msg, NEW d,
         Sound(m, p, c, T, W, O, I), Timed(c.role, c.s), Locals(m, W),
         Heading(I, from, msg, msg.op), Took(I, from, I2),
         Dispatched(c, m, from, msg, d), d.s.pending_v <= MaxOp
  PROVE  Stays(m, p, c, d, W, O, I2)
<1>1. msg.op \in Ups \union Downs
  <2>1. I[from] \in Messages /\ I[from] # <<>> /\ msg = I[from][1]
    BY DEF Queues, Heading
  <2>2. 1 \in DOMAIN I[from]
    BY <2>1, EmptySeq, LenProperties DEF Messages
  <2>3. msg \in LooseMessage
    BY <2>1, <2>2, MessageTypes
  <2>. QED BY <2>3 DEF LooseMessage, Ups, Downs, Dispatched
<1>2. Check(c, c.role = "peon" => from = c.s.leader) = c
  <2>1. c.role = "peon" => from = c.s.leader
    <3>1. CASE msg.op \in Ups
      BY <3>1, AnswerExpected
    <3>2. CASE msg.op \in Downs
      BY <3>2, PeonFacts DEF PeonIs
    <3>. QED BY <1>1, <3>1, <3>2
  <2>. QED BY <2>1, CheckIs DEF Sound
<1>3. d = CASE msg.op = "collect"   -> HandleCollect(c, m, from, msg)
            [] msg.op = "last"      -> HandleLast(c, m, from, msg)
            [] msg.op = "begin"     -> HandleBegin(c, m, from, msg)
            [] msg.op = "accept"    -> HandleAccept(c, m, from, msg)
            [] msg.op = "commit"    -> HandleCommit(c, m, from, msg)
            [] msg.op = "lease"     -> HandleLease(c, m, from, msg)
            [] msg.op = "lease_ack" -> HandleLeaseAck(c, m, from, msg)
  BY <1>2 DEF Dispatched, Dispatch
<1>4. CASE msg.op = "collect"
  <2>1. d = HandleCollect(c, m, from, msg) /\ Heading(I, from, msg, "collect")
    BY <1>3, <1>4
  <2>. QED BY <2>1, SoundCollect
<1>5. CASE msg.op = "last"
  <2>1. d = HandleLast(c, m, from, msg) /\ Heading(I, from, msg, "last")
    BY <1>3, <1>5
  <2>. QED BY <2>1, SoundLast
<1>6. CASE msg.op = "begin"
  <2>1. d = HandleBegin(c, m, from, msg) /\ Heading(I, from, msg, "begin")
    BY <1>3, <1>6
  <2>. QED BY <2>1, SoundBegin
<1>7. CASE msg.op = "accept"
  <2>1. d = HandleAccept(c, m, from, msg) /\ Heading(I, from, msg, "accept")
    BY <1>3, <1>7
  <2>. QED BY <2>1, SoundAccept
<1>8. CASE msg.op = "commit"
  <2>1. d = HandleCommit(c, m, from, msg) /\ Heading(I, from, msg, "commit")
    BY <1>3, <1>8
  <2>. QED BY <2>1, SoundCommit
<1>9. CASE msg.op = "lease"
  <2>1. d = HandleLease(c, m, from, msg) /\ Heading(I, from, msg, "lease")
    BY <1>3, <1>9
  <2>. QED BY <2>1, SoundLeaseTaken
<1>10. CASE msg.op = "lease_ack"
  <2>1. d = HandleLeaseAck(c, m, from, msg) /\ Heading(I, from, msg, "lease_ack")
    BY <1>3, <1>10
  <2>. QED BY <2>1, SoundAck
<1>. QED BY <1>1, <1>4, <1>5, <1>6, <1>7, <1>8, <1>9, <1>10 DEF Ups, Downs

-----------------------------------------------------------------------------
(* Leaving and joining a quorum *)

(* What is in the store. *)
SameLog(s, t) ==
  /\ t.last_pn = s.last_pn /\ t.stored_pn = s.stored_pn /\ t.accepted_pn = s.accepted_pn
  /\ t.last_committed = s.last_committed /\ t.values = s.values
  /\ t.pending_v = s.pending_v /\ t.pending_pn = s.pending_pn

Idle(s) == s.new_value = NoValue /\ s.committing = NoValue /\ s.state = "recovering"

LeaveDoes(c, e, d) ==
  /\ d \in Contexts /\ d.role = "out" /\ d.epoch = e /\ d.out = c.out /\ d.ok = c.ok
  /\ SameLog(c.s, d.s) /\ Idle(d.s) /\ d.s.leader = -1
  /\ \A S \in SUBSET Timer : Timers(c.s, S) => Timers(d.s, {})

(* bootstrap() and restart() *)
LEMMA LeaveIs ==
  ASSUME NEW c \in Contexts, NEW e \in Nat, NEW d, d = LeaveQuorum(c, e)
  PROVE  LeaveDoes(c, e, d)
<1>1. PICK g : g = CancelEvents(c)
  OBVIOUS
<1>2. OnlyTimers(c, g) /\ \A S \in SUBSET Timer : Timers(c.s, S) => Timers(g.s, {})
  BY <1>1, CancelEventsIs
<1>3. g \in Contexts /\ g.s \in LooseState /\ g.out = c.out /\ g.ok = c.ok /\ ButTimers(c.s, g.s)
  BY <1>2 DEF OnlyTimers, Contexts
<1>4. PICK s1 : s1 = [g.s EXCEPT
         !.state = "recovering", !.quorum = {}, !.leader = -1,
         !.new_value = NoValue, !.pending_proposal = NoValue, !.committing = NoValue,
         !.uncommitted_v = 0, !.uncommitted_pn = 0, !.uncommitted_value = NoValue,
         !.num_last = 0, !.peer_last_committed = [q \in Mon |-> -1],
         !.accepted = {}, !.acked_lease = {}, !.lease = FALSE]
  OBVIOUS
<1>5. s1 \in LooseState
  <2>1. [q \in Mon |-> -1] \in [Mon -> Int] /\ NoValue \in Value
    BY DEF NoValue, Value
  <2>. QED BY ZenonT(60), <1>3, <1>4, <2>1 DEF LooseState, State
<1>6. SameLog(g.s, s1) /\ Idle(s1) /\ s1.leader = -1 /\ s1.timers = g.s.timers
  BY <1>3, <1>4 DEF LooseState, SameLog, Idle
<1>7. d = [[g EXCEPT !.s = s1] EXCEPT !.role = "out", !.epoch = e]
  BY <1>1, <1>4, Zenon DEF LeaveQuorum, RestartOf
<1>8. d \in Contexts /\ d.role = "out" /\ d.epoch = e /\ d.out = g.out /\ d.ok = g.ok /\ d.s = s1
  BY <1>3, <1>5, <1>7 DEF Contexts
<1>9. SameLog(c.s, s1)
  BY <1>3, <1>6 DEF SameLog, ButTimers
<1>10. \A S \in SUBSET Timer : Timers(c.s, S) => Timers(s1, {})
  BY <1>2, <1>6 DEF Timers
<1>. QED BY <1>3, <1>6, <1>8, <1>9, <1>10 DEF LeaveDoes

EnterDoes(c, l, q, d) ==
  /\ d \in Contexts /\ d.role = c.role /\ d.epoch = c.epoch /\ d.out = c.out /\ d.ok = c.ok
  /\ SameLog(c.s, d.s) /\ Idle(d.s) /\ d.s.leader = l /\ d.s.quorum = q /\ ~d.s.lease
  /\ \A S \in SUBSET Timer : Timers(c.s, S) => Timers(d.s, {})

(* leader_init() and peon_init() *)
LEMMA EnterIs ==
  ASSUME NEW c \in Contexts, NEW l \in Mon, NEW q \in SUBSET Mon, NEW d, d = Enter(c, l, q)
  PROVE  EnterDoes(c, l, q, d)
<1>1. PICK g : g = CancelEvents(c)
  OBVIOUS
<1>2. OnlyTimers(c, g) /\ \A S \in SUBSET Timer : Timers(c.s, S) => Timers(g.s, {})
  BY <1>1, CancelEventsIs
<1>3. g \in Contexts /\ g.s \in LooseState /\ g.out = c.out /\ g.ok = c.ok /\ g.role = c.role
      /\ g.epoch = c.epoch /\ ButTimers(c.s, g.s)
  BY <1>2 DEF OnlyTimers, Contexts
<1>4. PICK s1 : s1 = [g.s EXCEPT !.leader = l, !.quorum = q,
                                 !.state = "recovering", !.lease = FALSE,
                                 !.new_value = NoValue,
                                 !.pending_proposal = NoValue, !.committing = NoValue]
  OBVIOUS
<1>5. s1 \in LooseState
  <2>1. NoValue \in Value
    BY DEF NoValue, Value
  <2>. QED BY <1>3, <1>4, <2>1 DEF LooseState, State
<1>6. SameLog(g.s, s1) /\ Idle(s1) /\ s1.leader = l /\ s1.quorum = q /\ ~s1.lease
      /\ s1.timers = g.s.timers
  BY <1>3, <1>4 DEF LooseState, SameLog, Idle
<1>7. d = [g EXCEPT !.s = s1]
  BY <1>1, <1>4, Zenon DEF Enter
<1>8. d \in Contexts /\ d.role = c.role /\ d.epoch = c.epoch /\ d.out = g.out /\ d.ok = g.ok /\ d.s = s1
  BY <1>3, <1>5, <1>7 DEF Contexts
<1>9. SameLog(c.s, s1)
  BY <1>3, <1>6 DEF SameLog, ButTimers
<1>10. \A S \in SUBSET Timer : Timers(c.s, S) => Timers(s1, {})
  BY <1>2, <1>6 DEF Timers
<1>. QED BY <1>3, <1>6, <1>8, <1>9, <1>10 DEF EnterDoes

(* m has not sent anything in this handler. *)
Silent(c) == \A j \in Mon : c.out[j] = <<>>

LeaveStep(c, d) ==
  /\ d \in Contexts /\ d.ok /\ d.role = "out" /\ c.epoch <= d.epoch /\ d.out = c.out
  /\ d.s.last_pn = c.s.last_pn /\ c.s.last_committed <= d.s.last_committed
  /\ d.s.accepted_pn \in {c.s.accepted_pn, c.s.stored_pn} /\ d.s.stored_pn = c.s.stored_pn

(* What the others have under way to m is dropped where it is of the past. *)
Drops(m, I, I2, A) == \A j \in Mon \ {m} : \E n : Dropped(I[j], I2[j], n, A)

LEMMA SilentExtended ==
  ASSUME NEW q \in Messages, NEW e, NEW B
  PROVE  Extended(e, q, <<>>, B) = q
<1>1. q \o <<>> = q
  BY ConcatEmptySeq DEF Messages
<1>. QED BY <1>1 DEF Extended

LEMMA SoundLeave ==
  ASSUME NEW m \in Mon, NEW p, NEW c, NEW T, NEW W \in Worlds, NEW O \in Queues, NEW I \in Queues,
         NEW I2, NEW d,
         Sound(m, p, c, T, W, O, I), Silent(c), LeaveStep(c, d),
         Local(m, NodeOf(d, T)), Grown(p, d.s), Drops(m, I, I2, NodeOf(d, T))
  PROVE  Sound(m, p, d, T, W, O, I2)
<1>1. c \in Contexts /\ T \in SUBSET Mon /\ d \in Contexts
  BY DEF Sound, LeaveStep
<1>2. d.out[m] = <<>> /\ \A j \in Mon : d.out[j] = <<>>
  BY DEF Silent, LeaveStep
<1>3. \A j \in Mon : \A k \in DOMAIN d.out[j] : d.out[j][k].epoch = d.epoch
  <2>1. DOMAIN <<>> = {}
    OBVIOUS
  <2>. QED BY <1>2, <2>1
<1>4. ASSUME NEW j \in Mon \ {m}
      PROVE  Pair(m, j, NodeOf(d, T), W[j], Extended(d.epoch, O[j], d.out[j], W[j]), I2[j])
  <2>1. PICK A : A = NodeOf(c, T)
    OBVIOUS
  <2>2. A \in Node /\ A.epoch = c.epoch /\ A.role = c.role /\ A.s = c.s /\ A.T = T
    BY <1>1, <2>1, NodeIs
  <2>3. PICK A2 : A2 = NodeOf(d, T)
    OBVIOUS
  <2>4. A2 \in Node /\ A2.epoch = d.epoch /\ A2.role = "out" /\ A2.s = d.s /\ A2.T = T
    BY <1>1, <2>3, NodeIs DEF LeaveStep
  <2>5. PICK B : B = W[j]
    OBVIOUS
  <2>6. B \in Node
    BY <2>5 DEF Worlds
  <2>7. O[j] \in Messages
    BY DEF Queues
  <2>8. Extended(c.epoch, O[j], c.out[j], W[j]) = O[j] /\ Extended(d.epoch, O[j], d.out[j], W[j]) = O[j]
    BY <1>2, <2>7, SilentExtended DEF Silent
  <2>9. Pair(m, j, A, B, O[j], I[j])
    BY <2>1, <2>5, <2>8 DEF Sound
  <2>10. PICK n : Dropped(I[j], I2[j], n, A2)
    BY <2>3 DEF Drops
  <2>11. Leaves(j, A, A2)
    <3>1. \A pn : Below(A.s, pn, j) => Below(A2.s, pn, j)
      BY <2>2, <2>4 DEF Below, LeaveStep
    <3>2. A.epoch \in Nat /\ A2.epoch \in Nat /\ A.s.last_committed \in Nat /\ A2.s.last_committed \in Nat
      BY <2>2, <2>4, NodeTypes
    <3>. QED BY <2>2, <2>4, <3>1, <3>2 DEF Leaves, LeaveStep
  <2>12. Pair(m, j, A2, B, O[j], I2[j])
    BY <2>2, <2>4, <2>6, <2>9, <2>10, <2>11, PairLeave
  <2>. QED BY <2>3, <2>5, <2>8, <2>12
<1>. QED BY <1>1, <1>2, <1>3, <1>4 DEF Sound, LeaveStep

(* In every state, some timers are armed, each once. *)
LEMMA TimedHas ==
  ASSUME NEW m \in Mon, NEW p, NEW c, NEW T, NEW W, NEW O, NEW I,
         Sound(m, p, c, T, W, O, I), Timed(c.role, c.s)
  PROVE  \E S \in SUBSET Timer : Timers(c.s, S)
<1>1. c \in Contexts /\ T \in SUBSET Mon /\ Local(m, NodeOf(c, T)) /\ c.role \in {"out", "leader", "peon"}
  BY ContextTypes DEF Sound
<1>2. c.role = "leader" => c.s.state \in Proposing \union {"recovering", "active"}
  BY <1>1, LeaderFacts
<1>3. /\ {} \in SUBSET Timer /\ {"lease"} \in SUBSET Timer /\ {"collect"} \in SUBSET Timer
      /\ {"accept"} \in SUBSET Timer /\ {"lease_renew"} \in SUBSET Timer
      /\ {"lease_renew", "lease_ack"} \in SUBSET Timer
  BY DEF Timer
<1>4. \/ Timers(c.s, {}) \/ Timers(c.s, {"lease"}) \/ Timers(c.s, {"collect"})
      \/ Timers(c.s, {"accept"}) \/ Timers(c.s, {"lease_renew"})
      \/ Timers(c.s, {"lease_renew", "lease_ack"})
  BY <1>1, <1>2 DEF Timed, Proposing
<1>. QED BY <1>3, <1>4

(* m leaves, and keeps what is in its store. *)
LEMMA LeaveLocal ==
  ASSUME NEW m \in Mon, NEW p, NEW c, NEW T, NEW W, NEW O, NEW I, NEW e \in Nat, NEW d,
         Sound(m, p, c, T, W, O, I), Timed(c.role, c.s), c.epoch <= e, LeaveDoes(c, e, d)
  PROVE  /\ LeaveStep(c, d) /\ Local(m, NodeOf(d, T)) /\ Grown(p, d.s)
         /\ Timed(d.role, d.s)
<1>1. c \in Contexts /\ T \in SUBSET Mon /\ c.ok /\ Local(m, NodeOf(c, T)) /\ Grown(p, c.s)
      /\ c.s.last_committed \in Nat
  <2>1. c \in Contexts /\ T \in SUBSET Mon /\ c.ok /\ Local(m, NodeOf(c, T)) /\ Grown(p, c.s)
    BY DEF Sound
  <2>. QED BY <2>1, MonTypes DEF Contexts, LooseState
<1>2. d \in Contexts /\ d.role = "out" /\ d.epoch = e /\ d.out = c.out /\ d.ok
      /\ SameLog(c.s, d.s) /\ Idle(d.s) /\ d.s.leader = -1
      /\ \A S \in SUBSET Timer : Timers(c.s, S) => Timers(d.s, {})
  BY <1>1 DEF LeaveDoes
<1>3. Logged(c.s) /\ Numbers(m, c.s)
  <2>1. NodeOf(c, T).s = c.s
    BY <1>1, NodeIs
  <2>. QED BY <1>1, <2>1 DEF Local
<1>4. Logged(d.s) /\ Numbers(m, d.s) /\ Grown(p, d.s)
  BY <1>1, <1>2, <1>3 DEF Logged, Numbers, Grown, SameLog
<1>5. LeaveStep(c, d)
  BY <1>1, <1>2 DEF LeaveStep, SameLog
<1>6. Local(m, NodeOf(d, T))
  <2>1. PICK A : A = NodeOf(d, T)
    OBVIOUS
  <2>2. A.role = "out" /\ A.s = d.s
    BY <1>1, <1>2, <2>1, NodeIs
  <2>3. Local(m, A)
    BY <1>2, <1>4, <2>2 DEF Local, Idle
  <2>. QED BY <2>1, <2>3
<1>7. Timed(d.role, d.s)
  <2>1. PICK S \in SUBSET Timer : Timers(c.s, S)
    BY TimedHas
  <2>. QED BY <1>2, <2>1 DEF Timed
<1>. QED BY <1>4, <1>5, <1>6, <1>7

(* A timeout: the timer is one that may fire. *)
TimedOut(c, t, P, e, d) == d = LeaveQuorum(Cancel(Check(c, P), t), e)

LEMMA TimeoutIs ==
  ASSUME NEW c \in Contexts, NEW t \in Timer, NEW P \in BOOLEAN, P, NEW e \in Nat, NEW d,
         TimedOut(c, t, P, e, d)
  PROVE  LeaveDoes(c, e, d)
<1>1. Check(c, P) = c
  BY CheckIs
<1>2. PICK g : g = Cancel(c, t)
  OBVIOUS
<1>3. OnlyTimers(c, g) /\ \A S \in SUBSET Timer : Timers(c.s, S) => Timers(g.s, S \ {t})
  BY <1>2, CancelIs
<1>4. g \in Contexts /\ d = LeaveQuorum(g, e)
  BY <1>1, <1>2, <1>3 DEF OnlyTimers, TimedOut
<1>5. LeaveDoes(g, e, d)
  BY <1>4, LeaveIs
<1>6. SameLog(c.s, d.s)
  BY <1>3, <1>5 DEF LeaveDoes, SameLog, OnlyTimers, ButTimers
<1>7. \A S \in SUBSET Timer : Timers(c.s, S) => Timers(d.s, {})
  <2>1. ASSUME NEW S \in SUBSET Timer, Timers(c.s, S) PROVE Timers(d.s, {})
    <3>1. S \ {t} \in SUBSET Timer /\ Timers(g.s, S \ {t})
      BY <1>3, <2>1
    <3>. QED BY <1>5, <3>1 DEF LeaveDoes
  <2>. QED BY <2>1
<1>. QED BY <1>3, <1>5, <1>6, <1>7 DEF LeaveDoes, OnlyTimers

(* What a crash does: init() loads the store. *)
Crashed(c, applied, e, d) ==
  LET g == LeaveQuorum(c, e)
  IN  d = [g EXCEPT !.s = [g.s EXCEPT
                        !.accepted_pn = g.s.stored_pn,
                        !.last_committed = IF applied THEN @ + 1 ELSE @,
                        !.timers = [t \in Timer |-> 0]]]

LEMMA CrashLocal ==
  ASSUME NEW m \in Mon, NEW p, NEW c, NEW T, NEW W, NEW O, NEW I, NEW d,
         NEW applied \in BOOLEAN, applied => c.s.state \in InWriting,
         Sound(m, p, c, T, W, O, I), Crashed(c, applied, c.epoch, d)
  PROVE  /\ LeaveStep(c, d) /\ Local(m, NodeOf(d, T)) /\ Grown(p, d.s)
         /\ Timed(d.role, d.s)
<1>1. c \in Contexts /\ T \in SUBSET Mon /\ c.ok /\ Local(m, NodeOf(c, T)) /\ Grown(p, c.s)
      /\ c.s.last_committed \in Nat /\ c.epoch \in Nat /\ c.s.stored_pn \in Nat
  BY SMTT(60), MonTypes DEF Sound, Contexts, LooseState
<1>2. PICK g : g = LeaveQuorum(c, c.epoch)
  OBVIOUS
<1>3. LeaveDoes(c, c.epoch, g)
  BY <1>1, <1>2, LeaveIs
<1>4. g \in Contexts /\ g.role = "out" /\ g.epoch = c.epoch /\ g.out = c.out /\ g.ok
      /\ SameLog(c.s, g.s) /\ Idle(g.s) /\ g.s.leader = -1
  BY <1>1, <1>3 DEF LeaveDoes
<1>5. Logged(c.s) /\ Numbers(m, c.s)
  <2>1. NodeOf(c, T).s = c.s
    BY <1>1, NodeIs
  <2>. QED BY <1>1, <2>1 DEF Local
<1>6. applied => At(c.s.values, c.s.last_committed + 1) # NoValue
  <2>1. NodeOf(c, T).s = c.s /\ NodeOf(c, T).role = c.role
    BY <1>1, NodeIs
  <2>2. applied => c.role = "leader"
    BY <1>1, <2>1 DEF Local, InWriting, Contexts
  <2>3. applied => InRound(m, c.s)
    BY <1>1, <2>2, LeaderFacts
  <2>. QED BY <2>3 DEF InRound, Proposing
<1>7. PICK lc : lc = IF applied THEN c.s.last_committed + 1 ELSE c.s.last_committed
  OBVIOUS
<1>8. lc \in 0 .. MaxOp /\ c.s.last_committed <= lc /\ lc \in Nat
  BY SMTT(60), <1>1, <1>6, <1>7, MonTypes DEF At, Contexts, LooseState, Version
<1>9. PICK s1 : s1 = [g.s EXCEPT !.accepted_pn = g.s.stored_pn, !.last_committed = lc,
                                 !.timers = [t \in Timer |-> 0]]
  OBVIOUS
<1>10. g.s \in LooseState /\ g.s.last_committed = c.s.last_committed
  BY <1>4 DEF Contexts, SameLog
<1>11. s1 \in LooseState
  BY <1>8, <1>9, <1>10 DEF LooseState
<1>12. d = [g EXCEPT !.s = s1]
  BY <1>2, <1>7, <1>9, <1>10 DEF Crashed, LooseState
<1>13. d \in Contexts /\ d.s = s1 /\ d.role = "out" /\ d.epoch = c.epoch /\ d.out = c.out /\ d.ok
  BY <1>4, <1>11, <1>12 DEF Contexts
<1>14. /\ s1.last_pn = c.s.last_pn /\ s1.stored_pn = c.s.stored_pn /\ s1.accepted_pn = c.s.stored_pn
       /\ s1.last_committed = lc /\ s1.values = c.s.values
       /\ s1.pending_v = c.s.pending_v /\ s1.pending_pn = c.s.pending_pn
       /\ Idle(s1) /\ s1.leader = -1 /\ Timers(s1, {})
  BY <1>4, <1>9, <1>10 DEF SameLog, Idle, LooseState, Timers
<1>15. Logged(s1)
  <2>1. CASE ~applied
    BY <1>5, <1>7, <1>14, <2>1 DEF Logged
  <2>2. CASE applied
    <3>1. lc = c.s.last_committed + 1 /\ lc \in Version /\ c.s.values[lc] # NoValue
      BY <1>6, <1>7, <2>2 DEF At
    <3>2. \A v \in Version : v <= lc => c.s.values[v] # NoValue
      BY <1>1, <1>5, <3>1, MonTypes DEF Logged
    <3>3. \A v \in Version : v > lc => c.s.values[v] = NoValue
      BY <1>1, <1>5, <3>1, MonTypes DEF Logged
    <3>4. At(c.s.values, lc + 1) = NoValue /\ \A v \in Version : v > lc + 1 => c.s.values[v] = NoValue
      <4>1. lc + 1 > lc /\ \A v \in Version : v > lc + 1 => v > lc
        BY <1>8, MonTypes
      <4>. QED BY <3>3, <4>1 DEF At
    <3>. QED BY <1>14, <3>2, <3>4 DEF Logged
  <2>. QED BY <2>1, <2>2
<1>16. Numbers(m, s1)
  BY <1>1, <1>5, <1>14 DEF Numbers
<1>17. Grown(p, s1)
  BY <1>1, <1>8, <1>14 DEF Grown
<1>18. LeaveStep(c, d)
  BY <1>1, <1>8, <1>13, <1>14 DEF LeaveStep
<1>19. Local(m, NodeOf(d, T))
  <2>1. PICK A : A = NodeOf(d, T)
    OBVIOUS
  <2>2. A.role = "out" /\ A.s = s1
    BY <1>1, <1>13, <2>1, NodeIs
  <2>3. Local(m, A)
    BY <1>14, <1>15, <1>16, <2>2 DEF Local, Idle
  <2>. QED BY <2>1, <2>3
<1>20. Timed(d.role, d.s)
  BY <1>13, <1>14 DEF Timed
<1>. QED BY <1>13, <1>17, <1>18, <1>19, <1>20

-----------------------------------------------------------------------------
(* All monitors *)

LEMMA DropIs ==
  ASSUME NEW q \in Messages, NEW B \in Node, Ordered(q)
  PROVE  /\ \E n : Dropped(q, Drop(q, B), n, B)
         /\ (\A k \in DOMAIN q : IsCurrent(q[k].epoch, B)) => Drop(q, B) = q
         /\ Drop(q, B) \in Messages
<1>1. PICK q2 : q2 = Drop(q, B)
  OBVIOUS
<1>2. PICK n : Dropped(q, q2, n, B)
  BY <1>1, DropFacts DEF Drop, Ordered
<1>3. (\A k \in DOMAIN q : IsCurrent(q[k].epoch, B)) => q2 = q
  BY <1>2, DropsNothing
<1>4. q2 \in Messages
  BY <1>2 DEF Dropped
<1>. QED BY <1>1, <1>2, <1>3, <1>4

LEMMA QueueOrdered ==
  ASSUME NEW i, NEW j, NEW A, NEW B, NEW q, Queue(i, j, A, B, q)
  PROVE  Ordered(q) /\ (\A k \in DOMAIN q : IsCurrent(q[k].epoch, B) /\ q[k].epoch <= A.epoch)
BY DEF Queue, Ordered, InOrder, Sent

LEMMA EmptyQueue == <<>> \in Messages /\ Ordered(<<>>) /\ DOMAIN <<>> = {}
<1>1. <<>> \in Messages
  BY EmptySeq DEF Messages
<1>2. DOMAIN <<>> = {}
  OBVIOUS
<1>. QED BY <1>1, <1>2 DEF Ordered

LEMMA DropEmpty ==
  ASSUME NEW B \in Node
  PROVE  Drop(<<>>, B) = <<>>
BY DropIs, EmptyQueue

(* The messages that m has sent are added behind those under way. *)
LEMMA DropExtended ==
  ASSUME NEW q \in Messages, NEW w \in Messages, NEW e \in Nat, NEW B \in Node,
         Ordered(q), \A k \in DOMAIN q : q[k].epoch <= e, \A k \in DOMAIN w : w[k].epoch = e
  PROVE  Drop(q \o w, B) = Extended(e, Drop(q, B), w, B)
<1>1. PICK q1 : q1 = Drop(q, B)
  OBVIOUS
<1>2. PICK n1 : Dropped(q, q1, n1, B)
  BY <1>1, DropIs
<1>3. PICK q2 : q2 = Drop(q \o w, B)
  OBVIOUS
<1>4. q2 = IF IsCurrent(e, B) THEN q1 \o w ELSE q1
  <2>1. Follow(q, w, e)
    BY DEF Follow
  <2>. QED BY SMTT(60), <1>2, <1>3, <2>1, DropConcat
<1>. QED BY <1>1, <1>3, <1>4 DEF Extended

Good(W, Q) ==
  /\ W \in Worlds /\ Q \in [Mon -> Queues]
  /\ \A m \in Mon : Local(m, W[m]) /\ Q[m][m] = <<>>
  /\ \A m \in Mon : \A j \in Mon \ {m} : Pair(m, j, W[m], W[j], Q[m][j], Q[j][m])

Kept(I, A) == [j \in Mon |-> Drop(I[j], A)]

(* What is under way when m is done with its handler: the messages I to m, the
   ones it has sent, and the others as they were. *)
Handed(m, Q, X, d, I) ==
  /\ \A j \in Mon \ {m} : X[m][j] = Q[m][j] \o d.out[j]
  /\ X[m][m] = I[m] \o d.out[m]
  /\ \A i \in Mon \ {m} : X[i][m] = I[i]
  /\ \A i, j \in Mon \ {m} : X[i][j] = Q[i][j]

Delivered(X, W) == [i \in Mon |-> [j \in Mon |-> Drop(X[i][j], W[j])]]

(* A handler that keeps m in step with everybody else keeps everything in step. *)
LEMMA FinishGood ==
  ASSUME NEW m \in Mon, NEW p, NEW d, NEW T, NEW W, NEW Q, NEW I \in Queues, NEW X, NEW W2,
         Good(W, Q), W[m].epoch <= d.epoch, I[m] = <<>>,
         Sound(m, p, d, T, W, Q[m], Kept(I, NodeOf(d, T))),
         W2 = [W EXCEPT ![m] = NodeOf(d, T)], Handed(m, Q, X, d, I)
  PROVE  Good(W2, Delivered(X, W2))
<1>1. W \in Worlds /\ Q \in [Mon -> Queues] /\ d \in Contexts /\ T \in SUBSET Mon /\ d.epoch \in Nat
      /\ Local(m, NodeOf(d, T))
  BY DEF Good, Sound, Contexts
<1>2. PICK A : A = NodeOf(d, T)
  OBVIOUS
<1>3. A \in Node
  BY <1>1, <1>2, NodeIs
<1>4. W2 \in Worlds /\ W2[m] = A /\ \A j \in Mon \ {m} : W2[j] = W[j]
  BY <1>1, <1>2, <1>3 DEF Worlds
<1>5. PICK R : R = Delivered(X, W2)
  OBVIOUS
<1>6. \A i, j \in Mon : R[i][j] = Drop(X[i][j], W2[j])
  BY <1>5 DEF Delivered
<1>7. ASSUME NEW j \in Mon \ {m}
      PROVE  R[j][m] = Drop(I[j], A) /\ R[m][j] = Extended(d.epoch, Q[m][j], d.out[j], W[j])
  <2>1. X[j][m] = I[j] /\ X[m][j] = Q[m][j] \o d.out[j]
    BY DEF Handed
  <2>2. Pair(m, j, W[m], W[j], Q[m][j], Q[j][m]) /\ W[j] \in Node /\ W[m] \in Node
    BY <1>1 DEF Good, Worlds
  <2>3. PICK q : q = Q[m][j]
    OBVIOUS
  <2>4. q \in Messages /\ Queue(m, j, W[m], W[j], q)
    BY <2>2, <2>3 DEF Pair
  <2>5. Ordered(q) /\ (\A k \in DOMAIN q : IsCurrent(q[k].epoch, W[j]) /\ q[k].epoch <= W[m].epoch)
    BY <2>4, QueueOrdered
  <2>6. \A k \in DOMAIN q : q[k].epoch <= d.epoch
    <3>1. \A k \in DOMAIN q : q[k].epoch \in Nat
      BY <2>4, MessageTypes
    <3>2. W[m].epoch \in Nat
      BY <2>2, NodeTypes
    <3>. QED BY <1>1, <2>5, <3>1, <3>2
  <2>7. PICK w : w = d.out[j]
    OBVIOUS
  <2>8. w \in Messages /\ \A k \in DOMAIN w : w[k].epoch = d.epoch
    BY <1>1, <2>7 DEF Sound, Contexts
  <2>9. Drop(q, W[j]) = q
    BY <2>2, <2>4, <2>5, DropIs
  <2>10. Drop(q \o w, W[j]) = Extended(d.epoch, q, w, W[j])
    BY <1>1, <2>2, <2>4, <2>5, <2>6, <2>8, <2>9, DropExtended
  <2>. QED BY ZenonT(60), <1>4, <1>6, <2>1, <2>3, <2>7, <2>10
<1>8. R[m][m] = <<>>
  <2>1. X[m][m] = <<>> \o <<>>
    BY DEF Handed, Sound
  <2>2. <<>> \o <<>> = <<>>
    BY EmptyQueue, ConcatEmptySeq DEF Messages
  <2>. QED BY <1>3, <1>4, <1>6, <2>1, <2>2, DropEmpty
<1>9. ASSUME NEW i \in Mon \ {m}, NEW j \in Mon \ {m} PROVE R[i][j] = Q[i][j]
  <2>1. X[i][j] = Q[i][j] /\ W[j] \in Node
    BY <1>1 DEF Handed, Worlds
  <2>2. CASE i = j
    BY <1>4, <1>6, <2>1, <2>2, DropEmpty DEF Good
  <2>3. CASE i # j
    <3>1. PICK q : q = Q[i][j]
      OBVIOUS
    <3>2. q \in Messages /\ Queue(i, j, W[i], W[j], q)
      BY <2>3, <3>1 DEF Good, Pair
    <3>3. Ordered(q) /\ (\A k \in DOMAIN q : IsCurrent(q[k].epoch, W[j]))
      BY <3>2, QueueOrdered
    <3>4. Drop(q, W[j]) = q
      BY <2>1, <3>2, <3>3, DropIs
    <3>. QED BY <1>4, <1>6, <2>1, <3>1, <3>4
  <2>. QED BY <2>2, <2>3
<1>10. ASSUME NEW j \in Mon \ {m} PROVE Pair(m, j, W2[m], W2[j], R[m][j], R[j][m])
  <2>1. Pair(m, j, A, W[j], Extended(d.epoch, Q[m][j], d.out[j], W[j]), Kept(I, A)[j])
    BY <1>2 DEF Sound
  <2>2. Kept(I, A)[j] = Drop(I[j], A)
    BY DEF Kept
  <2>. QED BY <1>4, <1>7, <2>1, <2>2
<1>11. ASSUME NEW i \in Mon, NEW j \in Mon \ {i} PROVE Pair(i, j, W2[i], W2[j], R[i][j], R[j][i])
  <2>1. CASE i = m
    BY <1>10, <2>1
  <2>2. CASE j = m
    BY <1>10, <2>2, PairSwap
  <2>3. CASE i # m /\ j # m
    BY <1>4, <1>9, <2>3 DEF Good
  <2>. QED BY <2>1, <2>2, <2>3
<1>12. R \in [Mon -> Queues]
  <2>1. \A i, j \in Mon : R[i][j] \in Messages
    <3>1. ASSUME NEW i \in Mon, NEW j \in Mon PROVE R[i][j] \in Messages
      <4>1. CASE i = j /\ i = m
        BY <1>8, <4>1, EmptyQueue
      <4>2. CASE i = j /\ i # m
        BY <1>1, <1>9, <4>2 DEF Queues
      <4>3. CASE i # j
        BY <1>11, <4>3 DEF Pair
      <4>. QED BY <4>1, <4>2, <4>3
    <3>. QED BY <3>1
  <2>2. R = [i \in Mon |-> [j \in Mon |-> Drop(X[i][j], W2[j])]]
    BY <1>5 DEF Delivered
  <2>3. \A i \in Mon : R[i] \in [Mon -> Messages]
    BY <2>1, <2>2
  <2>. QED BY <2>2, <2>3 DEF Queues
<1>13. \A i \in Mon : Local(i, W2[i]) /\ R[i][i] = <<>>
  BY <1>1, <1>2, <1>4, <1>8, <1>9 DEF Good
<1>14. Good(W2, R)
  BY <1>4, <1>11, <1>12, <1>13 DEF Good
<1>. QED BY <1>5, <1>14

(* A handler that does not leave its epoch drops nothing. *)
LEMMA KeptSame ==
  ASSUME NEW m \in Mon, NEW p, NEW d, NEW T, NEW W \in Worlds, NEW O, NEW I \in Queues,
         Sound(m, p, d, T, W, O, I), I[m] = <<>>
  PROVE  Kept(I, NodeOf(d, T)) = I
<1>1. PICK A : A = NodeOf(d, T)
  OBVIOUS
<1>2. A \in Node
  BY <1>1, NodeIs DEF Sound
<1>3. ASSUME NEW j \in Mon PROVE Drop(I[j], A) = I[j]
  <2>1. CASE j = m
    BY <1>2, <2>1, DropEmpty
  <2>2. CASE j # m
    <3>1. PICK q : q = I[j]
      OBVIOUS
    <3>2. q \in Messages /\ Queue(j, m, W[j], A, q)
      BY <1>1, <2>2, <3>1 DEF Sound, Pair
    <3>3. Ordered(q) /\ (\A k \in DOMAIN q : IsCurrent(q[k].epoch, A))
      BY <3>2, QueueOrdered
    <3>4. Drop(q, A) = q
      BY <1>2, <3>2, <3>3, DropIs
    <3>. QED BY <3>1, <3>4
  <2>. QED BY <2>1, <2>2
<1>4. Kept(I, A) = I
  BY <1>3 DEF Kept, Queues
<1>. QED BY <1>1, <1>4

(* Following a victory *)

JoinDoes(c, l, e, d) ==
  /\ d \in Contexts /\ d.role = "peon" /\ d.epoch = e /\ d.out = c.out /\ d.ok = c.ok
  /\ SameLog(c.s, d.s) /\ Idle(d.s) /\ d.s.leader = l /\ ~d.s.lease
  /\ \A S \in SUBSET Timer : Timers(c.s, S) => Timers(d.s, {"lease"})

(* lose_election() and peon_init() *)
LEMMA JoinIs ==
  ASSUME NEW c \in Contexts, NEW l \in Mon, NEW e \in Nat, NEW q \in SUBSET Mon, NEW d,
         d = PeonInit([c EXCEPT !.role = "peon", !.epoch = e], l, q)
  PROVE  JoinDoes(c, l, e, d)
<1>1. PICK b : b = [c EXCEPT !.role = "peon", !.epoch = e]
  OBVIOUS
<1>2. b \in Contexts /\ b.s = c.s /\ b.role = "peon" /\ b.epoch = e /\ b.out = c.out /\ b.ok = c.ok
  BY <1>1 DEF Contexts
<1>3. PICK g : g = Enter(b, l, q)
  OBVIOUS
<1>4. EnterDoes(b, l, q, g)
  BY <1>2, <1>3, EnterIs
<1>5. g \in Contexts /\ d = ResetLeaseTimeout(g)
  BY <1>1, <1>3, <1>4, Zenon DEF PeonInit, EnterDoes
<1>6. OnlyTimers(g, d) /\ (Timers(g.s, {}) => Timers(d.s, {"lease"}))
  BY <1>5, ResetIs
<1>7. ButTimers(g.s, d.s) /\ SameLog(b.s, g.s) /\ Idle(g.s) /\ g.s.leader = l /\ ~g.s.lease
  BY <1>4, <1>6 DEF EnterDoes, OnlyTimers
<1>8. SameLog(c.s, d.s) /\ Idle(d.s) /\ d.s.leader = l /\ ~d.s.lease
  BY <1>2, <1>7 DEF ButTimers, SameLog, Idle
<1>9. \A S \in SUBSET Timer : Timers(c.s, S) => Timers(d.s, {"lease"})
  BY <1>2, <1>4, <1>6 DEF EnterDoes
<1>10. d \in Contexts /\ d.role = "peon" /\ d.epoch = e /\ d.out = c.out /\ d.ok = c.ok
  BY <1>2, <1>4, <1>6 DEF OnlyTimers, EnterDoes
<1>. QED BY <1>8, <1>9, <1>10 DEF JoinDoes

(* A victory that is the first message is of an even epoch. *)
LEMMA VictoryIsEven ==
  ASSUME NEW m \in Mon, NEW p, NEW c, NEW T, NEW W \in Worlds, NEW O \in Queues, NEW I \in Queues,
         NEW from \in Mon \ {m}, NEW msg,
         Sound(m, p, c, T, W, O, I), Heading(I, from, msg, "victory")
  PROVE  /\ msg.epoch \in Nat /\ msg.epoch % 2 = 0 /\ msg.quorum \in SUBSET Mon
         /\ IsCurrent(msg.epoch, NodeOf(c, T))
<1>1. PICK A : A = NodeOf(c, T)
  OBVIOUS
<1>2. PICK q : q = I[from]
  OBVIOUS
<1>3. q \in Messages /\ q # <<>> /\ msg = q[1] /\ msg.op = "victory"
  BY <1>2 DEF Heading, Queues
<1>4. 1 \in DOMAIN q /\ msg \in LooseMessage
  BY <1>3, TailFacts
<1>5. Queue(from, m, W[from], A, q)
  BY <1>1, <1>2 DEF Sound, Pair
<1>6. Sent(q[1], W[from].epoch, W[from].s) /\ IsCurrent(q[1].epoch, A)
  BY <1>4, <1>5 DEF Queue
<1>7. msg.epoch % 2 = 0
  BY <1>3, <1>6 DEF Sent
<1>. QED BY <1>1, <1>3, <1>4, <1>6, <1>7 DEF LooseMessage

LEMMA SoundFollow ==
  ASSUME NEW m \in Mon, NEW p, NEW c, NEW T, NEW W \in Worlds, NEW O \in Queues, NEW I \in Queues,
         NEW I2, NEW from \in Mon \ {m}, NEW msg, NEW d,
         Sound(m, p, c, T, W, O, I), Silent(c), Timed(c.role, c.s), Locals(m, W),
         Heading(I, from, msg, "victory"), Took(I, from, I2),
         msg.epoch = c.epoch + 1, JoinDoes(c, from, msg.epoch, d)
  PROVE  Sound(m, p, d, T, W, O, I2) /\ Timed(d.role, d.s)
<1>1. c \in Contexts /\ T \in SUBSET Mon /\ d \in Contexts /\ c.epoch \in Nat /\ Local(m, NodeOf(c, T))
      /\ Grown(p, c.s) /\ c.role \in {"out", "leader", "peon"} /\ c.ok
  BY DEF Sound, JoinDoes, Contexts
<1>2. PICK A : A = NodeOf(c, T)
  OBVIOUS
<1>3. A \in Node /\ A.epoch = c.epoch /\ A.role = c.role /\ A.s = c.s /\ A.T = T
  BY <1>1, <1>2, NodeIs
<1>4. PICK A2 : A2 = NodeOf(d, T)
  OBVIOUS
<1>5. A2 \in Node /\ A2.epoch = c.epoch + 1 /\ A2.role = "peon" /\ A2.s = d.s /\ A2.T = T
  BY <1>1, <1>4, NodeIs DEF JoinDoes
<1>6. msg.epoch % 2 = 0
  BY VictoryIsEven
<1>7. c.role = "out"
  <2>1. c.role # "out" => c.epoch % 2 = 0
    BY <1>1, <1>2, <1>3 DEF Local
  <2>. QED BY <1>1, <1>6, <2>1
<1>8. Local(m, A2)
  <2>1. Logged(d.s) /\ Numbers(m, d.s)
    <3>1. Logged(c.s) /\ Numbers(m, c.s) /\ SameLog(c.s, d.s)
      BY <1>1, <1>2, <1>3 DEF Local, JoinDoes
    <3>2. Logged(d.s)
      BY <3>1 DEF Logged, SameLog
    <3>3. Numbers(m, d.s)
      BY <3>1 DEF Numbers, SameLog
    <3>. QED BY <3>2, <3>3
  <2>2. d.s.state = "recovering" /\ d.s.leader # m /\ d.s.new_value = NoValue
    BY DEF JoinDoes, Idle
  <2>3. A2.epoch % 2 = 0
    BY <1>5, <1>6
  <2>. QED BY <1>5, <2>1, <2>2, <2>3 DEF Local
<1>9. Joins(from, A, A2)
  BY <1>3, <1>5, <1>7 DEF Joins, JoinDoes, SameLog
<1>10. Grown(p, d.s)
  BY <1>1 DEF Grown, JoinDoes, SameLog
<1>11. d.ok /\ d.out[m] = <<>> /\ \A j \in Mon : d.out[j] = <<>>
  BY <1>1 DEF Silent, JoinDoes
<1>12. \A j \in Mon : \A k \in DOMAIN d.out[j] : d.out[j][k].epoch = d.epoch
  <2>1. DOMAIN <<>> = {}
    OBVIOUS
  <2>. QED BY <1>11, <2>1
<1>13. ASSUME NEW j \in Mon \ {m}
       PROVE  Pair(m, j, A2, W[j], Extended(d.epoch, O[j], d.out[j], W[j]), I2[j])
  <2>1. PICK B : B = W[j]
    OBVIOUS
  <2>2. B \in Node /\ Local(j, B)
    BY <2>1 DEF Worlds, Locals
  <2>3. O[j] \in Messages
    BY DEF Queues
  <2>4. Extended(c.epoch, O[j], c.out[j], W[j]) = O[j] /\ Extended(d.epoch, O[j], d.out[j], W[j]) = O[j]
    BY <1>11, <2>3, SilentExtended DEF Silent
  <2>5. Pair(m, j, A, B, O[j], I[j])
    BY <1>2, <2>1, <2>4 DEF Sound
  <2>6. CASE j = from
    <3>1. PICK U : U = I[j]
      OBVIOUS
    <3>2. PICK U2 : U2 = I2[j]
      OBVIOUS
    <3>3. U # <<>> /\ U2 = Tail(U) /\ U[1].op = "victory" /\ U[1].epoch = A.epoch + 1
      BY <1>3, <2>6, <3>1, <3>2 DEF Heading, Took, Queues
    <3>4. Pair(m, j, A2, B, O[j], U2)
      BY <1>3, <1>5, <1>9, <2>2, <2>5, <2>6, <3>1, <3>3, PairFollow
    <3>. QED BY <2>1, <2>4, <3>2, <3>4
  <2>7. CASE j # from
    <3>1. I2[j] = I[j]
      BY <2>7 DEF Took, Queues
    <3>2. Pair(m, j, A2, B, O[j], I[j])
      BY <1>3, <1>5, <1>9, <2>2, <2>5, <2>7, PairFollowOther
    <3>. QED BY <2>1, <2>4, <3>1, <3>2
  <2>. QED BY <2>6, <2>7
<1>14. Sound(m, p, d, T, W, O, I2)
  BY <1>1, <1>4, <1>8, <1>10, <1>11, <1>12, <1>13 DEF Sound
<1>15. Timed(d.role, d.s)
  <2>1. Timers(c.s, {})
    BY <1>7 DEF Timed
  <2>2. {} \in SUBSET Timer
    OBVIOUS
  <2>3. Timers(d.s, {"lease"})
    BY <2>1, <2>2 DEF JoinDoes
  <2>. QED BY <1>1, <2>3 DEF Timed, JoinDoes
<1>. QED BY <1>14, <1>15

(* A victory of the past, once its receiver has moved on, is dropped as well. *)
LEMMA DropHead ==
  ASSUME NEW q \in Messages, NEW q1, NEW q2, NEW n, NEW B, q # <<>>, q1 = Tail(q),
         Dropped(q1, q2, n, B), ~IsCurrent(q[1].epoch, B)
  PROVE  Dropped(q, q2, n + 1, B)
<1>1. /\ q1 \in Messages /\ Len(q) \in Nat /\ Len(q1) = Len(q) - 1 /\ Len(q1) \in Nat
      /\ DOMAIN q = 1 .. Len(q) /\ DOMAIN q1 = 1 .. Len(q1)
      /\ \A k \in DOMAIN q1 : k + 1 \in DOMAIN q /\ q1[k] = q[k + 1] /\ k \in Nat
      /\ \A k \in DOMAIN q : k \in Nat /\ (k = 1 \/ (k - 1 \in DOMAIN q1 /\ q1[k - 1] = q[k]))
  <2>1. \A k \in DOMAIN q1 : k + 1 \in DOMAIN q /\ q1[k] = q[k + 1] /\ k \in Nat
    BY TailFacts
  <2>2. \A k \in DOMAIN q : k \in Nat /\ (k = 1 \/ (k - 1 \in DOMAIN q1 /\ q1[k - 1] = q[k]))
    <3>1. DOMAIN q = 1 .. Len(q) /\ DOMAIN q1 = 1 .. Len(q1) /\ Len(q1) = Len(q) - 1 /\ Len(q) \in Nat
      BY TailFacts
    <3>2. \A k \in DOMAIN q : k \in Nat /\ (k = 1 \/ (k - 1 \in DOMAIN q1 /\ (k - 1) + 1 = k))
      BY <3>1
    <3>. QED BY <2>1, <3>2
  <2>3. /\ q1 \in Messages /\ Len(q) \in Nat /\ Len(q1) = Len(q) - 1 /\ Len(q1) \in Nat
        /\ DOMAIN q = 1 .. Len(q) /\ DOMAIN q1 = 1 .. Len(q1)
    BY TailFacts
  <2>. QED BY <2>1, <2>2, <2>3
<1>2. q2 \in Messages /\ n \in Nat /\ Len(q2) = Len(q1) - n
  BY DEF Dropped
<1>3. Len(q2) = Len(q) - (n + 1) /\ n + 1 \in Nat
  BY <1>1, <1>2
<1>4. DOMAIN q2 = 1 .. Len(q2) /\ Len(q2) \in Nat
  BY <1>2, LenProperties DEF Messages
<1>5. ASSUME NEW k \in DOMAIN q2
      PROVE  k + (n + 1) \in DOMAIN q /\ q2[k] = q[k + (n + 1)] /\ IsCurrent(q2[k].epoch, B)
  <2>1. k + n \in DOMAIN q1 /\ q2[k] = q1[k + n] /\ IsCurrent(q2[k].epoch, B) /\ k \in Nat
    BY <1>4 DEF Dropped
  <2>2. (k + n) + 1 = k + (n + 1)
    BY <1>2, <2>1
  <2>. QED BY <1>1, <2>1, <2>2
<1>6. ASSUME NEW k \in DOMAIN q
      PROVE  \/ k <= n + 1 /\ ~IsCurrent(q[k].epoch, B)
             \/ k > n + 1 /\ k - (n + 1) \in DOMAIN q2 /\ q2[k - (n + 1)] = q[k]
  <2>1. CASE k = 1
    BY <1>2, <2>1
  <2>2. CASE k # 1
    <3>1. PICK l : l = k - 1
      OBVIOUS
    <3>2. l \in DOMAIN q1 /\ q1[l] = q[k] /\ k \in Nat /\ l \in Nat
      BY <1>1, <2>2, <3>1
    <3>3. \/ l <= n /\ ~IsCurrent(q1[l].epoch, B)
          \/ l > n /\ l - n \in DOMAIN q2 /\ q2[l - n] = q1[l]
      BY <3>2 DEF Dropped
    <3>4. l - n = k - (n + 1) /\ (l <= n => k <= n + 1) /\ (l > n => k > n + 1)
      BY <1>2, <3>1, <3>2
    <3>. QED BY <3>2, <3>3, <3>4
  <2>. QED BY <2>1, <2>2
<1>. QED BY <1>2, <1>3, <1>5, <1>6 DEF Dropped

LEMMA OrderedTail ==
  ASSUME NEW q \in Messages, q # <<>>, Ordered(q), NEW q1, q1 = Tail(q)
  PROVE  Ordered(q1) /\ q1 \in Messages
<1>1. \A k \in DOMAIN q1 : k + 1 \in DOMAIN q /\ q1[k] = q[k + 1] /\ k \in Nat
  BY TailFacts
<1>2. q1 \in Messages
  BY TailFacts
<1>. QED BY <1>1, <1>2 DEF Ordered

(* What is under way to m, once m has moved on to A. *)
LEMMA KeptDrops ==
  ASSUME NEW m \in Mon, NEW p, NEW c, NEW T, NEW W, NEW O, NEW I \in Queues, NEW A \in Node,
         Sound(m, p, c, T, W, O, I)
  PROVE  Drops(m, I, Kept(I, A), A) /\ \A j \in Mon \ {m} : Ordered(I[j]) /\ I[j] \in Messages
<1>1. ASSUME NEW j \in Mon \ {m}
      PROVE  Ordered(I[j]) /\ I[j] \in Messages /\ \E n : Dropped(I[j], Kept(I, A)[j], n, A)
  <2>1. PICK q : q = I[j]
    OBVIOUS
  <2>2. q \in Messages /\ Queue(j, m, W[j], NodeOf(c, T), q)
    BY <2>1 DEF Sound, Pair
  <2>3. Ordered(q)
    BY <2>2, QueueOrdered
  <2>4. \E n : Dropped(q, Drop(q, A), n, A)
    BY <2>2, <2>3, DropIs
  <2>5. Kept(I, A)[j] = Drop(q, A)
    BY <2>1 DEF Kept
  <2>. QED BY <2>1, <2>2, <2>3, <2>4, <2>5
<1>. QED BY <1>1 DEF Drops

(* A victory of an epoch that does not follow on m's: m calls an election. *)
LEMMA SoundRefuse ==
  ASSUME NEW m \in Mon, NEW p, NEW c, NEW T, NEW W \in Worlds, NEW O \in Queues, NEW I \in Queues,
         NEW I1, NEW from \in Mon \ {m}, NEW msg, NEW d,
         Sound(m, p, c, T, W, O, I), Silent(c), Timed(c.role, c.s),
         Heading(I, from, msg, "victory"), Took(I, from, I1), LeaveDoes(c, msg.epoch + 1, d)
  PROVE  /\ Sound(m, p, d, T, W, O, Kept(I1, NodeOf(d, T))) /\ Timed(d.role, d.s)
         /\ c.epoch <= d.epoch
<1>1. c \in Contexts /\ T \in SUBSET Mon /\ d \in Contexts /\ c.epoch \in Nat
      /\ d.role = "out" /\ d.epoch = msg.epoch + 1
  BY DEF Sound, LeaveDoes, Contexts
<1>2. PICK A : A = NodeOf(d, T)
  OBVIOUS
<1>3. A \in Node /\ A.epoch = msg.epoch + 1 /\ A.role = "out"
  BY <1>1, <1>2, NodeIs
<1>4. msg.epoch \in Nat /\ IsCurrent(msg.epoch, NodeOf(c, T))
  BY VictoryIsEven
<1>5. c.epoch <= msg.epoch + 1
  <2>1. NodeOf(c, T).epoch = c.epoch
    BY <1>1, NodeIs
  <2>. QED BY <1>1, <1>4, <2>1 DEF IsCurrent
<1>6. LeaveStep(c, d) /\ Local(m, NodeOf(d, T)) /\ Grown(p, d.s) /\ Timed(d.role, d.s)
  <2>1. PICK e : e = msg.epoch + 1
    OBVIOUS
  <2>2. e \in Nat /\ c.epoch <= e /\ LeaveDoes(c, e, d)
    BY <1>4, <1>5, <2>1
  <2>. QED BY <2>2, LeaveLocal
<1>7. ~IsCurrent(msg.epoch, A)
  BY <1>3, <1>4 DEF IsCurrent
<1>8. ASSUME NEW j \in Mon \ {m} PROVE \E n : Dropped(I[j], Kept(I1, A)[j], n, A)
  <2>1. PICK q : q = I[j]
    OBVIOUS
  <2>2. Ordered(q) /\ q \in Messages
    BY <1>3, <2>1, KeptDrops
  <2>3. Kept(I1, A)[j] = Drop(I1[j], A)
    BY DEF Kept
  <2>4. CASE j = from
    <3>1. PICK q1 : q1 = I1[j]
      OBVIOUS
    <3>2. q # <<>> /\ q1 = Tail(q) /\ q[1] = msg
      BY <2>1, <2>4, <3>1 DEF Heading, Took, Queues
    <3>3. Ordered(q1) /\ q1 \in Messages
      BY <2>2, <3>2, OrderedTail
    <3>4. PICK n : Dropped(q1, Drop(q1, A), n, A)
      BY <1>3, <3>3, DropIs
    <3>5. PICK q2 : q2 = Drop(q1, A)
      OBVIOUS
    <3>6. Dropped(q, q2, n + 1, A)
      BY <1>7, <2>2, <3>2, <3>4, <3>5, DropHead
    <3>. QED BY <2>1, <2>3, <3>1, <3>5, <3>6
  <2>5. CASE j # from
    <3>1. I1[j] = q
      BY <2>1, <2>5 DEF Took, Queues
    <3>2. PICK n : Dropped(q, Drop(q, A), n, A)
      BY <1>3, <2>2, DropIs
    <3>. QED BY <2>1, <2>3, <3>1, <3>2
  <2>. QED BY <2>4, <2>5
<1>9. Drops(m, I, Kept(I1, A), A)
  BY <1>8 DEF Drops
<1>10. PICK I2 : I2 = Kept(I1, A)
  OBVIOUS
<1>11. Sound(m, p, d, T, W, O, I2)
  BY <1>2, <1>6, <1>9, <1>10, SoundLeave
<1>. QED BY <1>1, <1>2, <1>5, <1>6, <1>10, <1>11

(* A timeout or a crash *)
LEMMA SoundLeft ==
  ASSUME NEW m \in Mon, NEW p, NEW c, NEW T, NEW W \in Worlds, NEW O \in Queues, NEW I \in Queues,
         NEW d,
         Sound(m, p, c, T, W, O, I), Silent(c), LeaveStep(c, d),
         Local(m, NodeOf(d, T)), Grown(p, d.s)
  PROVE  Sound(m, p, d, T, W, O, Kept(I, NodeOf(d, T)))
<1>1. d \in Contexts /\ T \in SUBSET Mon
  BY DEF Sound, LeaveStep
<1>2. PICK A : A = NodeOf(d, T)
  OBVIOUS
<1>3. A \in Node
  BY <1>1, <1>2, NodeIs
<1>4. PICK I2 : I2 = Kept(I, A)
  OBVIOUS
<1>5. Drops(m, I, I2, A)
  BY <1>3, <1>4, KeptDrops
<1>6. Sound(m, p, d, T, W, O, I2)
  BY <1>2, <1>5, SoundLeave
<1>. QED BY <1>2, <1>4, <1>6

-----------------------------------------------------------------------------
(* The inductive invariant *)

WorldOf(ep, ro, p, T) ==
  [m \in Mon |-> [epoch |-> ep[m], role |-> ro[m], s |-> p[m], T |-> T[m]]]

Shaped(ep, ro, p, q) ==
  /\ ep \in [Mon -> Nat] /\ ro \in [Mon -> {"out", "leader", "peon"}]
  /\ p \in [Mon -> LooseState] /\ q \in [Mon -> Queues]

Fine(ep, ro, p, q) ==
  /\ Shaped(ep, ro, p, q)
  /\ \E T \in [Mon -> SUBSET Mon] : Good(WorldOf(ep, ro, p, T), q)
  /\ \A m \in Mon : Timed(ro[m], p[m])

(* The log of no monitor shrinks. *)
Advance(p, p2) == \A m \in Mon : Grown(p[m], p2[m])

(* The messages under way to m. *)
Column(q, m) == [i \in Mon |-> q[i][m]]

(* What a handler of m starts from. *)
Starts(m, c, T, W, I) ==
  /\ Sound(m, px[m], c, T, W, net[m], I) /\ Silent(c) /\ Locals(m, W) /\ Timed(c.role, c.s)
  /\ W \in Worlds /\ I \in Queues /\ net[m] \in Queues /\ I[m] = <<>>
  /\ c.s = px[m] /\ c.role = role[m] /\ c.epoch = epoch[m]

World(T, W) == W = WorldOf(epoch, role, px, T) /\ T \in [Mon -> SUBSET Mon] /\ Good(W, net)

LEMMA HereStarts ==
  ASSUME NEW m \in Mon, NEW T, NEW W, Shaped(epoch, role, px, net), World(T, W),
         Timed(role[m], px[m]), NEW c, c = Here(m), NEW I, I = Column(net, m)
  PROVE  Starts(m, c, T[m], W, I)
<1>1. /\ c.s = px[m] /\ c.role = role[m] /\ c.epoch = epoch[m] /\ c.ok
      /\ c.out = [j \in Mon |-> <<>>]
  BY DEF Here, Context
<1>2. c \in Contexts /\ T[m] \in SUBSET Mon
  <2>1. c = [s |-> px[m], role |-> role[m], epoch |-> epoch[m], out |-> [j \in Mon |-> <<>>], ok |-> TRUE]
    BY DEF Here, Context
  <2>2. [j \in Mon |-> <<>>] \in [Mon -> Messages]
    BY EmptyQueue
  <2>3. px[m] \in LooseState /\ role[m] \in {"out", "leader", "peon"} /\ epoch[m] \in Nat
    BY DEF Shaped
  <2>. QED BY <2>1, <2>2, <2>3 DEF Contexts, World
<1>3. W \in Worlds /\ net \in [Mon -> Queues] /\ W[m] = NodeOf(c, T[m])
  BY <1>1 DEF World, Good, WorldOf, NodeOf
<1>4. Silent(c)
  BY <1>1 DEF Silent
<1>5. \A j \in Mon : \A k \in DOMAIN c.out[j] : c.out[j][k].epoch = c.epoch
  <2>1. DOMAIN <<>> = {}
    OBVIOUS
  <2>. QED BY <1>4, <2>1 DEF Silent
<1>6. I \in Queues /\ I[m] = <<>> /\ \A j \in Mon : I[j] = net[j][m]
  BY <1>3 DEF Column, Queues, World, Good
<1>7. ASSUME NEW j \in Mon \ {m}
      PROVE  Pair(m, j, NodeOf(c, T[m]), W[j], Extended(c.epoch, net[m][j], c.out[j], W[j]), I[j])
  <2>1. net[m][j] \in Messages
    BY <1>3 DEF Queues
  <2>2. Extended(c.epoch, net[m][j], c.out[j], W[j]) = net[m][j]
    BY <1>4, <2>1, SilentExtended DEF Silent
  <2>3. Pair(m, j, W[m], W[j], net[m][j], net[j][m])
    BY DEF World, Good
  <2>. QED BY <1>3, <1>6, <2>2, <2>3
<1>8. Grown(px[m], c.s)
  <2>1. px[m].last_committed \in Nat
    BY MonTypes DEF Shaped, LooseState
  <2>. QED BY <1>1, <2>1 DEF Grown
<1>9. Local(m, NodeOf(c, T[m])) /\ Locals(m, W)
  BY <1>3 DEF World, Good, Locals
<1>10. Sound(m, px[m], c, T[m], W, net[m], I)
  <2>1. c.out[m] = <<>>
    BY <1>1
  <2>. QED BY <1>1, <1>2, <1>5, <1>7, <1>8, <1>9, <2>1 DEF Sound
<1>. QED BY <1>1, <1>3, <1>4, <1>6, <1>9, <1>10 DEF Starts

LEMMA DeliverableIs ==
  ASSUME NEW X \in [Mon -> Queues], NEW W,
         \A j \in Mon : W[j].epoch = epoch'[j] /\ W[j].role = role'[j]
  PROVE  Deliverable(X) = Delivered(X, W)
<1>1. ASSUME NEW i \in Mon, NEW j \in Mon
      PROVE  SubSeq(X[i][j], Cardinality({k \in DOMAIN X[i][j] : ~Current(X[i][j][k], j)}) + 1, Len(X[i][j]))
               = Drop(X[i][j], W[j])
  <2>1. {k \in DOMAIN X[i][j] : ~Current(X[i][j][k], j)}
          = {k \in DOMAIN X[i][j] : ~IsCurrent(X[i][j][k].epoch, W[j])}
    BY DEF Current, IsCurrent
  <2>. QED BY <2>1 DEF Drop
<1>. QED BY <1>1, Zenon DEF Deliverable, Delivered

(* The queues that a handler of m leaves, I to m and the others as they were. *)
Under(m, queues, I) ==
  /\ queues \in [Mon -> Queues]
  /\ \A i \in Mon : queues[i][m] = I[i]
  /\ \A i \in Mon : \A j \in Mon \ {m} : queues[i][j] = net[i][j]

FinishedIn(m, d, T2, W, I) ==
  /\ Sound(m, px[m], d, T2, W, net[m], Kept(I, NodeOf(d, T2)))
  /\ Timed(d.role, d.s) /\ epoch[m] <= d.epoch /\ I \in Queues /\ I[m] = <<>>

LEMMA FinishStep ==
  ASSUME NEW m \in Mon, NEW T, NEW W, NEW d, NEW T2, NEW I, NEW queues,
         Fine(epoch, role, px, net), World(T, W), FinishedIn(m, d, T2, W, I),
         Under(m, queues, I), Finish(m, d, queues)
  PROVE  /\ Fine(epoch', role', px', net') /\ Advance(px, px')
         /\ px'[m] = d.s /\ role'[m] = d.role /\ epoch'[m] = d.epoch
         /\ \A j \in Mon \ {m} : px'[j] = px[j] /\ role'[j] = role[j] /\ epoch'[j] = epoch[j]
<1>1. d \in Contexts /\ d.ok /\ T2 \in SUBSET Mon /\ d.out \in [Mon -> Messages] /\ Grown(px[m], d.s)
      /\ d.s \in LooseState /\ d.epoch \in Nat /\ d.role \in {"out", "leader", "peon"}
  BY ContextTypes DEF FinishedIn, Sound
<1>2. Shaped(epoch, role, px, net) /\ T \in [Mon -> SUBSET Mon] /\ Good(W, net)
      /\ W = WorldOf(epoch, role, px, T)
  BY DEF Fine, World
<1>3. Store(m, d) = d.s
  BY <1>1 DEF Store
<1>4. /\ px' = [px EXCEPT ![m] = d.s] /\ epoch' = [epoch EXCEPT ![m] = d.epoch]
      /\ role' = [role EXCEPT ![m] = d.role]
  BY <1>3 DEF Finish
<1>5. /\ px'[m] = d.s /\ role'[m] = d.role /\ epoch'[m] = d.epoch
      /\ \A j \in Mon \ {m} : px'[j] = px[j] /\ role'[j] = role[j] /\ epoch'[j] = epoch[j]
      /\ px' \in [Mon -> LooseState] /\ role' \in [Mon -> {"out", "leader", "peon"}]
      /\ epoch' \in [Mon -> Nat]
  BY <1>1, <1>2, <1>4 DEF Shaped
<1>6. PICK T3 : T3 = [T EXCEPT ![m] = T2]
  OBVIOUS
<1>7. T3 \in [Mon -> SUBSET Mon] /\ T3[m] = T2 /\ \A j \in Mon \ {m} : T3[j] = T[j]
  BY <1>1, <1>2, <1>6
<1>8. PICK W2 : W2 = WorldOf(epoch', role', px', T3)
  OBVIOUS
<1>9. \A j \in Mon : W2[j].epoch = epoch'[j] /\ W2[j].role = role'[j]
  BY <1>8 DEF WorldOf
<1>10. W2 = [W EXCEPT ![m] = NodeOf(d, T2)]
  <2>1. W2[m] = NodeOf(d, T2)
    BY <1>5, <1>7, <1>8 DEF WorldOf, NodeOf
  <2>2. \A j \in Mon \ {m} : W2[j] = W[j]
    BY <1>2, <1>5, <1>7, <1>8 DEF WorldOf
  <2>3. DOMAIN W2 = Mon /\ DOMAIN W = Mon
    BY <1>2, <1>8 DEF WorldOf
  <2>4. W2 = [j \in Mon |-> W2[j]]
    BY <1>8 DEF WorldOf
  <2>5. W = [j \in Mon |-> W[j]]
    BY <1>2 DEF WorldOf
  <2>. QED BY <2>1, <2>2, <2>3, <2>4, <2>5
<1>11. PICK X : X = [queues EXCEPT ![m] = [j \in Mon |-> queues[m][j] \o d.out[j]]]
  OBVIOUS
<1>12. queues \in [Mon -> Queues] /\ \A i, j \in Mon : queues[i][j] \in Messages
  BY DEF Under, Queues
<1>13. \A j \in Mon : queues[m][j] \o d.out[j] \in Messages
  BY <1>1, <1>12, ConcatProperties DEF Messages
<1>14. X \in [Mon -> Queues]
  BY <1>11, <1>12, <1>13 DEF Queues
<1>15. Handed(m, net, X, d, I)
  <2>1. \A j \in Mon : X[m][j] = queues[m][j] \o d.out[j]
    BY <1>11, <1>12
  <2>2. \A i \in Mon \ {m} : X[i] = queues[i]
    BY <1>11, <1>12
  <2>. QED BY <2>1, <2>2 DEF Handed, Under
<1>16. net' = Delivered(X, W2)
  <2>1. net' = Deliverable(X)
    BY <1>11 DEF Finish
  <2>2. Deliverable(X) = Delivered(X, W2)
    BY <1>9, <1>14, DeliverableIs
  <2>. QED BY <2>1, <2>2
<1>17. W[m].epoch <= d.epoch
  BY <1>2 DEF FinishedIn, WorldOf
<1>18. Good(W2, net')
  <2>1. PICK R : R = Delivered(X, W2)
    OBVIOUS
  <2>2. Good(W2, Delivered(X, W2))
    BY <1>2, <1>10, <1>15, <1>17, FinishGood DEF FinishedIn
  <2>. QED BY <1>16, <2>2
<1>19. \A j \in Mon : Timed(role'[j], px'[j])
  BY <1>5 DEF Fine, FinishedIn
<1>20. net' \in [Mon -> Queues]
  BY <1>18 DEF Good
<1>21. Fine(epoch', role', px', net')
  BY <1>5, <1>7, <1>8, <1>18, <1>19, <1>20 DEF Fine, Shaped
<1>22. Advance(px, px')
  <2>1. \A j \in Mon : px[j].last_committed \in Nat
    BY <1>2, MonTypes DEF Shaped, LooseState
  <2>. QED BY <1>1, <1>5, <2>1 DEF Advance, Grown
<1>. QED BY <1>5, <1>21, <1>22

-----------------------------------------------------------------------------
(* The actions *)

(* As long as m leads, an operation leaves its queue by being committed only. *)
Retains(m) ==
  role[m] = "leader" /\ role'[m] = "leader" /\ epoch'[m] = epoch[m] =>
    px[m].pending_proposal \union px[m].committing
      \subseteq px'[m].pending_proposal \union px'[m].committing \union acked'

Progress ==
  Fine(epoch', role', px', net') /\ Advance(px, px') /\ \A m \in Mon : Retains(m)

LEMMA OthersRetain ==
  ASSUME NEW m \in Mon, Retains(m), \A j \in Mon \ {m} : px'[j] = px[j]
  PROVE  \A j \in Mon : Retains(j)
BY DEF Retains

(* Without a message taken, what is under way to m is as it was. *)
LEMMA UnderNet ==
  ASSUME NEW m \in Mon, NEW I, I = Column(net, m), net \in [Mon -> Queues]
  PROVE  Under(m, net, I)
BY DEF Under, Column

LEMMA UnderTaken ==
  ASSUME NEW m \in Mon, NEW i \in Mon, NEW I, NEW I1, I = Column(net, m), net \in [Mon -> Queues],
         Took(I, i, I1), net[i][m] # <<>>
  PROVE  Under(m, Without(i, m), I1) /\ I1 \in Queues
<1>1. I \in Queues /\ \A k \in Mon : I[k] = net[k][m]
  BY DEF Column, Queues
<1>2. Tail(net[i][m]) \in Messages
  <2>1. PICK q : q = net[i][m]
    OBVIOUS
  <2>2. q \in Messages /\ q # <<>>
    BY <2>1 DEF Queues
  <2>3. Tail(q) \in Messages
    BY <2>2, TailFacts
  <2>. QED BY <2>1, <2>3
<1>3. I1 \in Queues /\ I1[i] = Tail(net[i][m]) /\ \A k \in Mon \ {i} : I1[k] = net[k][m]
  BY <1>1, <1>2 DEF Took, Queues
<1>4. PICK X : X = Without(i, m)
  OBVIOUS
<1>5. X = [net EXCEPT ![i] = [net[i] EXCEPT ![m] = Tail(net[i][m])]]
  BY <1>4 DEF Without
<1>6. /\ X \in [Mon -> Queues] /\ X[i][m] = Tail(net[i][m])
      /\ \A k \in Mon \ {i} : X[k] = net[k]
      /\ \A j \in Mon \ {m} : X[i][j] = net[i][j]
  BY <1>2, <1>5 DEF Queues
<1>7. Under(m, X, I1)
  BY <1>3, <1>6 DEF Under
<1>. QED BY <1>3, <1>4, <1>7

LEMMA StayStep ==
  ASSUME NEW m \in Mon, NEW T, NEW W, NEW c, NEW d, NEW I, NEW I1, NEW queues,
         Fine(epoch, role, px, net), World(T, W), Starts(m, c, T[m], W, I),
         Stays(m, px[m], c, d, W, net[m], I1), I1 \in Queues, I1[m] = <<>>,
         Under(m, queues, I1), Finish(m, d, queues)
  PROVE  Progress
<1>1. PICK T2 : Sound(m, px[m], d, T2, W, net[m], I1)
  BY DEF Stays
<1>2. W \in Worlds
  BY DEF Starts
<1>3. Kept(I1, NodeOf(d, T2)) = I1
  BY <1>1, <1>2, KeptSame
<1>4. epoch[m] <= d.epoch
  <2>1. d.epoch = epoch[m] /\ epoch[m] \in Nat
    BY DEF Stays, Starts, Fine, Shaped
  <2>. QED BY <2>1
<1>5. FinishedIn(m, d, T2, W, I1)
  BY <1>1, <1>3, <1>4 DEF FinishedIn, Stays
<1>6. /\ Fine(epoch', role', px', net') /\ Advance(px, px') /\ px'[m] = d.s
      /\ \A j \in Mon \ {m} : px'[j] = px[j]
  BY <1>5, FinishStep
<1>7. Retains(m)
  BY <1>6 DEF Retains, Stays, Keeps, Starts
<1>. QED BY <1>6, <1>7, OthersRetain DEF Progress

LEMMA LeftStep ==
  ASSUME NEW m \in Mon, NEW T, NEW T2, NEW W, NEW d, NEW I, NEW queues,
         Fine(epoch, role, px, net), World(T, W), d.role # "leader",
         FinishedIn(m, d, T2, W, I), Under(m, queues, I), Finish(m, d, queues)
  PROVE  Progress
<1>1. /\ Fine(epoch', role', px', net') /\ Advance(px, px') /\ role'[m] = d.role
      /\ \A j \in Mon \ {m} : px'[j] = px[j]
  BY FinishStep
<1>2. Retains(m)
  BY <1>1 DEF Retains
<1>. QED BY <1>1, <1>2, OthersRetain DEF Progress

(* An armed timer may fire. *)
LEMMA TimerMayFire ==
  ASSUME NEW m \in Mon, NEW T, NEW W, NEW c, NEW I, Starts(m, c, T, W, I), NEW t \in Timer,
         px[m].timers[t] > 0
  PROVE  /\ px[m].timers[t] = 1
         /\ IF t = "lease_renew" THEN role[m] = "leader" /\ px[m].state = "active"
                                 ELSE TimeoutAllowed(m, t)
<1>1. c \in Contexts /\ T \in SUBSET Mon /\ Local(m, NodeOf(c, T)) /\ Timed(role[m], px[m])
      /\ c.s = px[m] /\ c.role = role[m] /\ role[m] \in {"out", "leader", "peon"}
  BY ContextTypes DEF Starts, Sound
<1>2. role[m] = "leader" => px[m].state \in Proposing \union {"recovering", "active"}
  BY <1>1, LeaderFacts
<1>3. CASE role[m] = "out"
  <2>1. px[m].timers[t] = 0
    BY <1>1, <1>3 DEF Timed, Timers
  <2>. QED BY <2>1
<1>4. CASE role[m] = "peon"
  <2>1. px[m].timers[t] = IF t \in {"lease"} THEN 1 ELSE 0
    BY <1>1, <1>4 DEF Timed, Timers
  <2>2. t = "lease" /\ px[m].timers[t] = 1
    BY <2>1
  <2>. QED BY <1>4, <2>2 DEF TimeoutAllowed
<1>5. CASE role[m] = "leader"
  <2>1. CASE px[m].state = "recovering"
    <3>1. px[m].timers[t] = IF t \in {"collect"} THEN 1 ELSE 0
      BY <1>1, <1>5, <2>1 DEF Timed, Timers
    <3>2. t = "collect" /\ px[m].timers[t] = 1
      BY <3>1
    <3>. QED BY <1>5, <3>2 DEF TimeoutAllowed
  <2>2. CASE px[m].state \in Updating
    <3>1. px[m].timers[t] = IF t \in {"accept"} THEN 1 ELSE 0
      BY <1>1, <1>5, <2>2 DEF Timed, Timers
    <3>2. t = "accept" /\ px[m].timers[t] = 1
      BY <3>1
    <3>. QED BY <1>5, <2>2, <3>2 DEF TimeoutAllowed, Updating
  <2>3. CASE px[m].state \in InWriting
    <3>1. px[m].timers[t] = 0
      BY <1>1, <1>5, <2>3 DEF Timed, Timers
    <3>. QED BY <3>1
  <2>4. CASE px[m].state = "active"
    <3>1. \/ px[m].timers[t] = IF t \in {"lease_renew"} THEN 1 ELSE 0
          \/ px[m].timers[t] = IF t \in {"lease_renew", "lease_ack"} THEN 1 ELSE 0
      BY <1>1, <1>5, <2>4 DEF Timed, Timers
    <3>2. t \in {"lease_renew", "lease_ack"} /\ px[m].timers[t] = 1
      BY <3>1
    <3>. QED BY <1>5, <2>4, <3>2 DEF TimeoutAllowed
  <2>. QED BY <1>2, <1>5, <2>1, <2>2, <2>3, <2>4 DEF Proposing
<1>. QED BY <1>1, <1>3, <1>4, <1>5

SpentOK == spent \in [{"op", "renew", "timeout", "crash"} -> Nat]

LEMMA TimeoutStep ==
  ASSUME NEW m \in Mon, NEW T, NEW W, NEW I, NEW t \in Timer \ {"lease_renew"},
         Fine(epoch, role, px, net), World(T, W), Starts(m, Here(m), T[m], W, I), I = Column(net, m),
         Timeout(m, t)
  PROVE  Progress
<1>1. PICK c : c = Here(m)
  OBVIOUS
<1>2. Starts(m, c, T[m], W, I) /\ c \in Contexts /\ c.epoch \in Nat /\ c.epoch = epoch[m]
  BY <1>1 DEF Starts, Sound, Contexts
<1>3. TimeoutAllowed(m, t)
  BY <1>2, TimerMayFire DEF Timeout
<1>4. PICK d : d = LeaveQuorum(Cancel(Check(Here(m), TimeoutAllowed(m, t)), t), epoch[m])
  OBVIOUS
<1>5. Finish(m, d, net)
  BY <1>4, Zenon DEF Timeout
<1>6. PICK P : P = TimeoutAllowed(m, t)
  OBVIOUS
<1>7. P \in BOOLEAN /\ P
  BY <1>3, <1>6 DEF TimeoutAllowed
<1>8. TimedOut(c, t, P, c.epoch, d)
  BY <1>1, <1>2, <1>4, <1>6 DEF TimedOut
<1>9. LeaveDoes(c, c.epoch, d)
  BY <1>2, <1>7, <1>8, TimeoutIs
<1>10. Sound(m, px[m], c, T[m], W, net[m], I) /\ Timed(c.role, c.s) /\ Silent(c)
       /\ W \in Worlds /\ I \in Queues /\ net[m] \in Queues /\ I[m] = <<>>
  BY <1>2 DEF Starts
<1>11. LeaveStep(c, d) /\ Local(m, NodeOf(d, T[m])) /\ Grown(px[m], d.s) /\ Timed(d.role, d.s)
  <2>1. PICK e : e = c.epoch
    OBVIOUS
  <2>2. e \in Nat /\ c.epoch <= e /\ LeaveDoes(c, e, d)
    BY <1>2, <1>9, <2>1
  <2>. QED BY <1>10, <2>2, LeaveLocal
<1>12. Sound(m, px[m], d, T[m], W, net[m], Kept(I, NodeOf(d, T[m])))
  BY <1>10, <1>11, SoundLeft
<1>13. d.role # "leader" /\ epoch[m] <= d.epoch
  BY <1>2, <1>11 DEF LeaveStep
<1>14. FinishedIn(m, d, T[m], W, I)
  BY <1>10, <1>11, <1>12, <1>13 DEF FinishedIn
<1>15. Under(m, net, I)
  BY UnderNet DEF Fine, Shaped
<1>. QED BY <1>5, <1>13, <1>14, <1>15, LeftStep

LEMMA CrashStep ==
  ASSUME NEW m \in Mon, NEW T, NEW W, NEW I,
         Fine(epoch, role, px, net), World(T, W), Starts(m, Here(m), T[m], W, I), I = Column(net, m),
         Crash(m)
  PROVE  Progress
<1>1. PICK c : c = Here(m)
  OBVIOUS
<1>2. Starts(m, c, T[m], W, I) /\ c \in Contexts /\ c.epoch \in Nat /\ c.epoch = epoch[m] /\ c.s = px[m]
  BY <1>1 DEF Starts, Sound, Contexts
<1>3. PICK applied \in IF Writing(m) THEN BOOLEAN ELSE {FALSE} :
        LET g == LeaveQuorum(Here(m), epoch[m])
        IN  Finish(m, [g EXCEPT !.s = [g.s EXCEPT
                         !.accepted_pn = g.s.stored_pn,
                         !.last_committed = IF applied THEN @ + 1 ELSE @,
                         !.timers = [t \in Timer |-> 0]]],
                   net)
  BY Zenon DEF Crash
<1>4. PICK d : Crashed(c, applied, c.epoch, d)
  BY DEF Crashed
<1>5. Finish(m, d, net)
  BY <1>1, <1>2, <1>3, <1>4, Zenon DEF Crashed
<1>6. applied \in BOOLEAN /\ (applied => c.s.state \in InWriting)
  BY <1>2, <1>3 DEF Writing, InWriting
<1>10. Sound(m, px[m], c, T[m], W, net[m], I) /\ Timed(c.role, c.s) /\ Silent(c)
       /\ W \in Worlds /\ I \in Queues /\ net[m] \in Queues /\ I[m] = <<>>
  BY <1>2 DEF Starts
<1>11. LeaveStep(c, d) /\ Local(m, NodeOf(d, T[m])) /\ Grown(px[m], d.s) /\ Timed(d.role, d.s)
  BY <1>4, <1>6, <1>10, CrashLocal
<1>12. Sound(m, px[m], d, T[m], W, net[m], Kept(I, NodeOf(d, T[m])))
  BY <1>10, <1>11, SoundLeft
<1>13. d.role # "leader" /\ epoch[m] <= d.epoch
  BY <1>2, <1>11 DEF LeaveStep
<1>14. FinishedIn(m, d, T[m], W, I)
  BY <1>10, <1>11, <1>12, <1>13 DEF FinishedIn
<1>15. Under(m, net, I)
  BY UnderNet DEF Fine, Shaped
<1>. QED BY <1>5, <1>13, <1>14, <1>15, LeftStep

LEMMA RenewStep ==
  ASSUME NEW m \in Mon, NEW T, NEW W, NEW I,
         Fine(epoch, role, px, net), World(T, W), Starts(m, Here(m), T[m], W, I), I = Column(net, m),
         LeaseRenew(m)
  PROVE  Progress
<1>1. PICK c : c = Here(m)
  OBVIOUS
<1>2. Starts(m, c, T[m], W, I) /\ c.s = px[m]
  BY <1>1 DEF Starts
<1>3. PICK d : d = ExtendLease(Cancel(c, "lease_renew"), m)
  OBVIOUS
<1>4. Finish(m, d, net) /\ c.s.timers["lease_renew"] > 0
  BY <1>1, <1>2, <1>3 DEF LeaseRenew
<1>5. Sound(m, px[m], c, T[m], W, net[m], I) /\ Timed(c.role, c.s)
      /\ W \in Worlds /\ I \in Queues /\ net[m] \in Queues /\ I[m] = <<>>
  BY <1>2 DEF Starts
<1>6. Stays(m, px[m], c, d, W, net[m], I)
  BY <1>3, <1>4, <1>5, SoundRenew
<1>7. Under(m, net, I)
  BY UnderNet DEF Fine, Shaped
<1>. QED BY <1>2, <1>4, <1>5, <1>6, <1>7, StayStep

LEMMA ProposeStep ==
  ASSUME NEW m \in Mon, NEW T, NEW W, NEW I, SpentOK,
         Fine(epoch, role, px, net), World(T, W), Starts(m, Here(m), T[m], W, I), I = Column(net, m),
         Propose(m)
  PROVE  Progress
<1>1. PICK c : c = Here(m)
  OBVIOUS
<1>2. Starts(m, c, T[m], W, I) /\ c.s = px[m] /\ c.role = "leader"
  BY <1>1 DEF Starts, Propose
<1>3. PICK o : o = spent["op"] + 1
  OBVIOUS
<1>4. o \in Operation
  BY <1>3, MonTypes DEF Propose, Spend, SpentOK, Operation
<1>5. PICK d : NewOperation(c, m, o, d)
  BY DEF NewOperation
<1>6. Finish(m, d, net)
  BY <1>1, <1>3, <1>5, Zenon DEF Propose, NewOperation
<1>7. d.s.pending_v <= MaxOp
  BY <1>6 DEF Finish
<1>8. Sound(m, px[m], c, T[m], W, net[m], I) /\ Timed(c.role, c.s)
      /\ W \in Worlds /\ I \in Queues /\ net[m] \in Queues /\ I[m] = <<>>
  BY <1>2 DEF Starts
<1>9. Stays(m, px[m], c, d, W, net[m], I)
  BY <1>2, <1>4, <1>5, <1>7, <1>8, SoundNewOperation
<1>10. Under(m, net, I)
  BY UnderNet DEF Fine, Shaped
<1>. QED BY <1>2, <1>6, <1>8, <1>9, <1>10, StayStep

LEMMA CommitFinishStep ==
  ASSUME NEW m \in Mon, NEW T, NEW W, NEW I,
         Fine(epoch, role, px, net), World(T, W), Starts(m, Here(m), T[m], W, I), I = Column(net, m),
         CommitFinish(m)
  PROVE  Progress
<1>1. PICK c : c = Here(m)
  OBVIOUS
<1>2. Starts(m, c, T[m], W, I) /\ c.s = px[m] /\ c.s.state \in InWriting /\ c.epoch = epoch[m]
      /\ epoch[m] \in Nat
  BY <1>1 DEF Starts, CommitFinish, Writing, InWriting, Fine, Shaped
<1>3. PICK d : d = CommitFinishHandler(c, m)
  OBVIOUS
<1>4. Finish(m, d, net) /\ acked' = acked \union px[m].committing
  BY <1>1, <1>3 DEF CommitFinish
<1>5. d.s.pending_v <= MaxOp
  BY <1>4 DEF Finish
<1>6. Sound(m, px[m], c, T[m], W, net[m], I) /\ Timed(c.role, c.s)
      /\ W \in Worlds /\ I \in Queues /\ net[m] \in Queues /\ I[m] = <<>>
  BY <1>2 DEF Starts
<1>7. /\ Sound(m, px[m], d, T[m], W, net[m], I) /\ Timed(d.role, d.s) /\ d.epoch = c.epoch
      /\ c.s.pending_proposal \subseteq d.s.pending_proposal \union d.s.committing
  <2>1. PICK p : p = px[m]
    OBVIOUS
  <2>2. PICK S : S = T[m]
    OBVIOUS
  <2>3. PICK O : O = net[m]
    OBVIOUS
  <2>4. Sound(m, p, c, S, W, O, I) /\ O \in Queues
    BY <1>6, <2>1, <2>2, <2>3
  <2>5. c.s.state \in InWriting
    BY <1>2
  <2>6. Sound(m, p, d, S, W, O, I) /\ Timed(d.role, d.s) /\ WriteDone(c, d)
    BY <1>3, <1>5, <1>6, <2>4, <2>5, SoundCommitFinish
  <2>. QED BY <2>1, <2>2, <2>3, <2>6 DEF WriteDone
<1>8. Kept(I, NodeOf(d, T[m])) = I
  BY <1>6, <1>7, KeptSame
<1>9. FinishedIn(m, d, T[m], W, I)
  BY <1>2, <1>6, <1>7, <1>8 DEF FinishedIn
<1>10. Under(m, net, I)
  BY UnderNet DEF Fine, Shaped
<1>11. /\ Fine(epoch', role', px', net') /\ Advance(px, px') /\ px'[m] = d.s
       /\ \A j \in Mon \ {m} : px'[j] = px[j]
  BY <1>4, <1>9, <1>10, FinishStep
<1>12. Retains(m)
  BY <1>2, <1>4, <1>7, <1>11 DEF Retains
<1>. QED BY <1>11, <1>12, OthersRetain DEF Progress

LEMMA DeliverStep ==
  ASSUME NEW m \in Mon, NEW i \in Mon, NEW T, NEW W, NEW I,
         Fine(epoch, role, px, net), World(T, W), Starts(m, Here(m), T[m], W, I), I = Column(net, m),
         Deliver(i, m)
  PROVE  Progress
<1>1. PICK c : c = Here(m)
  OBVIOUS
<1>2. Starts(m, c, T[m], W, I) /\ c.epoch = epoch[m] /\ epoch[m] \in Nat /\ c \in Contexts
  BY <1>1 DEF Starts, Fine, Shaped, Sound
<1>3. /\ Sound(m, px[m], c, T[m], W, net[m], I) /\ Timed(c.role, c.s) /\ Silent(c) /\ Locals(m, W)
      /\ W \in Worlds /\ I \in Queues /\ net[m] \in Queues /\ I[m] = <<>>
  BY <1>2 DEF Starts
<1>4. net \in [Mon -> Queues] /\ I[i] = net[i][m] /\ net[i][m] # <<>>
  BY DEF Deliver, Column, Fine, Shaped
<1>5. i \in Mon \ {m}
  BY <1>3, <1>4
<1>6. PICK msg : msg = Head(net[i][m])
  OBVIOUS
<1>7. Heading(I, i, msg, msg.op)
  <2>1. PICK q : q = net[i][m]
    OBVIOUS
  <2>2. q \in Messages /\ q # <<>>
    BY <1>4, <2>1 DEF Queues
  <2>3. Head(q) = q[1]
    BY <2>2, TailFacts
  <2>. QED BY <1>4, <1>6, <2>1, <2>3 DEF Heading
<1>8. PICK I1 : Took(I, i, I1)
  BY DEF Took
<1>9. Under(m, Without(i, m), I1) /\ I1 \in Queues
  BY <1>4, <1>8, UnderTaken
<1>10. I1[m] = <<>>
  BY <1>3, <1>5, <1>8 DEF Took, Queues
<1>11. PICK X : X = Without(i, m)
  OBVIOUS
<1>12. CASE msg.op # "victory"
  <2>1. PICK d : d = Dispatch(c, m, i, msg)
    OBVIOUS
  <2>2. Finish(m, d, X)
    BY <1>1, <1>6, <1>11, <1>12, <2>1, Zenon DEF Deliver
  <2>3. d.s.pending_v <= MaxOp
    BY <2>2 DEF Finish
  <2>4. Dispatched(c, m, i, msg, d)
    BY <1>12, <2>1 DEF Dispatched
  <2>5. Stays(m, px[m], c, d, W, net[m], I1)
    BY <1>3, <1>5, <1>7, <1>8, <2>3, <2>4, SoundDispatch
  <2>. QED BY <1>2, <1>9, <1>10, <1>11, <2>2, <2>5, StayStep
<1>13. CASE msg.op = "victory"
  <2>1. Heading(I, i, msg, "victory")
    BY <1>7, <1>13
  <2>2. msg.epoch \in Nat /\ msg.quorum \in SUBSET Mon
    BY <1>3, <1>5, <2>1, VictoryIsEven
  <2>3. PICK d : d = HandleVictory(c, i, msg)
    OBVIOUS
  <2>4. Finish(m, d, X)
    BY <1>1, <1>6, <1>11, <1>13, <2>3, Zenon DEF Deliver
  <2>5. CASE msg.epoch = c.epoch + 1
    <3>1. d = PeonInit([c EXCEPT !.role = "peon", !.epoch = msg.epoch], i, msg.quorum)
      BY <2>3, <2>5 DEF HandleVictory
    <3>2. JoinDoes(c, i, msg.epoch, d)
      BY <1>2, <2>2, <3>1, JoinIs
    <3>3. Sound(m, px[m], d, T[m], W, net[m], I1) /\ Timed(d.role, d.s)
      BY <1>3, <1>5, <1>8, <2>1, <2>5, <3>2, SoundFollow
    <3>4. Kept(I1, NodeOf(d, T[m])) = I1
      BY <1>3, <1>9, <1>10, <3>3, KeptSame
    <3>5. d.role # "leader" /\ epoch[m] <= d.epoch
      BY <1>2, <2>2, <2>5, <3>2 DEF JoinDoes
    <3>6. FinishedIn(m, d, T[m], W, I1)
      BY <1>9, <1>10, <3>3, <3>4, <3>5 DEF FinishedIn
    <3>. QED BY <1>9, <1>11, <2>4, <3>5, <3>6, LeftStep
  <2>6. CASE msg.epoch # c.epoch + 1
    <3>1. PICK e : e = msg.epoch + 1
      OBVIOUS
    <3>2. d = LeaveQuorum(c, e) /\ e \in Nat
      BY <2>2, <2>3, <2>6, <3>1 DEF HandleVictory
    <3>3. LeaveDoes(c, e, d)
      BY <1>2, <3>2, LeaveIs
    <3>4. /\ Sound(m, px[m], d, T[m], W, net[m], Kept(I1, NodeOf(d, T[m]))) /\ Timed(d.role, d.s)
          /\ c.epoch <= d.epoch
      BY <1>3, <1>5, <1>8, <2>1, <3>1, <3>3, SoundRefuse
    <3>5. d.role # "leader" /\ epoch[m] <= d.epoch
      BY <1>2, <3>3, <3>4 DEF LeaveDoes
    <3>6. FinishedIn(m, d, T[m], W, I1)
      BY <1>9, <1>10, <3>4, <3>5 DEF FinishedIn
    <3>. QED BY <1>9, <1>11, <2>4, <3>5, <3>6, LeftStep
  <2>. QED BY <2>5, <2>6
<1>. QED BY <1>12, <1>13

-----------------------------------------------------------------------------
(* Elections *)

(* A monitor stays where it is, or leaves. *)
MovesOut(A, A2) ==
  \/ A2 = A
  \/ /\ A2.role = "out" /\ A2.epoch >= A.epoch /\ A2.s.last_pn = A.s.last_pn
     /\ A2.s.last_committed = A.s.last_committed
     /\ A2.s.accepted_pn = A.s.accepted_pn /\ A2.s.stored_pn = A.s.stored_pn

LEMMA PairMovesOut ==
  ASSUME NEW m \in Mon, NEW j \in Mon, m # j, NEW A \in Node, NEW A2 \in Node, NEW B \in Node,
         NEW O, NEW I, Pair(m, j, A, B, O, I), MovesOut(A, A2)
  PROVE  Pair(m, j, A2, B, O, Drop(I, A2))
<1>1. I \in Messages /\ Queue(j, m, B, A, I)
  BY DEF Pair
<1>2. Ordered(I) /\ \A k \in DOMAIN I : IsCurrent(I[k].epoch, A)
  BY <1>1, QueueOrdered
<1>3. CASE A2 = A
  <2>1. Drop(I, A2) = I
    BY <1>1, <1>2, <1>3, DropIs
  <2>. QED BY <1>3, <2>1
<1>4. CASE A2 # A
  <2>1. Leaves(j, A, A2)
    <3>1. \A pn : Below(A.s, pn, j) => Below(A2.s, pn, j)
      BY <1>4 DEF Below, MovesOut
    <3>2. A.s.last_committed \in Nat
      BY NodeTypes
    <3>. QED BY <1>4, <3>1, <3>2 DEF Leaves, MovesOut
  <2>2. PICK n : Dropped(I, Drop(I, A2), n, A2)
    BY <1>1, <1>2, DropIs
  <2>. QED BY <2>1, <2>2, PairLeave
<1>. QED BY <1>3, <1>4

LEMMA GoodLeave ==
  ASSUME NEW W, NEW Q, NEW W1 \in Worlds, Good(W, Q),
         \A m \in Mon : MovesOut(W[m], W1[m]) /\ Local(m, W1[m])
  PROVE  Good(W1, Delivered(Q, W1))
<1>1. W \in Worlds /\ Q \in [Mon -> Queues] /\ \A m \in Mon : W[m] \in Node /\ W1[m] \in Node
  BY DEF Good, Worlds
<1>2. PICK R : R = Delivered(Q, W1)
  OBVIOUS
<1>3. R = [i \in Mon |-> [j \in Mon |-> Drop(Q[i][j], W1[j])]]
  BY <1>2 DEF Delivered
<1>4. \A i, j \in Mon : R[i][j] = Drop(Q[i][j], W1[j])
  BY <1>3
<1>5. ASSUME NEW m \in Mon PROVE R[m][m] = <<>>
  BY <1>1, <1>4, DropEmpty DEF Good
<1>6. ASSUME NEW m \in Mon, NEW j \in Mon \ {m} PROVE Pair(m, j, W1[m], W1[j], R[m][j], R[j][m])
  <2>1. PICK A : A = W1[m]
    OBVIOUS
  <2>2. PICK B : B = W1[j]
    OBVIOUS
  <2>3. PICK O2 : O2 = R[m][j]
    OBVIOUS
  <2>4. PICK I2 : I2 = R[j][m]
    OBVIOUS
  <2>5. Pair(m, j, W[m], W[j], Q[m][j], Q[j][m])
    BY DEF Good
  <2>6. A \in Node /\ B \in Node /\ MovesOut(W[m], A) /\ MovesOut(W[j], B)
    BY <1>1, <2>1, <2>2
  <2>7. Pair(m, j, A, W[j], Q[m][j], Drop(Q[j][m], A))
    BY <1>1, <2>5, <2>6, PairMovesOut
  <2>8. Pair(m, j, A, W[j], Q[m][j], I2)
    BY <1>4, <2>1, <2>4, <2>7
  <2>9. Pair(j, m, W[j], A, I2, Q[m][j])
    BY <2>8, PairSwap
  <2>10. Pair(j, m, B, A, I2, Drop(Q[m][j], B))
    BY <1>1, <2>6, <2>9, PairMovesOut
  <2>11. Pair(j, m, B, A, I2, O2)
    BY <1>4, <2>2, <2>3, <2>10
  <2>12. Pair(m, j, A, B, O2, I2)
    BY <2>11, PairSwap
  <2>. QED BY <2>1, <2>2, <2>3, <2>4, <2>12
<1>7. \A i, j \in Mon : R[i][j] \in Messages
  <2>1. ASSUME NEW i \in Mon, NEW j \in Mon PROVE R[i][j] \in Messages
    <3>1. CASE i = j
      BY <1>5, <3>1, EmptyQueue
    <3>2. CASE i # j
      BY <1>6, <3>2 DEF Pair
    <3>. QED BY <3>1, <3>2
  <2>. QED BY <2>1
<1>8. R \in [Mon -> Queues]
  <2>1. \A i \in Mon : R[i] \in [Mon -> Messages]
    BY <1>3, <1>7
  <2>. QED BY <1>3, <2>1 DEF Queues
<1>9. Good(W1, R)
  BY <1>5, <1>6, <1>8 DEF Good
<1>. QED BY <1>2, <1>9

VictoryMsg(s, e, Q) ==
  [op |-> "victory", epoch |-> e, pn |-> 0, last_committed |-> s.last_committed,
   values |-> NoValues, uncommitted_pn |-> 0, quorum |-> Q]

CollectMsg(s, e, pn) ==
  [op |-> "collect", epoch |-> e, pn |-> pn, last_committed |-> s.last_committed,
   values |-> NoValues, uncommitted_pn |-> 0, quorum |-> {}]

ElectDoes(m, s, e, Q, pn, w) ==
  /\ Finds(s, w.s)
  /\ w \in Contexts /\ w.ok /\ w.role = "leader" /\ w.epoch = e
  /\ pn \in Nat /\ pn > s.last_pn /\ pn > s.accepted_pn /\ pn % 100 = m /\ pn # 0
  /\ w.s.last_pn = pn /\ w.s.accepted_pn = pn /\ w.s.stored_pn = s.stored_pn
  /\ w.s.last_committed = s.last_committed /\ w.s.values = s.values
  /\ w.s.pending_v = s.pending_v /\ w.s.pending_pn = s.pending_pn
  /\ w.s.quorum = Q /\ w.s.num_last = 1 /\ w.s.peer_last_committed = [q \in Mon |-> -1]
  /\ Idle(w.s) /\ w.s.leader = m /\ Timers(w.s, {"collect"})
  /\ \A j \in Mon \ {m} : w.out[j] = IF j \in Q
                                     THEN Append(Append(<<>>, VictoryMsg(s, e, Q)), CollectMsg(s, e, pn))
                                     ELSE <<>>
  /\ w.out[m] = <<>>

Victorious(m, c, b, e, Q) ==
  [Send(Enter(IF b THEN LeaveQuorum(c, e) ELSE c, m, Q),
        Q \ {m}, [Msg(c, "victory") EXCEPT !.quorum = Q]) EXCEPT !.role = "leader"]

LEMMA ContextIs ==
  ASSUME NEW st \in LooseState, NEW r \in {"out", "leader", "peon"}, NEW e \in Nat, NEW c,
         c = Context(st, r, e)
  PROVE  c \in Contexts /\ c.s = st /\ c.epoch = e /\ c.ok /\ c.out = [j \in Mon |-> <<>>] /\ c.role = r
<1>1. [j \in Mon |-> <<>>] \in [Mon -> Messages]
  BY EmptyQueue
<1>2. c = [s |-> st, role |-> r, epoch |-> e, out |-> [j \in Mon |-> <<>>], ok |-> TRUE]
  BY DEF Context
<1>. QED BY <1>1, <1>2 DEF Contexts

(* victory(), win_election() and leader_init() *)
LEMMA ElectIs ==
  ASSUME NEW m \in Mon, NEW s \in LooseState, NEW e \in Nat, NEW Q \in SUBSET Mon, NEW b \in BOOLEAN,
         NEW c, c = Context(s, "leader", e), NEW w, w = Collect(Victorious(m, c, b, e, Q), m, 0),
         NEW S \in SUBSET Timer, Timers(s, S)
  PROVE  \E pn : ElectDoes(m, s, e, Q, pn, w)
<1>2. c \in Contexts /\ c.s = s /\ c.epoch = e /\ c.ok /\ c.out = [j \in Mon |-> <<>>] /\ c.role = "leader"
  BY ContextIs
<1>3. PICK g : g = IF b THEN LeaveQuorum(c, e) ELSE c
  OBVIOUS
<1>4. /\ g \in Contexts /\ SameLog(s, g.s) /\ g.epoch = e /\ g.out = c.out /\ g.ok
      /\ \E S2 \in SUBSET Timer : Timers(g.s, S2)
  <2>1. CASE b
    <3>1. LeaveDoes(c, e, g)
      BY <1>2, <1>3, <2>1, LeaveIs
    <3>2. Timers(g.s, {}) /\ {} \in SUBSET Timer
      BY <1>2, <3>1 DEF LeaveDoes
    <3>. QED BY <1>2, <3>1, <3>2 DEF LeaveDoes
  <2>2. CASE ~b
    BY <1>2, <1>3, <2>2 DEF SameLog
  <2>. QED BY <2>1, <2>2
<1>5. PICK h : h = Enter(g, m, Q)
  OBVIOUS
<1>6. EnterDoes(g, m, Q, h)
  BY <1>4, <1>5, EnterIs
<1>7. Timers(h.s, {})
  BY <1>4, <1>6 DEF EnterDoes
<1>8. h \in Contexts /\ SameLog(g.s, h.s) /\ Idle(h.s) /\ h.s.leader = m /\ h.s.quorum = Q
      /\ h.epoch = e /\ h.ok /\ h.out = [j \in Mon |-> <<>>]
  BY <1>2, <1>4, <1>6 DEF EnterDoes
<1>9. SameLog(s, h.s)
  BY <1>4, <1>8 DEF SameLog
<1>10. PICK v : v = VictoryMsg(s, e, Q)
  OBVIOUS
<1>11. v = [Msg(c, "victory") EXCEPT !.quorum = Q]
  BY <1>2, <1>10 DEF VictoryMsg, Msg
<1>12. PICK d : d = Victorious(m, c, b, e, Q)
  OBVIOUS
<1>13. d = [[h EXCEPT !.out = [j \in Mon |-> IF j \in Q \ {m} THEN Append(h.out[j], v) ELSE h.out[j]]]
               EXCEPT !.role = "leader"]
  BY <1>3, <1>5, <1>11, <1>12, Zenon DEF Victorious, Send
<1>14. v \in LooseMessage
  <2>1. NoValues \in [Version -> Value]
    BY DEF NoValues, NoValue, Value
  <2>2. s.last_committed \in 0 .. MaxOp
    BY DEF LooseState
  <2>. QED BY <1>10, <2>1, <2>2 DEF VictoryMsg, LooseMessage
<1>15. PICK o : o = [j \in Mon |-> IF j \in Q \ {m} THEN Append(<<>>, v) ELSE <<>>]
  OBVIOUS
<1>16. o \in [Mon -> Messages]
  <2>1. <<>> \in Messages /\ Append(<<>>, v) \in Messages
    BY <1>14, EmptyQueue, AppendProperties DEF Messages
  <2>. QED BY <1>15, <2>1
<1>17. d = [h EXCEPT !.out = o, !.role = "leader"]
  <2>1. o = [j \in Mon |-> IF j \in Q \ {m} THEN Append(h.out[j], v) ELSE h.out[j]]
    BY <1>8, <1>15
  <2>. QED BY <1>13, <2>1
<1>18. d \in Contexts /\ d.s = h.s /\ d.epoch = e /\ d.ok /\ d.out = o /\ d.role = "leader"
  BY <1>8, <1>16, <1>17 DEF Contexts
<1>19. w = Collect(d, m, 0) /\ 0 \in Nat
  BY <1>12
<1>20. PICK pn : CollectDoes(d, m, pn, w)
  BY <1>18, <1>19, CollectIs
<1>21. PICK x : x = CollectMsg(s, e, pn)
  OBVIOUS
<1>22. x = [Msg(d, "collect") EXCEPT !.pn = pn]
  <2>1. d.s.last_committed = s.last_committed
    BY <1>9, <1>18 DEF SameLog
  <2>. QED BY <1>18, <1>21, <2>1 DEF CollectMsg, Msg
<1>23. w.out = [j \in Mon |-> IF j \in Q \ {m} THEN Append(o[j], x) ELSE o[j]]
  <2>1. Sends(d, w, Q \ {m}, ToAll(x))
    BY <1>8, <1>18, <1>20, <1>22 DEF CollectDoes
  <2>2. \A j \in Mon : ToAll(x)[j] = x
    BY DEF ToAll
  <2>3. w.out \in [Mon -> Messages]
    BY <1>20, ContextTypes DEF CollectDoes
  <2>4. PICK y : y = ToAll(x)
    OBVIOUS
  <2>5. PICK R : R = Q \ {m}
    OBVIOUS
  <2>6. w.out = [j \in Mon |-> IF j \in R THEN Append(o[j], y[j]) ELSE o[j]]
    BY <1>18, <2>1, <2>4, <2>5, Zenon DEF Sends
  <2>7. \A j \in Mon : w.out[j] = IF j \in R THEN Append(o[j], x) ELSE o[j]
    BY <2>2, <2>4, <2>6, Zenon
  <2>. QED BY <2>3, <2>5, <2>7
<1>24. /\ \A j \in Mon \ {m} : w.out[j] = IF j \in Q THEN Append(Append(<<>>, v), x) ELSE <<>>
       /\ w.out[m] = <<>>
  BY <1>15, <1>23
<1>25. /\ w \in Contexts /\ w.ok /\ w.role = "leader" /\ w.epoch = e
       /\ pn \in Nat /\ pn > d.s.last_pn /\ pn > d.s.accepted_pn /\ pn % 100 = m /\ pn # 0
       /\ w.s.last_pn = pn /\ w.s.accepted_pn = pn /\ w.s.stored_pn = d.s.stored_pn
       /\ w.s.last_committed = d.s.last_committed /\ w.s.values = d.s.values
       /\ w.s.pending_v = d.s.pending_v /\ w.s.pending_pn = d.s.pending_pn
       /\ w.s.quorum = d.s.quorum /\ w.s.num_last = 1 /\ w.s.peer_last_committed = [q \in Mon |-> -1]
  BY <1>18, <1>20 DEF CollectDoes
<1>26. Idle(w.s) /\ w.s.leader = m /\ Timers(w.s, {"collect"})
  BY <1>7, <1>8, <1>18, <1>20 DEF CollectDoes, Idle
<1>27. /\ d.s.last_pn = s.last_pn /\ d.s.accepted_pn = s.accepted_pn /\ d.s.stored_pn = s.stored_pn
       /\ d.s.last_committed = s.last_committed /\ d.s.values = s.values
       /\ d.s.pending_v = s.pending_v /\ d.s.pending_pn = s.pending_pn /\ d.s.quorum = Q
  BY <1>8, <1>9, <1>18 DEF SameLog
<1>28. Finds(s, w.s)
  <2>1. Finds(d.s, w.s)
    BY <1>20 DEF CollectDoes
  <2>. QED BY <1>27, <2>1 DEF Finds, PendingPn
<1>29. ElectDoes(m, s, e, Q, pn, w)
  BY <1>10, <1>21, <1>24, <1>25, <1>26, <1>27, <1>28 DEF ElectDoes
<1>. QED BY <1>29

LEMMA SoundElect ==
  ASSUME NEW m \in Mon, NEW p, NEW s \in LooseState, NEW e \in Nat, NEW Q \in Majorities, m \in Q,
         NEW pn, NEW w, NEW W, NEW R, NEW I, Good(W, R), I = Column(R, m),
         W[m].role = "out", e = W[m].epoch + 1, e % 2 = 0, SameLog(s, W[m].s),
         ElectDoes(m, s, e, Q, pn, w), Grown(p, s)
  PROVE  Sound(m, p, w, {m}, W, R[m], I) /\ Timed(w.role, w.s)
<1>1. /\ W \in Worlds /\ R \in [Mon -> Queues] /\ W[m] \in Node /\ Local(m, W[m])
      /\ w \in Contexts /\ w.ok /\ {m} \in SUBSET Mon /\ Q \in SUBSET Mon
  BY DEF Good, Worlds, ElectDoes, Majorities
<1>2. PICK A : A = W[m]
  OBVIOUS
<1>3. PICK A2 : A2 = NodeOf(w, {m})
  OBVIOUS
<1>4. A2 \in Node /\ A2.epoch = e /\ A2.role = "leader" /\ A2.s = w.s /\ A2.T = {m}
  BY <1>1, <1>3, NodeIs DEF ElectDoes
<1>5. /\ pn \in Nat /\ pn > s.last_pn /\ pn > s.accepted_pn /\ pn % 100 = m /\ pn # 0
      /\ w.s.last_pn = pn /\ w.s.accepted_pn = pn /\ w.s.stored_pn = s.stored_pn
      /\ w.s.last_committed = s.last_committed /\ w.s.values = s.values
      /\ w.s.pending_v = s.pending_v /\ w.s.pending_pn = s.pending_pn
      /\ w.s.quorum = Q /\ w.s.num_last = 1 /\ w.s.peer_last_committed = [q \in Mon |-> -1]
      /\ w.s.new_value = NoValue /\ w.s.committing = NoValue /\ w.s.state = "recovering" /\ w.s.leader = m
  BY DEF ElectDoes, Idle
<1>6. Logged(s) /\ Numbers(m, s)
  <2>1. Logged(A.s) /\ Numbers(m, A.s) /\ SameLog(s, A.s)
    BY <1>1, <1>2 DEF Local
  <2>2. Logged(s)
    BY <2>1 DEF Logged, SameLog
  <2>3. Numbers(m, s)
    BY <2>1 DEF Numbers, SameLog
  <2>. QED BY <2>2, <2>3
<1>7. Local(m, A2)
  <2>1. Logged(w.s)
    BY <1>5, <1>6 DEF Logged
  <2>2. Numbers(m, w.s)
    <3>1. s.stored_pn \in Nat /\ s.accepted_pn \in Nat /\ s.stored_pn <= s.accepted_pn
      BY <1>6 DEF LooseState, Numbers
    <3>2. w.s.stored_pn <= pn
      BY <1>5, <3>1
    <3>. QED BY <1>5, <3>2 DEF Numbers
  <2>3. Leading(m, A2)
    <3>1. Cardinality({m}) = 1
      BY FS_Singleton
    <3>. QED BY <1>4, <1>5, <3>1 DEF Leading
  <2>4. w.s.state \notin Proposing /\ w.s.state \notin InWriting
    BY <1>5 DEF Proposing, Updating, InWriting
  <2>5. InRound(m, w.s)
    BY <1>5, <2>4 DEF InRound
  <2>. QED BY <1>4, <1>5, <2>1, <2>2, <2>3, <2>5 DEF Local
<1>8. Grown(p, w.s)
  BY <1>5 DEF Grown
<1>9. PICK v : v = VictoryMsg(s, e, Q)
  OBVIOUS
<1>10. PICK x : x = CollectMsg(s, e, pn)
  OBVIOUS
<1>11. v \in LooseMessage /\ x \in LooseMessage
  <2>1. NoValues \in [Version -> Value]
    BY DEF NoValues, NoValue, Value
  <2>2. s.last_committed \in 0 .. MaxOp
    BY DEF LooseState
  <2>3. v \in LooseMessage
    BY <1>1, <1>9, <2>1, <2>2 DEF VictoryMsg, LooseMessage
  <2>4. x \in LooseMessage
    BY <1>5, <1>10, <2>1, <2>2 DEF CollectMsg, LooseMessage
  <2>. QED BY <2>3, <2>4
<1>12. /\ v.op = "victory" /\ v.epoch = e /\ v.last_committed = s.last_committed /\ NoGap(v)
       /\ x.op = "collect" /\ x.epoch = e /\ x.last_committed = s.last_committed /\ NoGap(x) /\ x.pn = pn
  <2>1. \A u \in Version : NoValues[u] = NoValue
    BY DEF NoValues
  <2>2. v.values = NoValues /\ x.values = NoValues
    BY <1>9, <1>10 DEF VictoryMsg, CollectMsg
  <2>3. NoGap(v) /\ NoGap(x)
    BY <2>1, <2>2 DEF NoGap
  <2>. QED BY <1>9, <1>10, <2>3 DEF VictoryMsg, CollectMsg
<1>13. Fits(v, A2) /\ Fits(x, A2)
  BY <1>4, <1>5, <1>12 DEF Fits
<1>14. PICK w1 : w1 = [j \in Mon |-> IF j \in Q \ {m} THEN Append(<<>>, v) ELSE <<>>]
  OBVIOUS
<1>15. \A j \in Mon : w1[j] \in Messages /\ w.out[j] \in Messages
  <2>1. <<>> \in Messages /\ Append(<<>>, v) \in Messages
    BY <1>11, EmptyQueue, AppendProperties DEF Messages
  <2>. QED BY <1>1, <1>14, <2>1 DEF Contexts
<1>16. \A j \in Mon \ {m} : w.out[j] = IF j \in Q \ {m} THEN Append(w1[j], x) ELSE w1[j]
  BY <1>9, <1>10, <1>14 DEF ElectDoes
<1>17. ASSUME NEW j \in Mon, NEW k \in DOMAIN w.out[j] PROVE w.out[j][k].epoch = w.epoch
  <2>0. w.epoch = e /\ DOMAIN <<>> = {}
    BY DEF ElectDoes
  <2>1. CASE j = m \/ j \notin Q
    <3>1. w.out[j] = <<>>
      BY <2>1 DEF ElectDoes
    <3>. QED BY <2>0, <3>1
  <2>2. CASE j # m /\ j \in Q
    <3>1. w.out[j] = Append(w1[j], x) /\ w1[j] = Append(<<>>, v)
      BY <1>14, <1>16, <2>2
    <3>2. PICK a : a = Append(<<>>, v)
      OBVIOUS
    <3>3. a \in Seq(LooseMessage) /\ Len(a) = 1 /\ a[1] = v
      <4>1. <<>> \in Seq(LooseMessage) /\ Len(<<>>) = 0
        BY EmptyQueue DEF Messages
      <4>. QED BY <1>11, <3>2, <4>1, AppendProperties
    <3>4. PICK b : b = Append(a, x)
      OBVIOUS
    <3>5. b \in Seq(LooseMessage) /\ Len(b) = 2 /\ b[1] = v /\ b[2] = x
      <4>1. b \in Seq(LooseMessage) /\ Len(b) = Len(a) + 1
        BY ZenonT(60), <1>11, <3>3, <3>4, AppendProperties
      <4>2. b[Len(a) + 1] = x
        BY <1>11, <3>3, <3>4, AppendProperties
      <4>3. \A i \in 1 .. Len(a) : b[i] = a[i]
        BY <1>11, <3>3, <3>4, AppendProperties
      <4>. QED BY <3>3, <4>1, <4>2, <4>3
    <3>6. DOMAIN b = 1 .. 2
      BY <3>5, LenProperties
    <3>7. w.out[j] = b
      BY <3>1, <3>2, <3>4
    <3>. QED BY <1>12, <2>0, <3>5, <3>6, <3>7
  <2>. QED BY <2>1, <2>2
<1>18. ASSUME NEW j \in Mon \ {m}
       PROVE  Pair(m, j, A2, W[j], Extended(w.epoch, R[m][j], w.out[j], W[j]), I[j])
  <2>1. PICK B : B = W[j]
    OBVIOUS
  <2>2. B \in Node
    BY <1>1, <2>1 DEF Worlds
  <2>3. PICK q : q = R[m][j]
    OBVIOUS
  <2>4. q \in Messages /\ w.epoch = e
    BY <1>1, <2>3 DEF Queues, ElectDoes
  <2>5. PICK q1 : q1 = Extended(e, q, w1[j], B)
    OBVIOUS
  <2>6. PICK q2 : q2 = Extended(e, q, w.out[j], B)
    OBVIOUS
  <2>7. Extended(e, q, <<>>, B) = q
    BY <2>4, SilentExtended
  <2>8. Pushes(j, Q \ {m}, q, q1, v, e, B)
    <3>1. w1[j] = IF j \in Q \ {m} THEN Append(<<>>, v) ELSE <<>>
      BY <1>14
    <3>2. Pushes(j, Q \ {m}, Extended(e, q, <<>>, B), Extended(e, q, w1[j], B), v, e, B)
      BY <1>11, <2>4, <3>1, EmptyQueue, ExtendedPush
    <3>. QED BY <2>5, <2>7, <3>2
  <2>9. Pushes(j, Q \ {m}, q1, q2, x, e, B)
    <3>1. PICK o : o = w.out[j]
      OBVIOUS
    <3>2. o = IF j \in Q \ {m} THEN Append(w1[j], x) ELSE w1[j]
      BY <1>16, <3>1
    <3>3. Pushes(j, Q \ {m}, Extended(e, q, w1[j], B), Extended(e, q, o, B), x, e, B)
      BY <1>11, <1>15, <2>4, <3>2, ExtendedPush
    <3>. QED BY <2>5, <2>6, <3>1, <3>3
  <2>10. Pushes(j, A2.s.quorum, q, q1, v, A2.epoch, B) /\ Pushes(j, A2.s.quorum, q1, q2, x, A2.epoch, B)
    BY <1>4, <1>5, <2>8, <2>9 DEF Pushes
  <2>11. Pair(m, j, A, B, q, I[j])
    BY <1>2, <2>1, <2>3 DEF Good, Column
  <2>12. A2.s.peer_last_committed[j] = -1 /\ A2.s.last_pn > A.s.last_pn
         /\ A2.s.stored_pn = A.s.stored_pn /\ A2.s.last_committed = A.s.last_committed
    BY <1>2, <1>4, <1>5 DEF SameLog
  <2>13. A.role = "out" /\ A2.epoch = A.epoch + 1 /\ A2.epoch % 2 = 0 /\ A \in Node
    BY <1>1, <1>2, <1>4
  <2>14. A2.s.state = "recovering" /\ A2.s.last_pn % 100 = m /\ A2.s.accepted_pn = A2.s.last_pn
         /\ x.pn = A2.s.last_pn
    BY <1>4, <1>5, <1>12
  <2>15. Pair(m, j, A2, B, q2, I[j])
    BY ZenonT(60), <1>4, <1>11, <1>12, <1>13, <2>2, <2>10, <2>11, <2>12, <2>13, <2>14, PairElect
  <2>. QED BY <2>1, <2>3, <2>4, <2>6, <2>15
<1>19. w.out[m] = <<>>
  BY DEF ElectDoes
<1>20. Sound(m, p, w, {m}, W, R[m], I)
  BY <1>1, <1>3, <1>7, <1>8, <1>17, <1>18, <1>19 DEF Sound
<1>21. Timed(w.role, w.s)
  <2>1. w.role = "leader" /\ w.s.state = "recovering" /\ w.s.committing = NoValue /\ Timers(w.s, {"collect"})
    BY DEF ElectDoes, Idle
  <2>2. "recovering" \notin Updating /\ "recovering" \notin InWriting
    BY DEF Updating, InWriting
  <2>. QED BY <2>1, <2>2 DEF Timed
<1>. QED BY <1>20, <1>21

LEMMA DropTwice ==
  ASSUME NEW q \in Messages, NEW B \in Node, Ordered(q), NEW q2, q2 = Drop(q, B)
  PROVE  /\ q2 \in Messages /\ Ordered(q2) /\ Drop(q2, B) = q2
         /\ \A e : (\A k \in DOMAIN q : q[k].epoch <= e) => (\A k \in DOMAIN q2 : q2[k].epoch <= e)
<1>1. PICK n : Dropped(q, q2, n, B)
  BY DropIs
<1>2. q2 \in Messages /\ n \in Nat
  BY <1>1 DEF Dropped
<1>3. \A k \in DOMAIN q2 : k + n \in DOMAIN q /\ q2[k] = q[k + n] /\ IsCurrent(q2[k].epoch, B)
  BY <1>1 DEF Dropped
<1>4. \A k \in DOMAIN q2 : k \in Nat
  BY <1>2, MessageTypes
<1>5. Ordered(q2)
  <2>. SUFFICES ASSUME NEW k \in DOMAIN q2, NEW l \in DOMAIN q2, k < l
                PROVE  q2[k].epoch <= q2[l].epoch
    BY DEF Ordered
  <2>1. k + n < l + n
    BY <1>2, <1>4
  <2>. QED BY <1>3, <2>1 DEF Ordered
<1>6. Drop(q2, B) = q2
  BY <1>2, <1>3, <1>5, DropIs
<1>. QED BY <1>2, <1>3, <1>5, <1>6

LEMMA DropSame ==
  ASSUME NEW q \in Messages, NEW B, NEW B2, \A e \in Nat : IsCurrent(e, B) <=> IsCurrent(e, B2)
  PROVE  Drop(q, B) = Drop(q, B2)
<1>1. \A k \in DOMAIN q : q[k].epoch \in Nat
  BY MessageTypes
<1>2. {k \in DOMAIN q : ~IsCurrent(q[k].epoch, B)} = {k \in DOMAIN q : ~IsCurrent(q[k].epoch, B2)}
  BY <1>1
<1>. QED BY <1>2 DEF Drop

(* The messages of a new leader are added to what is under way, before or after
   those that have left drop what is of the past. *)
LEMMA DropThenAdd ==
  ASSUME NEW q \in Messages, NEW w \in Messages, NEW e \in Nat, NEW B \in Node,
         Follow(q, w, e)
  PROVE  Drop(q \o w, B) = Drop(Drop(q, B) \o w, B)
<1>1. Ordered(q) /\ (\A k \in DOMAIN q : q[k].epoch <= e) /\ (\A k \in DOMAIN w : w[k].epoch = e)
  BY DEF Follow
<1>2. PICK q2 : q2 = Drop(q, B)
  OBVIOUS
<1>3. q2 \in Messages /\ Ordered(q2) /\ Drop(q2, B) = q2
  BY <1>1, <1>2, DropTwice
<1>4. \A k \in DOMAIN q2 : q2[k].epoch <= e
  BY <1>1, <1>2, DropTwice
<1>5. Drop(q \o w, B) = Extended(e, q2, w, B)
  BY <1>1, <1>2, DropExtended
<1>6. Drop(q2 \o w, B) = Extended(e, Drop(q2, B), w, B)
  BY <1>1, <1>3, <1>4, DropExtended
<1>. QED BY <1>2, <1>3, <1>5, <1>6

With(m, Q, w) == [Q EXCEPT ![m] = [j \in Mon |-> Q[m][j] \o w.out[j]]]

Addable(m, Q, w) ==
  /\ \A i, j \in Mon : Ordered(Q[i][j])
  /\ \A j \in Mon : Follow(Q[m][j], w.out[j], w.epoch)

SameCurrent(W1, W2) ==
  \A j \in Mon : \A e \in Nat : IsCurrent(e, W1[j]) <=> IsCurrent(e, W2[j])

LEMMA SameDelivered ==
  ASSUME NEW m \in Mon, NEW Q \in [Mon -> Queues], NEW w \in Contexts, NEW W1 \in Worlds,
         NEW W2 \in Worlds, NEW R, R = Delivered(Q, W1),
         Addable(m, Q, w), SameCurrent(W1, W2)
  PROVE  Delivered(With(m, Q, w), W2) = Delivered(With(m, R, w), W2)
<1>1. w.out \in [Mon -> Messages] /\ w.epoch \in Nat
  BY ContextTypes
<1>2. \A i, j \in Mon : Q[i][j] \in Messages /\ W1[j] \in Node /\ W2[j] \in Node
  BY DEF Queues, Worlds
<1>3. R = [i \in Mon |-> [j \in Mon |-> Drop(Q[i][j], W1[j])]]
  BY DEF Delivered
<1>4. ASSUME NEW i \in Mon, NEW j \in Mon
      PROVE  R[i][j] = Drop(Q[i][j], W2[j]) /\ Drop(R[i][j], W2[j]) = R[i][j]
  <2>1. R[i][j] = Drop(Q[i][j], W1[j])
    BY <1>3
  <2>2. Drop(Q[i][j], W1[j]) = Drop(Q[i][j], W2[j])
    BY <1>2, DropSame DEF SameCurrent
  <2>3. PICK q : q = Q[i][j]
    OBVIOUS
  <2>4. PICK B : B = W2[j]
    OBVIOUS
  <2>5. PICK q2 : q2 = Drop(q, B)
    OBVIOUS
  <2>6. Drop(q2, B) = q2
    BY <1>2, <2>3, <2>4, <2>5, DropTwice DEF Addable
  <2>. QED BY <2>1, <2>2, <2>3, <2>4, <2>5, <2>6
<1>5. ASSUME NEW i \in Mon, NEW j \in Mon
      PROVE  Drop(With(m, Q, w)[i][j], W2[j]) = Drop(With(m, R, w)[i][j], W2[j])
  <2>1. CASE i = m
    <3>1. With(m, Q, w)[i][j] = Q[m][j] \o w.out[j] /\ With(m, R, w)[i][j] = R[m][j] \o w.out[j]
      BY <1>3, <2>1 DEF With
    <3>2. PICK q : q = Q[m][j]
      OBVIOUS
    <3>3. PICK B : B = W2[j]
      OBVIOUS
    <3>4. PICK o : o = w.out[j]
      OBVIOUS
    <3>5. Follow(q, o, w.epoch)
      BY <3>2, <3>4 DEF Addable
    <3>6. Drop(q \o o, B) = Drop(Drop(q, B) \o o, B)
      BY <1>1, <1>2, <3>2, <3>3, <3>4, <3>5, DropThenAdd
    <3>7. R[m][j] = Drop(q, B)
      BY <1>4, <3>2, <3>3
    <3>. QED BY <3>1, <3>2, <3>3, <3>4, <3>6, <3>7
  <2>2. CASE i # m
    <3>1. With(m, Q, w)[i][j] = Q[i][j] /\ With(m, R, w)[i][j] = R[i][j]
      BY <1>3, <2>2 DEF With
    <3>. QED BY <1>4, <3>1
  <2>. QED BY <2>1, <2>2
<1>. QED BY <1>5 DEF Delivered

(* What becomes of a member of the new quorum that has to leave for epoch e. *)
LeavesFor(q, e, T, d) ==
  /\ LeaveDoes(Here(q), e, d)
  /\ Local(q, NodeOf(d, T)) /\ Grown(px[q], d.s) /\ Timed(d.role, d.s)
  /\ MovesOut(NodeOf(Here(q), T), NodeOf(d, T)) /\ NodeOf(d, T) \in Node

LEMMA LeaverIs ==
  ASSUME NEW q \in Mon, NEW e \in Nat, NEW T, NEW W, NEW I, NEW d,
         Starts(q, Here(q), T, W, I), epoch[q] <= e, d = LeaveQuorum(Here(q), e)
  PROVE  LeavesFor(q, e, T, d)
<1>1. PICK c : c = Here(q)
  OBVIOUS
<1>2. /\ Sound(q, px[q], c, T, W, net[q], I) /\ Timed(c.role, c.s) /\ c.epoch = epoch[q]
      /\ c \in Contexts /\ T \in SUBSET Mon /\ c.epoch \in Nat
  BY <1>1 DEF Starts, Sound, Contexts
<1>3. LeaveDoes(c, e, d)
  BY <1>1, <1>2, LeaveIs
<1>4. Local(q, NodeOf(d, T)) /\ Grown(px[q], d.s) /\ Timed(d.role, d.s)
  BY <1>2, <1>3, LeaveLocal
<1>5. d \in Contexts /\ d.role = "out" /\ d.epoch = e /\ SameLog(c.s, d.s)
  BY <1>3 DEF LeaveDoes
<1>6. PICK A : A = NodeOf(c, T)
  OBVIOUS
<1>7. A.epoch = c.epoch /\ A.s = c.s
  BY <1>2, <1>6, NodeIs
<1>8. PICK A2 : A2 = NodeOf(d, T)
  OBVIOUS
<1>9. A2 \in Node /\ A2.epoch = e /\ A2.s = d.s /\ A2.role = "out"
  BY <1>2, <1>5, <1>8, NodeIs
<1>10. MovesOut(A, A2)
  <2>1. A2.epoch >= A.epoch
    BY <1>2, <1>7, <1>9
  <2>. QED BY <1>5, <1>7, <1>9, <2>1 DEF MovesOut, SameLog
<1>. QED BY <1>1, <1>3, <1>4, <1>6, <1>8, <1>9, <1>10 DEF LeavesFor

Callers(Q, e) == {q \in Q : epoch[q] < e}

LeftWorld(C, e, T, W) ==
  [q \in Mon |-> IF q \in C THEN NodeOf(LeaveQuorum(Here(q), e), T[q]) ELSE W[q]]

LEMMA CallersGood ==
  ASSUME NEW T, NEW W, NEW C \in SUBSET Mon, NEW e \in Nat, NEW W1,
         Fine(epoch, role, px, net), World(T, W), \A q \in C : epoch[q] < e,
         W1 = LeftWorld(C, e, T, W)
  PROVE  /\ Good(W1, Delivered(net, W1))
         /\ \A q \in C : LeavesFor(q, e, T[q], LeaveQuorum(Here(q), e))
<1>1. ASSUME NEW q \in Mon PROVE Starts(q, Here(q), T[q], W, Column(net, q))
  BY HereStarts DEF Fine
<1>2. ASSUME NEW q \in C PROVE LeavesFor(q, e, T[q], LeaveQuorum(Here(q), e))
  <2>1. epoch[q] <= e
    BY DEF Fine, Shaped
  <2>. QED BY <1>1, <2>1, LeaverIs
<1>3. W \in Worlds /\ Good(W, net)
  BY DEF World, Good
<1>4. ASSUME NEW q \in Mon PROVE W[q] = NodeOf(Here(q), T[q])
  <2>1. W[q] = [epoch |-> epoch[q], role |-> role[q], s |-> px[q], T |-> T[q]]
    BY DEF World, WorldOf
  <2>2. Here(q).epoch = epoch[q] /\ Here(q).role = role[q] /\ Here(q).s = px[q]
    BY <1>1 DEF Starts
  <2>. QED BY <2>1, <2>2 DEF NodeOf
<1>5. ASSUME NEW q \in Mon PROVE MovesOut(W[q], W1[q]) /\ Local(q, W1[q]) /\ W1[q] \in Node
  <2>1. CASE q \in C
    <3>1. W1[q] = NodeOf(LeaveQuorum(Here(q), e), T[q])
      BY <2>1 DEF LeftWorld
    <3>. QED BY <1>2, <1>4, <2>1, <3>1 DEF LeavesFor
  <2>2. CASE q \notin C
    <3>1. W1[q] = W[q]
      BY <2>2 DEF LeftWorld
    <3>. QED BY <1>3, <3>1 DEF MovesOut, Good, Worlds
  <2>. QED BY <2>1, <2>2
<1>6. W1 \in Worlds
  BY <1>5 DEF Worlds, LeftWorld
<1>. QED BY <1>2, <1>3, <1>5, <1>6, GoodLeave

(* m is out of its quorum, at the epoch before the one it wins. *)
LEMMA WinnerIsOut ==
  ASSUME NEW m \in Mon, NEW T, NEW W, NEW C \in SUBSET Mon, NEW e \in Nat, NEW W1,
         Fine(epoch, role, px, net), World(T, W), \A q \in C : epoch[q] < e,
         W1 = LeftWorld(C, e, T, W),
         m \notin C => epoch[m] = e, (e + 1) % 2 = 0
  PROVE  W1[m].role = "out" /\ W1[m].epoch = e /\ SameLog(px[m], W1[m].s)
<1>1. Starts(m, Here(m), T[m], W, Column(net, m))
  BY HereStarts DEF Fine
<1>2. T[m] \in SUBSET Mon /\ Here(m).s = px[m] /\ Local(m, W[m])
  BY <1>1 DEF Starts, Sound, World, Good
<1>3. CASE m \in C
  <2>1. LeavesFor(m, e, T[m], LeaveQuorum(Here(m), e))
    BY <1>3, CallersGood
  <2>2. PICK d : d = LeaveQuorum(Here(m), e)
    OBVIOUS
  <2>3. LeaveDoes(Here(m), e, d)
    BY <2>1, <2>2 DEF LeavesFor
  <2>4. d \in Contexts /\ d.role = "out" /\ d.epoch = e /\ SameLog(px[m], d.s)
    BY <1>2, <2>3 DEF LeaveDoes
  <2>5. W1[m] = NodeOf(d, T[m])
    BY <1>3, <2>2 DEF LeftWorld
  <2>. QED BY <1>2, <2>4, <2>5, NodeIs
<1>4. CASE m \notin C
  <2>1. W1[m] = W[m] /\ W[m].epoch = epoch[m] /\ W[m].s = px[m] /\ epoch[m] = e
    BY <1>4 DEF LeftWorld, World, WorldOf
  <2>2. W[m].role = "out"
    BY <1>2, <2>1 DEF Local
  <2>. QED BY <2>1, <2>2 DEF SameLog
<1>. QED BY <1>3, <1>4

(* What the election of m does to all monitors. *)
ElectedIn(m, e, C, w) ==
  /\ epoch' = [q \in Mon |-> IF q = m THEN e ELSE IF q \in C THEN e - 1 ELSE epoch[q]]
  /\ role' = [q \in Mon |-> IF q = m THEN "leader" ELSE IF q \in C THEN "out" ELSE role[q]]
  /\ px' = [q \in Mon |-> IF q = m THEN w.s ELSE IF q \in C THEN LeaveQuorum(Here(q), e - 1).s ELSE px[q]]
  /\ net' = Deliverable(With(m, net, w))

(* m wins epoch e with the quorum Q: its election leaves C in epoch f, and it
   collects with number pn. *)
Elects(m, e, Q, C, f, pn, w) ==
  /\ C \in SUBSET Mon /\ f \in Nat /\ f = e - 1 /\ (f + 1) % 2 = 0 /\ \A q \in C : epoch[q] < f
  /\ m \in Q /\ (m \notin C => epoch[m] = f)
  /\ ElectDoes(m, px[m], e, Q, pn, w) /\ ElectedIn(m, e, C, w)

LEMMA ElectsSo ==
  ASSUME NEW m \in Mon, NEW T, NEW W, NEW e \in VictoryEpoch, NEW Q \in Majorities,
         Fine(epoch, role, px, net), World(T, W), Elect(m, e, Q)
  PROVE  \E C, f, pn, w : Elects(m, e, Q, C, f, pn, w)
<1>1. e \in Nat /\ e >= 1 /\ e % 2 = 0 /\ e - 1 \in Nat /\ Q \in SUBSET Mon
  BY BoundAssumption DEF VictoryEpoch, Majorities
<1>2. PICK C : C = {q \in Q : epoch[q] < e - 1}
  OBVIOUS
<1>3. C \in SUBSET Mon /\ \A q \in C : epoch[q] < e - 1
  BY <1>1, <1>2
<1>4. PICK f : f = e - 1
  OBVIOUS
<1>5. f \in Nat /\ e = f + 1 /\ (f + 1) % 2 = 0 /\ (\A q \in C : epoch[q] < f)
  BY <1>1, <1>3, <1>4
<1>6. m \in Q /\ epoch[m] < e
  BY DEF Elect
<1>7. m \notin C => epoch[m] = f
  <2>1. epoch[m] \in Nat
    BY DEF Fine, Shaped
  <2>. QED BY <1>2, <1>4, <1>5, <1>6, <2>1
<1>8. PICK c : c = Context(px[m], "leader", e)
  OBVIOUS
<1>9. PICK b : b = (m \in C)
  OBVIOUS
<1>10. PICK w : w = Collect(Victorious(m, c, b, e, Q), m, 0)
  OBVIOUS
<1>11. Starts(m, Here(m), T[m], W, Column(net, m))
  BY HereStarts DEF Fine
<1>12. px[m] \in LooseState /\ net \in [Mon -> Queues] /\ T \in [Mon -> SUBSET Mon] /\ W \in Worlds
       /\ epoch \in [Mon -> Nat]
  BY DEF Fine, Shaped, World, Good
<1>13. PICK S \in SUBSET Timer : Timers(px[m], S)
  <2>1. PICK h : h = Here(m)
    OBVIOUS
  <2>2. Sound(m, px[m], h, T[m], W, net[m], Column(net, m)) /\ Timed(h.role, h.s) /\ h.s = px[m]
    BY <1>11, <2>1 DEF Starts
  <2>3. \E S \in SUBSET Timer : Timers(h.s, S)
    BY <2>2, TimedHas
  <2>. QED BY <2>2, <2>3
<1>14. PICK pn : ElectDoes(m, px[m], e, Q, pn, w)
  <2>1. PICK s : s = px[m]
    OBVIOUS
  <2>2. s \in LooseState /\ c = Context(s, "leader", e) /\ Timers(s, S) /\ b \in BOOLEAN
    BY <1>8, <1>9, <1>12, <1>13, <2>1
  <2>3. \E pn : ElectDoes(m, s, e, Q, pn, w)
    BY <1>1, <1>10, <2>2, ElectIs
  <2>. QED BY <2>1, <2>3
<1>15. w.ok /\ w \in Contexts /\ w.epoch = e /\ w.role = "leader" /\ Store(m, w) = w.s
  BY <1>14 DEF ElectDoes, Store
<1>16. ElectedIn(m, e, C, w)
  <2>1. w = Collect([Send(Enter(IF m \in C THEN LeaveQuorum(c, e) ELSE c, m, Q),
                          Q \ {m}, [Msg(c, "victory") EXCEPT !.quorum = Q]) EXCEPT !.role = "leader"], m, 0)
    BY <1>9, <1>10, Zenon DEF Victorious
  <2>2. /\ epoch' = [q \in Mon |-> IF q = m THEN e ELSE IF q \in C THEN e - 1 ELSE epoch[q]]
        /\ role' = [q \in Mon |-> IF q = m THEN "leader" ELSE IF q \in C THEN "out" ELSE role[q]]
    BY <1>2, Zenon DEF Elect
  <2>3. px' = [q \in Mon |-> IF q = m THEN Store(m, w)
                             ELSE IF q \in C THEN LeaveQuorum(Here(q), e - 1).s ELSE px[q]]
    BY <1>2, <1>8, <2>1, Zenon DEF Elect
  <2>4. net' = Deliverable(With(m, net, w))
    BY <1>2, <1>8, <2>1, Zenon DEF Elect, With
  <2>. QED BY <1>15, <2>2, <2>3, <2>4 DEF ElectedIn
<1>17. C \in SUBSET Mon /\ f \in Nat /\ f = e - 1 /\ (f + 1) % 2 = 0 /\ (\A q \in C : epoch[q] < f)
  BY <1>3, <1>4, <1>5
<1>18. Elects(m, e, Q, C, f, pn, w)
  BY <1>6, <1>7, <1>14, <1>16, <1>17 DEF Elects
<1>. QED BY <1>18

LEMMA ElectStep ==
  ASSUME NEW m \in Mon, NEW T, NEW W, NEW e \in VictoryEpoch, NEW Q \in Majorities,
         Fine(epoch, role, px, net), World(T, W), Elect(m, e, Q)
  PROVE  Progress
<1>1. e \in Nat /\ e >= 1 /\ e % 2 = 0 /\ e - 1 \in Nat /\ Q \in SUBSET Mon
  BY BoundAssumption DEF VictoryEpoch, Majorities
<1>2. PICK C, f, pn, w : Elects(m, e, Q, C, f, pn, w)
  BY ElectsSo
<1>3. C \in SUBSET Mon
  BY <1>2 DEF Elects
<1>4. f = e - 1
  BY <1>2 DEF Elects
<1>5. f \in Nat /\ e = f + 1 /\ (f + 1) % 2 = 0 /\ (\A q \in C : epoch[q] < f)
  BY <1>1, <1>2, <1>4 DEF Elects
<1>6. m \in Q /\ epoch[m] < e
  BY DEF Elect
<1>7. m \notin C => epoch[m] = f
  BY <1>2 DEF Elects
<1>12. px[m] \in LooseState /\ net \in [Mon -> Queues] /\ T \in [Mon -> SUBSET Mon] /\ W \in Worlds
       /\ epoch \in [Mon -> Nat]
  BY DEF Fine, Shaped, World, Good
<1>14. ElectDoes(m, px[m], e, Q, pn, w)
  BY <1>2 DEF Elects
<1>15. w.ok /\ w \in Contexts /\ w.epoch = e /\ w.role = "leader" /\ Store(m, w) = w.s
  BY <1>14 DEF ElectDoes, Store
<1>16. ElectedIn(m, e, C, w)
  BY <1>2 DEF Elects
<1>17. PICK W1 : W1 = LeftWorld(C, f, T, W)
  OBVIOUS
<1>18. PICK R : R = Delivered(net, W1)
  OBVIOUS
<1>19. Good(W1, R) /\ \A q \in C : LeavesFor(q, f, T[q], LeaveQuorum(Here(q), f))
  BY <1>3, <1>5, <1>17, <1>18, CallersGood
<1>20. W1[m].role = "out" /\ W1[m].epoch = f /\ SameLog(px[m], W1[m].s)
  BY <1>3, <1>5, <1>7, <1>17, WinnerIsOut
<1>21. PICK I : I = Column(R, m)
  OBVIOUS
<1>22. px[m].last_committed \in Nat /\ Grown(px[m], px[m])
  BY <1>12, MonTypes DEF LooseState, Grown
<1>23. Sound(m, px[m], w, {m}, W1, R[m], I) /\ Timed(w.role, w.s)
  <2>1. PICK s : s = px[m]
    OBVIOUS
  <2>2. /\ s \in LooseState /\ Grown(s, s) /\ SameLog(s, W1[m].s) /\ ElectDoes(m, s, e, Q, pn, w)
        /\ W1[m].role = "out" /\ e = W1[m].epoch + 1
    BY <1>5, <1>12, <1>14, <1>20, <1>22, <2>1
  <2>3. Sound(m, s, w, {m}, W1, R[m], I) /\ Timed(w.role, w.s)
    BY <1>1, <1>6, <1>19, <1>21, <2>2, SoundElect
  <2>. QED BY <2>1, <2>3
<1>24. W1 \in Worlds /\ R \in [Mon -> Queues] /\ I \in Queues /\ I[m] = <<>>
  BY <1>19, <1>21 DEF Good, Column, Queues
<1>25. Kept(I, NodeOf(w, {m})) = I
  BY <1>23, <1>24, KeptSame
<1>26. PICK A2 : A2 = NodeOf(w, {m})
  OBVIOUS
<1>27. A2 \in Node /\ A2.epoch = e /\ A2.role = "leader" /\ A2.s = w.s /\ A2.T = {m}
  BY <1>15, <1>26, NodeIs
<1>28. PICK W2 : W2 = [W1 EXCEPT ![m] = A2]
  OBVIOUS
<1>29. W2 \in Worlds /\ W2[m] = A2 /\ \A q \in Mon \ {m} : W2[q] = W1[q]
  BY <1>24, <1>27, <1>28 DEF Worlds
<1>30. PICK X1 : X1 = With(m, R, w)
  OBVIOUS
<1>31. Handed(m, R, X1, w, I)
  <2>1. \A j \in Mon : X1[m][j] = R[m][j] \o w.out[j]
    BY <1>24, <1>30 DEF With
  <2>2. \A i \in Mon \ {m} : X1[i] = R[i]
    BY <1>24, <1>30 DEF With
  <2>3. \A i \in Mon : I[i] = R[i][m]
    BY <1>21 DEF Column
  <2>. QED BY <2>1, <2>2, <2>3 DEF Handed
<1>32. Good(W2, Delivered(X1, W2))
  <2>1. W1[m].epoch <= w.epoch
    BY <1>5, <1>15, <1>20
  <2>2. Sound(m, px[m], w, {m}, W1, R[m], Kept(I, NodeOf(w, {m})))
    BY <1>23, <1>25
  <2>3. W2 = [W1 EXCEPT ![m] = NodeOf(w, {m})]
    BY <1>26, <1>28
  <2>. QED BY <1>19, <1>24, <1>31, <2>1, <2>2, <2>3, FinishGood
<1>33. PICK T2 : T2 = [T EXCEPT ![m] = {m}]
  OBVIOUS
<1>34. T2 \in [Mon -> SUBSET Mon] /\ T2[m] = {m} /\ \A q \in Mon \ {m} : T2[q] = T[q]
  BY <1>12, <1>33
<1>35. \A q \in C : LeaveDoes(Here(q), f, LeaveQuorum(Here(q), f))
  BY <1>19 DEF LeavesFor
<1>36. ASSUME NEW q \in Mon
       PROVE  W2[q] = [epoch |-> epoch'[q], role |-> role'[q], s |-> px'[q], T |-> T2[q]]
  <2>1. CASE q = m
    <3>1. epoch'[q] = e /\ role'[q] = "leader" /\ px'[q] = w.s
      BY <1>16, <2>1 DEF ElectedIn
    <3>2. A2 = [epoch |-> e, role |-> "leader", s |-> w.s, T |-> {m}]
      BY <1>15, <1>26 DEF NodeOf
    <3>. QED BY <1>29, <1>34, <2>1, <3>1, <3>2
  <2>2. CASE q # m /\ q \in C
    <3>1. epoch'[q] = f /\ role'[q] = "out" /\ px'[q] = LeaveQuorum(Here(q), f).s
      BY <1>4, <1>16, <2>2 DEF ElectedIn
    <3>2. W1[q] = NodeOf(LeaveQuorum(Here(q), f), T[q])
      BY <1>17, <2>2 DEF LeftWorld
    <3>3. PICK d : d = LeaveQuorum(Here(q), f)
      OBVIOUS
    <3>4. d.epoch = f /\ d.role = "out"
      BY <1>35, <2>2, <3>3 DEF LeaveDoes
    <3>5. W1[q] = [epoch |-> f, role |-> "out", s |-> d.s, T |-> T[q]]
      BY <3>2, <3>3, <3>4 DEF NodeOf
    <3>. QED BY <1>29, <1>34, <2>2, <3>1, <3>3, <3>5
  <2>3. CASE q # m /\ q \notin C
    <3>1. epoch'[q] = epoch[q] /\ role'[q] = role[q] /\ px'[q] = px[q]
      BY <1>16, <2>3 DEF ElectedIn
    <3>2. W1[q] = W[q]
      BY <1>17, <2>3 DEF LeftWorld
    <3>3. W[q] = [epoch |-> epoch[q], role |-> role[q], s |-> px[q], T |-> T[q]]
      BY DEF World, WorldOf
    <3>. QED BY <1>29, <1>34, <2>3, <3>1, <3>2, <3>3
  <2>. QED BY <2>1, <2>2, <2>3
<1>37. W2 = WorldOf(epoch', role', px', T2)
  BY <1>29, <1>36 DEF WorldOf, Worlds
<1>38. net' = Delivered(X1, W2)
  <2>1. With(m, net, w) \in [Mon -> Queues]
    <3>1. \A j \in Mon : net[m][j] \in Messages /\ w.out[j] \in Messages
      BY <1>12, <1>15 DEF Queues, Contexts
    <3>2. \A j \in Mon : net[m][j] \o w.out[j] \in Messages
      BY <3>1, ConcatProperties DEF Messages
    <3>. QED BY <1>12, <3>2 DEF With, Queues
  <2>2. \A j \in Mon : W2[j].epoch = epoch'[j] /\ W2[j].role = role'[j]
    BY <1>37 DEF WorldOf
  <2>3. net' = Delivered(With(m, net, w), W2)
    BY <1>16, <2>1, <2>2, DeliverableIs DEF ElectedIn
  <2>4. ASSUME NEW i \in Mon, NEW j \in Mon
        PROVE  Ordered(net[i][j]) /\ \A k \in DOMAIN net[i][j] : net[i][j][k].epoch <= epoch[i]
    <3>1. CASE i = j
      <4>1. net[i][j] = <<>>
        BY <3>1 DEF World, Good
      <4>. QED BY <4>1, EmptyQueue
    <3>2. CASE i # j
      <4>1. Queue(i, j, W[i], W[j], net[i][j])
        BY <3>2 DEF World, Good, Pair
      <4>2. W[i].epoch = epoch[i]
        BY DEF World, WorldOf
      <4>3. Ordered(net[i][j]) /\ \A k \in DOMAIN net[i][j] : net[i][j][k].epoch <= W[i].epoch
        BY <4>1, QueueOrdered
      <4>. QED BY <4>2, <4>3
    <3>. QED BY <3>1, <3>2
  <2>5. ASSUME NEW j \in Mon PROVE \A k \in DOMAIN net[m][j] : net[m][j][k].epoch <= w.epoch
    <3>1. PICK q : q = net[m][j]
      OBVIOUS
    <3>2. q \in Messages /\ \A k \in DOMAIN q : q[k].epoch <= epoch[m]
      BY <1>12, <2>4, <3>1 DEF Queues
    <3>3. \A k \in DOMAIN q : q[k].epoch \in Nat
      BY <3>2, MessageTypes
    <3>4. epoch[m] \in Nat /\ epoch[m] < w.epoch /\ w.epoch \in Nat
      BY <1>1, <1>6, <1>12, <1>15
    <3>5. \A k \in DOMAIN q : q[k].epoch <= w.epoch
      BY <3>2, <3>3, <3>4
    <3>. QED BY <3>1, <3>5
  <2>6. \A j \in Mon : \A k \in DOMAIN w.out[j] : w.out[j][k].epoch = w.epoch
    BY <1>23 DEF Sound
  <2>7. ASSUME NEW j \in Mon, NEW g \in Nat PROVE IsCurrent(g, W1[j]) <=> IsCurrent(g, W2[j])
    <3>1. CASE j = m
      BY <1>5, <1>20, <1>27, <1>29, <3>1 DEF IsCurrent
    <3>2. CASE j # m
      BY <1>29, <3>2
    <3>. QED BY <3>1, <3>2
  <2>8. Delivered(With(m, net, w), W2) = Delivered(With(m, R, w), W2)
    <3>1. Addable(m, net, w)
      BY <2>4, <2>5, <2>6 DEF Addable, Follow
    <3>2. SameCurrent(W1, W2)
      BY <2>7 DEF SameCurrent
    <3>. QED BY <1>12, <1>15, <1>18, <1>24, <1>29, <3>1, <3>2, SameDelivered
  <2>. QED BY <1>30, <2>3, <2>8
<1>39. Good(W2, net')
  BY <1>32, <1>38
<1>40. ASSUME NEW q \in Mon PROVE Timed(role'[q], px'[q]) /\ Grown(px[q], px'[q])
  <2>1. CASE q = m
    <3>1. role'[q] = "leader" /\ px'[q] = w.s
      BY <1>16, <2>1 DEF ElectedIn
    <3>. QED BY <1>15, <1>23, <2>1, <3>1 DEF Sound
  <2>2. CASE q # m /\ q \in C
    <3>1. PICK d : d = LeaveQuorum(Here(q), f)
      OBVIOUS
    <3>2. role'[q] = "out" /\ px'[q] = d.s
      BY <1>4, <1>16, <2>2, <3>1 DEF ElectedIn
    <3>3. d.role = "out"
      BY <1>35, <2>2, <3>1 DEF LeaveDoes
    <3>. QED BY <1>19, <2>2, <3>1, <3>2, <3>3 DEF LeavesFor
  <2>3. CASE q # m /\ q \notin C
    <3>1. role'[q] = role[q] /\ px'[q] = px[q]
      BY <1>16, <2>3 DEF ElectedIn
    <3>2. px[q].last_committed \in Nat
      BY MonTypes DEF Fine, Shaped, LooseState
    <3>. QED BY <3>1, <3>2 DEF Fine, Grown
  <2>. QED BY <2>1, <2>2, <2>3
<1>41. Shaped(epoch', role', px', net')
  <2>1. \A q \in Mon : epoch'[q] \in Nat /\ role'[q] \in {"out", "leader", "peon"} /\ px'[q] \in LooseState
    <3>1. ASSUME NEW q \in Mon
          PROVE  epoch'[q] \in Nat /\ role'[q] \in {"out", "leader", "peon"} /\ px'[q] \in LooseState
      <4>1. PICK B : B = W2[q]
        OBVIOUS
      <4>2. B \in Node /\ B.epoch = epoch'[q] /\ B.role = role'[q] /\ B.s = px'[q]
        BY <1>29, <1>36, <4>1 DEF Worlds
      <4>. QED BY <4>2, NodeTypes
    <3>. QED BY <3>1
  <2>2. epoch' \in [Mon -> Nat]
    BY <1>16, <2>1 DEF ElectedIn
  <2>3. role' \in [Mon -> {"out", "leader", "peon"}]
    BY <1>16, <2>1 DEF ElectedIn
  <2>4. px' \in [Mon -> LooseState]
    BY <1>16, <2>1 DEF ElectedIn
  <2>5. net' \in [Mon -> Queues]
    BY <1>39 DEF Good
  <2>. QED BY <2>2, <2>3, <2>4, <2>5 DEF Shaped
<1>42. Fine(epoch', role', px', net')
  BY <1>34, <1>37, <1>39, <1>40, <1>41 DEF Fine
<1>43. ASSUME NEW q \in Mon PROVE Retains(q)
  <2>1. CASE q = m
    <3>1. epoch'[q] = e /\ epoch[q] \in Nat
      BY <1>12, <1>16, <2>1 DEF ElectedIn
    <3>2. epoch'[q] # epoch[q]
      BY <1>1, <1>6, <2>1, <3>1
    <3>. QED BY <3>2 DEF Retains
  <2>2. CASE q # m /\ q \in C
    <3>1. role'[q] = "out"
      BY <1>16, <2>2 DEF ElectedIn
    <3>. QED BY <3>1 DEF Retains
  <2>3. CASE q # m /\ q \notin C
    <3>1. px'[q] = px[q]
      BY <1>16, <2>3 DEF ElectedIn
    <3>. QED BY <3>1 DEF Retains
  <2>. QED BY <2>1, <2>2, <2>3
<1>. QED BY <1>40, <1>42, <1>43 DEF Progress, Advance

-----------------------------------------------------------------------------
(* The invariant holds all the time *)

IInv == Fine(epoch, role, px, net) /\ SpentOK

(* A monitor that has just been set up. *)
Fresh(A) ==
  /\ A \in Node /\ A.epoch = 1 /\ A.role = "out" /\ A.T = {}
  /\ A.s.state = "recovering" /\ A.s.leader = -1 /\ A.s.lease = FALSE
  /\ A.s.last_pn = 0 /\ A.s.accepted_pn = 0 /\ A.s.stored_pn = 0
  /\ A.s.last_committed = 0 /\ A.s.values = NoValues /\ A.s.new_value = NoValue
  /\ A.s.quorum = {}

LEMMA FreshLocal ==
  ASSUME NEW m \in Mon, NEW A, Fresh(A)
  PROVE  Local(m, A)
<1>1. \A v : At(NoValues, v) = NoValue
  BY DEF At, NoValues
<1>2. \A v \in Version : NoValues[v] = NoValue /\ ~(v <= 0)
  BY BoundAssumption DEF Version, NoValues
<1>3. Logged(A.s)
  BY <1>1, <1>2 DEF Fresh, Logged
<1>4. Numbers(m, A.s)
  BY DEF Fresh, Numbers
<1>. QED BY <1>3, <1>4 DEF Fresh, Local

LEMMA FreshPair ==
  ASSUME NEW m \in Mon, NEW j \in Mon, NEW A, NEW B, Fresh(A), Fresh(B)
  PROVE  Pair(m, j, A, B, <<>>, <<>>)
<1>1. <<>> \in Messages /\ DOMAIN <<>> = {}
  BY EmptySeq DEF Messages
<1>2. ASSUME NEW x, NEW y, NEW X, NEW Y, Fresh(X), Fresh(Y)
      PROVE  Queue(x, y, X, Y, <<>>) /\ Link(x, y, X, Y, <<>>, <<>>)
  <2>1. Queue(x, y, X, Y, <<>>)
    BY <1>1 DEF Queue
  <2>2. Below(Y.s, X.s.last_pn + 1, x)
    BY <1>2 DEF Below, Fresh
  <2>3. X.role = "out" /\ Y.role = "out"
    BY <1>2 DEF Fresh
  <2>4. Told(x, y, X, Y, <<>>) /\ Asked(x, X, Y, <<>>) /\ Answered(x, y, X, Y, <<>>, <<>>)
    BY <1>1, <2>2, <2>3 DEF Told, Asked, Answered
  <2>5. Informed(x, y, X, Y, <<>>, <<>>) /\ Round(x, y, X, Y, <<>>, <<>>)
        /\ Leased(x, y, X, Y, <<>>, <<>>)
    BY <2>3 DEF Informed, Round, Leased
  <2>. QED BY <2>1, <2>4, <2>5 DEF Link
<1>. QED BY <1>1, <1>2 DEF Pair

LEMMA InitFine == Init => IInv
<1>. SUFFICES ASSUME Init PROVE IInv
  OBVIOUS
<1>1. SpentOK
  BY DEF Init, SpentOK
<1>2. NoValues \in [Version -> Value] /\ 0 \in 0 .. MaxOp
  BY BoundAssumption DEF NoValues, Value, NoValue
<1>3. \A m \in Mon : px[m] \in LooseState
  <2>1. [q \in Mon |-> -1] \in [Mon -> Int] /\ [t \in Timer |-> 0] \in [Timer -> Nat]
    OBVIOUS
  <2>2. "recovering" \in State /\ NoValue \in Value
    BY DEF State, NoValue, Value
  <2>. QED BY <1>2, <2>1, <2>2 DEF Init, LooseState
<1>4. /\ epoch = [m \in Mon |-> 1] /\ role = [m \in Mon |-> "out"]
      /\ net = [i \in Mon |-> [j \in Mon |-> <<>>]]
  BY DEF Init
<1>5. px \in [Mon -> LooseState]
  BY <1>3 DEF Init
<1>6. [j \in Mon |-> <<>>] \in Queues
  BY EmptySeq DEF Queues, Messages
<1>7. Shaped(epoch, role, px, net)
  BY <1>4, <1>5, <1>6 DEF Shaped
<1>8. PICK T : T = [m \in Mon |-> {}]
  OBVIOUS
<1>9. PICK W : W = WorldOf(epoch, role, px, T)
  OBVIOUS
<1>10. \A m \in Mon : W[m].epoch = epoch[m] /\ W[m].role = role[m] /\ W[m].T = T[m] /\ W[m].s = px[m]
  BY <1>9 DEF WorldOf
<1>11. W \in Worlds
  BY <1>4, <1>5, <1>8, <1>9 DEF WorldOf, Worlds, Node
<1>12. ASSUME NEW m \in Mon PROVE Fresh(W[m])
  <2>1. W[m] \in Node
    BY <1>11 DEF Worlds
  <2>2. /\ px[m].state = "recovering" /\ px[m].leader = -1 /\ px[m].lease = FALSE
        /\ px[m].last_pn = 0 /\ px[m].accepted_pn = 0 /\ px[m].stored_pn = 0
        /\ px[m].last_committed = 0 /\ px[m].values = NoValues /\ px[m].new_value = NoValue
        /\ px[m].quorum = {}
    BY DEF Init
  <2>3. W[m].epoch = epoch[m] /\ W[m].role = role[m] /\ W[m].T = T[m] /\ W[m].s = px[m]
    BY <1>10
  <2>4. epoch[m] = 1 /\ role[m] = "out" /\ T[m] = {}
    BY <1>4, <1>8
  <2>. QED BY <2>1, <2>2, <2>3, <2>4 DEF Fresh
<1>13. \A m \in Mon : Local(m, W[m]) /\ net[m][m] = <<>>
  BY <1>4, <1>12, FreshLocal
<1>14. \A m \in Mon : \A j \in Mon \ {m} : Pair(m, j, W[m], W[j], net[m][j], net[j][m])
  <2>1. \A m, j \in Mon : net[m][j] = <<>>
    BY <1>4
  <2>2. ASSUME NEW m \in Mon, NEW j \in Mon PROVE Pair(m, j, W[m], W[j], <<>>, <<>>)
    BY <1>12, FreshPair
  <2>. QED BY <2>1, <2>2
<1>15. Good(W, net)
  BY <1>7, <1>11, <1>13, <1>14 DEF Good, Shaped
<1>16. T \in [Mon -> SUBSET Mon]
  BY <1>8
<1>17. \A m \in Mon : Timed(role[m], px[m])
  <2>1. ASSUME NEW m \in Mon PROVE px[m].timers = [t \in Timer |-> 0] /\ role[m] = "out"
    BY DEF Init
  <2>. QED BY <2>1 DEF Timed, Timers
<1>. QED BY <1>1, <1>7, <1>9, <1>15, <1>16, <1>17 DEF IInv, Fine

(* Every step keeps the invariant, no log shrinks in it, and a leader drops no
   operation. *)
LEMMA StepProgress ==
  ASSUME IInv, NEW m \in Mon, Step(m)
  PROVE  Progress /\ SpentOK'
<1>1. PICK T \in [Mon -> SUBSET Mon] : Good(WorldOf(epoch, role, px, T), net)
  BY DEF IInv, Fine
<1>2. PICK W : W = WorldOf(epoch, role, px, T)
  OBVIOUS
<1>3. World(T, W) /\ Shaped(epoch, role, px, net) /\ Timed(role[m], px[m])
      /\ Fine(epoch, role, px, net) /\ SpentOK
  BY <1>1, <1>2 DEF World, IInv, Fine
<1>4. PICK I : I = Column(net, m)
  OBVIOUS
<1>5. Starts(m, Here(m), T[m], W, I)
  BY <1>3, <1>4, HereStarts
<1>6. ASSUME NEW what \in {"op", "renew", "timeout", "crash"}, NEW max, Spend(what, max)
      PROVE  SpentOK'
  BY <1>3, <1>6 DEF Spend, SpentOK
<1>7. ASSUME NEW e \in VictoryEpoch, NEW Q \in Majorities, Elect(m, e, Q) PROVE Progress /\ SpentOK'
  <2>1. Progress
    BY <1>3, <1>7, ElectStep
  <2>2. spent' = spent
    BY <1>7 DEF Elect
  <2>. QED BY <1>3, <2>1, <2>2 DEF SpentOK
<1>8. ASSUME NEW i \in Mon, Deliver(i, m) PROVE Progress /\ SpentOK'
  <2>1. Progress
    BY <1>3, <1>4, <1>5, <1>8, DeliverStep
  <2>. QED BY <1>3, <1>8, <2>1 DEF SpentOK, Deliver
<1>9. ASSUME CommitFinish(m) PROVE Progress /\ SpentOK'
  <2>1. Progress
    BY <1>3, <1>4, <1>5, <1>9, CommitFinishStep
  <2>. QED BY <1>3, <1>9, <2>1 DEF SpentOK, CommitFinish
<1>10. ASSUME Propose(m) PROVE Progress /\ SpentOK'
  <2>1. Progress
    BY <1>3, <1>4, <1>5, <1>10, ProposeStep
  <2>2. Spend("op", MaxOp)
    BY <1>10 DEF Propose
  <2>. QED BY <1>6, <2>1, <2>2
<1>11. ASSUME NEW t \in Timer \ {"lease_renew"}, Timeout(m, t) PROVE Progress /\ SpentOK'
  <2>1. Progress
    BY <1>3, <1>4, <1>5, <1>11, TimeoutStep
  <2>2. Spend("timeout", MaxTimeout)
    BY <1>11 DEF Timeout, Disturb
  <2>. QED BY <1>6, <2>1, <2>2
<1>12. ASSUME LeaseRenew(m) PROVE Progress /\ SpentOK'
  <2>1. Progress
    BY <1>3, <1>4, <1>5, <1>12, RenewStep
  <2>2. Spend("renew", MaxRenew)
    BY <1>12 DEF LeaseRenew, Disturb
  <2>. QED BY <1>6, <2>1, <2>2
<1>13. ASSUME Crash(m) PROVE Progress /\ SpentOK'
  <2>1. Progress
    BY <1>3, <1>4, <1>5, <1>13, CrashStep
  <2>2. Spend("crash", MaxCrash)
    BY <1>13 DEF Crash, Disturb
  <2>. QED BY <1>6, <2>1, <2>2
<1>. QED BY <1>7, <1>8, <1>9, <1>10, <1>11, <1>12, <1>13 DEF Step

LEMMA NextProgress ==
  ASSUME IInv, [Next]_vars
  PROVE  Progress /\ SpentOK'
<1>1. ASSUME Next PROVE Progress /\ SpentOK'
  <2>1. PICK m \in Mon : Step(m)
    BY <1>1 DEF Next
  <2>. QED BY <2>1, StepProgress
<1>2. ASSUME UNCHANGED vars PROVE Progress /\ SpentOK'
  <2>1. /\ epoch' = epoch /\ role' = role /\ px' = px /\ net' = net /\ acked' = acked
        /\ spent' = spent
    BY <1>2 DEF vars
  <2>2. Fine(epoch', role', px', net') /\ SpentOK'
    BY <2>1 DEF IInv, SpentOK
  <2>3. Advance(px, px')
    <3>1. \A m \in Mon : px[m].last_committed \in 0 .. MaxOp
      BY DEF IInv, Fine, Shaped, LooseState
    <3>. QED BY <2>1, <3>1, BoundAssumption DEF Advance, Grown
  <2>4. \A m \in Mon : Retains(m)
    BY <2>1 DEF Retains
  <2>. QED BY <2>2, <2>3, <2>4 DEF Progress
<1>. QED BY <1>1, <1>2

LEMMA InvariantStep ==
  IInv /\ [Next]_vars => IInv'
<1>. SUFFICES ASSUME IInv, [Next]_vars PROVE IInv'
  OBVIOUS
<1>1. Progress /\ SpentOK'
  BY NextProgress
<1>. QED BY <1>1 DEF Progress, IInv

(* What the leader of a quorum, its peons and the messages between them know of
   each other stays in step, whatever the order in which handlers, timeouts,
   elections, crashes and the callback of a commit interleave. *)
THEOREM Invariant == Spec => []IInv
BY InitFine, InvariantStep, PTL DEF Spec

(* The parts of the invariant that the properties rest on. *)
LEMMA InvariantParts ==
  ASSUME IInv
  PROVE  \E T : \E W : /\ World(T, W) /\ W \in Worlds
                       /\ \A m \in Mon : /\ W[m].s = px[m] /\ W[m].role = role[m] /\ W[m].epoch = epoch[m]
                                         /\ Local(m, W[m]) /\ Timed(role[m], px[m])
                                         /\ px[m] \in LooseState /\ role[m] \in {"out", "leader", "peon"}
<1>1. PICK T \in [Mon -> SUBSET Mon] : Good(WorldOf(epoch, role, px, T), net)
  BY DEF IInv, Fine
<1>2. PICK W : W = WorldOf(epoch, role, px, T)
  OBVIOUS
<1>3. World(T, W) /\ W \in Worlds /\ \A m \in Mon : Local(m, W[m])
  BY <1>1, <1>2 DEF World, Good
<1>4. \A m \in Mon : W[m].s = px[m] /\ W[m].role = role[m] /\ W[m].epoch = epoch[m]
  BY <1>2 DEF WorldOf
<1>5. \A m \in Mon : /\ Timed(role[m], px[m]) /\ px[m] \in LooseState
                     /\ role[m] \in {"out", "leader", "peon"}
  BY DEF IInv, Fine, Shaped
<1>. QED BY <1>3, <1>4, <1>5

LEMMA NobodyAborts == IInv => NoAssertFails
<1>. SUFFICES ASSUME IInv, NEW m \in Mon PROVE Alive(m)
  BY DEF NoAssertFails
<1>1. PICK A : Local(m, A) /\ A.s = px[m] /\ A.role = role[m]
  BY InvariantParts
<1>2. role[m] \in {"out", "leader", "peon"}
  BY DEF IInv, Fine, Shaped
<1>3. px[m].state # "aborted"
  BY <1>1, <1>2 DEF Local, Proposing, Updating, InWriting
<1>. QED BY <1>3 DEF Alive

(* No assert of collect(), handle_collect(), begin(), handle_begin(),
   handle_accept(), commit_finish(), extend_lease(), finish_round(), dispatch()
   or of a timeout ever fails: the session between a leader and its peons never
   gets out of step, for any number of monitors. *)
THEOREM AssertsHold == Spec => []NoAssertFails
BY Invariant, NobodyAborts, PTL

LEMMA RecordedByInvariant == IInv => PendingIsRecorded
<1>. SUFFICES ASSUME IInv, NEW m \in Mon, At(px[m].values, px[m].last_committed + 1) # NoValue
              PROVE  px[m].pending_v = px[m].last_committed + 1 /\ px[m].pending_pn # 0
  BY DEF PendingIsRecorded
<1>1. PICK A : Local(m, A) /\ A.s = px[m]
  BY InvariantParts
<1>. QED BY <1>1 DEF Local, Logged

(* begin() and handle_begin() store the number together with the value, and no
   later step of anybody separates the two: the fallback in collect() and
   handle_collect() for a value without a number is never taken. *)
THEOREM FallbackIsNotNeeded == Spec => []PendingIsRecorded
BY Invariant, RecordedByInvariant, PTL

LEMMA TimersByInvariant == IInv => TimersMatchState
<1>. SUFFICES ASSUME IInv, NEW m \in Mon, NEW t \in Timer, px[m].timers[t] > 0
              PROVE  /\ px[m].timers[t] = 1
                     /\ IF t = "lease_renew" THEN role[m] = "leader" /\ px[m].state = "active"
                                             ELSE TimeoutAllowed(m, t)
  BY DEF TimersMatchState
<1>1. PICK T : \E W : World(T, W)
  BY InvariantParts
<1>2. PICK W : World(T, W)
  BY <1>1
<1>3. Shaped(epoch, role, px, net) /\ Timed(role[m], px[m])
  BY DEF IInv, Fine
<1>4. PICK I : I = Column(net, m)
  OBVIOUS
<1>5. Starts(m, Here(m), T[m], W, I)
  BY <1>2, <1>3, <1>4, HereStarts
<1>. QED BY <1>5, TimerMayFire

(* Whenever a timer is armed, the assert at the top of its timeout holds: a
   timeout that fires between any two handlers finds the role and the state it
   expects, and no timer event is leaked by arming it twice. *)
THEOREM TimersAreRight == Spec => []TimersMatchState
BY Invariant, TimersByInvariant, PTL

LEMMA WaitsByInvariant == IInv => WaitsWithTimer
<1>. SUFFICES ASSUME IInv, NEW m \in Mon
              PROVE  /\ role[m] = "peon" => px[m].timers["lease"] > 0
                     /\ role[m] = "leader" =>
                          CASE px[m].state = "recovering" -> px[m].timers["collect"] > 0
                            [] px[m].state \in {"updating", "updating_previous"} -> px[m].timers["accept"] > 0
                            [] px[m].state = "active" -> px[m].timers["lease_renew"] > 0
                            [] OTHER -> Writing(m)
  BY DEF WaitsWithTimer
<1>1. PICK A : Local(m, A) /\ A.s = px[m] /\ A.role = role[m]
  BY InvariantParts
<1>2. Timed(role[m], px[m])
  BY DEF IInv, Fine
<1>3. {"collect", "accept", "lease_renew", "lease"} \subseteq Timer
  BY DEF Timer
<1>4. ASSUME NEW S, NEW t \in S, t \in Timer, Timers(px[m], S) PROVE px[m].timers[t] > 0
  BY <1>4 DEF Timers
<1>5. role[m] = "peon" => px[m].timers["lease"] > 0
  BY <1>2, <1>3, <1>4 DEF Timed
<1>6. ASSUME role[m] = "leader"
      PROVE  /\ px[m].state = "recovering" => px[m].timers["collect"] > 0
             /\ px[m].state \in Updating => px[m].timers["accept"] > 0
             /\ px[m].state = "active" => px[m].timers["lease_renew"] > 0
  BY <1>2, <1>3, <1>4, <1>6 DEF Timed
<1>7. role[m] = "leader" => px[m].state \in Proposing \union {"recovering", "active"}
  BY <1>1 DEF Local
<1>8. role[m] = "leader" => \/ px[m].state = "recovering" \/ px[m].state \in Updating
                            \/ px[m].state = "active" \/ Writing(m)
  BY <1>7 DEF Proposing, Updating, InWriting, Writing
<1>. QED BY <1>5, <1>6, <1>8 DEF Updating, Writing

(* A peon always has its lease timeout armed, and a leader the timeout of what
   it waits for or its renewal: no order of events leaves a monitor of a quorum
   waiting for a message that is lost with nothing to wake it. *)
THEOREM NobodyWaitsForever == Spec => []WaitsWithTimer
BY Invariant, WaitsByInvariant, PTL

LEMMA ReadsByInvariant == IInv => NoStaleRead
<1>. SUFFICES ASSUME IInv, NEW q \in Mon, NEW l \in Mon,
                     Readable(q), role[l] = "leader", px[q].leader = l, epoch[q] = epoch[l]
              PROVE  px[q].last_committed >= px[l].last_committed
  BY DEF NoStaleRead
<1>1. PICK T, W : /\ World(T, W)
                  /\ \A m \in Mon : /\ W[m].s = px[m] /\ W[m].role = role[m] /\ W[m].epoch = epoch[m]
                                    /\ Local(m, W[m])
  BY InvariantParts
<1>2. px[q].last_committed \in Nat /\ px[l].last_committed \in Nat
  BY BoundAssumption DEF IInv, Fine, Shaped, LooseState
<1>3. CASE q = l
  BY <1>2, <1>3
<1>4. CASE q # l
  <2>1. role[q] \in {"out", "leader", "peon"} /\ role[q] # "out" /\ px[q].lease
    BY DEF IInv, Fine, Shaped, Readable
  <2>2. role[q] # "leader"
    BY <1>1, <1>4 DEF Local, Leading
  <2>3. Follows(W[q], l, W[l].epoch)
    BY <1>1, <2>1, <2>2 DEF Follows
  <2>4. Pair(l, q, W[l], W[q], net[l][q], net[q][l])
    BY <1>1, <1>4 DEF World, Good
  <2>5. Leased(l, q, W[l], W[q], net[l][q], net[q][l])
    BY <2>4 DEF Pair, Link
  <2>6. W[q].s.last_committed = W[l].s.last_committed
    BY <1>1, <2>1, <2>3, <2>5 DEF Leased
  <2>. QED BY <1>1, <1>2, <2>6
<1>. QED BY <1>3, <1>4

(* is_readable() tells the truth: handle_begin() takes the lease away before a
   peon accepts, and a leader commits once the whole quorum has accepted, so that a
   peon that still has its lease has all that its leader has committed.  A lease
   that is under way is out of date or follows the commit it is about. *)
THEOREM ReadsAreFresh == Spec => []NoStaleRead
BY Invariant, ReadsByInvariant, PTL

(* No handler, store_state() with versions of another monitor, commit_finish()
   or restart after a crash takes a committed version out of a log or writes
   over it. *)
THEOREM LogsOnlyGrow == Spec => LogOnlyGrows
<1>1. ASSUME IInv, [Next]_vars
      PROVE  \A m \in Mon : /\ px'[m].last_committed >= px[m].last_committed
                            /\ \A v \in Committed(m) : px'[m].values[v] = px[m].values[v]
  <2>1. Advance(px, px') /\ Fine(epoch', role', px', net')
    BY <1>1, NextProgress DEF Progress
  <2>2. ASSUME NEW m \in Mon
        PROVE  px'[m].last_committed \in 0 .. MaxOp /\ px[m].last_committed \in 0 .. MaxOp
    BY <1>1, <2>1 DEF IInv, Fine, Shaped, LooseState
  <2>3. \A m \in Mon : \A v \in Committed(m) : v \in Version /\ v <= px[m].last_committed
    BY <2>2, BoundAssumption DEF Committed, Version
  <2>. QED BY <2>1, <2>2, <2>3, BoundAssumption DEF Advance, Grown
<1>. QED BY <1>1, Invariant, PTL DEF Spec, LogOnlyGrows

(* While a monitor leads, the operations that services queue with it stay in
   pending_proposal or committing until commit_finish() has told their clients:
   no round that ends, and no value recovered before it, loses one. *)
THEOREM ProposalsAreKept == Spec => NoProposalIsDropped
<1>1. ASSUME IInv, [Next]_vars
      PROVE  \A m \in Mon :
               role[m] = "leader" /\ role'[m] = "leader" /\ epoch'[m] = epoch[m] =>
                 Queued(m) \subseteq Queued(m)' \union acked'
  <2>1. \A m \in Mon : Retains(m)
    BY <1>1, NextProgress DEF Progress
  <2>. QED BY <2>1 DEF Retains, Queued
<1>. QED BY <1>1, Invariant, PTL DEF Spec, NoProposalIsDropped

=============================================================================
