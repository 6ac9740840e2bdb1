------------------------------ MODULE Elector ------------------------------
(***************************************************************************)
(* The monitor election: src/mon/Elector.cc and the parts of               *)
(* src/mon/Monitor.cc it is entangled with (probing, bootstrap,            *)
(* start_election, join_election, win_election, lose_election and the      *)
(* quorum enter/exit commands).                                            *)
(*                                                                         *)
(* A monitor is its rank.  Handlers run under the monitor's lock, so each  *)
(* is one action.  A handler is an operator on a context c = [s, out]:     *)
(* the monitor's state as it runs and the messages it has sent, per        *)
(* destination.  The messenger is lossless and ordered per pair of         *)
(* monitors as long as both processes live; a crash loses what was under   *)
(* way.                                                                    *)
(*                                                                         *)
(* A definition Op_Variant is a faulty variant of Op, kept to show that    *)
(* the properties notice the fault; no action uses one.                    *)
(***************************************************************************)
EXTENDS Integers, Sequences, FiniteSets

CONSTANTS N,           \* size of the monmap
          Settings,    \* what the monitors of a cluster may be like
          MaxEpoch,    \* bound: election epochs
          MaxQueue,    \* bound: messages under way between two monitors
          MaxExpire,   \* bound: expiries of the election timer
          MaxCrash,    \* bound: crashes
          MaxBoot,     \* bound: spontaneous calls of bootstrap()
          MaxCommand,  \* bound: quorum enter/exit commands
          MaxDisturbed \* bound: crashes, bootstraps and commands together

Mon == 0 .. N - 1

ASSUME NAssumption == N \in Nat /\ N >= 2
ASSUME SettingAssumption ==
  Settings \subseteq [lack_con : SUBSET Mon, lack_mon : SUBSET Mon,
                      ever_joined : SUBSET Mon, calm : BOOLEAN]
ASSUME BoundAssumption ==
  /\ MaxEpoch \in Nat \ {0}
  /\ {MaxQueue, MaxExpire, MaxCrash, MaxBoot, MaxCommand, MaxDisturbed} \subseteq Nat

VARIABLES setting,  \* what the monitors are like; it never changes
          mon,      \* mon[m]: the state of monitor m
          net,      \* net[i][j]: messages from i to j, oldest first
          won,      \* history: the victories declared
          joined,   \* history: who followed whom, and in which epoch
          spent     \* how much of each bound is used up

vars == <<setting, mon, net, won, joined, spent>>

LackCon == setting.lack_con       \* monitors whose connections lack the required features
LackMon == setting.lack_mon       \* monitors that lack the required monitor features
EverJoined == setting.ever_joined \* monitors with has_ever_joined set
Calm == setting.calm              \* nothing disturbs the election from outside

(* MMonElection: the quorum is that of a VICTORY. *)
Message == [op : {"PROPOSE", "ACK", "NAK", "VICTORY"},
            epoch : 1 .. MaxEpoch, quorum : SUBSET Mon]

Msg(op, e, q) == [op |-> op, epoch |-> e, quorum |-> q]

MonState == [
  state          : {"down", "probing", "electing", "leader", "peon", "aborted"},
  epoch          : 1 .. MaxEpoch,        \* in the store
  participating  : BOOLEAN,
  electing_me    : BOOLEAN,
  acked_me       : SUBSET Mon,
  leader_acked   : {-1} \union Mon,
  expire_event   : BOOLEAN,              \* the election timer is armed
  probe_timeout  : BOOLEAN,              \* the probe timer is armed
  leader         : {-1} \union Mon,
  quorum         : SUBSET Mon,
  outside_quorum : SUBSET Mon]

-----------------------------------------------------------------------------
(* The handler context.  A failed assert of the code is remembered in ok. *)

Context(s) == [s |-> s, out |-> [j \in Mon |-> <<>>], ok |-> TRUE]

Send(c, dests, msg) ==
  [c EXCEPT !.out = [j \in Mon |-> IF j \in dests THEN Append(c.out[j], msg)
                                                  ELSE c.out[j]]]

Check(c, p) == [c EXCEPT !.ok = @ /\ p]

Booted_NoDefaultEpoch(e) == [
  state |-> "probing", epoch |-> e - 1, participating |-> TRUE,
  electing_me |-> FALSE, acked_me |-> {}, leader_acked |-> -1,
  expire_event |-> FALSE, probe_timeout |-> FALSE,
  leader |-> -1, quorum |-> {}, outside_quorum |-> {}]

(* A process that has just started, before it bootstraps. *)
Booted(e) == [
  state |-> "probing", epoch |-> e, participating |-> TRUE,
  electing_me |-> FALSE, acked_me |-> {}, leader_acked |-> -1,
  expire_event |-> FALSE, probe_timeout |-> FALSE,
  leader |-> -1, quorum |-> {}, outside_quorum |-> {}]

Down(e) == [Booted(e) EXCEPT !.state = "down"]

-----------------------------------------------------------------------------
(* Monitor.cc *)

Reset(s) ==
  [s EXCEPT !.quorum = {}, !.outside_quorum = {}, !.probe_timeout = FALSE]

Bootstrap(c, m) ==
  [c EXCEPT !.s = [Reset(c.s) EXCEPT !.state = "probing",
                                     !.probe_timeout = TRUE,
                                     !.outside_quorum = {m}]]

JoinElection(c) == [c EXCEPT !.s = [Reset(c.s) EXCEPT !.state = "electing"]]

WinElection(c, m, active) ==
  [c EXCEPT !.s = [c.s EXCEPT !.state = "leader", !.leader = m,
                              !.quorum = active, !.outside_quorum = {}]]

LoseElection(c, q, l) ==
  [c EXCEPT !.s = [c.s EXCEPT !.state = "peon", !.leader = l,
                              !.quorum = q, !.outside_quorum = {}]]

-----------------------------------------------------------------------------
(* Elector.cc *)

BumpEpoch_KeepsAcks(c, e) ==
  JoinElection(Check([c EXCEPT !.s.epoch = e], c.s.epoch <= e))

BumpEpoch(c, e) ==
  LET d == JoinElection(Check([c EXCEPT !.s.epoch = e], c.s.epoch <= e))
  IN  [d EXCEPT !.s = [d.s EXCEPT !.electing_me = FALSE, !.acked_me = {}]]

(* leader_acked is left alone by bump_epoch() and cleared here. *)
Start(c, m) ==
  IF ~c.s.participating THEN c
  ELSE LET d == IF c.s.epoch % 2 = 0 THEN BumpEpoch(c, c.s.epoch + 1) ELSE c
           e == [d EXCEPT !.s = [d.s EXCEPT !.electing_me = TRUE,
                                            !.acked_me = {m},
                                            !.leader_acked = -1,
                                            !.expire_event = TRUE]]
       IN  Send(e, Mon \ {m}, Msg("PROPOSE", e.s.epoch, {}))

StartElection(c, m) == Start(JoinElection(c), m)

Defer_NoTimer(c, who) ==
  Send([c EXCEPT !.s = [c.s EXCEPT
          !.acked_me = IF c.s.electing_me THEN {} ELSE @,
          !.electing_me = FALSE,
          !.leader_acked = who]],
       {who}, Msg("ACK", c.s.epoch, {}))

Defer(c, who) ==
  LET d == [c EXCEPT !.s = [c.s EXCEPT
              !.acked_me = IF c.s.electing_me THEN {} ELSE @,
              !.electing_me = FALSE,
              !.leader_acked = who,
              !.expire_event = TRUE]]
  IN  Send(d, {who}, Msg("ACK", d.s.epoch, {}))

Victory(c, m) ==
  LET q == c.s.acked_me
      d == BumpEpoch(Check([c EXCEPT !.s = [c.s EXCEPT !.leader_acked = -1,
                                                       !.electing_me = FALSE,
                                                       !.expire_event = FALSE]],
                           c.s.epoch % 2 = 1),
                     c.s.epoch + 1)
  IN  WinElection(Send(d, q \ {m}, Msg("VICTORY", d.s.epoch, q)), m, q)

(* The features a receiver requires of its peer.  A monitor that lacks a
   feature does not require it of others. *)
Requires(m) == m \notin LackCon \union LackMon
MissingCon(m, from) == Requires(m) /\ from \in LackCon
MissingMon(m, from) == Requires(m) /\ from \in LackMon

NakOldPeer(c, from, msg) == Send(c, {from}, Msg("NAK", msg.epoch, {}))

(* The second half of handle_propose(): who wins, by rank. *)
CompareRanks(c, m, from) ==
  LET acked == c.s.leader_acked
  IN  IF m < from
      THEN IF acked >= 0 THEN Check(c, acked < from)
           ELSE IF c.s.electing_me THEN c ELSE StartElection(c, m)
      ELSE IF acked < 0 \/ acked >= from THEN Defer(c, from) ELSE c

(* A peer without the monitor features is nak'ed, and then still compared. *)
HandlePropose(c, m, from, msg) ==
  IF msg.epoch % 2 = 0 THEN Check(c, FALSE)
  ELSE IF MissingCon(m, from) THEN NakOldPeer(c, from, msg)
  ELSE IF MissingMon(m, from) THEN CompareRanks(NakOldPeer(c, from, msg), m, from)
  ELSE IF msg.epoch > c.s.epoch THEN CompareRanks(BumpEpoch(c, msg.epoch), m, from)
  ELSE IF msg.epoch = c.s.epoch THEN CompareRanks(c, m, from)
  ELSE IF c.s.epoch % 2 = 0 /\ from \notin c.s.quorum
       THEN CompareRanks(StartElection(c, m), m, from)
       ELSE c

HandleAck_NoFeatures(c, m, from, msg) ==
  IF msg.epoch % 2 = 0 THEN Check(c, FALSE)
  ELSE IF msg.epoch > c.s.epoch THEN Start(BumpEpoch(c, msg.epoch), m)
  ELSE IF ~c.s.electing_me THEN Check(c, c.s.leader_acked >= 0)
  ELSE LET d == [c EXCEPT !.s.acked_me = @ \union {from}]
       IN  IF Cardinality(d.s.acked_me) = N THEN Victory(d, m) ELSE d

HandleAck(c, m, from, msg) ==
  IF msg.epoch % 2 = 0 THEN Check(c, FALSE)
  ELSE IF msg.epoch > c.s.epoch THEN Start(BumpEpoch(c, msg.epoch), m)
  ELSE IF MissingCon(m, from) \/ MissingMon(m, from) THEN c
  ELSE IF ~c.s.electing_me THEN Check(c, c.s.leader_acked >= 0)
  ELSE LET d == [c EXCEPT !.s.acked_me = @ \union {from}]
       IN  IF Cardinality(d.s.acked_me) = N THEN Victory(d, m) ELSE d

HandleVictory(c, m, from, msg) ==
  LET d == BumpEpoch(Check([c EXCEPT !.s.leader_acked = -1],
                           from < m /\ msg.epoch % 2 = 0),
                     msg.epoch)
  IN  IF msg.epoch # c.s.epoch + 1 THEN Start(d, m)
      ELSE [LoseElection(d, msg.quorum, from) EXCEPT !.s.expire_event = FALSE]

(* exit(0): only the store survives. *)
HandleNak(c) == [c EXCEPT !.s = Down(c.s.epoch)]

Dispatch_TakesOld(c, m, from, msg) ==
  IF c.s.state = "probing" \/ ~c.s.participating THEN c
  ELSE CASE msg.op = "PROPOSE" -> HandlePropose(c, m, from, msg)
         [] msg.op = "ACK" -> HandleAck(c, m, from, msg)
         [] msg.op = "VICTORY" -> HandleVictory(c, m, from, msg)
         [] msg.op = "NAK" -> HandleNak(c)

Dispatch_AfterExit(c, m, from, msg) ==
  IF c.s.state = "probing" THEN c
  ELSE IF msg.op = "PROPOSE" THEN HandlePropose(c, m, from, msg)
  ELSE IF msg.epoch < c.s.epoch THEN c
  ELSE CASE msg.op = "ACK" -> HandleAck(c, m, from, msg)
         [] msg.op = "VICTORY" -> HandleVictory(c, m, from, msg)
         [] msg.op = "NAK" -> HandleNak(c)

(* Election messages are dropped while probing, while not participating and,
   proposals aside, when they are from an older epoch. *)
Dispatch(c, m, from, msg) ==
  IF c.s.state = "probing" \/ ~c.s.participating THEN c
  ELSE IF msg.op = "PROPOSE" THEN HandlePropose(c, m, from, msg)
  ELSE IF msg.epoch < c.s.epoch THEN c
  ELSE CASE msg.op = "ACK" -> HandleAck(c, m, from, msg)
         [] msg.op = "VICTORY" -> HandleVictory(c, m, from, msg)
         [] msg.op = "NAK" -> HandleNak(c)

(* quorum: the peer says it is in one. *)
HandleProbeReply(c, m, from, quorum) ==
  IF quorum THEN StartElection(c, m)
  ELSE LET d == [c EXCEPT !.s.outside_quorum = @ \union {from}]
           enough == Cardinality(d.s.outside_quorum) >= N \div 2 + 1
       IN  IF enough /\ m \in d.s.outside_quorum THEN StartElection(d, m) ELSE d

ExpireHandler_HalfIsEnough(c, m) ==
  IF c.s.electing_me /\ Cardinality(c.s.acked_me) >= N \div 2 THEN Victory(c, m)
  ELSE IF m \in EverJoined THEN Start(c, m)
  ELSE Bootstrap(c, m)

ExpireHandler_KeepsWaiting(c, m) ==
  IF c.s.electing_me /\ Cardinality(c.s.acked_me) > N \div 2 THEN Victory(c, m)
  ELSE c

ExpireHandler(c, m) ==
  IF c.s.electing_me /\ Cardinality(c.s.acked_me) > N \div 2 THEN Victory(c, m)
  ELSE IF m \in EverJoined THEN Start(c, m)
  ELSE Bootstrap(c, m)

ProbeTimeoutHandler(c, m) ==
  Bootstrap(Check([c EXCEPT !.s.probe_timeout = FALSE], c.s.state = "probing"), m)

-----------------------------------------------------------------------------
(* Steps *)

Up(m) == mon[m].state \notin {"down", "aborted"}

(* Sends out[j] after what is already under way; what goes to a process that
   is down may be lost with the connection. *)
Post(queues, m, out, lost) ==
  [queues EXCEPT ![m] =
     [j \in Mon |-> IF j \in lost THEN queues[m][j] ELSE queues[m][j] \o out[j]]]

(* m finishes a handler that left the context c; queues is the network
   without the message that was handled. *)
Finish(m, c, queues) ==
  /\ c.s.epoch <= MaxEpoch
  /\ mon' = [mon EXCEPT ![m] = IF c.ok THEN c.s ELSE [c.s EXCEPT !.state = "aborted"]]
  /\ \E lost \in SUBSET {j \in Mon : ~Up(j)} : net' = Post(queues, m, c.out, lost)
  /\ \A j \in Mon : Len(net'[m][j]) <= MaxQueue
  /\ LET entered == c.s.state \in {"leader", "peon"} /\ c.s.epoch # mon[m].epoch
         v == [epoch |-> c.s.epoch, leader |-> m, quorum |-> c.s.quorum]
         j == [mon |-> m, epoch |-> c.s.epoch, leader |-> c.s.leader]
     IN  /\ won' = IF entered /\ c.s.state = "leader" THEN won \union {v} ELSE won
         /\ joined' = IF entered THEN joined \union {j} ELSE joined

Spend(what, max) ==
  spent[what] < max /\ spent' = [spent EXCEPT ![what] = @ + 1]

(* Something from outside the election happens. *)
Disturb(what, max) ==
  /\ ~Calm
  /\ spent.crash + spent.boot + spent.command < MaxDisturbed
  /\ Spend(what, max)

(* Monitor::dispatch_op() of the oldest message from i. *)
Deliver(i, m) ==
  /\ Up(m)
  /\ net[i][m] # <<>>
  /\ Finish(m, Dispatch(Context(mon[m]), m, i, Head(net[i][m])),
            [net EXCEPT ![i][m] = Tail(@)])
  /\ UNCHANGED spent

(* A peer answers m's probe.  The answer may be old when it arrives, so what it
   says of the peer's quorum is arbitrary. *)
ProbeReply(m, from, quorum) ==
  /\ Up(m)
  /\ mon[m].state = "probing"
  /\ from # m
  /\ ~MissingCon(from, m)
  /\ Finish(m, HandleProbeReply(Context(mon[m]), m, from, quorum), net)
  /\ UNCHANGED spent

FireExpire(m) ==
  /\ Up(m)
  /\ mon[m].expire_event
  /\ Finish(m, ExpireHandler(Context([mon[m] EXCEPT !.expire_event = FALSE]), m), net)

Expire(m) == FireExpire(m) /\ Spend("expire", MaxExpire)

ProbeTimeout(m) ==
  /\ Up(m)
  /\ mon[m].probe_timeout
  /\ Finish(m, ProbeTimeoutHandler(Context(mon[m]), m), net)
  /\ UNCHANGED spent

(* bootstrap() called from outside the election: a Paxos timeout, a Paxos
   message of a newer epoch. *)
CallBootstrap(m) ==
  /\ Up(m)
  /\ Disturb("boot", MaxBoot)
  /\ Finish(m, Bootstrap(Context(mon[m]), m), net)

QuorumExit(m) ==
  /\ Up(m)
  /\ Disturb("command", MaxCommand)
  /\ LET c == StartElection(Context(mon[m]), m)
     IN  Finish(m, [c EXCEPT !.s.participating = FALSE], net)

(* Every exit may be followed by an enter. *)
QuorumEnter(m) ==
  /\ Up(m)
  /\ IF mon[m].participating THEN Disturb("command", MaxCommand) ELSE UNCHANGED spent
  /\ Finish(m, StartElection(Context([mon[m] EXCEPT !.participating = TRUE]), m), net)

(* The process dies.  What was sent to it is lost with its connections, and of
   what it sent each peer gets a prefix. *)
Crash(m) ==
  /\ Up(m)
  /\ Disturb("crash", MaxCrash)
  /\ mon' = [mon EXCEPT ![m] = Down(mon[m].epoch)]
  /\ \E keep \in [Mon -> 0 .. MaxQueue] :
       /\ \A j \in Mon : keep[j] <= Len(net[m][j])
       /\ net' = [i \in Mon |-> [j \in Mon |->
                    IF j = m THEN <<>>
                    ELSE IF i = m THEN SubSeq(net[m][j], 1, keep[j])
                    ELSE net[i][j]]]
  /\ UNCHANGED <<won, joined>>

(* Elector::init() reads the epoch back; Monitor::init() ends in bootstrap(). *)
Restart(m) ==
  /\ mon[m].state = "down"
  /\ Finish(m, Bootstrap(Context(Booted(mon[m].epoch)), m), net)
  /\ UNCHANGED spent

(* Every monitor has started and bootstrapped. *)
Init ==
  /\ setting \in Settings
  /\ mon = [m \in Mon |-> Bootstrap(Context(Booted(1)), m).s]
  /\ net = [i \in Mon |-> [j \in Mon |-> <<>>]]
  /\ won = {}
  /\ joined = {}
  /\ spent = [w \in {"expire", "boot", "command", "crash"} |-> 0]

Step(m) ==
  \/ \E i \in Mon : Deliver(i, m)
  \/ \E i \in Mon, q \in BOOLEAN : ProbeReply(m, i, q)
  \/ Expire(m)
  \/ ProbeTimeout(m)
  \/ CallBootstrap(m)
  \/ QuorumExit(m)
  \/ QuorumEnter(m)
  \/ Crash(m)
  \/ Restart(m)

Next == (\E m \in Mon : Step(m)) /\ UNCHANGED setting

Spec == Init /\ [][Next]_vars

-----------------------------------------------------------------------------
(* Properties *)

TypeOK ==
  /\ setting \in Settings
  /\ mon \in [Mon -> MonState]
  /\ net \in [Mon -> [Mon -> Seq(Message)]]
  /\ won \subseteq [epoch : 1 .. MaxEpoch, leader : Mon, quorum : SUBSET Mon]
  /\ joined \subseteq [mon : Mon, epoch : 1 .. MaxEpoch, leader : {-1} \union Mon]
  /\ spent \in [{"expire", "boot", "command", "crash"} -> Nat]

(* A monitor without monitor features ranks after all that require them, so that
   none of those can come to acknowledge it. *)
OldPeersRankLast == \A m, q \in Mon : MissingMon(m, q) => m < q

(* No assert of the election code ever fails: not the ones on ranks in
   handle_propose() and handle_victory(), not those on odd and even epochs in
   all handlers, not "i'm deferring already" in handle_ack(), not the monotone
   epoch of bump_epoch(), and not the state check of probe_timeout().  This takes
   that nobody acknowledges a peer it has just nak'ed: handle_propose() goes on
   after nak_old_peer(), and then the acknowledgement may carry an even epoch. *)
NoAssertFails == OldPeersRankLast => \A m \in Mon : mon[m].state # "aborted"

(* A monitor that waits for an election to end always has its timer armed, so
   no election can hang: an acknowledgement that bump_epoch() left behind, or a
   proposal ignored because of it, only costs a timeout. *)
ElectingHasTimer ==
  \A m \in Mon : mon[m].state = "electing" /\ mon[m].participating => mon[m].expire_event

(* Whoever is counted in acked_me has reached the candidate's epoch in its
   store, across crashes and late acknowledgements. *)
AckersReachedEpoch ==
  \A m \in Mon : mon[m].electing_me =>
    \A q \in mon[m].acked_me : mon[q].epoch >= mon[m].epoch

(* After "quorum exit" a monitor neither leads nor follows until "quorum
   enter", even with acknowledgements or a victory for it under way. *)
ExitedStaysOut ==
  \A m \in Mon : ~mon[m].participating => mon[m].state \notin {"leader", "peon"}

(* A leader that requires features never counts a monitor without them. *)
QuorumHasFeatures ==
  \A v \in won : Requires(v.leader) => v.quorum \intersect (LackCon \union LackMon) = {}

(* Elector.h on nak_old_peer(): "If we get a message from a peer who can't
   support the required quorum features, we have to ignore them."  So no
   monitor that requires features stands behind a leader without them. *)
OldPeersAreIgnored ==
  \A v \in won : \A q \in v.quorum : ~MissingMon(q, v.leader)

(* The election as the rest of the monitor sees it. *)
MQ == INSTANCE MonQuorum WITH
        epoch <- [m \in Mon |-> mon[m].epoch],
        role <- [m \in Mon |-> IF mon[m].state \in {"leader", "peon"}
                               THEN mon[m].state ELSE "out"]

(* The election implements the abstract quorum. *)
ImplementsMonQuorum == MQ!Spec

=============================================================================
