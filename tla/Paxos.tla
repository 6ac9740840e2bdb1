------------------------------- MODULE Paxos -------------------------------
(***************************************************************************)
(* The replicated log of the monitors: src/mon/Paxos.cc, on top of the     *)
(* quorums of MonQuorum.  The leader of a quorum recovers (collect / last),*)
(* then commits one version after the other (begin / accept / commit) and  *)
(* hands out leases to read; all of it stops when a monitor leaves.        *)
(*                                                                         *)
(* Handlers run under the monitor's lock, so each is one action, written   *)
(* as an operator on a context [s, out, ok] (state, messages sent, asserts *)
(* held).  The one thing that runs elsewhere is the write of a commit:     *)
(* commit_start() queues it, commit_finish() is called back.               *)
(*                                                                         *)
(* A value is a set of client operations, {} where there is none.          *)
(* Versions are not trimmed (the log is shorter than paxos_min +           *)
(* paxos_trim_min), the monmap does not change, and a quorum has at least  *)
(* two members.                                                            *)
(*                                                                         *)
(* A definition Op_Variant is a faulty variant of Op, kept to show that    *)
(* the properties notice the fault; no action uses one.                    *)
(***************************************************************************)
EXTENDS Integers, Sequences, FiniteSets

CONSTANTS N,         \* size of the monmap
          MaxEpoch,  \* bound: election epochs
          BusyEpoch, \* bound: later epochs see neither new operations nor disturbances
          MaxOp,     \* bound: client operations, and so versions of the log
          MaxCrash,  \* bound: crashes
          MaxRenew,  \* bound: lease renewals
          MaxTimeout,\* bound: Paxos timeouts
          MaxDisturbed, \* bound: the last three together
          MaxPn      \* bound: proposal numbers

Mon == 0 .. N - 1
Operation == 1 .. MaxOp
Version == 1 .. MaxOp
Value == SUBSET Operation
NoValue == {}

ASSUME NAssumption == N \in 2 .. 99
ASSUME BoundAssumption == {MaxEpoch, BusyEpoch, MaxOp, MaxCrash, MaxRenew, MaxTimeout,
                           MaxDisturbed, MaxPn} \subseteq Nat

VARIABLES epoch,     \* epoch[m]: m's election epoch, in the store
          role,      \* role[m]: "out", "leader" or "peon"
          px,        \* px[m]: the Paxos state of monitor m
          net,       \* net[i][j]: messages from i to j, oldest first
          acked,     \* operations whose client was told they are committed
          spent      \* how much of the bounds on operations, crashes, renewals is used

vars == <<epoch, role, px, net, acked, spent>>

Majority(Q) == 2 * Cardinality(Q) > N
VictoryEpoch == {e \in 1 .. MaxEpoch : e % 2 = 0}
Majorities == {Q \in SUBSET Mon : Majority(Q)}

State == {"recovering", "active", "updating", "updating_previous",
          "writing", "writing_previous", "refresh", "aborted"}

Timer == {"collect", "accept", "lease_renew", "lease_ack", "lease"}

Message == [op : {"victory", "collect", "last", "begin", "accept", "commit",
                  "lease", "lease_ack"},
            epoch : 1 .. MaxEpoch, pn : 0 .. MaxPn,
            last_committed : 0 .. MaxOp, values : [Version -> Value],
            uncommitted_pn : 0 .. MaxPn, quorum : SUBSET Mon]

PaxosState == [
  (* in the store *)
  last_pn : 0 .. MaxPn, stored_pn : 0 .. MaxPn, last_committed : 0 .. MaxOp,
  values : [Version -> Value], pending_v : 0 .. MaxOp, pending_pn : 0 .. MaxPn,
  (* in memory *)
  state : State,
  accepted_pn : 0 .. MaxPn,
  leader : {-1} \union Mon, quorum : SUBSET Mon,
  uncommitted_v : 0 .. MaxOp, uncommitted_pn : 0 .. MaxPn, uncommitted_value : Value,
  num_last : 0 .. N, peer_last_committed : [Mon -> -1 .. MaxOp],
  accepted : SUBSET Mon, new_value : Value,
  pending_proposal : Value, committing : Value,
  lease : BOOLEAN, acked_lease : SUBSET Mon,
  timers : [Timer -> Nat]]

-----------------------------------------------------------------------------
Context(s, r, e) ==
  [s |-> s, role |-> r, epoch |-> e, out |-> [j \in Mon |-> <<>>], ok |-> TRUE]

Check(c, p) == [c EXCEPT !.ok = @ /\ p]

Send(c, to, msg) ==
  [c EXCEPT !.out = [j \in Mon |-> IF j \in to THEN Append(c.out[j], msg) ELSE c.out[j]]]

NoValues == [v \in Version |-> NoValue]

Msg(c, op) == [op |-> op, epoch |-> c.epoch, pn |-> 0, last_committed |-> c.s.last_committed,
               values |-> NoValues, uncommitted_pn |-> 0, quorum |-> {}]

Peers(c, m) == c.s.quorum \ {m}

(* A timer event that is overwritten without being cancelled stays armed, so
   armed timers are counted. *)
Arm(c, t) == [c EXCEPT !.s.timers[t] = @ + 1]

Cancelled_Again(n) == n - 1

Cancelled(n) == IF n > 0 THEN n - 1 ELSE 0
Cancel(c, t) == [c EXCEPT !.s.timers[t] = Cancelled(@)]
CancelEvents(c) == [c EXCEPT !.s.timers = [t \in Timer |-> Cancelled(c.s.timers[t])]]

ResetLeaseTimeout(c) == Arm(Cancel(c, "lease"), "lease")

(* The value stored for version v; NoValue past the end. *)
At(values, v) == IF v \in Version THEN values[v] ELSE NoValue

Larger(a, b) == IF a < b THEN b ELSE a

NewProposalNumber(last_pn, gt, rank) == (Larger(last_pn, gt) \div 100 + 1) * 100 + rank

PendingPn_NotKept(s, otherwise) == otherwise

(* The number an uncommitted value was accepted under; "crossing our fingers"
   when the store does not say. *)
PendingPn(s, otherwise) ==
  IF s.pending_v = s.last_committed + 1 /\ s.pending_pn # 0 THEN s.pending_pn ELSE otherwise

-----------------------------------------------------------------------------
(* Phase 1 *)

Collect(c, m, oldpn) ==
  LET s == c.s
      v == s.last_committed + 1
      found == At(s.values, v) # NoValue
      pn == NewProposalNumber(s.last_pn, Larger(s.accepted_pn, oldpn), m)
      d == [c EXCEPT !.s = [s EXCEPT
              !.state = "recovering",
              !.uncommitted_v = IF found THEN v ELSE 0,
              !.uncommitted_pn = IF found THEN PendingPn(s, s.accepted_pn) ELSE 0,
              !.uncommitted_value = At(s.values, v),
              !.peer_last_committed = [q \in Mon |-> -1],
              !.last_pn = pn,
              !.accepted_pn = pn,
              !.num_last = 1]]
  IN  Arm(Send(Check(d, c.role = "leader"), Peers(c, m),
               [Msg(d, "collect") EXCEPT !.pn = pn]),
          "collect")

(* The versions of s in lo .. hi, as they are put into a message. *)
Share(s, lo, hi) == [v \in Version |-> IF v \in lo .. hi THEN s.values[v] ELSE NoValue]

HandleCollect(c, m, from, msg) ==
  LET s == c.s
      lc == s.last_committed
      takes == msg.pn > s.accepted_pn
      offers == msg.last_committed <= lc /\ At(s.values, lc + 1) # NoValue
      d == ResetLeaseTimeout([Check(c, c.role = "peon") EXCEPT !.s = [s EXCEPT
              !.state = "recovering",
              !.accepted_pn = IF takes THEN msg.pn ELSE @,
              !.stored_pn = IF takes THEN msg.pn ELSE @]])
  IN  Send(d, {from}, [Msg(d, "last") EXCEPT
              !.pn = d.s.accepted_pn,
              !.values = Share(s, msg.last_committed + 1, IF offers THEN lc + 1 ELSE lc),
              !.uncommitted_pn = IF offers THEN PendingPn(s, s.accepted_pn) ELSE 0])

StoreState_Regresses(c, msg) ==
  LET s == c.s
      new == {v \in Version : msg.values[v] # NoValue /\ v <= msg.last_committed}
  IN  IF new = {} THEN c
      ELSE [c EXCEPT !.s = [s EXCEPT
             !.last_committed = CHOOSE v \in new : \A w \in new : w <= v,
             !.values = [v \in Version |-> IF v \in new THEN msg.values[v] ELSE @[v]]]]

(* store_state(): the committed versions of a message that follow on ours. *)
StoreState(c, msg) ==
  LET s == c.s
      given == {v \in Version : msg.values[v] # NoValue}
      future == \A v \in given : v > s.last_committed + 1
      new == {v \in given : v > s.last_committed /\ v <= msg.last_committed}
      lc == CHOOSE v \in new : \A w \in new : w <= v
      stale == s.uncommitted_v # 0 /\ s.uncommitted_v <= lc
  IN  IF future \/ new = {} THEN c
      ELSE [c EXCEPT !.s = [s EXCEPT
             !.last_committed = lc,
             !.values = [v \in Version |-> IF v \in new THEN msg.values[v] ELSE @[v]],
             !.uncommitted_v = IF stale THEN 0 ELSE @,
             !.uncommitted_pn = IF stale THEN 0 ELSE @,
             !.uncommitted_value = IF stale THEN NoValue ELSE @]]

(* Push what they lack to the peers that answered so far. *)
ShareWithPeers(c) ==
  LET lc == c.s.last_committed
      known == c.s.peer_last_committed
  IN  [c EXCEPT !.out = [j \in Mon |->
         IF known[j] >= 0 /\ known[j] < lc
         THEN Append(c.out[j], [Msg(c, "commit") EXCEPT !.values = Share(c.s, known[j] + 1, lc)])
         ELSE c.out[j]]]

Learn_NeedsMoreVersions(c, msg) ==
  LET s == c.s
      v == msg.last_committed + 1
  IN  IF /\ msg.uncommitted_pn # 0
         /\ msg.uncommitted_pn >= s.uncommitted_pn
         /\ msg.last_committed > s.last_committed
      THEN [c EXCEPT !.s = [s EXCEPT !.uncommitted_v = v,
                                     !.uncommitted_pn = msg.uncommitted_pn,
                                     !.uncommitted_value = At(msg.values, v)]]
      ELSE c

(* Remember an uncommitted value if it beats the one we have. *)
Learn(c, msg) ==
  LET s == c.s
      v == msg.last_committed + 1
  IN  IF /\ msg.uncommitted_pn # 0
         /\ msg.uncommitted_pn >= s.uncommitted_pn
         /\ msg.last_committed >= s.last_committed
         /\ v >= s.uncommitted_v
      THEN [c EXCEPT !.s = [s EXCEPT !.uncommitted_v = v,
                                     !.uncommitted_pn = msg.uncommitted_pn,
                                     !.uncommitted_value = At(msg.values, v)]]
      ELSE c

-----------------------------------------------------------------------------
(* Phase 2 *)

Begin(c, m, value) ==
  LET s == c.s
      v == s.last_committed + 1
      d == Check(c, /\ c.role = "leader"
                    /\ s.state \in {"updating", "updating_previous"}
                    /\ s.num_last > N \div 2
                    /\ s.new_value = NoValue)
      e == [d EXCEPT !.s = [s EXCEPT !.accepted = {m},
                                     !.new_value = value,
                                     !.values[v] = value,
                                     !.pending_v = v,
                                     !.pending_pn = s.accepted_pn]]
  IN  Arm(Send(e, Peers(c, m), [Msg(c, "begin") EXCEPT !.values[v] = value,
                                                       !.pn = s.accepted_pn]),
          "accept")

HandleBegin_NotStored(c, m, from, msg) ==
  LET s == c.s
      d == Check(c, msg.pn = s.accepted_pn /\ msg.last_committed = s.last_committed)
      e == [d EXCEPT !.s = [s EXCEPT !.state = "updating", !.lease = FALSE]]
  IN  IF msg.pn < s.accepted_pn THEN c
      ELSE Send(e, {from}, [Msg(c, "accept") EXCEPT !.pn = s.accepted_pn])

HandleBegin_PnNotStored(c, m, from, msg) ==
  LET s == c.s
      v == s.last_committed + 1
      d == Check(c, msg.pn = s.accepted_pn /\ msg.last_committed = s.last_committed)
      e == [d EXCEPT !.s = [s EXCEPT !.state = "updating", !.lease = FALSE,
                                     !.values[v] = msg.values[v]]]
  IN  IF msg.pn < s.accepted_pn THEN c
      ELSE Send(e, {from}, [Msg(c, "accept") EXCEPT !.pn = s.accepted_pn])

HandleBegin(c, m, from, msg) ==
  LET s == c.s
      v == s.last_committed + 1
      d == Check(c, msg.pn = s.accepted_pn /\ msg.last_committed = s.last_committed)
      e == [d EXCEPT !.s = [s EXCEPT !.state = "updating",
                                     !.lease = FALSE,
                                     !.values[v] = msg.values[v],
                                     !.pending_v = v,
                                     !.pending_pn = s.accepted_pn]]
  IN  IF msg.pn < s.accepted_pn THEN c
      ELSE Send(e, {from}, [Msg(c, "accept") EXCEPT !.pn = s.accepted_pn])

CommitStart_KeepsTimer(c) ==
  [c EXCEPT !.s.state = IF @ = "updating_previous" THEN "writing_previous" ELSE "writing"]

CommitStart(c) ==
  Cancel([c EXCEPT !.s.state = IF @ = "updating_previous" THEN "writing_previous"
                                                          ELSE "writing"],
         "accept")

HandleAccept_OnMajority(c, m, from, msg) ==
  LET s == c.s
      e == [c EXCEPT !.s.accepted = @ \union {from}]
  IN  IF \/ msg.pn # s.accepted_pn
         \/ msg.last_committed < s.last_committed
         \/ s.state \notin {"updating", "updating_previous"}
      THEN c
      ELSE IF Majority(e.s.accepted) THEN CommitStart(e) ELSE e

HandleAccept(c, m, from, msg) ==
  LET s == c.s
      d == Check(c, /\ msg.last_committed \in {s.last_committed, s.last_committed - 1}
                    /\ s.state \in {"updating", "updating_previous"}
                    /\ from \notin s.accepted)
      e == [d EXCEPT !.s.accepted = @ \union {from}]
  IN  IF msg.pn # s.accepted_pn \/ msg.last_committed < s.last_committed - 1 THEN c
      ELSE IF e.s.accepted = s.quorum THEN CommitStart(e) ELSE e

ProposePending_KeepsTimers(c, m) ==
  Begin([c EXCEPT !.s = [c.s EXCEPT !.committing = c.s.pending_proposal,
                                    !.pending_proposal = NoValue,
                                    !.state = "updating"]],
        m, c.s.pending_proposal)

ProposePending_FinishersLost(c, m) ==
  LET d == CancelEvents(Check(c, c.s.state = "active" /\ c.s.pending_proposal # NoValue))
  IN  Begin([d EXCEPT !.s = [d.s EXCEPT !.pending_proposal = NoValue, !.state = "updating"]],
            m, c.s.pending_proposal)

ProposePending(c, m) ==
  LET d == CancelEvents(Check(c, c.s.state = "active" /\ c.s.pending_proposal # NoValue))
  IN  Begin([d EXCEPT !.s = [d.s EXCEPT !.committing = d.s.pending_proposal,
                                        !.pending_proposal = NoValue,
                                        !.state = "updating"]],
            m, c.s.pending_proposal)

FinishRound_Forgets(c, m) == [Check(c, c.role = "leader") EXCEPT !.s.state = "active"]

FinishRound(c, m) ==
  LET d == [Check(c, c.role = "leader") EXCEPT !.s.state = "active"]
  IN  IF d.s.pending_proposal # NoValue THEN ProposePending(d, m) ELSE d

ExtendLease(c, m) ==
  LET d == [Check(c, c.role = "leader") EXCEPT
              !.s = [c.s EXCEPT !.lease = TRUE, !.acked_lease = {m}]]
      e == Send(d, Peers(c, m), Msg(c, "lease"))
      f == IF e.s.timers["lease_ack"] = 0 THEN Arm(e, "lease_ack") ELSE e
  IN  Arm(f, "lease_renew")

HandleLast(c, m, from, msg) ==
  LET d == ShareWithPeers(StoreState(
             [c EXCEPT !.s.peer_last_committed[from] = msg.last_committed], msg))
      e == Learn([d EXCEPT !.s.num_last = @ + 1], msg)
      f == Cancel([e EXCEPT !.s.peer_last_committed = [q \in Mon |-> -1]], "collect")
  IN  IF c.role # "leader" \/ msg.pn < c.s.accepted_pn
      THEN IF c.role # "leader" THEN c ELSE d
      ELSE IF msg.pn > c.s.accepted_pn THEN Collect(Cancel(d, "collect"), m, msg.pn)
      ELSE IF e.s.num_last # Cardinality(e.s.quorum) THEN e
      ELSE IF f.s.uncommitted_v = f.s.last_committed + 1 /\ f.s.uncommitted_value # NoValue
           THEN Begin([f EXCEPT !.s.state = "updating_previous"], m, f.s.uncommitted_value)
           ELSE FinishRound(ExtendLease(f, m), m)

HandleCommit(c, m, from, msg) == StoreState(Check(c, c.role = "peon"), msg)

(* The write is on disk. *)
CommitFinishHandler(c, m) ==
  LET s == c.s
      lc == s.last_committed + 1
      d == [Check(c, s.state \in {"writing", "writing_previous"}) EXCEPT
              !.s = [s EXCEPT !.lease = FALSE, !.last_committed = lc,
                              !.new_value = NoValue, !.state = "refresh",
                              !.committing = NoValue]]
      e == Send(d, Peers(c, m), [Msg(d, "commit") EXCEPT
                                   !.pn = s.accepted_pn,
                                   !.values[lc] = s.new_value])
  IN  FinishRound(ExtendLease(Check(e, c.role = "leader"), m), m)

-----------------------------------------------------------------------------
(* Leases *)

HandleLease(c, m, from, msg) ==
  IF c.role # "peon" \/ msg.last_committed # c.s.last_committed THEN c
  ELSE ResetLeaseTimeout(Send([c EXCEPT !.s = [c.s EXCEPT !.lease = TRUE, !.state = "active"]],
                              {from}, Msg(c, "lease_ack")))

HandleLeaseAck(c, m, from, msg) ==
  LET d == [c EXCEPT !.s.acked_lease = @ \union {from}]
  IN  IF c.s.timers["lease_ack"] = 0 \/ from \in c.s.acked_lease THEN c
      ELSE IF d.s.acked_lease = c.s.quorum THEN Cancel(d, "lease_ack") ELSE d

-----------------------------------------------------------------------------
(* Joining and leaving a quorum *)

(* leader_init() and peon_init() before they talk to anybody. *)
Enter(c, l, q) ==
  LET d == CancelEvents(c)
  IN  [d EXCEPT !.s = [d.s EXCEPT !.leader = l, !.quorum = q,
                                  !.state = "recovering", !.lease = FALSE,
                                  !.new_value = NoValue,
                                  !.pending_proposal = NoValue, !.committing = NoValue]]

PeonInit_NoTimer(c, l, q) == Enter(c, l, q)

PeonInit(c, l, q) == ResetLeaseTimeout(Enter(c, l, q))

(* restart().  What a leader kept about its round is dead from here on, since
   collect(), begin() and extend_lease() set it anew; it is cleared here. *)
RestartOf(c) ==
  LET d == CancelEvents(c)
  IN  [d EXCEPT !.s = [d.s EXCEPT
         !.state = "recovering", !.quorum = {}, !.leader = -1,
         !.new_value = NoValue, !.pending_proposal = NoValue, !.committing = NoValue,
         !.uncommitted_v = 0, !.uncommitted_pn = 0, !.uncommitted_value = NoValue,
         !.num_last = 0, !.peer_last_committed = [q \in Mon |-> -1],
         !.accepted = {}, !.acked_lease = {}, !.lease = FALSE]]

Writing(m) == px[m].state \in {"writing", "writing_previous"}

Alive(m) == px[m].state # "aborted"

Here(m) == Context(px[m], role[m], epoch[m])

Store(m, c) == IF c.ok THEN c.s ELSE [c.s EXCEPT !.state = "aborted"]

(* A message of an epoch that its receiver has left, or was never part of, is
   dropped on arrival; here it is dropped as soon as that is certain. *)
Current(msg, j) ==
  msg.epoch > epoch'[j] \/ (msg.epoch = epoch'[j] /\ role'[j] # "out")

(* Epochs never decrease along a connection, so these messages come first. *)
Deliverable(queues) ==
  [i \in Mon |-> [j \in Mon |->
     LET q == queues[i][j]
         dropped == {k \in DOMAIN q : ~Current(q[k], j)}
     IN  SubSeq(q, Cardinality(dropped) + 1, Len(q))]]

(* m finishes a handler that left the context c. *)
Finish(m, c, queues) ==
  /\ c.s.accepted_pn <= MaxPn /\ c.s.pending_v <= MaxOp
  /\ px' = [px EXCEPT ![m] = Store(m, c)]
  /\ epoch' = [epoch EXCEPT ![m] = c.epoch]
  /\ role' = [role EXCEPT ![m] = c.role]
  /\ net' = Deliverable([queues EXCEPT ![m] = [j \in Mon |-> queues[m][j] \o c.out[j]]])

(* m leaves its quorum.  The flush of wait_for_paxos_write() lets
   commit_finish() run before. *)
LeaveQuorum(c, e) == [RestartOf(c) EXCEPT !.role = "out", !.epoch = e]

Disturbances == spent["renew"] + spent["timeout"] + spent["crash"]

(* Elections after BusyEpoch follow on all operations and on no disturbance, while
   every operation is under way. *)
LateElections == spent["op"] = MaxOp /\ Disturbances = 0 /\ acked = {}

(* An election, as MonQuorum describes it: m, the lowest rank of a majority Q
   whose members have all left what they were doing for epoch e - 1, declares
   victory for e.  Each member leaves at a moment of its own, but since it drops
   all messages from then on, it may as well leave at the last moment.
   Elector::victory() tells the others, then win_election() starts recovery. *)
Elect(m, e, Q) ==
  LET calls == {q \in Q : epoch[q] < e - 1}
      c == Context(px[m], "leader", e)
      d == Send(Enter(IF m \in calls THEN LeaveQuorum(c, e) ELSE c, m, Q),
                Q \ {m}, [Msg(c, "victory") EXCEPT !.quorum = Q])
      w == Collect([d EXCEPT !.role = "leader"], m, 0)
  IN  /\ m \in Q
      /\ \A q \in Q : m <= q /\ Alive(q)
      /\ epoch[m] < e
      /\ e > BusyEpoch => LateElections
      /\ \A q \in calls : ~Writing(q)
      /\ w.s.accepted_pn <= MaxPn
      /\ epoch' = [q \in Mon |-> IF q = m THEN e ELSE IF q \in calls THEN e - 1 ELSE epoch[q]]
      /\ role' = [q \in Mon |-> IF q = m THEN "leader" ELSE IF q \in calls THEN "out" ELSE role[q]]
      /\ px' = [q \in Mon |-> IF q = m THEN Store(m, w)
                              ELSE IF q \in calls THEN LeaveQuorum(Here(q), e - 1).s
                              ELSE px[q]]
      /\ net' = Deliverable([net EXCEPT ![m] = [j \in Mon |-> net[m][j] \o w.out[j]]])
      /\ UNCHANGED <<acked, spent>>

Without(i, m) == [net EXCEPT ![i][m] = Tail(@)]

(* Elector::handle_victory(): follow, or call another election if the epoch is
   not the one that follows on ours. *)
HandleVictory(c, i, msg) ==
  IF msg.epoch = c.epoch + 1
  THEN PeonInit([c EXCEPT !.role = "peon", !.epoch = msg.epoch], i, msg.quorum)
  ELSE LeaveQuorum(c, msg.epoch + 1)

(* Paxos::dispatch() *)
Dispatch(c, m, from, msg) ==
  LET d == Check(c, c.role = "peon" => from = c.s.leader)
  IN  CASE msg.op = "collect"   -> HandleCollect(d, m, from, msg)
        [] msg.op = "last"      -> HandleLast(d, m, from, msg)
        [] msg.op = "begin"     -> HandleBegin(d, m, from, msg)
        [] msg.op = "accept"    -> HandleAccept(d, m, from, msg)
        [] msg.op = "commit"    -> HandleCommit(d, m, from, msg)
        [] msg.op = "lease"     -> HandleLease(d, m, from, msg)
        [] msg.op = "lease_ack" -> HandleLeaseAck(d, m, from, msg)

(* Monitor::dispatch_op() bootstraps on a Paxos message of a newer epoch than the
   receiver's.  It follows the victory of that epoch on its connection, so that
   happens only when the victory met a probing monitor and was ignored, which is
   out of every quorum anyway: here both messages then stay under way. *)
Deliver(i, m) ==
  /\ Alive(m)
  /\ net[i][m] # <<>>
  /\ LET msg == Head(net[i][m])
     IN  IF msg.op = "victory"
         THEN /\ ~Writing(m)
              /\ Finish(m, HandleVictory(Here(m), i, msg), Without(i, m))
         ELSE Finish(m, Dispatch(Here(m), m, i, msg), Without(i, m))
  /\ UNCHANGED <<acked, spent>>

CommitFinish(m) ==
  /\ Writing(m)
  /\ Finish(m, CommitFinishHandler(Here(m), m), net)
  /\ acked' = acked \union px[m].committing
  /\ UNCHANGED spent

Spend(what, max) ==
  spent[what] < max /\ spent' = [spent EXCEPT ![what] = @ + 1]

Disturb(what, max) ==
  /\ \A m \in Mon : epoch[m] <= BusyEpoch + 1
  /\ Disturbances < MaxDisturbed
  /\ Spend(what, max)

(* A service adds an operation to the pending transaction of the leader and
   calls trigger_propose(). *)
Propose(m) ==
  /\ Alive(m)
  /\ role[m] = "leader"
  /\ epoch[m] <= BusyEpoch
  /\ Spend("op", MaxOp)
  /\ LET c == [Here(m) EXCEPT !.s.pending_proposal = @ \union {spent["op"] + 1}]
     IN  Finish(m, IF c.s.state = "active" THEN ProposePending(c, m) ELSE c, net)
  /\ UNCHANGED acked

(* collect_timeout(), accept_timeout(), lease_ack_timeout(), lease_timeout():
   each asserts where it may fire, and calls bootstrap(). *)
TimeoutAllowed(m, t) ==
  CASE t = "collect"   -> role[m] = "leader"
    [] t = "accept"    -> /\ role[m] = "leader"
                          /\ px[m].state \in {"updating", "updating_previous",
                                              "writing", "writing_previous"}
    [] t = "lease_ack" -> role[m] = "leader" /\ px[m].state = "active"
    [] t = "lease"     -> role[m] = "peon"

Timeout(m, t) ==
  /\ Alive(m)
  /\ ~Writing(m)
  /\ px[m].timers[t] > 0
  /\ Disturb("timeout", MaxTimeout)
  /\ Finish(m, LeaveQuorum(Cancel(Check(Here(m), TimeoutAllowed(m, t)), t), epoch[m]), net)
  /\ UNCHANGED acked

LeaseRenew(m) ==
  /\ Alive(m)
  /\ px[m].timers["lease_renew"] > 0
  /\ Disturb("renew", MaxRenew)
  /\ Finish(m, ExtendLease(Cancel(Here(m), "lease_renew"), m), net)
  /\ UNCHANGED acked

(* m dies and starts again: init() loads what is in the store, where the
   commit being written may or may not have arrived. *)
Crash(m) ==
  /\ Alive(m)
  /\ Disturb("crash", MaxCrash)
  /\ \E applied \in IF Writing(m) THEN BOOLEAN ELSE {FALSE} :
       LET c == LeaveQuorum(Here(m), epoch[m])
       IN  Finish(m, [c EXCEPT !.s = [c.s EXCEPT
                        !.accepted_pn = c.s.stored_pn,
                        !.last_committed = IF applied THEN @ + 1 ELSE @,
                        !.timers = [t \in Timer |-> 0]]],
                  net)
  /\ UNCHANGED acked

Init ==
  /\ epoch = [m \in Mon |-> 1]
  /\ role = [m \in Mon |-> "out"]
  /\ px = [m \in Mon |-> [
       last_pn |-> 0, stored_pn |-> 0, last_committed |-> 0,
       values |-> NoValues, pending_v |-> 0, pending_pn |-> 0,
       state |-> "recovering", accepted_pn |-> 0, leader |-> -1, quorum |-> {},
       uncommitted_v |-> 0, uncommitted_pn |-> 0, uncommitted_value |-> NoValue,
       num_last |-> 0, peer_last_committed |-> [q \in Mon |-> -1],
       accepted |-> {}, new_value |-> NoValue,
       pending_proposal |-> NoValue, committing |-> NoValue,
       lease |-> FALSE, acked_lease |-> {}, timers |-> [t \in Timer |-> 0]]]
  /\ net = [i \in Mon |-> [j \in Mon |-> <<>>]]
  /\ acked = {}
  /\ spent = [w \in {"op", "renew", "timeout", "crash"} |-> 0]

Step(m) ==
  \/ \E e \in VictoryEpoch, Q \in Majorities : Elect(m, e, Q)
  \/ \E i \in Mon : Deliver(i, m)
  \/ CommitFinish(m)
  \/ Propose(m)
  \/ \E t \in Timer \ {"lease_renew"} : Timeout(m, t)
  \/ LeaseRenew(m)
  \/ Crash(m)

Next == \E m \in Mon : Step(m)

Spec == Init /\ [][Next]_vars

(* No message waits for a live monitor, and no write for the store. *)
Settled ==
  \A m \in Mon : ~Writing(m) /\ \A i \in Mon : Alive(m) => net[i][m] = <<>>

(* The messenger delivers and the store finishes its writes.  Every step uses
   up a message, a write or a bound, so a behaviour is weakly fair to Deliver
   and CommitFinish exactly when it settles. *)
Fairness == []<>Settled

FairSpec == Spec /\ Fairness

-----------------------------------------------------------------------------
(* Properties *)

TypeOK ==
  /\ epoch \in [Mon -> 1 .. MaxEpoch + 1]
  /\ role \in [Mon -> {"out", "leader", "peon"}]
  /\ px \in [Mon -> PaxosState]
  /\ net \in [Mon -> [Mon -> Seq(Message)]]
  /\ acked \subseteq Operation
  /\ spent \in [{"op", "renew", "timeout", "crash"} -> Nat]

(* No assert of the Paxos code ever fails: a collect only reaches a peon, a
   begin has the number and the predecessor its peon expects, an accept comes
   once and while the leader waits for it, begin() has a majority and no other
   value in hand, commit_finish() finds the leader writing, and no timeout
   fires in a state it does not expect. *)
NoAssertFails == \A m \in Mon : Alive(m)

Committed(m) == 1 .. px[m].last_committed

(* Whatever the elections, crashes and delays, two monitors never disagree on a
   version that both have committed. *)
Agreement ==
  \A m, n \in Mon : \A v \in Committed(m) \intersect Committed(n) :
    px[m].values[v] = px[n].values[v]

(* A committed version is never lost or rewritten, not by a crash while the
   commit is being written and not by store_state(). *)
LogOnlyGrows ==
  [][\A m \in Mon : /\ px'[m].last_committed >= px[m].last_committed
                    /\ \A v \in Committed(m) : px'[m].values[v] = px[m].values[v]]_vars

(* The highest proposal number m has promised or used, as its store knows it. *)
Promised(m) == Larger(px[m].last_pn, px[m].accepted_pn)

(* A leader that is done with recovery knows every version that anybody has
   committed, unless a member of its quorum has promised a later leader. *)
LeaderKnowsAll ==
  \A m, n \in Mon :
    /\ role[m] = "leader"
    /\ px[m].state \in {"active", "updating", "writing"}
    /\ px[n].last_committed > px[m].last_committed
    => \E q \in px[m].quorum : Promised(q) > px[m].accepted_pn

Readable(m) ==
  /\ role[m] # "out"
  /\ px[m].state \in {"active", "updating", "writing"}
  /\ px[m].last_committed > 0
  /\ px[m].lease

(* A monitor that may answer reads has everything its leader has committed:
   handle_begin() revokes the lease and handle_accept() waits for every member
   of the quorum.  The lease is taken to be valid as long as it is not revoked. *)
NoStaleRead ==
  \A q, l \in Mon :
    /\ Readable(q)
    /\ role[l] = "leader"
    /\ px[q].leader = l
    /\ epoch[q] = epoch[l]
    => px[q].last_committed >= px[l].last_committed

(* The fallback of collect() and handle_collect(), "crossing our fingers" about
   the number a value was accepted under, is never needed. *)
PendingIsRecorded ==
  \A m \in Mon :
    At(px[m].values, px[m].last_committed + 1) # NoValue =>
      px[m].pending_v = px[m].last_committed + 1 /\ px[m].pending_pn # 0

(* No timer is armed twice, and an armed timer may fire: the asserts at the top
   of collect_timeout(), accept_timeout(), lease_ack_timeout() and
   lease_timeout() hold all the time, and a lease is renewed by an active
   leader only. *)
TimersMatchState ==
  \A m \in Mon : \A t \in Timer : px[m].timers[t] > 0 =>
    /\ px[m].timers[t] = 1
    /\ IF t = "lease_renew" THEN role[m] = "leader" /\ px[m].state = "active"
                            ELSE TimeoutAllowed(m, t)

(* Nobody waits without a timer: a peon for its leader, a leader for the
   answers to collect and begin, or to renew its lease. *)
WaitsWithTimer ==
  \A m \in Mon : Alive(m) =>
    /\ role[m] = "peon" => px[m].timers["lease"] > 0
    /\ role[m] = "leader" =>
         CASE px[m].state = "recovering" -> px[m].timers["collect"] > 0
           [] px[m].state \in {"updating", "updating_previous"} -> px[m].timers["accept"] > 0
           [] px[m].state = "active" -> px[m].timers["lease_renew"] > 0
           [] OTHER -> Writing(m)

(* An operation whose client was told it is committed is in the store of a
   majority, under one version. *)
AckedIsDurable ==
  \A o \in acked : \E v \in Version : Majority({m \in Mon : o \in px[m].values[v]})

(* m no longer leads in epoch e, or a member of its quorum does not follow it
   there. *)
Broken(m, e) ==
  \/ role[m] # "leader"
  \/ epoch[m] # e
  \/ \E q \in px[m].quorum : epoch[q] > e \/ (epoch[q] = e /\ px[q].leader # m)

Queued(m) == px[m].pending_proposal \union px[m].committing

(* An operation handed to a leader is committed and its client told, unless the
   quorum breaks: recovery and the rounds before it always come to an end, and
   a proposal queued meanwhile is not forgotten by finish_round(). *)
ProposalsCommit ==
  []<>(\A m \in Mon : role[m] = "leader" => Broken(m, epoch[m]) \/ Queued(m) = {})

(* As long as m leads, an operation leaves its queue by being committed only. *)
NoProposalIsDropped ==
  [][\A m \in Mon :
       role[m] = "leader" /\ role'[m] = "leader" /\ epoch'[m] = epoch[m] =>
         Queued(m) \subseteq Queued(m)' \union acked']_vars

=============================================================================
