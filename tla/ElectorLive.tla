---------------------------- MODULE ElectorLive ----------------------------
(***************************************************************************)
(* The election when the network is timely: mon_election_timeout (5 s) and *)
(* the Paxos timeouts are long compared with the delivery of a message, so *)
(* a timer only fires once everything that was sent to a live monitor has  *)
(* been handled, and a live peer answers a probe with what it knows.       *)
(***************************************************************************)
EXTENDS Elector

CONSTANT Mortal        \* monitors that may crash

(* Nothing is under way to a live monitor. *)
Quiet == \A i, j \in Mon : Up(j) => net[i][j] = <<>>

Follows(q, l) ==
  /\ mon[q].state \in {"leader", "peon"}
  /\ mon[q].epoch = mon[l].epoch
  /\ mon[q].leader = mon[l].leader

TimelyProbeReply(m, from) ==
  /\ Up(from)
  /\ ProbeReply(m, from, mon[from].quorum # {})

TimelyExpire(m) == Quiet /\ FireExpire(m) /\ UNCHANGED spent

(* A leader or peon whose quorum is broken: the lease, lease_ack, collect or
   accept timer of Paxos expires and calls bootstrap(). *)
QuorumBroken(m) ==
  /\ mon[m].state \in {"leader", "peon"}
  /\ \E q \in mon[m].quorum : ~Follows(q, m)

PaxosTimeout(m) ==
  /\ Quiet
  /\ QuorumBroken(m)
  /\ Finish(m, Bootstrap(Context(mon[m]), m), net)
  /\ UNCHANGED spent

TimelyStep(m) ==
  \/ \E i \in Mon : Deliver(i, m)
  \/ \E i \in Mon : TimelyProbeReply(m, i)
  \/ TimelyExpire(m)
  \/ ProbeTimeout(m)
  \/ PaxosTimeout(m)
  \/ m \in Mortal /\ Crash(m)
  \/ Restart(m)

TimelyNext == (\E m \in Mon : TimelyStep(m)) /\ UNCHANGED setting

TimerDue(m) == Quiet /\ Up(m) /\ (mon[m].expire_event \/ QuorumBroken(m))

CanProbe(m) ==
  /\ mon[m].state = "probing"
  /\ \E i \in Mon \ {m} :
       Up(i) /\ (mon[i].quorum # {} \/ i \notin mon[m].outside_quorum)

(* Messages are handled and probes are answered; a monitor that crashed may or
   may not be started again.  The timers of all monitors have about the same
   length, so one that is due again and again while the network falls quiet
   cannot be overtaken for ever: strong fairness, written out because TimerDue
   says when the two actions are enabled. *)
Fairness ==
  /\ []<>Quiet
  /\ \A m \in Mon :
       /\ []<>~CanProbe(m) \/ []<><<\E i \in Mon : TimelyProbeReply(m, i)>>_vars
       /\ <>[]~TimerDue(m) \/ []<><<TimelyExpire(m) \/ PaxosTimeout(m)>>_vars

TimelySpec == Init /\ [][TimelyNext]_vars /\ Fairness

(* One leader, and every live monitor in its quorum and following it. *)
Stable ==
  \E l \in Mon :
    /\ mon[l].state = "leader"
    /\ mon[l].quorum = {m \in Mon : Up(m)}
    /\ \A q \in mon[l].quorum : Follows(q, l)

(* With fewer than half of the monitors gone the rest settle on one quorum and
   keep it, although a monitor may have acknowledged one that then died, and
   bump_epoch() keeps that acknowledgement. *)
EventuallyStable == <>[]Stable

=============================================================================
