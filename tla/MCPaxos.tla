------------------------------ MODULE MCPaxos ------------------------------
(***************************************************************************)
(* Five monitors whose elections, losses and crashes follow one plan: a    *)
(* leader dies after begin() wrote its value, and so forgets the proposal  *)
(* number it leads with, twice; the numbers promised after that are lower  *)
(* than the numbers values are stored under.                               *)
(***************************************************************************)
EXTENDS Paxos

(* The quorum that is elected in each epoch. *)
PlannedQuorum ==
  [e \in VictoryEpoch |-> CASE e = 2 -> {2, 3, 4}
                            [] e \in {4, 10} -> {1, 3, 4}
                            [] e \in {6, 8} -> {0, 1, 2}]

(* The messages that do not arrive before their epoch ends. *)
Delayed(msg, m) ==
  \/ msg.epoch = 2 /\ msg.op = "begin"
  \/ msg.epoch = 4 /\ msg.op = "begin" /\ m = 4
  \/ msg.epoch = 6 /\ msg.op = "begin" /\ m = 2
  \/ msg.epoch = 8 /\ msg.op = "commit"

Arrives(i, m) == net[i][m] # <<>> /\ ~Delayed(Head(net[i][m]), m)

(* The leaders of epochs 2 and 4 get an operation and die with it. *)
Dies(m) == role[m] = "leader" /\ epoch[m] \in {2, 4}

Quiet == \A m \in Mon : ~Dies(m) /\ ~Writing(m) /\ \A i \in Mon : ~Arrives(i, m)

PlannedStep(m) ==
  \/ \E e \in VictoryEpoch :
       Quiet /\ (\A q \in Mon : epoch[q] < e) /\ (\E q \in Mon : epoch[q] \in {1, e - 2})
       /\ Elect(m, e, PlannedQuorum[e])
  \/ \E i \in Mon : Arrives(i, m) /\ Deliver(i, m)
  \/ CommitFinish(m)
  \/ Dies(m) /\ spent["op"] < epoch[m] \div 2 /\ Propose(m)
  \/ Dies(m) /\ px[m].new_value # NoValue /\ (\A i, j \in Mon : ~Arrives(i, j)) /\ Crash(m)

PlannedSpec == Init /\ [][\E m \in Mon : PlannedStep(m)]_vars

=============================================================================
