----------------------------- MODULE PGPeering -----------------------------
(***************************************************************************)
(* The logs of an erasure coded placement group over changes of its acting *)
(* set: peering (src/osd/PG.cc) chooses an authoritative log, every shard  *)
(* brings its own log in line with it (src/osd/PGLog.cc) and only then     *)
(* writes go on.                                                           *)
(*                                                                         *)
(* A shard lives on one OSD.  Whoever is up acts, as long as logs are not  *)
(* trimmed and nobody has to be backfilled; choose_acting() refuses a set  *)
(* below min_size, which leaves no trace, so intervals with one are left   *)
(* out.  There is one object and every log entry changes it.  ECWrite has  *)
(* the writes of one interval in detail; here shards commit them and roll  *)
(* them forward at any time after they may.  What a shard does is durable  *)
(* at once: it reports nothing that is not on disk (reset_interval_flush), *)
(* so a crash before the commit is as if the step had not been taken.  All *)
(* shards of an interval enter it together: one that still lives in the    *)
(* old interval could only do what it might as well have done before.      *)
(*                                                                         *)
(* A definition Op_Variant is a faulty variant of Op, kept to show that    *)
(* the properties notice the fault; no action uses one.                    *)
(***************************************************************************)
EXTENDS Integers, Sequences, FiniteSets

CONSTANTS Pools,     \* the pools to look at
          MaxVersion \* bound: log entries on top of each other

(* size: chunks of an object, and so shards; k: how many of them suffice to read it;
   max_interval: bound on the intervals. *)
ASSUME PoolAssumption ==
  \A p \in Pools : /\ {p.size, p.k, p.min_size, p.max_interval} \subseteq Nat \ {0}
                    /\ p.k <= p.min_size /\ p.min_size <= p.size
ASSUME BoundAssumption == MaxVersion \in 1 .. 9

VARIABLES
  pool,         \* the pool of the placement group
  interval,     \* the intervals so far; the last one is the current one
  phase,        \* of the current interval: "GetInfo", "WaitUpThru" or "Active"
  pg,           \* pg[s]: what shard s has on disk
  peer_missing, \* peer_missing[s]: what the primary thinks that s is missing
  activated,    \* the shards that have activated
  issued,       \* the entries that the primary sent out in this interval
  known,        \* the entries that clients know of: reported as committed, or read
  broken,       \* shards whose OSD dies over a rollback whenever it starts
  ok            \* no assertion failed so far

vars == <<pool, interval, phase, pg, peer_missing, activated, issued, known, broken, ok>>

Shard == 0 .. pool.size - 1
MaxInterval == pool.max_interval

(* eversion_t: the epoch of the entry, then its number; ordered lexicographically.
   An epoch is the number of an interval. *)
EVersion(epoch, v) == 10 * epoch + v
VersionOf(ev) == ev % 10
Nil == 0
EVersions == {EVersion(e, v) : e \in 1 .. MaxInterval, v \in 1 .. MaxVersion}

(* An object that is missing, or not: the version needed and the one in the store. *)
NotMissing == [need |-> Nil, have |-> Nil]
Missing == [need : {Nil} \union EVersions, have : {Nil} \union EVersions]
IsMissing(m) == m # NotMissing

(* pg_info_t and PGLog of a shard. *)
PGState == [log : Seq(EVersions), can_rollback_to : EVersions,
            last_epoch_started : 1 .. MaxInterval, history_les : 1 .. MaxInterval,
            missing : Missing]

Interval == [acting : SUBSET Shard, maybe_went_rw : BOOLEAN]

Epoch == Len(interval)
Acting == interval[Epoch].acting
Elements(seq) == {seq[i] : i \in DOMAIN seq}
Last(seq) == seq[Len(seq)]
Largest(S) == CHOOSE n \in S : \A k \in S : k <= n
Smallest(S) == CHOOSE n \in S : \A k \in S : n <= k

(* calc_ec_acting() makes the first shard of the acting set the primary. *)
Primary == Smallest(Acting)

Recoverable(have) == Cardinality(have) >= pool.k

-----------------------------------------------------------------------------
(* PGLog.  A context is a PGState with what the merge found out on its way:
   aborted, an entry was rolled back that cannot be. *)

After(log, ev) == SelectSeq(log, LAMBDA e : e > ev)

(* rewind_from_head() looks at the number of an entry, not at its epoch. *)
Kept(log, newhead) == SelectSeq(log, LAMBDA e : VersionOf(e) <= VersionOf(newhead))
Divergent(log, newhead) == SelectSeq(log, LAMBDA e : VersionOf(e) > VersionOf(newhead))

RewindFromHead(p, newhead) ==
  [p EXCEPT !.log = Kept(@, newhead),
            !.can_rollback_to = IF @ > newhead THEN newhead ELSE @]

(* add_next_event() of every entry of new, the first of which follows on prior. *)
AddNextEvents(m, prior, new) ==
  IF new = <<>> THEN m
  ELSE [need |-> Last(new), have |-> IF IsMissing(m) THEN m.have ELSE prior]

CanRollback(divergent, boundary) == \A e \in Elements(divergent) : e > boundary

(* _merge_object_divergent_entries(): what becomes of the missing object when the
   divergent entries are gone from the log; boundary is olog_can_rollback_to. *)
MergeDivergent(m, log, divergent, boundary) ==
  LET prior == Last(log)
  IN  IF divergent = <<>> THEN m
      ELSE IF prior >= Head(divergent) THEN [need |-> prior, have |-> Nil]
      ELSE IF IsMissing(m)
           THEN IF m.have = prior THEN NotMissing ELSE [m EXCEPT !.need = prior]
      ELSE IF CanRollback(divergent, boundary) THEN m
      ELSE [need |-> prior, have |-> Nil]

(* The boundary that rewind_divergent_log() passes on: it has been moved to newhead
   by then. *)
RewindBoundary(p, newhead) == RewindFromHead(p, newhead).can_rollback_to

RewindDivergentLog(p, newhead) ==
  LET r == RewindFromHead(p, newhead)
  IN  [r EXCEPT !.missing = MergeDivergent(p.missing, r.log, Divergent(p.log, newhead),
                                           RewindBoundary(p, newhead))]

(* Does rewind_divergent_log() roll back an entry whose rollback objects are gone? *)
RollsBackTrimmed(p, newhead) ==
  LET divergent == Divergent(p.log, newhead)
  IN  /\ divergent # <<>>
      /\ ~ IsMissing(p.missing)
      /\ CanRollback(divergent, RewindBoundary(p, newhead))
      /\ ~ CanRollback(divergent, p.can_rollback_to)

(* The last entry of log that is not newer than head: there the logs part. *)
SharedUpTo(log, head) == Largest({e \in Elements(log) : e <= head})

ExtendHead(p, olog) ==
  LET shared == SharedUpTo(olog, Last(p.log))
      new == After(olog, shared)
      r == RewindFromHead(p, shared)
      log == r.log \o new
  IN  [r EXCEPT !.log = log,
                !.can_rollback_to = Last(log),
                !.missing = MergeDivergent(AddNextEvents(p.missing, shared, new), log,
                                           Divergent(p.log, shared), shared)]

MergeLog_ExtendsOnly(p, olog) == IF Last(olog) > Last(p.log) THEN ExtendHead(p, olog) ELSE p

MergeLog(p, olog) ==
  LET r == IF Last(olog) < Last(p.log) THEN RewindDivergentLog(p, Last(olog)) ELSE p
  IN  IF Last(olog) > Last(r.log) THEN ExtendHead(r, olog) ELSE r

MergeAborts(p, olog) == Last(olog) < Last(p.log) /\ RollsBackTrimmed(p, Last(olog))

PeerMissing_OldEntries(p, log) ==
  LET shared == SharedUpTo(log, Last(p.log))
  IN  MergeDivergent(p.missing, Kept(p.log, shared), Divergent(p.log, shared),
                     p.can_rollback_to)

(* proc_replica_log() by the primary, whose log is log, for the peer p; then
   activate() adds the entries that it sends to the peer. *)
PeerMissing(p, log) ==
  IF Last(p.log) = Last(log) THEN p.missing
  ELSE LET shared == SharedUpTo(log, Last(p.log))
       IN  AddNextEvents(
             MergeDivergent(p.missing, Kept(p.log, shared), Divergent(p.log, shared),
                            p.can_rollback_to),
             shared, After(log, shared))

-----------------------------------------------------------------------------
(* Peering *)

(* The placement group starts with one entry that all shards have. *)
Init ==
  /\ pool \in Pools
  /\ interval = <<[acting |-> Shard, maybe_went_rw |-> TRUE]>>
  /\ phase = "Active"
  /\ pg = [s \in Shard |-> [log |-> <<EVersion(1, 1)>>, can_rollback_to |-> EVersion(1, 1),
                            last_epoch_started |-> 1, history_les |-> 1,
                            missing |-> NotMissing]]
  /\ peer_missing = [s \in Shard |-> NotMissing]
  /\ activated = Shard
  /\ issued = <<EVersion(1, 1)>>
  /\ known = {EVersion(1, 1)}
  /\ broken = {}
  /\ ok = TRUE

NewInterval_KeepsActivated(up, alive) ==
  /\ Epoch < MaxInterval
  /\ Cardinality(up) >= pool.min_size
  /\ up # Acting
  /\ interval' = Append([interval EXCEPT ![Epoch].maybe_went_rw = @ \/ alive],
                        [acting |-> up, maybe_went_rw |-> FALSE])
  /\ phase' = "GetInfo"
  /\ UNCHANGED <<pg, peer_missing, activated, issued, known, broken, ok>>

(* OSDs go down or come back.  What was under way is dropped.  check_new_interval()
   takes it that the old interval may have written if the monitors noted that its
   primary was alive in it, which they may do for the sake of another group. *)
NewInterval(up, alive) ==
  /\ Epoch < MaxInterval
  /\ Cardinality(up) >= pool.min_size
  /\ up \intersect broken = {}
  /\ up # Acting
  /\ interval' = Append([interval EXCEPT ![Epoch].maybe_went_rw = @ \/ alive],
                        [acting |-> up, maybe_went_rw |-> FALSE])
  /\ phase' = "GetInfo"
  /\ activated' = {}
  /\ issued' = <<>>
  /\ peer_missing' = [s \in Shard |-> NotMissing]
  /\ UNCHANGED <<pg, known, broken, ok>>

HistoryLes == Largest({pg[s].history_les : s \in Acting})

PriorSetDown_Never == FALSE

(* build_prior(): an interval that may have written, and too few of its shards up. *)
PriorSetDown ==
  \E i \in HistoryLes .. Epoch - 1 :
    /\ interval[i].maybe_went_rw
    /\ ~ Recoverable(interval[i].acting \intersect Acting)
    /\ ~ (interval[i].acting \subseteq Acting)

MaxLes ==
  Largest({pg[s].history_les : s \in Acting} \union {pg[s].last_epoch_started : s \in Acting})

(* find_best_info(): of the shards of the latest interval that started, one with
   the oldest last_update.  The primary prefers itself, all things being equal. *)
AuthShards ==
  LET fit == {s \in Acting : pg[s].last_epoch_started >= MaxLes}
  IN  {s \in fit : \A t \in fit : Last(pg[s].log) <= Last(pg[t].log)}

CanPeer == ~ PriorSetDown /\ AuthShards # {}

(* GetInfo, GetLog and GetMissing: all shards report what they have, the primary
   takes the authoritative log over and finds out what the others are missing.
   If it had to ask them, they heard of the history that it knew of. *)
GetLog(asked) ==
  LET auth == CHOOSE s \in AuthShards : Primary \in AuthShards => s = Primary
      olog == pg[auth].log
      mine == [MergeLog(pg[Primary], olog) EXCEPT
                 !.last_epoch_started = Largest({@, pg[auth].last_epoch_started}),
                 !.history_les = HistoryLes]
      dies == MergeAborts(pg[Primary], olog)
  IN  /\ phase = "GetInfo"
      /\ CanPeer
      /\ broken' = IF dies THEN broken \union {Primary} ELSE broken
      /\ phase' = IF dies THEN "GetInfo" ELSE "WaitUpThru"
      /\ pg' = IF dies THEN pg
               ELSE [s \in Shard |->
                       IF s = Primary THEN mine
                       ELSE IF asked /\ s \in Acting THEN [pg[s] EXCEPT !.history_les = HistoryLes]
                       ELSE pg[s]]
      /\ peer_missing' = [s \in Shard |->
           IF dies \/ s \notin Acting THEN NotMissing
           ELSE IF s = Primary THEN mine.missing
           ELSE PeerMissing(pg[s], mine.log)]
      /\ ok' = (ok /\ (dies \/ mine.last_epoch_started >= HistoryLes))
      /\ UNCHANGED <<interval, activated, issued, known>>

Activated_History(p) == [p EXCEPT !.history_les = Epoch, !.can_rollback_to = Last(p.log)]

(* The roll forward is part of the transaction of activate(). *)
Activated(p) == [p EXCEPT !.last_epoch_started = Epoch, !.can_rollback_to = Last(p.log)]

(* activate().  The primary sends the others its info and log in the same step in
   which it queues its own transaction, so they commit in any order.  Before that it has
   waited until the monitors noted that it is alive (WaitUpThru). *)
Activate(s) ==
  LET p == MergeLog(pg[s], pg[Primary].log)
      dies == MergeAborts(pg[s], pg[Primary].log)
  IN  /\ phase = "WaitUpThru"
      /\ s \in Acting \ (activated \union broken)
      /\ Primary \notin broken
      /\ interval' = [interval EXCEPT ![Epoch].maybe_went_rw = TRUE]
      /\ broken' = IF dies THEN broken \union {s} ELSE broken
      /\ activated' = IF dies THEN activated ELSE activated \union {s}
      /\ pg' = IF dies THEN pg
               ELSE [pg EXCEPT ![s] = Activated(p)]
      /\ ok' = (ok /\ (dies \/ p.log = pg[Primary].log))
      /\ UNCHANGED <<phase, peer_missing, issued, known>>

(* All shards have committed their activation.  The primary takes requests again. *)
AllReplicasActivated ==
  /\ phase = "WaitUpThru"
  /\ activated = Acting
  /\ phase' = "Active"
  /\ pg' = [pg EXCEPT ![Primary].history_les = pg[Primary].last_epoch_started]
  /\ issued' = pg[Primary].log
  /\ UNCHANGED <<interval, peer_missing, activated, known, broken, ok>>

(* The info that the primary shares once it is active. *)
HandleInfo(s) ==
  /\ phase = "Active"
  /\ s \in Acting
  /\ pg[s].history_les # pg[s].last_epoch_started
  /\ pg' = [pg EXCEPT ![s].history_les = pg[s].last_epoch_started]
  /\ UNCHANGED <<interval, phase, peer_missing, activated, issued, known, broken, ok>>

-----------------------------------------------------------------------------
(* An active placement group *)

(* is_degraded_object: a shard is missing it. *)
Degraded == \E s \in Acting : IsMissing(peer_missing[s])

(* A write waits for the recovery of its object. *)
SubmitWrite ==
  LET v == VersionOf(Last(issued)) + 1
  IN  /\ phase = "Active"
      /\ v <= MaxVersion
      /\ ~ Degraded
      /\ issued' = Append(issued, EVersion(Epoch, v))
      /\ UNCHANGED <<interval, phase, pg, peer_missing, activated, known, broken, ok>>

(* append_log() also notes in the history that the interval went active. *)
AppendLog(p, e) ==
  [p EXCEPT !.log = Append(@, e), !.history_les = p.last_epoch_started]

(* A shard commits the next entry. *)
HandleSubWrite(s) ==
  LET new == After(issued, Last(pg[s].log))
  IN  /\ phase = "Active"
      /\ s \in Acting
      /\ new # <<>>
      /\ pg' = [pg EXCEPT ![s] = AppendLog(@, Head(new))]
      /\ UNCHANGED <<interval, phase, peer_missing, activated, issued, known, broken, ok>>

Committed(e) == \A s \in Acting : e \in Elements(pg[s].log)

RollForwardTo_Issued == Last(issued)

RollForwardTo == Largest(known \intersect Elements(issued))

(* The next write, or the dummy after the last one, tells a shard how far it may
   roll forward. *)
RollForward(s) ==
  /\ phase = "Active"
  /\ s \in Acting
  /\ pg[s].can_rollback_to < RollForwardTo
  /\ pg' = [pg EXCEPT ![s].can_rollback_to = RollForwardTo]
  /\ UNCHANGED <<interval, phase, peer_missing, activated, issued, known, broken, ok>>

(* The shards that the primary reads the object from. *)
Sources == {s \in Acting : ~ IsMissing(peer_missing[s])}

(* A client comes to know of the oldest entry that no client knows of yet: it is
   told that its write is committed, or that the write it sent again is in the log,
   or it reads the object.  The last two are possible if peering kept an entry of an
   older interval; do_op() lets a read wait for recovery if the primary is missing
   the object, and a write if any shard is. *)
Complete ==
  LET unknown == {e \in Elements(issued) : e \notin known}
  IN  /\ phase = "Active"
      /\ unknown # {}
      /\ Committed(Smallest(unknown))
      /\ Primary \in Sources
      /\ Recoverable(Sources)
      /\ known' = known \union {Smallest(unknown)}
      /\ UNCHANGED <<interval, phase, pg, peer_missing, activated, issued, broken, ok>>

(* Recovery of the object on shard s: read from others, pushed to s.  Outside of
   repair, on_local_recover() never finds the version to be newer than what s has
   rolled forward. *)
Recover(s) ==
  /\ phase = "Active"
  /\ s \in Acting
  /\ IsMissing(peer_missing[s])
  /\ Recoverable(Sources)
  /\ pg' = [pg EXCEPT ![s].missing = NotMissing]
  /\ peer_missing' = [peer_missing EXCEPT ![s] = NotMissing]
  /\ ok' = (ok /\ peer_missing[s].need <= pg[s].can_rollback_to)
  /\ UNCHANGED <<interval, phase, activated, issued, known, broken>>

Step ==
  \/ \E up \in SUBSET Shard, alive \in BOOLEAN : NewInterval(up, alive)
  \/ \E asked \in BOOLEAN : GetLog(asked)
  \/ \E s \in Shard : Activate(s)
  \/ AllReplicasActivated
  \/ \E s \in Shard : HandleInfo(s)
  \/ SubmitWrite
  \/ \E s \in Shard : HandleSubWrite(s)
  \/ Complete
  \/ \E s \in Shard : RollForward(s)
  \/ \E s \in Shard : Recover(s)

Next == Step /\ UNCHANGED pool

Spec == Init /\ [][Next]_vars
-----------------------------------------------------------------------------
(* Type correctness of the shards and of the primary's view of them. *)
TypeOK ==
  /\ pool \in Pools
  /\ interval \in Seq(Interval) /\ Epoch \in 1 .. MaxInterval
  /\ phase \in {"GetInfo", "WaitUpThru", "Active"}
  /\ pg \in [Shard -> PGState]
  /\ peer_missing \in [Shard -> Missing]
  /\ activated \subseteq Acting
  /\ issued \in Seq(EVersions)
  /\ known \subseteq EVersions
  /\ broken \subseteq Shard
  /\ ok \in BOOLEAN

(* No assertion of peering fails: the primary that takes a log over is not behind
   the history it has heard of (proc_master_log), a shard that was told to
   activate ends with the log of its primary (Stray::react), and recovery brings
   nothing that the shard could still roll back (on_local_recover). *)
NoAssertFails == ok

(* What a client was told or has read is in the log that peering settles on,
   whoever went down in between and however far the intervals in between came
   (last_epoch_started, find_best_info, build_prior). *)
KnownSurvives ==
  phase # "GetInfo" => known \subseteq Elements(pg[Primary].log)

(* Can version e of the object be read from the disk of s, if need be after rolling
   back what came later? *)
Stores(s, e) ==
  \/ pg[s].missing.have = e
  \/ /\ ~ IsMissing(pg[s].missing)
     /\ e \in Elements(pg[s].log)
     /\ CanRollback(After(pg[s].log, e), pg[s].can_rollback_to)

(* The last write that a client was told of is not lost: it, or a write on top of
   it, can be rebuilt from shards that are not broken, up or down. *)
NothingIsLost ==
  \E e \in EVersions :
    /\ e >= Largest(known)
    /\ Recoverable({s \in Shard \ broken : Stores(s, e)})

(* What the primary thinks that a shard is missing (proc_replica_log) is what the
   shard itself finds out when it merges the primary's log: otherwise it would be
   read from before it is recovered. *)
PeerMissingIsRight ==
  \A s \in activated : peer_missing[s].need = pg[s].missing.need

(* With all shards up, peering always finds a log to go on with: neither
   last_epoch_started nor the prior set can ask for more than there is. *)
AllUpCanPeer == phase = "GetInfo" /\ Acting = Shard => CanPeer
=============================================================================
