------------------------------ MODULE ECWrite ------------------------------
(***************************************************************************)
(* The write pipeline of an erasure coded placement group: the waiting     *)
(* lists of src/osd/ECBackend.cc, the cache of extents in flight           *)
(* (src/osd/ExtentCache.cc) and the log of every shard.  A write that      *)
(* changes a part of a stripe reads the stripe first; writes are in flight *)
(* together, so what it must read may still be on its way to the shards.   *)
(*                                                                         *)
(* The primary's handlers run under the lock of the placement group.  Each *)
(* ends in check_ops(), a loop over three steps: the steps are actions of  *)
(* their own (TryStateToReads, TryReadsToCommit, TryFinishRmw, in the      *)
(* loop's order) and no handler runs before the loop has ended (Settled).  *)
(*                                                                         *)
(* All shards are acting and none is backfilling.  An extent is a whole    *)
(* stripe, as every plan is aligned to stripes.  The contents of a stripe  *)
(* are the set of writes that they show.  An object store applies a        *)
(* transaction before it commits it and reports both in this order         *)
(* (BlueStore, which pools with overwrites require), so pending_apply is   *)
(* empty whenever pending_commit is, and only the latter is kept.          *)
(*                                                                         *)
(* A definition Op_Variant is a faulty variant of Op, kept to show that    *)
(* the properties notice the fault; no action uses one.                    *)
(***************************************************************************)
EXTENDS Integers, Sequences, FiniteSets

CONSTANTS Shard,        \* the acting set
          Primary,      \* the shard that runs the pipeline
          Stripe,       \* the stripes that writes touch
          Plans,        \* the write plans that clients may cause
          MaxVersion,   \* bound: log entries (writes and others)
          MaxLogUpdate, \* bound: entries submitted outside the pipeline
          MaxInterval   \* bound: changes of the interval

Version == 1 .. MaxVersion
Contents == SUBSET Version
NoContents == {}
NoPin == 0

(* ECTransaction::WritePlan. *)
WritePlan == [to_read : SUBSET Stripe, will_write : SUBSET Stripe, invalidates_cache : BOOLEAN]
NoPlan == [to_read |-> {}, will_write |-> {}, invalidates_cache |-> FALSE]

ASSUME ShardAssumption == Primary \in Shard /\ IsFiniteSet(Shard)
ASSUME PlanAssumption ==
  Plans \subseteq {p \in WritePlan : p.to_read \subseteq p.will_write}
ASSUME BoundAssumption == {MaxVersion, MaxLogUpdate, MaxInterval} \subseteq Nat

VARIABLES
  waiting_state,  \* writes waiting for the cache, oldest first
  waiting_reads,  \* writes waiting for the stripes they read
  waiting_commit, \* writes waiting for the shards
  cache_valid,    \* pipeline_state: is it CACHE_VALID?
  cache,          \* cache[x]: the write that pins stripe x, and its contents once known
  committed_to,   \* the last write that every shard committed
  log_update,     \* log_update[v]: shards that have not committed entry v of submit_log_entries
  plan,           \* plan[v]: what version v does, for the versions given out so far
  written,        \* written[v]: the stripes that version v sent to the shards
  inbox,          \* inbox[s]: messages to shard s, oldest first
  log,            \* log[s]: the versions in the log of shard s
  can_rollback_to,\* can_rollback_to[s]: s can roll back only what is newer
  unanswered,     \* unanswered[s]: messages that s handled and whose answer is on its way
  acked,          \* versions that are reported as committed
  intervals,      \* how often the interval changed
  ok              \* no assertion failed so far

vars == <<waiting_state, waiting_reads, waiting_commit, cache_valid, cache, committed_to,
          log_update, plan, written, inbox, log, can_rollback_to, unanswered, acked,
          intervals, ok>>

shards == <<inbox, log, can_rollback_to, unanswered, written>>

(* ECBackend::Op.  version is 0 in the dummy that only rolls forward. *)
Op == [version : {0} \union Version, plan : WritePlan, roll_forward_to : {0} \union Version,
       using_cache : BOOLEAN, pending_read : SUBSET Stripe, remote_read : SUBSET Stripe,
       read_done : BOOLEAN, remote_read_result : [Stripe -> Contents],
       pending_commit : SUBSET Shard, on_write : Seq(Version)]

Message == [version : {0} \union Version, roll_forward_to : {0} \union Version,
            log_update : BOOLEAN]

NewOp(v, p, to) ==
  [version |-> v, plan |-> p, roll_forward_to |-> to, using_cache |-> FALSE,
   pending_read |-> {}, remote_read |-> {}, read_done |-> FALSE,
   remote_read_result |-> [x \in Stripe |-> NoContents],
   pending_commit |-> {}, on_write |-> <<>>]

RequiresRmw(op) == op.plan.to_read # {}
ReadInProgress(op) == op.remote_read # {} /\ ~ op.read_done
WriteInProgress(op) == op.pending_commit # {}

Elements(seq) == {seq[i] : i \in DOMAIN seq}
Maximum(S) == CHOOSE n \in S : \A k \in S : k <= n
Minimum(S) == CHOOSE n \in S : \A k \in S : n <= k
LastUpdate(l) == IF l = <<>> THEN 0 ELSE l[Len(l)]
NextVersion == Len(plan) + 1

(* The last position in l of an entry up to v, 0 if there is none. *)
LastUpTo(l, v) == Maximum({0} \union {i \in DOMAIN l : l[i] <= v})

(* rewind_from_head: entries newer than v are taken from the end of the log. *)
UpTo(l, v) == SubSeq(l, 1, LastUpTo(l, v))

-----------------------------------------------------------------------------
(* ExtentCache *)

Absent == [pin |-> NoPin, pending |-> FALSE, bl |-> NoContents]
Cached(x) == cache[x].pin # NoPin

(* reserve_extents_for_rmw: the stripes that v will write become v's.  One that
   is not cached is pending until its write presents it. *)
Reserved(v, to_write) ==
  [x \in Stripe |->
     IF x \notin to_write THEN cache[x]
     ELSE IF Cached(x) THEN [cache[x] EXCEPT !.pin = v]
     ELSE [pin |-> v, pending |-> TRUE, bl |-> NoContents]]

MustRead(to_read) == {x \in to_read : ~ Cached(x)}

(* What get_remaining_extents_for_rmw asserts. *)
CanGet(to_get) == \A x \in to_get : Cached(x) /\ ~ cache[x].pending

Presented(update) ==
  [x \in Stripe |->
     IF x \in DOMAIN update THEN [cache[x] EXCEPT !.bl = update[x], !.pending = FALSE]
     ELSE cache[x]]

Released_All(v) == [x \in Stripe |-> IF v # NoPin THEN Absent ELSE cache[x]]

(* release_pin drops what v still pins, not what a newer write took over. *)
Released(v) == [x \in Stripe |-> IF cache[x].pin = v THEN Absent ELSE cache[x]]

-----------------------------------------------------------------------------
(* The shards *)

(* What shard s has stored for stripe x. *)
Stored(s, x) ==
  LET writers == {v \in Elements(log[s]) : x \in DOMAIN written[v]}
  IN  IF writers = {} THEN NoContents ELSE written[Maximum(writers)][x]

SubWrite(op) ==
  [version |-> op.version, roll_forward_to |-> op.roll_forward_to, log_update |-> FALSE]
UpdateLogMissing(v) == [version |-> v, roll_forward_to |-> 0, log_update |-> TRUE]

(* Asserted wherever entries are added to a log. *)
InOrder(s, m) == m.version # 0 => LastUpdate(log[s]) < m.version

Entries_Dummy(m) == <<m.version>>

(* The log entries of a message: the dummy has none. *)
Entries(m) == IF m.version = 0 THEN <<>> ELSE <<m.version>>

(* handle_sub_write and do_update_log_missing: log_operation() adds the entries,
   then rolls forward. *)
Handled(s, m) ==
  /\ log' = [log EXCEPT ![s] = @ \o Entries(m)]
  /\ can_rollback_to' = [can_rollback_to EXCEPT ![s] = Maximum({@, m.roll_forward_to})]
  /\ unanswered' = [unanswered EXCEPT ![s] = Append(@, m)]

(* The primary handles its own part at once and sends the others theirs. *)
SendToAll(m) ==
  /\ Handled(Primary, m)
  /\ inbox' = [s \in Shard |-> IF s = Primary THEN inbox[s] ELSE Append(inbox[s], m)]

LogUpdateWaitsOn_Primary == {Primary}

(* The shards whose answers complete an entry of submit_log_entries. *)
LogUpdateWaitsOn == Shard

(* The callback of submit_log_entries. *)
UpdateLogs(v) ==
  /\ SendToAll(UpdateLogMissing(v))
  /\ log_update' = [log_update EXCEPT ![v] = LogUpdateWaitsOn]
  /\ ok' = (ok /\ InOrder(Primary, UpdateLogMissing(v)))

-----------------------------------------------------------------------------
Init ==
  /\ waiting_state = <<>> /\ waiting_reads = <<>> /\ waiting_commit = <<>>
  /\ cache_valid = TRUE
  /\ cache = [x \in Stripe |-> Absent]
  /\ committed_to = 0
  /\ log_update = [v \in Version |-> {}]
  /\ plan = <<>>
  /\ written = [v \in Version |-> <<>>]
  /\ inbox = [s \in Shard |-> <<>>]
  /\ log = [s \in Shard |-> <<>>]
  /\ can_rollback_to = [s \in Shard |-> 0]
  /\ unanswered = [s \in Shard |-> <<>>]
  /\ acked = {}
  /\ intervals = 0
  /\ ok = TRUE

(* The conditions of the three steps of check_ops(). *)
StateCanMove ==
  /\ waiting_state # <<>>
  /\ ~ (RequiresRmw(Head(waiting_state)) /\ ~ cache_valid)
ReadsCanMove == waiting_reads # <<>> /\ ~ ReadInProgress(Head(waiting_reads))
CommitCanMove == waiting_commit # <<>> /\ ~ WriteInProgress(Head(waiting_commit))

(* A write was sent and callbacks wait for it. *)
OnWriteDue ==
  waiting_commit # <<>> /\ waiting_commit[Len(waiting_commit)].on_write # <<>>

Settled == ~ OnWriteDue /\ ~ StateCanMove /\ ~ ReadsCanMove /\ ~ CommitCanMove

RollForwardTo_Submitted == Len(plan)

(* min_last_complete_ondisk, which the caller of submit_transaction passes, moves
   with the same answers as committed_to. *)
RollForwardTo == committed_to

(* submit_transaction, start_rmw. *)
SubmitTransaction(p) ==
  /\ Settled
  /\ NextVersion \in Version
  /\ plan' = Append(plan, p)
  /\ waiting_state' = Append(waiting_state, NewOp(NextVersion, p, RollForwardTo))
  /\ UNCHANGED <<waiting_reads, waiting_commit, cache_valid, cache, committed_to,
                 log_update, shards, acked, intervals, ok>>

UsingCache(op) == ~ op.plan.invalidates_cache /\ cache_valid

TryStateToReads ==
  LET op == Head(waiting_state)
      using == UsingCache(op)
      remote == IF using THEN MustRead(op.plan.to_read) ELSE op.plan.to_read
  IN  /\ ~ OnWriteDue /\ StateCanMove
      /\ waiting_state' = Tail(waiting_state)
      /\ waiting_reads' = Append(waiting_reads, [op EXCEPT
            !.using_cache = using,
            !.remote_read = remote,
            !.pending_read = op.plan.to_read \ remote])
      /\ cache_valid' = (cache_valid /\ ~ op.plan.invalidates_cache)
      /\ cache' = IF using THEN Reserved(op.version, op.plan.will_write) ELSE cache
      /\ UNCHANGED <<waiting_commit, committed_to, log_update, plan, shards, acked,
                     intervals, ok>>

(* The callback of objects_read_async_no_cache.  What it gets was read from the
   shards some time after the read was sent. *)
ReadDone(i, s) ==
  /\ Settled
  /\ ReadInProgress(waiting_reads[i])
  /\ waiting_reads' = [waiting_reads EXCEPT
        ![i].read_done = TRUE,
        ![i].remote_read_result =
           [x \in Stripe |-> IF x \in waiting_reads[i].remote_read THEN Stored(s, x) ELSE @[x]]]
  /\ UNCHANGED <<waiting_state, waiting_commit, cache_valid, cache, committed_to,
                 log_update, plan, shards, acked, intervals, ok>>

(* generate_transactions: the stripes that a write leaves behind. *)
Generate(op) ==
  [x \in op.plan.will_write |->
     {op.version} \union
       (IF x \notin op.plan.to_read THEN NoContents
        ELSE IF x \in op.pending_read THEN cache[x].bl
        ELSE op.remote_read_result[x])]

TryReadsToCommit ==
  LET op == Head(waiting_reads)
      update == Generate(op)
  IN  /\ ~ OnWriteDue /\ ~ StateCanMove /\ ReadsCanMove
      /\ waiting_reads' = Tail(waiting_reads)
      /\ waiting_commit' = Append(waiting_commit, [op EXCEPT
            !.pending_read = {}, !.remote_read = {}, !.read_done = FALSE,
            !.remote_read_result = [x \in Stripe |-> NoContents],
            !.pending_commit = Shard])
      /\ cache' = IF op.using_cache THEN Presented(update) ELSE cache
      /\ written' = IF op.version = 0 THEN written ELSE [written EXCEPT ![op.version] = update]
      /\ SendToAll(SubWrite(op))
      /\ ok' = /\ ok
               /\ op.using_cache =>
                    CanGet(op.pending_read) /\ \A x \in DOMAIN update : Cached(x)
               /\ op.pending_read # {} => op.using_cache
               /\ InOrder(Primary, SubWrite(op))
      /\ UNCHANGED <<waiting_state, cache_valid, committed_to, log_update, plan, acked,
                     intervals>>

(* The end of try_reads_to_commit(): the callbacks that waited for this write. *)
RunOnWrite ==
  /\ OnWriteDue
  /\ waiting_commit' = [waiting_commit EXCEPT ![Len(waiting_commit)].on_write = Tail(@)]
  /\ UpdateLogs(Head(waiting_commit[Len(waiting_commit)].on_write))
  /\ UNCHANGED <<waiting_state, waiting_reads, cache_valid, cache, committed_to, plan,
                 written, acked, intervals>>

NeedsDummy_Never(op) == op.version = 0 /\ op.plan # NoPlan

(* No later write will tell the shards that they may roll forward op. *)
NeedsDummy(op) == op.version > can_rollback_to[Primary]

TryFinishRmw ==
  LET op == Head(waiting_commit)
      commit == Tail(waiting_commit)
      drained == waiting_reads = <<>> /\ commit = <<>>
      dummy == drained /\ NeedsDummy(op)
  IN  /\ ~ OnWriteDue /\ ~ StateCanMove /\ ~ ReadsCanMove /\ CommitCanMove
      /\ waiting_commit' = commit
      /\ committed_to' = Maximum({committed_to, op.version})
      /\ waiting_reads' = IF dummy THEN <<NewOp(0, NoPlan, op.version)>> ELSE waiting_reads
      /\ cache' = IF op.using_cache THEN Released(op.version) ELSE cache
      /\ cache_valid' = (cache_valid \/ (drained /\ ~ dummy))
      /\ UNCHANGED <<waiting_state, log_update, plan, shards, acked, intervals, ok>>

(* A shard takes its next message: handle_sub_write, do_update_log_missing. *)
HandleMessage(s) ==
  /\ Settled
  /\ inbox[s] # <<>>
  /\ Handled(s, Head(inbox[s]))
  /\ inbox' = [inbox EXCEPT ![s] = Tail(@)]
  /\ ok' = (ok /\ InOrder(s, Head(inbox[s])))
  /\ UNCHANGED <<waiting_state, waiting_reads, waiting_commit, cache_valid, cache,
                 committed_to, log_update, plan, written, acked, intervals>>

(* handle_sub_write_reply *)
SubWriteReply(s, m) ==
  LET mine == {i \in DOMAIN waiting_commit : waiting_commit[i].version = m.version}
      i == Minimum(mine)
      left == waiting_commit[i].pending_commit \ {s}
  IN  /\ ~ m.log_update
      /\ waiting_commit' = IF mine = {} THEN waiting_commit
                           ELSE [waiting_commit EXCEPT ![i].pending_commit = left]
      /\ acked' = IF mine # {} /\ left = {} THEN acked \union ({m.version} \ {0}) ELSE acked
      /\ ok' = (ok /\ mine # {} /\ s \in waiting_commit[i].pending_commit)
      /\ UNCHANGED log_update

(* do_update_log_missing_reply *)
LogUpdateReply(s, m) ==
  /\ m.log_update
  /\ log_update' = [log_update EXCEPT ![m.version] = @ \ {s}]
  /\ acked' = IF log_update'[m.version] = {} THEN acked \union {m.version} ELSE acked
  /\ UNCHANGED <<waiting_commit, ok>>

(* Shard s has committed its oldest transaction and the primary hears of it. *)
HandleReply(s) ==
  /\ Settled
  /\ unanswered[s] # <<>>
  /\ unanswered' = [unanswered EXCEPT ![s] = Tail(@)]
  /\ SubWriteReply(s, Head(unanswered[s])) \/ LogUpdateReply(s, Head(unanswered[s]))
  /\ UNCHANGED <<waiting_state, waiting_reads, cache_valid, cache, committed_to, plan,
                 written, inbox, log, can_rollback_to, intervals>>

(* submit_log_entries: an entry without a transaction.  call_write_ordered() lets
   it wait for the writes that were submitted before it and are not yet sent. *)
AfterLast(list, v) == [list EXCEPT ![Len(list)].on_write = Append(@, v)]

SubmitLogEntries ==
  LET v == NextVersion
  IN  /\ Settled
      /\ v \in Version
      /\ Cardinality({u \in DOMAIN plan : plan[u] = NoPlan}) < MaxLogUpdate
      /\ plan' = Append(plan, NoPlan)
      /\ \/ /\ waiting_state # <<>>
            /\ waiting_state' = AfterLast(waiting_state, v)
            /\ UNCHANGED <<waiting_reads, log_update, shards, ok>>
         \/ /\ waiting_state = <<>> /\ waiting_reads # <<>>
            /\ waiting_reads' = AfterLast(waiting_reads, v)
            /\ UNCHANGED <<waiting_state, log_update, shards, ok>>
         \/ /\ waiting_state = <<>> /\ waiting_reads = <<>>
            /\ UpdateLogs(v)
            /\ UNCHANGED <<waiting_state, waiting_reads, written>>
      /\ UNCHANGED <<waiting_commit, cache_valid, cache, committed_to, acked, intervals>>

CacheAfterChange_Kept == cache

(* Every write's pin is released, which leaves nothing cached. *)
CacheAfterChange == [x \in Stripe |-> Absent]

(* The interval changes: on_change() forgets what is in flight, messages and
   callbacks of the old interval are dropped.  The shards flush, peering
   takes the shortest log, the others roll back to it, and activate() rolls
   forward what is left.  A client that sends a request again is told it is done. *)
OnChange ==
  LET newhead == Minimum({LastUpdate(log[s]) : s \in Shard})
  IN  /\ Settled
      /\ intervals < MaxInterval
      /\ intervals' = intervals + 1
      /\ waiting_state' = <<>> /\ waiting_reads' = <<>> /\ waiting_commit' = <<>>
      /\ cache_valid' = TRUE
      /\ cache' = CacheAfterChange
      /\ committed_to' = 0
      /\ log_update' = [v \in Version |-> {}]
      /\ inbox' = [s \in Shard |-> <<>>]
      /\ unanswered' = [s \in Shard |-> <<>>]
      /\ log' = [s \in Shard |-> UpTo(log[s], newhead)]
      /\ can_rollback_to' = [s \in Shard |-> newhead]
      /\ acked' = acked \union {v \in Elements(log[Primary]) : v <= newhead}
      /\ ok' = (ok /\ \A s \in Shard : can_rollback_to[s] <= newhead)
      /\ UNCHANGED <<plan, written>>

CheckOps == TryStateToReads \/ TryReadsToCommit \/ RunOnWrite \/ TryFinishRmw

Next ==
  \/ \E p \in Plans : SubmitTransaction(p)
  \/ SubmitLogEntries
  \/ CheckOps
  \/ \E i \in DOMAIN waiting_reads, s \in Shard : ReadDone(i, s)
  \/ \E s \in Shard : HandleMessage(s)
  \/ \E s \in Shard : HandleReply(s)
  \/ OnChange

(* The threads of a primary and its shards run, messages arrive within an
   interval.  Nothing obliges clients to write or the interval to change. *)
Fairness ==
  /\ WF_vars(CheckOps)
  /\ WF_vars(\E i \in DOMAIN waiting_reads, s \in Shard : ReadDone(i, s))
  /\ \A s \in Shard : WF_vars(HandleMessage(s)) /\ WF_vars(HandleReply(s))

Spec == Init /\ [][Next]_vars
FairSpec == Spec /\ Fairness
-----------------------------------------------------------------------------
(* Type correctness of the pipeline, the cache and the shards. *)
TypeOK ==
  /\ \A list \in {waiting_state, waiting_reads, waiting_commit} : list \in Seq(Op)
  /\ cache_valid \in BOOLEAN /\ ok \in BOOLEAN
  /\ cache \in [Stripe -> [pin : {NoPin} \union Version, pending : BOOLEAN, bl : Contents]]
  /\ committed_to \in {0} \union Version
  /\ log_update \in [Version -> SUBSET Shard]
  /\ plan \in Seq(WritePlan) /\ Len(plan) <= MaxVersion
  /\ \A v \in Version : \E w \in SUBSET Stripe : written[v] \in [w -> Contents]
  /\ inbox \in [Shard -> Seq(Message)] /\ unanswered \in [Shard -> Seq(Message)]
  /\ log \in [Shard -> Seq(Version)]
  /\ can_rollback_to \in [Shard -> {0} \union Version]
  /\ acked \subseteq Version
  /\ intervals \in 0 .. MaxInterval

(* No assertion of the pipeline fails: a stripe that a write expects in the
   cache is there with its contents and is still pinned when the write presents
   its own; entries reach every log in the order of their versions, whether they
   came through the pipeline or past it (call_write_ordered); an answer finds
   the write that waits for it; and what peering rolls back was not rolled forward. *)
NoAssertFails == ok

(* Writes complete in the order of the log (the assertion on repop_queue in
   eval_repop): whatever order the answers of the shards come in, an entry is
   reported only after all entries before it. *)
CompleteInOrder ==
  \A i, j \in DOMAIN log[Primary] :
    i < j /\ log[Primary][j] \in acked => log[Primary][i] \in acked

(* A shard rolls forward only what every shard has in its log and what was
   reported as committed: otherwise peering could have to roll it back. *)
RollForwardIsCommitted ==
  \A s, t \in Shard :
    can_rollback_to[s] # 0 =>
      can_rollback_to[s] \in acked /\ can_rollback_to[s] <= LastUpdate(log[t])

(* The pipeline implements the atomic log: every write is computed from what the
   writes before it left, even if those are still in flight, and nothing that
   was reported is lost by a change of the interval. *)
Abstract == INSTANCE ECLog WITH
  Empty <- NoContents,
  hist <- [i \in DOMAIN log[Primary] |->
             [v |-> log[Primary][i], update |-> written[log[Primary][i]]]],
  told <- Maximum({0} \union {i \in DOMAIN log[Primary] : log[Primary][i] \in acked}),
  kept <- LastUpTo(log[Primary], Maximum({can_rollback_to[s] : s \in Shard}))
ImplementsECLog == Abstract!Spec

(* Every write ends.  A write that waits for the cache to become valid does not
   wait for ever, and in the end every shard that logged it has rolled it forward,
   also if no later write carries the news (the dummy of try_finish_rmw).  If the
   interval changes, the write is either dropped or kept for good. *)
Pending(v) ==
  \E list \in {waiting_state, waiting_reads, waiting_commit} :
    \E i \in DOMAIN list : list[i].version = v
Final(v) ==
  /\ ~ Pending(v)
  /\ \A s \in Shard : v \in Elements(log[s]) => v <= can_rollback_to[s]
WritesAreFinal == \A v \in Version : Pending(v) ~> Final(v)

(* "The main purpose of this cache is to ensure that we can pipeline overlapping
   partial overwrites" (ExtentCache.h): a write to a part of a stripe leaves the
   stripe with what the write before it left.  It fails for a write that also
   clones the object: try_state_to_reads() lets it bypass the cache, although
   writes to the stripe are in flight. *)
OverwritesMerge ==
  \A i \in DOMAIN log[Primary] :
    LET v == log[Primary][i]
        before(x) == {u \in Elements(log[Primary]) : u < v /\ x \in DOMAIN written[u]}
    IN  \A x \in DOMAIN written[v] :
          x \in plan[v].to_read /\ before(x) # {} =>
            written[v][x] = {v} \union written[Maximum(before(x))][x]
=============================================================================
