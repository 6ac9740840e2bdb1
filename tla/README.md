# TLA+ models of the Ceph monitor quorum and of erasure coded pools

The repository is Ceph (12.x, "luminous") with one addition: the erasure code
plugin *Optimal-LRC* under `src/erasure-code/optlrc/`. (Paths in this file are
relative to the Ceph tree; in `PROJECT.json` they start with `src/src/`.) The
models cover the parts in which the tests help least:

* the **monitor quorum**: elections, and the replicated log (Paxos) that runs on
  the quorums they produce. Everything in the cluster depends on these few
  thousand lines, and their hard cases are interleavings of messages, timers,
  crashes and asynchronous writes;
* the **Optimal-LRC plugin**, the code this repository adds, together with the
  reads and recoveries of `ECBackend` that call it;
* the **placement group of an erasure coded pool**: the write pipeline that feeds
  the plugin, and peering, which brings the shards' logs together again when the
  acting set changes.

## 1. Inventory

### Monitor

| Component | State | Operations | Hard behaviour |
|---|---|---|---|
| `mon/Elector.cc` | epoch (in the store), `participating`, `electing_me`, `acked_me`, `leader_acked`, `expire_event` | `start`, `defer`, `expire`, `victory`, `handle_propose/ack/victory/nak`, `bump_epoch`, `dispatch` | two candidates in one epoch, late acknowledgements, timers of an election that was left, crashes after an acknowledgement, mixed feature sets |
| quorum membership in `mon/Monitor.cc` | `state`, `quorum`, `leader`, `outside_quorum`, `probe_timeout_event` | `bootstrap`, `start_election`, `join_election`, `win_election`, `lose_election`, `handle_probe_reply`, `probe_timeout`, `quorum enter` / `exit` | bootstrap and admin commands in the middle of an election |
| `mon/Paxos.cc` | in the store: `last_pn`, `accepted_pn`, `last_committed`, the versions, `pending_v`, `pending_pn`; in memory: state, uncommitted value, `accepted`, lease, five timers | collect/last, begin/accept/commit, lease/lease_ack, four timeouts, `propose_pending`, `commit_start`/`commit_finish`, `restart` | crash between promise and accept, a commit half written, leaders that take over a round, timers and states that must agree |
| `PaxosService` and the services | pending map changes | `propose_pending`, `refresh`, `dispatch` | not modelled yet |
| `MonitorDBStore`, sync | versioned key-value store | transactions, chunked copy | store taken as atomic and durable; sync not modelled |

Interaction: `Paxos` timeouts and messages of a newer epoch call
`Monitor::bootstrap()`; probing ends in `start_election()`; `Elector::victory()`
sends the victory and calls `win_election()` → `Paxos::leader_init()` → collect;
`handle_victory()` calls `lose_election()` → `peon_init()`. All handlers of a
monitor run under one lock (`Monitor::lock`), with two exceptions: the commit is
written by the store's thread, and `wait_for_paxos_write()` drops the lock.

What makes it correct: only one leader of an epoch can gather its whole quorum;
members of the quorum have reached its epoch; elections end; no two monitors
disagree on a committed version; what a client was told is on a majority; a
reader does not see an old version while its leader has a newer one; every wait
has a timer, and no timer fires where it is not expected.

### Erasure coding

| Component | State | Operations | Hard behaviour |
|---|---|---|---|
| `erasure-code/optlrc/` | none (19 generator matrices) | `encode_chunks`, `minimum_to_decode`, `decode_chunks`, `optlrc_decode_local` | which erasures are accepted, a last group of another length, matrices pasted in from elsewhere |
| `erasure-code/ErasureCode.cc` | none | `encode`, `decode`, `decode_concat` | buffers allocated for chunks that nobody read |
| `osd/ECBackend.cc` reads | `ReadOp`: `in_progress`, `obj_to_source`, results, errors | `objects_read_and_reconstruct`, `handle_sub_read_reply`, `send_all_remaining_reads`, `complete_read_op` | sub reads fail, `fast_read` takes the first replies that suffice |
| `osd/ECBackend.cc` recovery | `RecoveryOp`: state, `missing_on`, `waiting_on_pushes` | `recover_object`, `continue_recovery_op`, `handle_recovery_push_reply`, `on_change` | a shard lost between reads and the last push |
| `osd/ECBackend.cc` writes, `ExtentCache`, `ECTransaction` | three waiting lists, `pipeline_state`, pinned extents, `committed_to` | `start_rmw`, `try_state_to_reads`, `try_reads_to_commit`, `try_finish_rmw`, `handle_sub_write`, its reply, `call_write_ordered`, `on_change` | overlapping writes in flight, writes that cannot use the cache, log entries that bypass the pipeline, who may roll forward when, the last write |
| `osd/PG.cc`, `osd/PGLog.cc` | per shard: log, `can_rollback_to`, `last_epoch_started` (info and history), missing set; in the primary: `peer_missing`, past intervals | `start_peering_interval`, `build_prior`, `find_best_info`, `proc_master_log`, `proc_replica_log`, `merge_log`, `rewind_divergent_log`, `activate`, `append_log`, recovery | the interval changes in the middle of peering or of a write, shards that were away for several intervals, divergent entries |

What makes it correct: what recovery writes is what was encoded; what a client
reads is what was written; the asserts that `minimum_to_decode()` succeeds hold;
a read always waits for somebody. Every write is computed from what the writes
before it left; writes complete in the order of the log and end up rolled
forward on every shard; a shard rolls forward only what all have; whatever a
client was told or has read survives any sequence of intervals, in the log and
on the disks; the primary knows exactly what its replicas are missing.

The other subsystems of the tree (object stores, messenger, CRUSH, MDS, RGW,
RBD, client) are upstream code that the repository does not change; section 7
and `PROJECT.json` list them as not modelled, with the reason.

The hazards of the code, each at its line, are the `hazards` of `PROJECT.json`.

## 2. Modules

    MonQuorum  <---- implemented by ---- Elector  <---- extended by ---- ElectorLive
       ^   ^                                ^
       |   '-- proved in MonQuorum_proofs   '-- proved in Elector_proofs
       '------ the elections Paxos runs on (action Paxos!Elect)

    Paxos  <-- PaxosSession <-- Paxos_proofs <-- PaxosVotes   (its proofs)
       '------ MCPaxos                             (a plan of five monitors)

    OptLrcConfigs <-- OptLrc <-- ECBackend         (reads and recovery)

    ECLog  <---- implemented by ---- ECWrite  <-- MCECWrite     (one acting set)
       ^                                ^
       |                                '-- proved in ECWrite_proofs
       '------ proved in ECWrite_refinement, which extends ECWrite_proofs

    PGPeering  <-- MCPGPeering                     (changing acting sets)

| Module | Models |
|---|---|
| `MonQuorum` | the promise of an election: epochs, roles, victories declared and followed |
| `MonQuorum_proofs` | its theorems |
| `Elector` | `Elector.cc` and the membership part of `Monitor.cc`, messages included |
| `Elector_proofs` | its theorems, that it implements `MonQuorum` among them |
| `ElectorLive` | the same under a timely network, with fairness |
| `MCElector` | the clusters that the election runs look at |
| `Paxos` | `Paxos.cc` over the quorums of `MonQuorum` |
| `PaxosSession` | lemmas about one leader, one of its peons and the messages between them |
| `Paxos_proofs` | the session invariant of Paxos and the theorems that follow from it |
| `PaxosVotes` | the invariant over all votes; agreement, durability and recovery as theorems |
| `MCPaxos` | a sequence of quorums and crashes of five monitors, for finding 5 |
| `OptLrcConfigs` | the generator matrices |
| `OptLrc` | the plugin: encoding, `minimum_to_decode`, decoding |
| `ECBackend` | client reads and recovery of an object, with failing shards |
| `ECLog` | the promise of the write path: one log, atomic writes, nothing reported is lost |
| `ECWrite` | the write pipeline of `ECBackend.cc`, `ExtentCache.cc` and the shards' logs |
| `ECWrite_proofs` | its theorems |
| `ECWrite_refinement` | the theorem that it implements `ECLog` |
| `MCECWrite` | the write plans of its runs |
| `PGPeering` | intervals, peering, log merging and activation, and writes and recovery between them |
| `MCPGPeering` | the pools of its run |

A definition named `Op_Variant` is a faulty version of `Op`. No action uses one;
they serve to show that the properties notice such a fault: with `Op` replaced
by it, TLC finds the property named in `PROJECT.json` violated.

### MonQuorum

`epoch[m]` is the monitor's election epoch; `role[m]` says whether it leads,
follows or is outside any quorum. `won` and `joined` are history: the victories
declared, and who entered which epoch under whom. `Leave` is anything that ends
a membership, `WinElection` is `victory()` + `win_election()`, `LoseElection` is
`handle_victory()` + `lose_election()`.

The election does **not** promise one victory per epoch: a peon that has
acknowledged one candidate defers to another of lower rank in the same epoch and
still counts for the first. It promises that each monitor *follows* one leader
per epoch, and so (majorities meet) that only one leader's quorum is ever
complete. That suffices because Paxos waits for every member of the quorum.

### Elector

A monitor is its rank. Its state is the record `MonState`, with the field names
of the code. Each handler is an operator on a context (state, messages sent,
asserts held), so that a handler that calls another composes with it just as in
the code: `handle_propose()` may run `start_election()` and then still compare
ranks. An assert that fails leaves the monitor in state `"aborted"`.

* Messages between two monitors are ordered and not lost while both live. A
  crash loses what is under way to the process, and of what it sent each peer
  gets a prefix. What is sent to a process that is down may be lost or may be
  there when it comes back.
* Only `epoch` is in the store; a restart goes through `init()` and `bootstrap()`.
* Probe replies carry only what the code looks at (is the peer in a quorum), and
  since one may be old on arrival, any answer may come at any time from any
  monitor that would answer.
* `setting`, fixed in a behaviour, is one of `Settings`: which monitors lack the
  required connection features or monitor features, who has been in a quorum
  before, and whether the cluster is disturbed at all (`calm`).

Left out: changes of the monmap (so also `nak` because of it), the choice
between an election and a store synchronization in `handle_probe_reply()`, the
sharing of command descriptions, and `SafeTimer` itself (`expire_event` is
whether the timer is armed).

The asserts on the parity of epochs are modelled too. One of them does not hold in
every cluster: because of the missing `return` of finding 1, a monitor that requires
the features answers a candidate without them with a NAK *and* defers to it, and the
ACK carries the monitor's own epoch, which is even if it has just left a quorum. The
candidate then aborts on `assert(m->epoch % 2 == 1)` in `handle_ack()`
(`mon/Elector.cc:305`); TLC finds it in 13 steps with `OldLeaderCluster`. If the
monitors without the features rank last (`OldPeersRankLast`), nobody defers to one of
them, and no assert fails: that is the premise of `NoAssertFails`.

### ElectorLive

Timers fire only when nothing is under way to a live monitor, probes are
answered with what the peer knows, and the Paxos timeouts call `bootstrap()` in
a leader or peon whose quorum is broken. Timeouts in the code are seconds,
messages take milliseconds.

### Paxos

A value is a set of client operations. `epoch` and `role` are those of
`MonQuorum`; `Elect` is an election as it promises it: any majority, any moment,
several in flight. The victory message and the messages of Paxos share the
connection, so a peon gets the victory before the collect.

* `px[m]` has the fields of `Paxos`, first the ones in the store. `stored_pn` is
  the `accepted_pn` of the store: `collect()` writes only `last_pn`,
  `handle_collect()` writes `accepted_pn`, and after a restart the two differ.
* `commit_start()` puts the leader in a writing state; `CommitFinish` is the
  callback after the write. A crash in between keeps the commit or loses it.
  Leaving a quorum waits for the write (`wait_for_paxos_write()`).
* Timers are counted rather than remembered, because an event that is overwritten
  without having been cancelled stays armed.
* A message for an epoch that its receiver has left is removed at once, since
  `dispatch_op()` would drop it whenever it came. A crash therefore needs no
  message loss of its own: a message that is lost cannot be told from one that
  arrives too late.
* `restart()` also clears what a leader kept about its round. The code leaves it
  in place, but sets it anew before it reads it.

Left out: trimming, monmaps with one monitor, and the clocks behind a lease: a
lease is valid until it is revoked.

`Paxos.h:535-552` says a leader commits once a *majority* has accepted;
`handle_accept()` waits for the *whole quorum*. The code is the stricter, and
`NoStaleRead` needs it: with the rule of the comment (`HandleAccept_OnMajority`)
a peon reads an old version under its lease.

### OptLrc, OptLrcConfigs, ECBackend

A chunk's content is its vector of coefficients in GF(2^8) over the *k* data
chunks, so one run covers all data. Memory nobody has written is `Garbage`, and
a sum with it is `Garbage`. `OptLrcConfigs` holds all matrices of the header;
as each starts with *r* unit rows and their sum per group, only the other rows
are tabulated. The profile maps the data chunks to the unit rows.

`MinimumToDecode` follows the code: a wanted chunk that is missing is to be
restored from the available rest of its group, and two of one group are refused;
whether the rest of the group is available is *not* looked at.

`ECBackend` has one object of one stripe. `StartRead` is
`objects_read_and_reconstruct()`; `ReadReply` is a reply or an error from one
shard with everything that follows (`send_all_remaining_reads()`,
`complete_read_op()`, the answer to the client). `StartRecovery`,
`RecoveryReply`, `Push` are the states IDLE, READING, WRITING of a recovery.
`ShardFails` and `ShardReturns` start a new interval, in which `on_change()`
drops all operations and peering finds out what is on the shards. `Recoverable`
is `ECRecPred`: it asks for *all* chunks, so that two missing shards of a group
make the object unfound, although `minimum_to_decode()` would accept two missing
shards of which only one is wanted. (`ECReadPred`
also wants the primary's own chunk. The model does not say which shard is the
primary and so allows more reads than the code.) Replies of a read that waits for all
of them are taken in ascending order; with `fast_read` they come in any order.

Left out: several extents, attributes, scrub, padding and alignment of chunks,
parsing of profiles.

### ECLog, ECWrite

`ECLog` is a log of writes: `Write` appends one, computed from the contents its
predecessors left, `Tell` reports the oldest unreported one, `Keep` makes
reported ones irrevocable, and `Interval` may drop what was not reported.

`ECWrite` is how the code gets there with many writes in flight. Contents are
symbolic: a stripe holds the set of the versions it shows, so a lost update is a
missing element. The primary's handlers run under the lock of the placement group
and end in `check_ops()`. Its loop is three actions of their own, `TryStateToReads`,
`TryReadsToCommit` and `TryFinishRmw`, in the loop's order, plus `RunOnWrite` for
the callbacks at the end of the second; no handler runs until the loop is done
(`Settled`). `cache[x]` is the extent of stripe *x*: the write that pins it, and
whether its contents are still pending. A shard handles its messages in order
and answers when the transaction is committed. `SubmitLogEntries` is the path
past the pipeline (`submit_log_entries()` with `call_write_ordered()`), for
error entries and lost objects. `OnChange` is a new interval with the same
shards: peering is folded into it, and is `PGPeering`'s subject.

A shard that rolls back takes entries from the end of its log until it meets one
that is not newer (`UpTo`, as `rewind_from_head()` does).

The refinement maps the log to that of the primary, `told` to the versions that
were reported and `kept` to the furthest `can_rollback_to`.

Left out: extents smaller than a stripe (every plan is aligned to stripes),
several objects (the pipeline is shared, the cache is per object), temporary
objects, hash infos, trimming, backfill targets, and a read that fails. The
object store is taken to apply a transaction before it commits it, as BlueStore
does, which pools with overwrites require.

### PGPeering

All shards of one placement group over a sequence of intervals. A version is an
`eversion_t`: the epoch of the interval it was written in, then its number. Each
shard has what is on its disk (`pg[s]`): log, `can_rollback_to`, both
`last_epoch_started`, and whether the object is missing. `NewInterval` may come
at any time and drops what is in memory. `GetLog` is GetInfo, GetLog and
GetMissing of the primary; it happens if the prior set is satisfied
(`PriorSetDown`) and there is an authoritative log (`AuthShards`). `Activate`
is a shard's merge with the primary's log and its activation, `Complete` is any
way for a client to learn of an entry: its write is committed, its resent write
is found in the log, or it reads the object. Roll forward may come at any time
after that.

`MergeLog`, `RewindDivergentLog`, `ExtendHead`, `MergeDivergent` and `PeerMissing`
are `PGLog`'s functions on logs and missing sets, for one object. A shard whose
merge rolls back what it has already rolled forward dies whenever it starts
(`broken`, see section 4). `Recoverable` takes any *k* shards to be enough: true
of the codes that `ECRecPred` is usually asked about; for Optimal-LRC, `ECBackend`
has the exact predicate.

Left out: backfill, trimming of logs (so logs always overlap), up sets that
differ from the acting set, several objects, deletes.

## 3. Runs

Monitor runs have three monitors: the smallest number with a majority that is
not everybody, and in which the two candidates of the double-victory case have a
peon in common.

| Run | Result | Shows |
|---|---|---|
| `quorum` | holds | the promises of `MonQuorum`, two rounds of elections |
| `election_disturbed` | holds | `Elector` implements `MonQuorum`, no assert fails, whoever is counted has reached the epoch, an exited monitor stays out, nobody waits without a timer; one crash, bootstrap or command at any point; and for a new cluster in which monitors 1 and 2 lack features: no feature-less monitor is counted by a leader that requires the features (412,000 states) |
| `election_old_peer` | **violated** | finding 1 |
| `election_settles` | holds | `<>[]Stable`: one leader, followed by every live monitor |
| `paxos` | holds | agreement, durability, the log only grows, recovery finds everything, no stale read, no assert fails, timers and states agree, every wait has a timer, nothing queued is dropped, a proposal is committed unless its quorum breaks; one crash, renewal or timeout at any point, and three quorums in a row, the smallest number in which the newest leader must choose between the leftovers of two others (571,000 states) |
| `paxos_forgotten_promise` | **violated** | finding 5 |
| `ec_reads` | holds | recovered chunks and answers are right, asserts hold, no read hangs, for 18 of the 19 codes |
| `ec_17_12_6` | **violated** | finding 2 |
| `ec_shard_error` | **violated** | finding 3 |
| `ec_writes` | holds | `ECWrite` implements `ECLog`, the cache's asserts hold, entries complete in order, only committed ones are rolled forward, and every write ends rolled forward or dropped (141,000 states) |
| `ec_snapshot` | **violated** | finding 4 |
| `pg_peering` | holds | what a client knows of survives in the authoritative log and on enough disks, the primary knows what is missing where, peering never gets stuck with all shards up (875,000 states) |

Bounds.

* *Elections*: epochs up to 4, so two complete elections; queues of 2, where a
  handler that would send a third message to the same peer is not taken; one
  expiry of the election timer beyond what messages do. Steps cut off by a bound
  leave states without successors, so the election and Paxos runs do not look
  for deadlock; `ElectingHasTimer`, `WaitsWithTimer`, `EventuallyStable` and
  `ProposalsCommit` say what absence of deadlock would.
* `election_settles` has bounds that never bind (epochs 12, queues 4: with higher
  ones TLC finds the same states), one crash of monitor 0, which may come back or
  not.
* *Paxos*: epochs up to 4, two operations and so two versions: one committed
  below one in flight; one disturbance (a crash, a renewal or a timeout) in a
  behaviour. A third quorum (epoch 6) may follow if there was none and both
  operations are under way, neither reported (`BusyEpoch`, `LateElections`). `paxos_forgotten_promise` needs five
  monitors and five quorums, far beyond what can be explored, and so follows a plan
  (`PlannedSpec`): every step is one of `Paxos`, the plan only says which quorum
  comes next, which messages are late and who crashes.
  The bound on proposal numbers never binds: with 400 or 600 in place of 500 TLC finds the same states.
* *Erasure coding*: all codes but (17,12,6), one fault each; the (9,4,2) code
  with two faults at a time and with `fast_read`. Two faults in different groups
  and two in one group both occur.
* *Writes*: two shards, two stripes, three versions of which one may be a log
  entry, one change of the interval. The plans are a part of either stripe, all of
  one, both at once, and a clone with a full stripe. Three writes are what a stale
  read takes: one that is read too early, one that takes the extent over and one
  that releases it.
* *Peering*: the first entry and one on top of it, which every interval may write
  anew if peering has dropped the last one, so that versions of three intervals
  compete; four intervals, in which a shard can miss two; pools (size, k,
  min_size) = (4,2,3), (3,2,2) and, with three intervals, (4,2,2), whose acting
  sets may be disjoint, so that only the prior set protects. Longer random
  simulations (three versions, six intervals) found nothing else.
* Clients need not write and the bounds end every behaviour of these models, so
  deadlock is not looked for; `WritesAreFinal`, `AllUpCanPeer` stand for it.

Fairness.

* `ElectorLive!Fairness`: messages to live monitors are handled, probes are
  answered, and a timer that is due again and again is not overtaken for ever.
  The messenger retries, every monitor has an event loop, and all timers have
  about the same length. A crashed monitor need not come back. The conditions are
  written out (`Quiet`, `CanProbe`, `TimerDue`) in place of `ENABLED`.
* `Paxos!Fairness`: messages are delivered and writes finish. Each step of that
  model uses up a message, a write or a bound, so it is the same as settling
  infinitely often.
* `ECWrite!Fairness`: the loop of `check_ops()` runs on, reads come back, and each
  shard handles its messages and commits its transactions. Within an interval the
  messenger keeps its connections, an OSD that stops answering is marked down,
  which is a new interval. Neither clients nor changes of the interval are fair.

## 4. Findings

1. **An old peer is not ignored** (`election_old_peer`). `handle_propose()` at
   `mon/Elector.cc:250` answers a proposal without the required monitor features
   with a NAK, but without the `return` of the branch above it: it goes on to
   compare ranks and defers. `mon/Elector.h:308` says such peers are ignored. In
   the run two monitors that require the features end up behind a leader without
   them. (That leader exits when it gets the NAK, unless it is probing or the
   NAK is of an older epoch by then.)
2. **The (17,12,6) matrix** (`ec_17_12_6`). The three rows of its last group do
   not add up to zero, and restoring a chunk by XOR yields another content, which
   recovery then stores. All 18 other matrices pass.
3. **`minimum_to_decode()` accepts incomplete groups** (`ec_shard_error`). After
   one failed sub read of a data chunk, `handle_sub_read_reply()` asks whether the
   chunks it has suffice and is told they do, although the parity of the group was
   not read; the error is ignored and the client gets the sum of buffers of which
   one was never filled. With `osd_read_ec_check_for_errors` the read fails
   instead. With `fast_read` it happens without any failure. `ReadIsRight` states
   what remains true: without `fast_read`, and with no failed sub read or with
   that option, a read returns what was written.

4. **A write that clones and reads loses an older one** (`ec_snapshot`). The first
   write to an object after a snapshot clones it, which invalidates the cache, and if
   it changes a part of a stripe it reads too. `try_state_to_reads()`
   (`osd/ECBackend.cc:1780-1836`) makes a write with reads wait while the cache is
   *already* invalid, but lets this one pass, without the cache, although an older
   write to the stripe is in flight. It reads the shards as they were, and what it
   writes no longer shows the older write, which is reported as committed. Without
   such plans the pipeline implements `ECLog` (`ec_writes`).

5. **A leader's promise is not kept over a crash** (`paxos_forgotten_promise`).
   `collect()` (`mon/Paxos.cc:177`) raises `accepted_pn` to the number it is going to
   lead with, but only `last_pn` goes to the store; a peon's promise does
   (`mon/Paxos.cc:252`). `begin()` stores a value with that number. After a crash
   `init()` (`mon/Paxos.cc:73`) finds the older `accepted_pn`, and the monitor
   promises, as a peon, a number below the one it holds a value of, which
   `Paxos.h:797` says it declines. The numbers of later leaders then no longer exceed
   all numbers that values are stored under: a leader can commit a value under a low
   number while an abandoned value with a higher number is in the store of a monitor
   outside its quorum, and the next leader prefers that one. In the run two monitors
   commit different values of one version. It takes five monitors and two crashes;
   with three monitors and one crash `paxos` finds nothing. Storing `accepted_pn` in `collect()`,
   or starting with the larger of the two numbers, removes it. That this is the only
   way to lose agreement is proved (`PromisesAreKept`, `SafeIfStored`).

The single-erasure limit per group is documented in `optlrc/README.txt` and is
not a finding.

Two observations from `PGPeering`, without a run of their own:

* `rewind_divergent_log()` (`osd/PGLog.cc:253-266`) passes on `can_rollback_to`
  after `rewind_from_head()` has lowered it to the new head, so that every divergent
  entry counts as one that can be rolled back. The case "We cannot rollback at least
  1 of the entries" (`osd/PGLog.h:736`) is never taken from there, and an entry that
  was rolled forward is rolled back from an object that was removed: the store fails
  the transaction and the OSD dies, at each start again. TLC finds it in twelve steps
  (the invariant `broken = {}` in `pg_peering`): a shard activates an entry that was
  never reported, goes down, and comes back after an interval that did not have it.
  `NothingIsLost` says that the remaining shards still have everything.
* `find_best_info()` lets the `last_epoch_started` of a single shard decide
  (`osd/PG.cc:1042`). A shard that had activated an unreported entry alone makes it
  authoritative although the others have rolled it back; the object is then unfound
  until enough shards are back. Nothing that was reported is affected.

## 5. Proofs

All theorems hold for every value of the constants that satisfies the assumptions
named. TLC evaluates the assumptions on every run, and it checked each inductive
invariant before it was proved.

### MonQuorum_proofs

For every finite set of monitors and every bound on the epochs, from
`MonAssumption` (the monitors are finitely many ranks) and `MaxEpochAssumption`
(the bound is positive):

| Theorem | Statement |
|---|---|
| `TypeCorrect` | `Spec => []TypeOK` |
| `FollowsOneLeader` | `Spec => []OneLeaderPerEpoch` |
| `CompletesOneQuorum` | `Spec => []OneCompleteQuorum` |
| `ServesARecordedVictory` | `Spec => []ServingIsRecorded` |

The inductive invariant `IInv` adds two facts to the properties.
`OneLeaderPerEpoch` alone is not inductive: from a state with a recorded join
above the monitor's epoch, that epoch could be joined again under another leader.
`JoinedBelow` excludes it, as a monitor enters only epochs above its own.
`WonByMajority` is what makes two complete quorums share a member
(`MajoritiesMeet`), whose single leader both have (`IInvComplete`); its other
half, even epochs, carries over to `ServingIsRecorded`. One lemma per action
(`LeaveIInv`, `WinIInv`, `LoseIInv`) shows that it is preserved; the common part
of winning and losing is `JoinKeeps`.

### Elector_proofs

For every size of the monmap and every set of settings, from `NAssumption`,
`SettingAssumption` and `BoundAssumption`:

| Theorem | Statement |
|---|---|
| `TypeCorrect` | `Spec => []TypeOK` |
| `AssertsHold` | `Spec => []NoAssertFails` |
| `AckersReached` | `Spec => []AckersReachedEpoch` |
| `TimerArmed` | `Spec => []ElectingHasTimer` |
| `ExitedOut` | `Spec => []ExitedStaysOut` |
| `FeaturesHeld` | `Spec => []QuorumHasFeatures` |
| `Refinement` | `Spec => ImplementsMonQuorum` |
| `ElectionIsSafe` | `OneLeaderPerEpoch` and `OneCompleteQuorum` of `MonQuorum`, said of the election |

The handlers of `Elector` are operators on a context and call one another, so the
proof follows that shape. A lemma per operator says what it does to a context whose
state satisfies the invariant of one monitor (`Base`, `Armed`, `Candidate`): it
leaves the election alone, leaves it, wins or joins (`Outcome`), and everything it
sends is a message the receiver can rely on. One lemma (`Finish`) turns an outcome
into the next state: it yields the invariant there and, at the same time, the step of
`MonQuorum`. The invariant says of the messages under way what their sender knew: a
proposal or an acknowledgement does not name an epoch its sender has not reached, a
victory was declared. Without it `AckersReachedEpoch` is not inductive, since a
candidate counts whoever an acknowledgement says it is from; and the parity of the
epochs in messages is what the asserts of `handle_propose()`, `handle_ack()` and
`handle_victory()` need.

`ElectionIsSafe` needs no induction: by `Refinement`, what `MonQuorum_proofs` proves
holds of `Elector` with the refinement mapping for the variables.

### PaxosSession, Paxos_proofs

For every number of monitors up to 99 (`NAssumption`: ranks share proposal numbers
modulo 100) and every bound on elections, operations, crashes, renewals and timeouts
(`BoundAssumption`):

| Theorem | Statement |
|---|---|
| `Invariant` | `Spec => []IInv` |
| `AssertsHold` | `Spec => []NoAssertFails` |
| `FallbackIsNotNeeded` | `Spec => []PendingIsRecorded` |
| `TimersAreRight` | `Spec => []TimersMatchState` |
| `NobodyWaitsForever` | `Spec => []WaitsWithTimer` |
| `ReadsAreFresh` | `Spec => []NoStaleRead` |
| `LogsOnlyGrow` | `Spec => LogOnlyGrows` |
| `ProposalsAreKept` | `Spec => NoProposalIsDropped` |

None of the properties is inductive: whether `handle_begin()` may assert that the
number is the one its peon has promised depends on what the leader asked, what is
under way and what other leaders asked meanwhile. The invariant `IInv` has three parts.

* `Local(m, A)`, of one monitor: the log has no gap, numbers belong to the monitor
  that made them (`Numbers`), a leader counts each answer once and has a value in
  hand exactly during a round (`Leading`, `InRound`), and the armed timers are those
  of its role and state (`Timed`).
* `Link(i, j, A, B, D, U)`, of monitor *i* as a leader, *j* as its peon, and the messages
  *D* and *U* between them: `Told` (the victory comes first), `Asked` (a collect has a number
  the peon has not seen, a begin one it has promised, behind the commits it builds
  on), `Answered` (the answer that promises the current number is the peon's last),
  `Informed` (a peon that was counted has, or is being sent, what its leader has
  committed), `Round` (one begin and one accept per round), `Leased` (a peon with a
  lease is up to date and has not accepted anything newer).
* There is a set `T[m]` for each monitor, the peers whose answers to its last collect it has
  counted. The code only keeps their number, `num_last`; that nobody is counted twice,
  and so that `num_last = |quorum|` means everybody, is why such sets exist. `IInv`
  says `\E T`, and each step names the next one.

The proof follows the handlers. `PaxosSession` has, for each kind of step of either
side, a lemma on `Link`, without the rest of the cluster. In `Paxos_proofs` a lemma
`...Is` per operator says what it does to a context (`BeginDoes`, `CollectDoes`,
...), a lemma `Sound...` that the context keeps its invariant with every other
monitor, and `FinishGood` that the next state has it once the messages that nobody
takes any more are dropped. The steps of `Elect` change many monitors at once; they
are split into the members leaving (`GoodLeave`) and the winner asking (`SoundElect`).

### PaxosVotes

Under the same assumptions. `KeepsPromise` says of a step that whoever raises its
`accepted_pn` raises it to at least the last number it collected with itself;
`StoresPromise` that whoever crashes has stored the `accepted_pn` it had in memory.

| Theorem | Statement |
|---|---|
| `VotesAreLawful` | `Spec /\ [][KeepsPromise]_vars => []VInv` |
| `LogsAgree` | `Spec /\ [][KeepsPromise]_vars => []Agreement` |
| `AcksAreDurable` | `Spec /\ [][KeepsPromise]_vars => []AckedIsDurable` |
| `LeadersKnowAll` | `Spec /\ [][KeepsPromise]_vars => []LeaderKnowsAll` |
| `PromisesAreKept` | `Spec /\ [][StoresPromise]_vars => [][KeepsPromise]_vars` |
| `SafeIfStored` | `Spec /\ [][StoresPromise]_vars =>` all three properties, always |
| `SafeWithoutCrashes` | if `MaxCrash = 0`, `Spec =>` all three properties, always |

A premise is needed, since finding 5 is a counterexample to `Spec => []Agreement`: a
leader that crashes forgets the number it collected with and follows a lower one.
`KeepsPromise` is what the argument uses; `PromisesAreKept` says that nothing but such
a crash breaks it, so that the premise excludes no interleaving of elections,
timeouts, late messages and commits.

A monitor votes for a value, under a number and for a version, when `begin()` or
`handle_begin()` stores it. The code keeps only the last vote of each monitor, so
`VInv` is `\E V, Y : Lawful(...)`, where `V` is the set of all votes so far and
`Y[m]` the peers whose answers the leader *m* has counted. The parts of `Lawful`:

* `Ballot`: a number is used for one value of a version, by the leader it belongs to
  (`number % 100`), and the value is safe there (`SafeAt`): for each smaller number
  there is a majority whose members have voted for this value under it, or have not
  voted and cannot any more.
* `Own`, of a monitor and its store: it has voted for nothing above its level, the
  larger of `last_pn` and `accepted_pn`; its uncommitted value is its last vote; what
  it has committed was chosen, that is, a majority has voted for it.
* `Leads`, of a leader: those it has counted have promised its number, and each vote
  that they cast under a smaller number is below its log or not above the
  uncommitted value it has found (`Heeded`). So when it has counted its quorum, the value
  it proposes is safe, whether it is the one it has found or a new one.
* `Carried`, of a message under way: the same of what a `last` offers, and that a
  `begin` asks for a ballot, an `accept` is a vote, a `commit` carries chosen values.
* `Durable`: what was acknowledged is in a value that was chosen.

That values are chosen for good (`ChosenStays`) follows from `Ballot` alone, as two
majorities meet. A lemma `Law...` per handler shows that its context keeps the law;
`FinishLaw` and `LawEnds` carry it over to the next state.

### ECWrite_proofs

For any shards, stripes, plans and bounds, from `ShardAssumption` (the primary is
one of finitely many shards), `PlanAssumption` (a plan reads only what it writes,
which `get_write_plan()` asserts) and `BoundAssumption` (bounds are numbers):

| Theorem | Statement |
|---|---|
| `TypeCorrect` | `Spec => []TypeOK` |
| `AssertsHold` | `Spec => []NoAssertFails` |
| `InOrderOfTheLog` | `Spec => []CompleteInOrder` |
| `ForwardIsCommitted` | `Spec => []RollForwardIsCommitted` |

The parts of the inductive invariant, and what they are for:

* `Streams`: the messages to a shard that are not answered, handled or not
  (`Stream(s)`), are in the order of versions, and what a shard has logged together
  with what is on its way to it is the primary's log. Everything about the order of
  logs rests on this.
* `Answers`: a message is unanswered exactly if somebody waits for it, so that no
  answer finds nobody (an assertion).
* `Reported`: an entry is reported exactly if it is in nobody's stream. As streams
  are suffixes of the log, `CompleteInOrder` follows.
* `Forward`: wherever a `roll_forward_to` is kept, it was reported. Together with
  `Reported` it gives `RollForwardIsCommitted`, and that peering does not roll back
  what was rolled forward (an assertion).
* `Queues`, `OnWrites`, `Commits`: versions grow along the three lists and the
  callbacks that wait for a write, behind the log. This is what
  `call_write_ordered()` is for: an entry that bypasses the pipeline is newer than
  all that was logged and older than all that waits.
* `Dummy`: the dummy operation is alone in its list.
* `CacheHolds`: the stripes that a write in flight uses are cached and pinned by it
  or by a newer write, and are pending only behind a write that will present them.
  This is what the assertions of `ExtentCache` need.
* `PlansKept`: operations carry the plans they were submitted with.

### ECWrite_refinement

`Refinement` is `CachedPlans => (Spec => ImplementsECLog)`, where `CachedPlans` says
that no plan both reads and invalidates the cache. The premise cannot be dropped:
`ec_snapshot` is a counterexample (finding 4). The plans of `ec_writes` satisfy it.

A step of the pipeline is a `Write`, `Tell`, `Keep` or `Interval` of `ECLog` by the
invariant above, except for one thing: that a write's contents are computed from
what the writes before it left. For this the invariant `RInv` is needed
(`RightInvariance`):

* `CacheUsers`: while the cache is valid everybody in flight uses it, and nobody
  uses it behind a write that bypasses it;
* `CachePinned`, `CacheRight`: what is cached belongs to a write in flight, and is
  what was sent last, unless a write in flight bypassed it;
* `ReadsRight`: a stripe that a write reads from a shard is in no older write in
  flight, so that any shard has it as it was sent last (`StoredIsSent`), however late
  the read is;
* `WrittenRight`: entries beside the pipeline write nothing.

### Only model-checked

* Liveness (`EventuallyStable`, `ProposalsCommit`, `WritesAreFinal`): the prover does
  not handle fairness.
* `ECBackend` and `OptLrc`: they compute in GF(2^8) with `Bitwise`, which the prover
  cannot use, and about matrices that only evaluation can decide.
* Of `Paxos`: `TypeOK`, which beyond the types of the proofs (`LooseState`,
  `LooseMessage`) says how the bounds of the model limit the numbers in it.
* `PGPeering`: not yet proved, see the plan. Its properties compare logs entry by
  entry, and the functions on logs are defined by recursion over them.

## 6. Plan

1. `PGPeering`: lemmas about `MergeLog` (it ends with the log it was given) and
   `PeerMissing`, then an inductive invariant for `KnownSurvives`.
2. `PaxosService`: the propose/refresh cycle above Paxos, with its timer; the window
   in `wait_for_paxos_write()`, in which the lock is dropped; monitor
   synchronization.

## 7. Not modelled

The tree has more than 700,000 lines. The models cover the core of two subsystems;
the others are left out for these reasons:

* *Object stores and journals, messenger*: the layers below. Assumed of them:
  transactions are atomic, durable once reported and applied in order; connections
  are ordered and lossless between live processes. The ordering of journal and
  file system in FileStore would be a project of its own.
* *Backfill, log trimming, splitting, scrub, cache tiering, the interpreter of
  client operations*: they multiply the state of `PGPeering` and `ECWrite` beyond what
  can be explored.
* *A failed read of a read-modify-write*: its callback ignores the error
  (`osd/ECBackend.cc:1844`). What the extent map then holds depends on which shards
  answered; a combined model of `ECBackend` and `ECWrite` would be needed.
* *PaxosService, the services, the monitor's store and its synchronization*: large
  decision tables over maps on top of Paxos; the store is taken as atomic.
* *CRUSH, other erasure code plugins, the plugin registry*: pure computations, or
  no behaviour worth a model.
* *MDS, RGW, RBD, manager, clients*: upstream subsystems that neither the plugin nor
  the models above depend on.
