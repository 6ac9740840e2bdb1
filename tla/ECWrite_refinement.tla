------------------------ MODULE ECWrite_refinement ------------------------
(***************************************************************************)
(* The write pipeline implements ECLog, for any number of shards, stripes, *)
(* versions and intervals and for any plans of which none both reads and   *)
(* bypasses the cache (a plan that does loses a write: ec_snapshot).       *)
(*                                                                         *)
(* What a write computes is what the log says it should be because what is *)
(* in the cache, or was read from the shards, is what was sent last.       *)
(***************************************************************************)
EXTENDS ECWrite_proofs

-----------------------------------------------------------------------------
(* What the refinement needs besides the invariant of ECWrite_proofs. *)

(* No plan reads the shards while it bypasses the cache. *)
CachedPlans == \A p \in Plans : p.to_read # {} => ~ p.invalidates_cache

(* What matters of a write in flight: its version, what it writes, and whether it
   has that in the cache. *)
Brief(op) == [v |-> op.version, w |-> op.plan.will_write, c |-> op.using_cache]

(* The writes of a list, without the dummy. *)
Briefs(list) == {Brief(list[i]) : i \in {j \in DOMAIN list : list[j].version # 0}}

(* The writes that wait for their reads or for the shards. *)
InFlight == Briefs(waiting_reads) \union Briefs(waiting_commit)

(* What stripe x holds once all that was sent is applied. *)
Sent(x) == Stored(Primary, x)

(* Behind a write that bypasses the cache nobody uses it. *)
CacheUsers ==
  /\ cache_valid => \A a \in InFlight : a.c
  /\ \A a, b \in InFlight : a.v < b.v /\ b.c => a.c

(* What is cached is pinned by a write in flight. *)
CachePinned ==
  \A x \in Stripe : Cached(x) =>
    \E a \in InFlight : a.v = cache[x].pin /\ a.c /\ x \in a.w

(* What the cache has is what was sent last, unless a write bypassed it. *)
CacheRight ==
  \A x \in Stripe :
    /\ Cached(x) /\ ~ cache[x].pending
    /\ \A a \in Briefs(waiting_commit) : x \in a.w => a.c
    => cache[x].bl = Sent(x)

(* No write before op changes what op reads from the shards, or read there. *)
ReadRight(op) ==
  /\ op.plan.to_read = op.remote_read \union op.pending_read
  /\ \A x \in op.remote_read :
       /\ \A a \in InFlight : a.v < op.version => x \notin a.w
       /\ op.read_done => op.remote_read_result[x] = Sent(x)

(* Every write that has begun to read reads what was sent last. *)
ReadsRight ==
  /\ \A i \in DOMAIN waiting_state : ~ waiting_state[i].read_done
  /\ \A i \in DOMAIN waiting_reads : ReadRight(waiting_reads[i])

(* A write has written what its plan says, all other versions nothing. *)
WrittenRight ==
  /\ \A a \in Briefs(waiting_commit) : DOMAIN written[a.v] = a.w
  /\ \A s \in Shard : \A i \in DOMAIN Stream(s) :
       Stream(s)[i].log_update => DOMAIN written[Stream(s)[i].version] = {}
  /\ \A u \in Futures(waiting_state) \union Futures(waiting_reads) \union Due :
       DOMAIN written[u] = {}
  /\ \A v \in Version : v > Len(plan) => DOMAIN written[v] = {}

(* The invariant of the refinement, besides IInv. *)
RInv == CacheUsers /\ CachePinned /\ CacheRight /\ ReadsRight /\ WrittenRight

-----------------------------------------------------------------------------
(* The writes of a list *)

(* What a list with one more operation, and one without its first, has in flight. *)
LEMMA BriefsAre ==
  ASSUME NEW q \in Seq(Op)
  PROVE  /\ \A e \in Op : Briefs(Append(q, e)) =
              Briefs(q) \union (IF e.version # 0 THEN {Brief(e)} ELSE {})
         /\ q # <<>> => Briefs(q) =
              Briefs(Tail(q)) \union (IF Head(q).version # 0 THEN {Brief(Head(q))} ELSE {})
         /\ Briefs(<<>>) = {}
<1>1. ASSUME NEW e \in Op
      PROVE  Briefs(Append(q, e)) = Briefs(q) \union (IF e.version # 0 THEN {Brief(e)} ELSE {})
  <2> DEFINE r == Append(q, e)
  <2>1. /\ DOMAIN q = 1 .. Len(q) /\ DOMAIN r = 1 .. Len(q) + 1 /\ Len(q) \in Nat
        /\ \A i \in DOMAIN q : r[i] = q[i]
        /\ r[Len(q) + 1] = e
    BY SplitLast
  <2> HIDE DEF r
  <2>2. \A a : a \in Briefs(r) <=> a \in Briefs(q) \/ (e.version # 0 /\ a = Brief(e))
    BY <2>1 DEF Briefs
  <2> QED BY <2>2 DEF r
<1>2. ASSUME q # <<>>
      PROVE  Briefs(q) = Briefs(Tail(q)) \union
                           (IF Head(q).version # 0 THEN {Brief(Head(q))} ELSE {})
  <2> DEFINE r == Tail(q)
  <2>1. /\ Len(q) \in Nat \ {0}
        /\ 1 \in DOMAIN q /\ q[1] = Head(q)
        /\ DOMAIN q = 1 .. Len(q) /\ DOMAIN r = 1 .. Len(q) - 1
        /\ \A i \in DOMAIN r : r[i] = q[i + 1] /\ i + 1 \in DOMAIN q
    BY <1>2, SplitHead
  <2>2. \A i \in DOMAIN q : i = 1 \/ (i - 1 \in DOMAIN r /\ r[i - 1] = q[i]) BY <2>1
  <2> HIDE DEF r
  <2>3. \A a : a \in Briefs(q) <=> a \in Briefs(r) \/ (q[1].version # 0 /\ a = Brief(q[1]))
    BY <2>1, <2>2 DEF Briefs
  <2> QED BY <2>1, <2>3 DEF r
<1>3. Briefs(<<>>) = {} BY DEF Briefs
<1> QED BY <1>1, <1>2, <1>3

(* Lists that are alike have the same writes. *)
LEMMA BriefsAlike ==
  ASSUME NEW a, NEW b, DOMAIN a = DOMAIN b,
         \A i \in DOMAIN b : /\ a[i].version = b[i].version /\ a[i].plan = b[i].plan
                             /\ a[i].using_cache = b[i].using_cache
  PROVE  Briefs(a) = Briefs(b)
<1>1. \A i \in DOMAIN b : Brief(a[i]) = Brief(b[i]) BY DEF Brief
<1> QED BY <1>1 DEF Briefs

(* The fields of a write in flight. *)
LEMMA BriefIs ==
  ASSUME NEW op
  PROVE  Brief(op).v = op.version /\ Brief(op).w = op.plan.will_write /\ Brief(op).c = op.using_cache
BY DEF Brief

(* Writes that were sent are in the log, those that wait for their reads are not yet. *)
LEMMA FlightIs ==
  ASSUME IInv
  PROVE  /\ \A a \in Briefs(waiting_commit) : a.v \in Elements(log[Primary])
         /\ \A a \in Briefs(waiting_reads) : a.v \in Futures(waiting_reads)
         /\ \A a \in InFlight : a.v \in Version /\ a.v \in Nat /\ a.w \subseteq Stripe /\ a.c \in BOOLEAN
         /\ \A a \in InFlight : \A x \in a.w : a.c => a.v <= cache[x].pin
<1>0. /\ TypeOK /\ DOMAIN written = Version /\ Commits /\ CacheHolds BY DEF IInv
<1>1. waiting_reads \in Seq(Op) /\ waiting_commit \in Seq(Op) BY <1>0, Types
<1>2. \A a \in Briefs(waiting_commit) : a.v \in Elements(log[Primary])
  BY <1>0, BriefIs DEF Briefs, Commits
<1>3. \A a \in Briefs(waiting_reads) : a.v \in Futures(waiting_reads)
  BY BriefIs DEF Briefs, Futures, Future
<1>4. \A a \in InFlight : a.v \in Version /\ a.v \in Nat
  BY <1>0, <1>2, <1>3, QueuesAreNat DEF InFlight
<1>5. ASSUME NEW a \in InFlight
      PROVE  a.w \subseteq Stripe /\ a.c \in BOOLEAN /\ \A x \in a.w : a.c => a.v <= cache[x].pin
  <2>1. PICK list \in {waiting_reads, waiting_commit} : \E i \in DOMAIN list : a = Brief(list[i])
    BY DEF InFlight, Briefs
  <2>2. PICK i \in DOMAIN list : a = Brief(list[i]) BY <2>1
  <2>3. list[i] \in Op BY <1>1, LenProperties, ElementOfSeq
  <2>4. /\ list[i].plan.will_write \subseteq Stripe /\ list[i].using_cache \in BOOLEAN
    BY <2>3, OpFields
  <2>5. \A x \in Stripe : UsesCache(list[i], x) => list[i].version <= cache[x].pin
    BY <1>0 DEF CacheHolds
  <2> QED BY <2>2, <2>4, <2>5, BriefIs DEF UsesCache
<1> QED BY <1>2, <1>3, <1>4, <1>5

-----------------------------------------------------------------------------
(* What the shards have stored *)

(* Two shards whose logs have the same writers of a stripe have stored the same. *)
LEMMA SameWriters ==
  ASSUME NEW s \in Shard, NEW t \in Shard, NEW x,
         \A v : v \in Elements(log[s]) /\ x \in DOMAIN written[v] <=>
                v \in Elements(log[t]) /\ x \in DOMAIN written[v]
  PROVE  Stored(s, x) = Stored(t, x)
<1>1. {v \in Elements(log[s]) : x \in DOMAIN written[v]} = {v \in Elements(log[t]) : x \in DOMAIN written[v]}
  OBVIOUS
<1> QED BY <1>1 DEF Stored

(* Nothing that counts for the primary's stripes has changed. *)
LEMMA SentKept ==
  ASSUME Elements(log'[Primary]) = Elements(log[Primary]),
         \A v \in Elements(log[Primary]) : written'[v] = written[v], NEW x,
         TypeOK, DOMAIN written = Version
  PROVE  Sent(x)' = Sent(x)
<1> DEFINE W == {v \in Elements(log[Primary]) : x \in DOMAIN written[v]}
<1>1. {v \in Elements(log'[Primary]) : x \in DOMAIN written'[v]} = W OBVIOUS
<1>2. Sent(x)' = IF W = {} THEN NoContents ELSE written'[Maximum(W)][x] BY <1>1 DEF Sent, Stored
<1>3. Sent(x) = IF W = {} THEN NoContents ELSE written[Maximum(W)][x] BY DEF Sent, Stored
<1>4. W # {} => Maximum(W) \in Elements(log[Primary])
  <2>1. W \in SUBSET (0 .. MaxVersion) /\ MaxVersion \in Nat
    BY QueuesAreNat, VersionIsNat
  <2>2. W \subseteq Elements(log[Primary]) OBVIOUS
  <2> HIDE DEF W
  <2> QED BY <2>1, <2>2, MaximumIs, Zenon
<1> QED BY <1>2, <1>3, <1>4

(* A newer entry changes the stripes that it writes and no others. *)
LEMMA SentAppend ==
  ASSUME TypeOK, DOMAIN written = Version, NEW v \in Version, NEW x,
         \A u \in Elements(log[Primary]) : u < v /\ written'[u] = written[u],
         Elements(log'[Primary]) = Elements(log[Primary]) \union {v}
  PROVE  Sent(x)' = IF x \in DOMAIN written'[v] THEN written'[v][x] ELSE Sent(x)
<1> DEFINE W == {u \in Elements(log[Primary]) : x \in DOMAIN written[u]}
           X == {u \in Elements(log'[Primary]) : x \in DOMAIN written'[u]}
<1>1. Sent(x) = IF W = {} THEN NoContents ELSE written[Maximum(W)][x] BY DEF Sent, Stored
<1>2. Sent(x)' = IF X = {} THEN NoContents ELSE written'[Maximum(X)][x] BY DEF Sent, Stored
<1>3. /\ X \in SUBSET (0 .. MaxVersion) /\ W \in SUBSET (0 .. MaxVersion) /\ MaxVersion \in Nat
      /\ W \subseteq Elements(log[Primary])
  BY QueuesAreNat, VersionIsNat
<1>4. CASE x \in DOMAIN written'[v]
  <2>1. v \in X /\ X = W \union {v} BY <1>4
  <2>2. Maximum(X) \in X /\ \A k \in X : k <= Maximum(X)
    <3> HIDE DEF X
    <3> QED BY <1>3, <2>1, MaximumIs, Zenon
  <2>3. Maximum(X) = v
    <3>1. v <= Maximum(X) /\ v \in Nat /\ (Maximum(X) = v \/ Maximum(X) \in W) BY <2>1, <2>2, VersionIsNat
    <3>2. Maximum(X) \in W => Maximum(X) < v /\ Maximum(X) \in Nat BY <1>3
    <3> HIDE DEF X, W
    <3> QED BY <3>1, <3>2
  <2> HIDE DEF X, W
  <2> QED BY <1>2, <1>4, <2>1, <2>3
<1>5. CASE x \notin DOMAIN written'[v]
  <2>1. X = W BY <1>5
  <2>2. W # {} => Maximum(W) \in Elements(log[Primary])
    <3> HIDE DEF W
    <3> QED BY <1>3, MaximumIs, Zenon
  <2> HIDE DEF X, W
  <2> QED BY <1>1, <1>2, <1>5, <2>1, <2>2
<1> QED BY <1>4, <1>5

-----------------------------------------------------------------------------
(* Steps that leave the cache and the writes in flight alone *)

(* The cache serves the same writes with the same contents. *)
LEMMA CacheKept ==
  ASSUME RInv, cache_valid' <=> cache_valid, cache' = cache,
         Briefs(waiting_reads') = Briefs(waiting_reads),
         Briefs(waiting_commit') = Briefs(waiting_commit),
         \A x \in Stripe : Sent(x)' = Sent(x)
  PROVE  CacheUsers' /\ CachePinned' /\ CacheRight' /\ InFlight' = InFlight
<1>1. InFlight' = InFlight BY DEF InFlight
<1>2. CacheUsers' BY <1>1 DEF RInv, CacheUsers
<1>3. \A x \in Stripe : Cached(x)' <=> Cached(x) BY DEF Cached
<1>4. CachePinned' BY <1>1, <1>3 DEF RInv, CachePinned
<1>5. CacheRight' BY <1>3 DEF RInv, CacheRight
<1> QED BY <1>1, <1>2, <1>4, <1>5

(* Reads that have not changed are still right. *)
LEMMA ReadsKept ==
  ASSUME TypeOK, DOMAIN written = Version, ReadsRight, InFlight' \subseteq InFlight,
         \A x \in Stripe : Sent(x)' = Sent(x),
         DOMAIN waiting_reads' = DOMAIN waiting_reads,
         \A i \in DOMAIN waiting_reads :
           /\ waiting_reads'[i].version = waiting_reads[i].version
           /\ waiting_reads'[i].plan = waiting_reads[i].plan
           /\ waiting_reads'[i].pending_read = waiting_reads[i].pending_read
           /\ waiting_reads'[i].remote_read = waiting_reads[i].remote_read
           /\ waiting_reads'[i].read_done = waiting_reads[i].read_done
           /\ waiting_reads'[i].remote_read_result = waiting_reads[i].remote_read_result,
         \A i \in DOMAIN waiting_state' : ~ waiting_state'[i].read_done
  PROVE  ReadsRight'
<1>1. ASSUME NEW i \in DOMAIN waiting_reads PROVE ReadRight(waiting_reads[i])'
  <2>1. ReadRight(waiting_reads[i]) BY DEF ReadsRight
  <2>2. waiting_reads[i] \in Op BY Types, LenProperties, ElementOfSeq
  <2>3. waiting_reads[i].remote_read \subseteq Stripe BY <2>2, OpFields
  <2> QED BY <2>1, <2>3 DEF ReadRight
<1> QED BY <1>1 DEF ReadsRight

(* submit_transaction(): the new version has not written anything. *)
LEMMA RInvSubmit ==
  ASSUME IInv, RInv, NEW p \in Plans, SubmitTransaction(p)
  PROVE  RInv'
<1> DEFINE v == NextVersion
           new == NewOp(v, p, RollForwardTo)
<1>0. TypeOK /\ DOMAIN written = Version /\ ReadsRight /\ WrittenRight BY DEF IInv, RInv
<1>1. /\ v \in Version /\ plan' = Append(plan, p) /\ waiting_state' = Append(waiting_state, new)
      /\ UNCHANGED <<waiting_reads, waiting_commit, cache_valid, cache, committed_to,
                     log_update, shards, acked, intervals, ok>>
  BY DEF SubmitTransaction
<1>2. waiting_state \in Seq(Op) /\ committed_to \in {0} \union Version BY <1>0, Types
<1>3. p \in WritePlan BY PlanAssumption
<1>4. new \in Op /\ new.version = v /\ new.on_write = <<>> /\ ~ new.read_done
  <2>1. new = NewOp(v, p, committed_to) BY DEF RollForwardTo
  <2>2. v \in {0} \union Version BY <1>1
  <2> HIDE DEF new, v
  <2> QED BY <1>2, <1>3, <2>1, <2>2, NewOpIs
<1>5. Len(plan) \in Nat /\ v = Len(plan) + 1 /\ Len(plan') = v
  BY <1>0, <1>1, <1>3, NextVersionIs
<1>6. UNCHANGED <<inbox, log, unanswered, written>> BY <1>1 DEF shards
<1> HIDE DEF new, v
<1>7. /\ DOMAIN waiting_state = 1 .. Len(waiting_state) /\ Len(waiting_state) \in Nat
      /\ DOMAIN waiting_state' = 1 .. Len(waiting_state) + 1
      /\ \A i \in DOMAIN waiting_state : waiting_state'[i] = waiting_state[i]
      /\ waiting_state'[Len(waiting_state) + 1] = new
  BY <1>1, <1>2, <1>4, SplitLast
<1>8. \A x \in Stripe : Sent(x)' = Sent(x) BY <1>6 DEF Sent, Stored
<1>9. CacheUsers' /\ CachePinned' /\ CacheRight' /\ InFlight' = InFlight
  BY <1>1, <1>8, CacheKept
<1>10. ReadsRight'
  <2>1. \A i \in DOMAIN waiting_state' : ~ waiting_state'[i].read_done
    BY <1>0, <1>4, <1>7 DEF ReadsRight
  <2> QED BY <1>0, <1>1, <1>8, <1>9, <2>1, ReadsKept
<1>11. WrittenRight'
  <2>1. Futures(waiting_state') \subseteq Futures(waiting_state) \union {v}
    <3>1. Future(new) \subseteq {v} BY <1>4 DEF Future, Elements
    <3> QED BY <1>7, <3>1 DEF Futures
  <2>2. DOMAIN written[v] = {} BY <1>0, <1>1, <1>5 DEF WrittenRight
  <2>3. \A s \in Shard : Stream(s)' = Stream(s) BY <1>6 DEF Stream
  <2>4. Due' = Due BY <1>1 DEF Due
  <2>5. \A u \in Version : u > Len(plan') => u > Len(plan) BY <1>5, VersionIsNat
  <2> QED BY <1>0, <1>1, <1>6, <2>1, <2>2, <2>3, <2>4, <2>5 DEF WrittenRight
<1> QED BY <1>9, <1>10, <1>11 DEF RInv

(* What the shards send and have is unchanged by an entry that writes nothing. *)
LEMMA UpdateLogsSent ==
  ASSUME IInv, NEW v \in Version, UpdateLogs(v), written' = written, DOMAIN written[v] = {},
         \A u \in Elements(log[Primary]) : u < v
  PROVE  /\ \A x \in Stripe : Sent(x)' = Sent(x)
         /\ \A s \in Shard : Stream(s)' = Append(Stream(s), UpdateLogMissing(v))
         /\ WrittenRight => \A s \in Shard : \A i \in DOMAIN Stream(s)' :
              Stream(s)'[i].log_update => DOMAIN written[Stream(s)'[i].version] = {}
<1> DEFINE m == UpdateLogMissing(v)
<1>0. TypeOK /\ DOMAIN written = Version /\ Streams BY DEF IInv
<1>1. m \in Message /\ m.version = v /\ m.log_update BY UpdateLogMissingIs
<1>2. SendToAll(m) BY DEF UpdateLogs
<1>3. v # 0 BY VersionIsNat
<1> HIDE DEF m
<1>4. /\ Elements(log'[Primary]) = Elements(log[Primary]) \union ({m.version} \ {0})
      /\ \A s \in Shard : Stream(s)' = Append(Stream(s), m)
  BY <1>0, <1>1, <1>2, <1>3, StreamsSend
<1>5. Elements(log'[Primary]) = Elements(log[Primary]) \union {v} BY <1>1, <1>3, <1>4
<1>6. ASSUME NEW x \in Stripe PROVE Sent(x)' = Sent(x)
  <2>1. Sent(x)' = IF x \in DOMAIN written'[v] THEN written'[v][x] ELSE Sent(x)
    BY <1>0, <1>5, SentAppend
  <2> QED BY <2>1
<1>7. ASSUME WrittenRight, NEW s \in Shard, NEW i \in DOMAIN Stream(s)', Stream(s)'[i].log_update
      PROVE  DOMAIN written[Stream(s)'[i].version] = {}
  <2> DEFINE q == Stream(s)
             r == Stream(s)'
  <2>1. q \in Seq(Message) /\ r = Append(q, m) BY <1>0, <1>4, StreamIs
  <2>2. /\ \A j \in DOMAIN q : q[j].log_update => DOMAIN written[q[j].version] = {}
    BY <1>7 DEF WrittenRight
  <2> HIDE DEF q, r
  <2>3. /\ Len(q) \in Nat /\ DOMAIN q = 1 .. Len(q) /\ DOMAIN r = 1 .. Len(q) + 1
        /\ \A j \in DOMAIN q : r[j] = q[j]
        /\ r[Len(q) + 1] = m
    BY <1>1, <2>1, SplitLast
  <2>4. \A j \in DOMAIN r : r[j].log_update => DOMAIN written[r[j].version] = {}
    BY <1>1, <2>2, <2>3
  <2> QED BY <1>7, <2>4 DEF r
<1> QED BY <1>4, <1>6, <1>7 DEF m

(* submit_log_entries(): the new entry writes nothing. *)
LEMMA RInvSubmitLog ==
  ASSUME IInv, RInv, SubmitLogEntries
  PROVE  RInv'
<1> DEFINE v == NextVersion
<1>0. TypeOK /\ DOMAIN written = Version /\ ReadsRight /\ WrittenRight /\ Queues /\ OnWrites
  BY DEF IInv, RInv
<1>1. /\ v \in Version /\ plan' = Append(plan, NoPlan)
      /\ UNCHANGED <<waiting_commit, cache_valid, cache, committed_to, acked, intervals>>
  BY DEF SubmitLogEntries
<1>2. /\ waiting_state \in Seq(Op) /\ waiting_reads \in Seq(Op) BY <1>0, Types
<1>3. Len(plan) \in Nat /\ v = Len(plan) + 1 /\ Len(plan') = v
  BY <1>0, <1>1, NoPlanIsPlan, NextVersionIs
<1>4. v \in Nat /\ v # 0 BY <1>1, VersionsAreNat
<1> HIDE DEF v
<1>5. DOMAIN written[v] = {} BY <1>0, <1>1, <1>3 DEF WrittenRight
<1>6. \A u \in Version : u > Len(plan') => u > Len(plan) BY <1>3, VersionIsNat
<1>7. Due' = Due BY <1>1 DEF Due
<1>8. ASSUME NEW list \in Seq(Op), list # <<>>, NEW r, r = AfterLast(list, v)
      PROVE  /\ DOMAIN r = DOMAIN list
             /\ \A i \in DOMAIN list :
                  /\ r[i].version = list[i].version /\ r[i].plan = list[i].plan
                  /\ r[i].using_cache = list[i].using_cache
                  /\ r[i].pending_read = list[i].pending_read /\ r[i].remote_read = list[i].remote_read
                  /\ r[i].read_done = list[i].read_done
                  /\ r[i].remote_read_result = list[i].remote_read_result
             /\ Futures(r) = Futures(list) \union {v}
  <2>1. list[Len(list)] \in Op BY <1>8, LenProperties, EmptySeq, ElementOfSeq
  <2>2. list[Len(list)].version \in {0} \union Version BY <2>1, OpFields
  <2> QED BY <1>1, <1>8, <2>2, QueueAfterLast
<1>9. CASE /\ waiting_state # <<>> /\ waiting_state' = AfterLast(waiting_state, v)
           /\ UNCHANGED <<waiting_reads, log_update, shards, ok>>
  <2>1. UNCHANGED <<inbox, log, unanswered, written>> /\ waiting_reads' = waiting_reads
    BY <1>9 DEF shards
  <2>2. /\ DOMAIN waiting_state' = DOMAIN waiting_state
        /\ \A i \in DOMAIN waiting_state : waiting_state'[i].read_done = waiting_state[i].read_done
        /\ Futures(waiting_state') = Futures(waiting_state) \union {v}
    BY <1>2, <1>8, <1>9
  <2>3. \A x \in Stripe : Sent(x)' = Sent(x) BY <2>1 DEF Sent, Stored
  <2>4. CacheUsers' /\ CachePinned' /\ CacheRight' /\ InFlight' = InFlight
    BY <1>1, <2>1, <2>3, CacheKept
  <2>5. ReadsRight'
    <3>1. \A i \in DOMAIN waiting_state' : ~ waiting_state'[i].read_done
      BY <1>0, <2>2 DEF ReadsRight
    <3> QED BY <1>0, <2>1, <2>3, <2>4, <3>1, ReadsKept
  <2>6. WrittenRight'
    <3>1. \A s \in Shard : Stream(s)' = Stream(s) BY <2>1 DEF Stream
    <3> QED BY <1>0, <1>1, <1>5, <1>6, <1>7, <2>1, <2>2, <3>1 DEF WrittenRight
  <2> QED BY <2>4, <2>5, <2>6 DEF RInv
<1>10. CASE /\ waiting_reads # <<>> /\ waiting_reads' = AfterLast(waiting_reads, v)
            /\ UNCHANGED <<waiting_state, log_update, shards, ok>>
  <2>1. UNCHANGED <<inbox, log, unanswered, written>> /\ waiting_state' = waiting_state
    BY <1>10 DEF shards
  <2>2. /\ DOMAIN waiting_reads' = DOMAIN waiting_reads
        /\ \A i \in DOMAIN waiting_reads :
             /\ waiting_reads'[i].version = waiting_reads[i].version
             /\ waiting_reads'[i].plan = waiting_reads[i].plan
             /\ waiting_reads'[i].using_cache = waiting_reads[i].using_cache
             /\ waiting_reads'[i].pending_read = waiting_reads[i].pending_read
             /\ waiting_reads'[i].remote_read = waiting_reads[i].remote_read
             /\ waiting_reads'[i].read_done = waiting_reads[i].read_done
             /\ waiting_reads'[i].remote_read_result = waiting_reads[i].remote_read_result
        /\ Futures(waiting_reads') = Futures(waiting_reads) \union {v}
    BY <1>2, <1>8, <1>10
  <2>3. \A x \in Stripe : Sent(x)' = Sent(x) BY <2>1 DEF Sent, Stored
  <2>4. Briefs(waiting_reads') = Briefs(waiting_reads) BY <2>2, BriefsAlike
  <2>5. CacheUsers' /\ CachePinned' /\ CacheRight' /\ InFlight' = InFlight
    BY <1>1, <2>3, <2>4, CacheKept
  <2>6. ReadsRight'
    <3>1. \A i \in DOMAIN waiting_state' : ~ waiting_state'[i].read_done
      BY <1>0, <2>1 DEF ReadsRight
    <3> QED BY <1>0, <2>2, <2>3, <2>5, <3>1, ReadsKept
  <2>7. WrittenRight'
    <3>1. \A s \in Shard : Stream(s)' = Stream(s) BY <2>1 DEF Stream
    <3> QED BY <1>0, <1>1, <1>5, <1>6, <1>7, <2>1, <2>2, <3>1 DEF WrittenRight
  <2> QED BY <2>5, <2>6, <2>7 DEF RInv
<1>11. CASE UpdateLogs(v) /\ UNCHANGED <<waiting_state, waiting_reads, written>>
  <2>1. \A u \in Elements(log[Primary]) : u < v
    <3>1. \A u \in Elements(log[Primary]) : u <= Len(plan) /\ u \in Nat
      BY <1>0, QueuesAreNat DEF Queues
    <3> QED BY <1>3, <3>1
  <2>2. /\ \A x \in Stripe : Sent(x)' = Sent(x)
        /\ \A s \in Shard : \A i \in DOMAIN Stream(s)' :
             Stream(s)'[i].log_update => DOMAIN written[Stream(s)'[i].version] = {}
    BY <1>0, <1>1, <1>5, <1>11, <2>1, UpdateLogsSent
  <2>3. CacheUsers' /\ CachePinned' /\ CacheRight' /\ InFlight' = InFlight
    BY <1>1, <1>11, <2>2, CacheKept
  <2>4. ReadsRight'
    <3>1. \A i \in DOMAIN waiting_state' : ~ waiting_state'[i].read_done
      BY <1>0, <1>11 DEF ReadsRight
    <3> QED BY <1>0, <1>11, <2>2, <2>3, <3>1, ReadsKept
  <2>5. WrittenRight'
    BY <1>0, <1>1, <1>6, <1>7, <1>11, <2>2 DEF WrittenRight
  <2> QED BY <2>3, <2>4, <2>5 DEF RInv
<1> QED BY <1>9, <1>10, <1>11 DEF SubmitLogEntries, v

(* A shard that lacks only what was sent to it has stored the same as the primary,
   in a stripe that no write in flight changes. *)
LEMMA StoredIsSent ==
  ASSUME IInv, WrittenRight, NEW s \in Shard, NEW x,
         \A a \in Briefs(waiting_commit) : x \notin a.w
  PROVE  Stored(s, x) = Sent(x)
<1>0. /\ TypeOK /\ DOMAIN written = Version /\ Streams /\ Answers BY DEF IInv
<1>1. Elements(log[Primary]) = Elements(log[s]) \union Carried(inbox[s]) BY <1>0 DEF Streams
<1>2. ASSUME NEW v \in Carried(inbox[s]) PROVE x \notin DOMAIN written[v]
  <2>1. v \in Carried(Stream(s)) /\ v \in Version BY <1>0, CarriedByStream
  <2>2. PICK i \in DOMAIN Stream(s) : Stream(s)[i].version = v BY <2>1 DEF Carried
  <2>3. CASE Stream(s)[i].log_update BY <2>2, <2>3 DEF WrittenRight
  <2>4. CASE ~ Stream(s)[i].log_update
    <3>1. Asked(s, v) BY <2>2, <2>4 DEF Asked
    <3>2. WaitsFor(s, v) BY <1>0, <2>1, <3>1 DEF Answers
    <3>3. PICK k \in DOMAIN waiting_commit : waiting_commit[k].version = v BY <3>2 DEF WaitsFor
    <3>4. v # 0 BY <2>1, VersionIsNat
    <3>5. Brief(waiting_commit[k]) \in Briefs(waiting_commit) /\ Brief(waiting_commit[k]).v = v
      BY <3>3, <3>4, BriefIs DEF Briefs
    <3> QED BY <3>5 DEF WrittenRight
  <2> QED BY <2>3, <2>4
<1>3. Primary \in Shard BY ShardAssumption
<1> QED BY <1>1, <1>2, <1>3, SameWriters DEF Sent

(* The callback of a read: nothing that was read has changed since it was sent for. *)
LEMMA RInvReadDone ==
  ASSUME IInv, RInv, NEW i \in DOMAIN waiting_reads, NEW s \in Shard, ReadDone(i, s)
  PROVE  RInv'
<1>0. TypeOK /\ DOMAIN written = Version /\ ReadsRight /\ WrittenRight /\ Queues /\ Dummy
  BY DEF IInv, RInv
<1>1. /\ ReadInProgress(waiting_reads[i])
      /\ UNCHANGED <<waiting_state, waiting_commit, cache_valid, cache, committed_to,
                     log_update, plan, shards, acked, intervals, ok>>
  BY DEF ReadDone
<1>2. UNCHANGED <<inbox, log, unanswered, written>> BY <1>1 DEF shards
<1>3. /\ DOMAIN waiting_reads' = DOMAIN waiting_reads
      /\ \A j \in DOMAIN waiting_reads :
           /\ waiting_reads'[j].version = waiting_reads[j].version
           /\ waiting_reads'[j].plan = waiting_reads[j].plan
           /\ waiting_reads'[j].using_cache = waiting_reads[j].using_cache
           /\ waiting_reads'[j].pending_read = waiting_reads[j].pending_read
           /\ waiting_reads'[j].remote_read = waiting_reads[j].remote_read
           /\ waiting_reads'[j].on_write = waiting_reads[j].on_write
           /\ j # i => waiting_reads'[j] = waiting_reads[j]
      /\ \A x \in waiting_reads[i].remote_read :
           waiting_reads'[i].remote_read_result[x] = Stored(s, x)
  BY <1>0, ReadDoneIs
<1>4. \A x : Sent(x)' = Sent(x) BY <1>2 DEF Sent, Stored
<1>5. Briefs(waiting_reads') = Briefs(waiting_reads) BY <1>3, BriefsAlike
<1>6. CacheUsers' /\ CachePinned' /\ CacheRight' /\ InFlight' = InFlight
  BY <1>1, <1>4, <1>5, CacheKept
<1>7. ASSUME NEW x \in waiting_reads[i].remote_read PROVE Stored(s, x) = Sent(x)
  <2>1. waiting_reads[i].version # 0
    BY <1>0, <1>1 DEF Dummy, ReadInProgress
  <2>2. waiting_reads[i].version \in Futures(waiting_reads) BY <2>1 DEF Futures, Future
  <2>3. ASSUME NEW a \in Briefs(waiting_commit) PROVE x \notin a.w
    <3>1. a.v \in Elements(log[Primary]) BY FlightIs
    <3>2. a.v < waiting_reads[i].version BY <1>0, <2>2, <3>1 DEF Queues, Below
    <3>3. a \in InFlight BY DEF InFlight
    <3> QED BY <1>0, <3>2, <3>3 DEF ReadsRight, ReadRight
  <2> QED BY <1>0, <2>3, StoredIsSent
<1>8. ReadsRight'
  <2>1. ASSUME NEW j \in DOMAIN waiting_reads PROVE ReadRight(waiting_reads[j])'
    <3>1. ReadRight(waiting_reads[j]) BY <1>0 DEF ReadsRight
    <3>2. CASE j = i BY <1>3, <1>4, <1>6, <1>7, <3>1, <3>2 DEF ReadRight
    <3>3. CASE j # i BY <1>3, <1>4, <1>6, <3>1, <3>3 DEF ReadRight
    <3> QED BY <3>2, <3>3
  <2> QED BY <1>0, <1>1, <1>3, <2>1 DEF ReadsRight
<1>9. WrittenRight'
  <2>1. Futures(waiting_reads') = Futures(waiting_reads)
    <3>1. \A j \in DOMAIN waiting_reads : Future(waiting_reads'[j]) = Future(waiting_reads[j])
      BY <1>3 DEF Future
    <3> QED BY <1>3, <3>1 DEF Futures
  <2>2. \A t \in Shard : Stream(t)' = Stream(t) BY <1>2 DEF Stream
  <2>3. Due' = Due BY <1>1 DEF Due
  <2> QED BY <1>0, <1>1, <1>2, <2>1, <2>2, <2>3 DEF WrittenRight
<1> QED BY <1>6, <1>8, <1>9 DEF RInv

(* A callback at the end of try_reads_to_commit() writes nothing. *)
LEMMA RInvRunOnWrite ==
  ASSUME IInv, RInv, RunOnWrite
  PROVE  RInv'
<1>0. TypeOK /\ DOMAIN written = Version /\ ReadsRight /\ WrittenRight /\ OnWrites BY DEF IInv, RInv
<1>1. UNCHANGED <<waiting_state, waiting_reads, cache_valid, cache, committed_to, plan,
                  written, acked, intervals>>
  BY Zenon DEF RunOnWrite
<1>2. PICK v \in Version :
        /\ UpdateLogs(v) /\ v \in Due
        /\ Alike(waiting_commit', waiting_commit)
        /\ Due' \subseteq Due /\ \A u \in Due' : v < u
  BY RunOnWriteIs
<1>3. DOMAIN written[v] = {} BY <1>0, <1>2 DEF WrittenRight
<1>4. \A u \in Elements(log[Primary]) : u < v BY <1>0, <1>2 DEF OnWrites, Below
<1>5. /\ \A x \in Stripe : Sent(x)' = Sent(x)
      /\ \A s \in Shard : \A i \in DOMAIN Stream(s)' :
           Stream(s)'[i].log_update => DOMAIN written[Stream(s)'[i].version] = {}
  BY <1>0, <1>1, <1>2, <1>3, <1>4, UpdateLogsSent
<1>6. Briefs(waiting_commit') = Briefs(waiting_commit) BY <1>2, BriefsAlike DEF Alike
<1>7. CacheUsers' /\ CachePinned' /\ CacheRight' /\ InFlight' = InFlight
  BY <1>1, <1>5, <1>6, CacheKept
<1>8. ReadsRight'
  <2>1. \A i \in DOMAIN waiting_state' : ~ waiting_state'[i].read_done
    BY <1>0, <1>1 DEF ReadsRight
  <2> QED BY <1>0, <1>1, <1>5, <1>7, <2>1, ReadsKept
<1>9. WrittenRight' BY <1>0, <1>1, <1>2, <1>5, <1>6 DEF WrittenRight
<1> QED BY <1>7, <1>8, <1>9 DEF RInv

(* A shard that takes a message: the primary's log is as it was. *)
LEMMA RInvHandleMessage ==
  ASSUME IInv, RInv, NEW t \in Shard, HandleMessage(t)
  PROVE  RInv'
<1>0. TypeOK /\ DOMAIN written = Version /\ ReadsRight /\ WrittenRight /\ Streams BY DEF IInv, RInv
<1>1. UNCHANGED <<waiting_state, waiting_reads, waiting_commit, cache_valid, cache,
                  committed_to, log_update, plan, written, acked, intervals>>
  BY DEF HandleMessage
<1>2. log'[Primary] = log[Primary] /\ \A s \in Shard : Stream(s)' = Stream(s)
  BY <1>0, StreamsHandle
<1>3. \A x \in Stripe : Sent(x)' = Sent(x) BY <1>1, <1>2 DEF Sent, Stored
<1>4. CacheUsers' /\ CachePinned' /\ CacheRight' /\ InFlight' = InFlight
  BY <1>1, <1>3, CacheKept
<1>5. ReadsRight'
  <2>1. \A i \in DOMAIN waiting_state' : ~ waiting_state'[i].read_done
    BY <1>0, <1>1 DEF ReadsRight
  <2> QED BY <1>0, <1>1, <1>3, <1>4, <2>1, ReadsKept
<1>6. WrittenRight'
  <2>1. Due' = Due BY <1>1 DEF Due
  <2> QED BY <1>0, <1>1, <1>2, <2>1 DEF WrittenRight
<1> QED BY <1>4, <1>5, <1>6 DEF RInv

(* An answer of a shard: nothing that is written or read depends on it. *)
LEMMA RInvReply ==
  ASSUME IInv, RInv, NEW t \in Shard, HandleReply(t)
  PROVE  RInv'
<1> DEFINE m == Head(unanswered[t])
<1>0. TypeOK /\ DOMAIN written = Version /\ ReadsRight /\ WrittenRight BY DEF IInv, RInv
<1>1. /\ UNCHANGED <<waiting_state, waiting_reads, cache_valid, cache, committed_to, plan,
                     written, inbox, log, can_rollback_to, intervals>>
      /\ SubWriteReply(t, m) \/ LogUpdateReply(t, m)
  BY DEF HandleReply
<1>2. /\ Alike(waiting_commit', waiting_commit)
      /\ \A k \in DOMAIN waiting_commit : waiting_commit'[k].on_write = waiting_commit[k].on_write
  <2>1. CASE SubWriteReply(t, m) BY <2>1, SubWriteReplyIs
  <2>2. CASE LogUpdateReply(t, m)
    <3>1. waiting_commit' = waiting_commit BY <2>2, LogUpdateReplyIs
    <3> QED BY <3>1 DEF Alike
  <2> QED BY <1>1, <2>1, <2>2
<1>3. \A s \in Shard : \A i \in DOMAIN Stream(s)' :
        \E j \in DOMAIN Stream(s) : Stream(s)'[i] = Stream(s)[j]
  BY <1>0, AskedReply DEF IInv
<1> HIDE DEF m
<1>4. \A x \in Stripe : Sent(x)' = Sent(x) BY <1>1 DEF Sent, Stored
<1>5. Briefs(waiting_commit') = Briefs(waiting_commit) BY <1>2, BriefsAlike DEF Alike
<1>6. CacheUsers' /\ CachePinned' /\ CacheRight' /\ InFlight' = InFlight
  BY <1>1, <1>4, <1>5, CacheKept
<1>7. ReadsRight'
  <2>1. \A i \in DOMAIN waiting_state' : ~ waiting_state'[i].read_done
    BY <1>0, <1>1 DEF ReadsRight
  <2> QED BY <1>0, <1>1, <1>4, <1>6, <2>1, ReadsKept
<1>8. WrittenRight'
  <2>1. Due' = Due BY <1>2 DEF Due, Alike
  <2>2. ASSUME NEW s \in Shard, NEW i \in DOMAIN Stream(s)', Stream(s)'[i].log_update
        PROVE  DOMAIN written[Stream(s)'[i].version] = {}
    <3>1. PICK j \in DOMAIN Stream(s) : Stream(s)'[i] = Stream(s)[j] BY <1>3
    <3> QED BY <1>0, <2>2, <3>1 DEF WrittenRight
  <2> QED BY <1>0, <1>1, <1>5, <2>1, <2>2 DEF WrittenRight
<1> QED BY <1>6, <1>7, <1>8 DEF RInv

-----------------------------------------------------------------------------
(* The steps of check_ops() *)

(* try_state_to_reads(): what the write does not find in the cache, nobody before it
   changes.  A write with reads that finds the cache valid uses it (CachedPlans). *)
LEMMA RInvStateToReads ==
  ASSUME CachedPlans, IInv, RInv, TryStateToReads
  PROVE  RInv'
<1> DEFINE op == Head(waiting_state)
           v == op.version
           new == Reading(op)
           rest == Tail(waiting_state)
           w == op.plan.will_write
<1>0. /\ TypeOK /\ DOMAIN written = Version /\ Dummy /\ Queues /\ CacheHolds /\ PlansKept
      /\ CacheUsers /\ CachePinned /\ CacheRight /\ ReadsRight /\ WrittenRight
  BY DEF IInv, RInv
<1>1. /\ StateCanMove /\ waiting_state # <<>>
      /\ waiting_state' = rest
      /\ waiting_reads' = Append(waiting_reads, new)
      /\ cache_valid' = (cache_valid /\ ~ op.plan.invalidates_cache)
      /\ cache' = IF UsingCache(op) THEN Reserved(v, w) ELSE cache
      /\ UNCHANGED <<waiting_commit, committed_to, log_update, plan, shards, acked, intervals, ok>>
  BY DEF TryStateToReads, Reading, ReadsRemotely, StateCanMove
<1>2. /\ waiting_state \in Seq(Op) /\ waiting_reads \in Seq(Op) /\ cache_valid \in BOOLEAN
      /\ cache \in [Stripe -> [pin : {NoPin} \union Version, pending : BOOLEAN, bl : Contents]]
  BY <1>0, Types
<1>3. /\ op \in Op /\ rest \in Seq(Op)
      /\ 1 \in DOMAIN waiting_state /\ waiting_state[1] = op
      /\ \A i \in DOMAIN rest : rest[i] = waiting_state[i + 1] /\ i + 1 \in DOMAIN waiting_state
  BY <1>1, <1>2, SplitHead
<1>4. /\ new \in Op /\ new.version = v /\ new.plan = op.plan /\ new.on_write = op.on_write
      /\ new.using_cache <=> ~ op.plan.invalidates_cache /\ cache_valid
      /\ new.remote_read = ReadsRemotely(op)
      /\ new.pending_read = op.plan.to_read \ ReadsRemotely(op)
      /\ new.read_done = op.read_done
  <2>1. new = Reading(op) OBVIOUS
  <2> HIDE DEF op, new
  <2> QED BY <1>2, <1>3, <2>1, ReadingIs
<1>5. op.plan.to_read # {} => cache_valid /\ ~ op.plan.invalidates_cache
  <2>1. op.plan \in Plans \union {NoPlan} BY <1>0, <1>3 DEF PlansKept
  <2>2. NoPlan.to_read = {} BY DEF NoPlan
  <2>3. op.plan.to_read # {} => cache_valid BY <1>1 DEF StateCanMove, RequiresRmw
  <2> QED BY <2>1, <2>2, <2>3 DEF CachedPlans
<1>6. UNCHANGED <<inbox, log, unanswered, written>> BY <1>1 DEF shards
<1>7. ~ op.read_done BY <1>0, <1>3 DEF ReadsRight
<1>8. UsingCache(op) <=> ~ op.plan.invalidates_cache /\ cache_valid BY DEF UsingCache
<1>9. w \subseteq Stripe /\ op.plan.to_read \subseteq Stripe
  <2> HIDE DEF op
  <2> QED BY <1>3, OpFields
<1>10. ReadsRemotely(op) = IF UsingCache(op) THEN MustRead(op.plan.to_read) ELSE op.plan.to_read
  BY DEF ReadsRemotely
<1>11. v \in Version /\ v \in Nat /\ v # 0 /\ v \in Futures(waiting_state)
  <2>1. v # 0 BY <1>0, <1>3 DEF Dummy
  <2>2. v \in Futures(waiting_state) BY <1>3, <2>1 DEF Futures, Future
  <2> QED BY <1>0, <2>1, <2>2, QueuesAreNat
<1> HIDE DEF op, new, rest, v, w
<1>12. /\ DOMAIN waiting_reads = 1 .. Len(waiting_reads)
       /\ DOMAIN waiting_reads' = 1 .. Len(waiting_reads) + 1 /\ Len(waiting_reads) \in Nat
       /\ \A i \in DOMAIN waiting_reads : waiting_reads'[i] = waiting_reads[i]
       /\ waiting_reads'[Len(waiting_reads) + 1] = new
  BY <1>1, <1>2, <1>4, SplitLast
<1>13. Briefs(waiting_reads') = Briefs(waiting_reads) \union {Brief(new)}
  <2>1. Briefs(waiting_reads') = Briefs(waiting_reads)
          \union (IF new.version # 0 THEN {Brief(new)} ELSE {})
    BY <1>1, <1>2, <1>4, BriefsAre
  <2> QED BY <1>4, <1>11, <2>1
<1>14. InFlight' = InFlight \union {Brief(new)} BY <1>1, <1>13 DEF InFlight
<1>15. Brief(new).v = v /\ Brief(new).w = w /\ (Brief(new).c <=> UsingCache(op))
  BY <1>4, <1>8, BriefIs DEF w
<1>16. \A a \in InFlight : a.v \in Nat /\ a.v < v
  <2>1. \A u \in Elements(log[Primary]) : u < v BY <1>0, <1>11 DEF Queues, Below
  <2>2. \A u \in Futures(waiting_reads) : u < v BY <1>0, <1>11 DEF Queues, Below
  <2> QED BY <2>1, <2>2, FlightIs DEF InFlight
<1>17. \A x : Sent(x)' = Sent(x) BY <1>6 DEF Sent, Stored
<1>18. CacheUsers'
  <2>1. cache_valid' => \A a \in InFlight' : a.c
    BY <1>0, <1>1, <1>8, <1>14, <1>15 DEF CacheUsers
  <2>2. ASSUME NEW a \in InFlight', NEW b \in InFlight', a.v < b.v, b.c PROVE a.c
    <3>1. CASE a \in InFlight /\ b \in InFlight BY <1>0, <2>2, <3>1 DEF CacheUsers
    <3>2. CASE b = Brief(new) /\ a \in InFlight
      BY <1>0, <1>8, <1>15, <2>2, <3>2 DEF CacheUsers
    <3>3. CASE a = Brief(new)
      <4>1. a.v = v /\ (b = Brief(new) \/ b \in InFlight) BY <1>14, <1>15, <3>3
      <4>2. b = Brief(new) => FALSE BY <1>11, <1>15, <2>2, <4>1
      <4>3. b \in InFlight => FALSE BY <1>11, <1>16, <2>2, <4>1
      <4> QED BY <4>1, <4>2, <4>3
    <3> QED BY <1>14, <3>1, <3>2, <3>3
  <2> QED BY <2>1, <2>2 DEF CacheUsers
<1>19. ASSUME NEW x \in Stripe
       PROVE  \/ cache'[x] = cache[x]
              \/ /\ UsingCache(op) /\ x \in w /\ cache'[x].pin = v
                 /\ Cached(x) => cache'[x].pending = cache[x].pending /\ cache'[x].bl = cache[x].bl
                 /\ ~ Cached(x) => cache'[x].pending
  <2>1. CASE ~ UsingCache(op) BY <1>1, <2>1
  <2>2. CASE UsingCache(op)
    <3>1. cache' = Reserved(v, w) BY <1>1, <2>2
    <3>2. cache'[x] = IF x \notin w THEN cache[x]
                      ELSE IF Cached(x) THEN [cache[x] EXCEPT !.pin = v]
                      ELSE [pin |-> v, pending |-> TRUE, bl |-> NoContents]
      BY <3>1, Zenon DEF Reserved
    <3>3. CASE x \notin w BY <3>2, <3>3
    <3>4. CASE x \in w /\ Cached(x)
      <4>1. cache'[x] = [cache[x] EXCEPT !.pin = v] BY <3>2, <3>4
      <4>2. cache[x] \in [pin : {NoPin} \union Version, pending : BOOLEAN, bl : Contents] BY <1>2
      <4>3. cache'[x].pin = v /\ cache'[x].pending = cache[x].pending /\ cache'[x].bl = cache[x].bl
        BY <4>1, <4>2
      <4> QED BY <2>2, <3>4, <4>3
    <3>5. CASE x \in w /\ ~ Cached(x)
      <4>1. cache'[x] = [pin |-> v, pending |-> TRUE, bl |-> NoContents] BY <3>2, <3>5
      <4>2. cache'[x].pin = v BY <4>1
      <4>3. cache'[x].pending = TRUE BY <4>1
      <4> QED BY <2>2, <3>5, <4>2, <4>3, Zenon
    <3> QED BY <3>3, <3>4, <3>5
  <2> QED BY <2>1, <2>2
<1>20. CachePinned'
  <2> SUFFICES ASSUME NEW x \in Stripe, Cached(x)'
               PROVE  \E a \in InFlight' : a.v = cache'[x].pin /\ a.c /\ x \in a.w
    BY DEF CachePinned
  <2>1. CASE cache'[x] = cache[x]
    <3>1. Cached(x) BY <2>1 DEF Cached
    <3> QED BY <1>0, <1>14, <2>1, <3>1 DEF CachePinned
  <2>2. CASE UsingCache(op) /\ x \in w /\ cache'[x].pin = v BY <1>14, <1>15, <2>2
  <2> QED BY <1>19, <2>1, <2>2
<1>21. CacheRight'
  <2> SUFFICES ASSUME NEW x \in Stripe, Cached(x)', ~ cache'[x].pending,
                      \A a \in Briefs(waiting_commit) : x \in a.w => a.c
               PROVE  cache'[x].bl = Sent(x)
    BY <1>1, <1>17 DEF CacheRight
  <2>1. CASE cache'[x] = cache[x]
    <3>1. Cached(x) BY <2>1 DEF Cached
    <3> QED BY <1>0, <2>1, <3>1 DEF CacheRight
  <2>2. CASE /\ Cached(x) => cache'[x].pending = cache[x].pending /\ cache'[x].bl = cache[x].bl
             /\ ~ Cached(x) => cache'[x].pending
    BY <1>0, <2>2 DEF CacheRight
  <2> QED BY <1>19, <2>1, <2>2
<1>22. ASSUME NEW x \in ReadsRemotely(op), NEW a \in InFlight PROVE x \notin a.w
  <2>1. UsingCache(op) /\ cache_valid /\ x \in op.plan.to_read /\ ~ Cached(x) /\ x \in Stripe
    BY <1>5, <1>8, <1>9, <1>10 DEF MustRead
  <2>2. a.c BY <1>0, <2>1 DEF CacheUsers
  <2>3. x \in a.w => a.v <= cache[x].pin /\ a.v \in Nat /\ a.v \in Version BY <2>2, FlightIs
  <2>4. a.v # 0 BY FlightIs, VersionsAreNat
  <2> QED BY <2>1, <2>3, <2>4 DEF Cached, NoPin
<1>23. ReadsRight'
  <2>1. ASSUME NEW i \in DOMAIN waiting_reads PROVE ReadRight(waiting_reads[i])'
    <3>1. ReadRight(waiting_reads[i]) /\ waiting_reads'[i] = waiting_reads[i] BY <1>0, <1>12 DEF ReadsRight
    <3>2. waiting_reads[i].version < v /\ waiting_reads[i].version \in Nat
      <4>1. CASE waiting_reads[i].version = 0 BY <1>11, <4>1
      <4>2. CASE waiting_reads[i].version # 0
        <5>1. waiting_reads[i].version \in Futures(waiting_reads) BY <4>2 DEF Futures, Future
        <5> QED BY <1>0, <1>11, <5>1, QueuesAreNat DEF Queues, Below
      <4> QED BY <4>1, <4>2
    <3>3. ~ (Brief(new).v < waiting_reads[i].version) BY <1>11, <1>15, <3>2
    <3> QED BY <1>14, <1>17, <3>1, <3>3 DEF ReadRight
  <2>2. ASSUME NEW i \in DOMAIN waiting_reads', waiting_reads'[i] = new
        PROVE  ReadRight(waiting_reads[i])'
    <3>1. new.plan.to_read = new.remote_read \union new.pending_read
      BY <1>4, <1>10 DEF MustRead
    <3>2. ~ (Brief(new).v < new.version) BY <1>4, <1>11, <1>15
    <3>3. ~ new.read_done BY <1>4, <1>7
    <3>4. \A x \in new.remote_read : \A a \in InFlight : x \notin a.w BY <1>4, <1>22
    <3>5. \A x \in new.remote_read : \A a \in InFlight' : a.v < new.version => x \notin a.w
      BY <1>14, <3>2, <3>4
    <3> QED BY <2>2, <3>1, <3>3, <3>5 DEF ReadRight
  <2>3. \A i \in DOMAIN waiting_reads' : ReadRight(waiting_reads[i])'
    <3> SUFFICES ASSUME NEW i \in DOMAIN waiting_reads' PROVE ReadRight(waiting_reads[i])' OBVIOUS
    <3>1. CASE i \in DOMAIN waiting_reads BY <2>1, <3>1
    <3>2. CASE waiting_reads'[i] = new BY <2>2, <3>2
    <3> QED BY <1>12, <3>1, <3>2
  <2>4. \A i \in DOMAIN waiting_state' : ~ waiting_state'[i].read_done
    BY <1>0, <1>1, <1>3 DEF ReadsRight
  <2> QED BY <2>3, <2>4 DEF ReadsRight
<1>24. WrittenRight'
  <2>1. \A i \in DOMAIN rest : Future(rest[i]) \subseteq Futures(waiting_state) BY <1>3 DEF Futures
  <2>2. Future(op) \subseteq Futures(waiting_state) BY <1>3 DEF Futures
  <2>3. Future(new) = Future(op) BY <1>4 DEF Future, v
  <2>4. Futures(waiting_state') \subseteq Futures(waiting_state) BY <1>1, <2>1 DEF Futures
  <2>5. Futures(waiting_reads') \subseteq Futures(waiting_reads) \union Futures(waiting_state)
    BY <1>12, <2>2, <2>3 DEF Futures
  <2>6. Due' = Due BY <1>1 DEF Due
  <2>7. \A s \in Shard : Stream(s)' = Stream(s) BY <1>6 DEF Stream
  <2> QED BY <1>0, <1>1, <1>6, <2>4, <2>5, <2>6, <2>7 DEF WrittenRight
<1> QED BY <1>18, <1>20, <1>21, <1>23, <1>24 DEF RInv

(* generate_transactions(): what the oldest write got from the cache or from the
   shards is what was sent last. *)
LEMMA GeneratesRight ==
  ASSUME IInv, RInv, waiting_reads # <<>>, ReadsCanMove, NEW op, op = Head(waiting_reads),
         NEW x \in op.plan.will_write
  PROVE  Generate(op)[x] = {op.version} \union (IF x \in op.plan.to_read THEN Sent(x) ELSE {})
<1>0. /\ TypeOK /\ DOMAIN written = Version /\ Queues /\ CacheHolds /\ Dummy
      /\ CacheUsers /\ CacheRight /\ ReadsRight
  BY DEF IInv, RInv
<1>1. op \in Op /\ 1 \in DOMAIN waiting_reads /\ waiting_reads[1] = op
  BY <1>0, Types, SplitHead
<1>2. ReadRight(op) BY <1>0, <1>1 DEF ReadsRight
<1>3. Generate(op)[x] = {op.version} \union
       (IF x \notin op.plan.to_read THEN NoContents
        ELSE IF x \in op.pending_read THEN cache[x].bl
        ELSE op.remote_read_result[x])
  BY DEF Generate
<1>4. ASSUME x \in op.pending_read PROVE cache[x].bl = Sent(x)
  <2>1. x \in Stripe BY <1>1, <1>4, OpFields
  <2>2. UsesCache(op, x) /\ ~ cache[x].pending
    <3>1. /\ UsesCache(waiting_reads[1], x)
          /\ cache[x].pending => \E j \in 1 .. 1 - 1 : UsesCache(waiting_reads[j], x)
      BY <1>0, <1>1, <1>4 DEF CacheHolds
    <3> QED BY <1>1, <3>1
  <2>3. op.using_cache BY <2>2 DEF UsesCache
  <2>4. op.version # 0 BY <1>0, <1>1, <1>4 DEF Dummy
  <2>5. Brief(op) \in InFlight /\ Brief(op).v = op.version /\ Brief(op).c = op.using_cache
    <3>1. Brief(waiting_reads[1]) \in Briefs(waiting_reads) BY <1>1, <2>4 DEF Briefs
    <3> QED BY <1>1, <3>1, BriefIs DEF InFlight
  <2>6. op.version \in Futures(waiting_reads) BY <1>1, <2>4 DEF Futures, Future
  <2>7. ASSUME NEW a \in Briefs(waiting_commit) PROVE a.c
    <3>1. a.v < op.version BY <1>0, <2>6, FlightIs DEF Queues, Below
    <3>2. a \in InFlight BY DEF InFlight
    <3> QED BY <1>0, <2>3, <2>5, <3>1, <3>2 DEF CacheUsers
  <2>8. Cached(x)
    <3>1. op.version <= cache[x].pin BY <1>0, <1>1, <2>1, <2>2 DEF CacheHolds
    <3>2. op.version \in Nat BY <1>0, <2>6, QueuesAreNat
    <3> QED BY <2>4, <3>1, <3>2 DEF Cached, NoPin
  <2> QED BY <1>0, <2>1, <2>2, <2>7, <2>8 DEF CacheRight
<1>5. ASSUME x \in op.remote_read PROVE op.remote_read_result[x] = Sent(x)
  <2>1. op.read_done BY <1>5 DEF ReadsCanMove, ReadInProgress
  <2> QED BY <1>2, <1>5, <2>1 DEF ReadRight
<1>6. CASE x \notin op.plan.to_read BY <1>3, <1>6 DEF NoContents
<1>7. CASE x \in op.plan.to_read /\ x \in op.pending_read BY <1>3, <1>4, <1>7
<1>8. CASE x \in op.plan.to_read /\ x \notin op.pending_read
  <2>1. x \in op.remote_read BY <1>2, <1>8 DEF ReadRight
  <2> QED BY <1>3, <1>5, <1>8, <2>1
<1> QED BY <1>6, <1>7, <1>8

(* try_reads_to_commit(): the write becomes what was sent last, in the cache too if
   it uses it. *)
LEMMA RInvReadsToCommit ==
  ASSUME IInv, RInv, TryReadsToCommit
  PROVE  RInv'
<1> DEFINE op == Head(waiting_reads)
           v == op.version
           m == SubWrite(op)
           update == Generate(op)
           new == Committing(op)
           rest == Tail(waiting_reads)
           w == op.plan.will_write
<1>0. /\ TypeOK /\ DOMAIN written = Version /\ Streams /\ Dummy /\ Queues /\ Commits
      /\ CacheUsers /\ CachePinned /\ CacheRight /\ ReadsRight /\ WrittenRight
  BY DEF IInv, RInv
<1>1. /\ op \in Op /\ m \in Message /\ waiting_reads # <<>>
      /\ v \in {0} \union Version /\ v \in Nat
      /\ m.version = v /\ ~ m.log_update
      /\ 1 \in DOMAIN waiting_reads /\ waiting_reads[1] = op
      /\ waiting_reads' = rest
      /\ waiting_commit' = Append(waiting_commit, new)
      /\ SendToAll(m)
      /\ v # 0 => \A u \in Elements(log[Primary]) : u < v
      /\ v = 0 => \A s \in Shard : \A i \in DOMAIN Stream(s) : Stream(s)[i].version # 0
  BY ReadsToCommitIs
<1>2. /\ new \in Op /\ new.version = v /\ new.plan = op.plan
      /\ new.on_write = op.on_write
      /\ new.using_cache <=> op.using_cache
  BY <1>1, CommittingIs
<1>3. /\ cache' = IF op.using_cache THEN Presented(update) ELSE cache
      /\ written' = IF v = 0 THEN written ELSE [written EXCEPT ![v] = update]
      /\ UNCHANGED <<waiting_state, cache_valid, committed_to, log_update, plan, acked, intervals>>
  BY DEF TryReadsToCommit
<1>4. DOMAIN update = w /\ w \subseteq Stripe
  BY <1>1, OpFields DEF Generate
<1>5. /\ Elements(log'[Primary]) = Elements(log[Primary]) \union ({m.version} \ {0})
      /\ \A s \in Shard : Stream(s)' = Append(Stream(s), m)
  BY <1>0, <1>1, StreamsSend
<1>6. /\ waiting_commit \in Seq(Op) /\ waiting_reads \in Seq(Op)
      /\ cache \in [Stripe -> [pin : {NoPin} \union Version, pending : BOOLEAN, bl : Contents]]
  BY <1>0, Types
<1>7. /\ Len(waiting_reads) \in Nat \ {0} /\ DOMAIN waiting_reads = 1 .. Len(waiting_reads)
      /\ rest \in Seq(Op) /\ DOMAIN rest = 1 .. Len(waiting_reads) - 1
      /\ \A i \in DOMAIN rest : rest[i] = waiting_reads[i + 1] /\ i + 1 \in DOMAIN waiting_reads
  BY <1>1, <1>6, SplitHead
<1>8. Briefs(waiting_reads) = Briefs(rest) \union (IF v # 0 THEN {Brief(op)} ELSE {})
  <2>1. Briefs(waiting_reads) = Briefs(Tail(waiting_reads))
           \union (IF Head(waiting_reads).version # 0 THEN {Brief(Head(waiting_reads))} ELSE {})
    BY <1>1, <1>6, BriefsAre
  <2> QED BY <2>1
<1>9. /\ Futures(waiting_reads) = Future(op) \union Futures(rest)
      /\ Below(Future(op), Futures(rest))
      /\ \A u \in Elements(op.on_write) : v < u
  <2>1. Queued(waiting_reads) BY <1>0 DEF Queues
  <2>2. /\ Futures(waiting_reads) = Future(Head(waiting_reads)) \union Futures(rest)
        /\ Below(Future(Head(waiting_reads)), Futures(rest))
        /\ \A u \in Elements(Head(waiting_reads).on_write) : Head(waiting_reads).version < u
    BY <1>1, <1>6, <2>1, QueueTail
  <2> QED BY <2>2
<1> HIDE DEF op, m, update, new, rest, v, w
<1>10. Brief(new) = Brief(op)
  <2>1. new.using_cache = op.using_cache
    <3>1. new.using_cache \in BOOLEAN /\ op.using_cache \in BOOLEAN BY <1>1, <1>2, OpFields
    <3> QED BY <1>2, <3>1
  <2> QED BY <1>2, <2>1 DEF Brief, v
<1>11. Briefs(waiting_commit') = Briefs(waiting_commit) \union (IF v # 0 THEN {Brief(op)} ELSE {})
  <2>1. Briefs(waiting_commit') = Briefs(waiting_commit)
          \union (IF new.version # 0 THEN {Brief(new)} ELSE {})
    BY <1>1, <1>2, <1>6, BriefsAre
  <2> QED BY <1>2, <1>10, <2>1
<1>12. InFlight' = InFlight BY <1>1, <1>8, <1>11 DEF InFlight
<1>13. Brief(op).v = v /\ Brief(op).w = w /\ Brief(op).c = op.using_cache
  BY BriefIs DEF v, w
<1>14. CacheUsers' BY <1>0, <1>3, <1>12 DEF CacheUsers
<1>15. \A u \in Elements(log[Primary]) : u # v /\ u \in Version
  <2>1. \A u \in Elements(log[Primary]) : u \in Nat /\ u \in Version /\ u # 0
    BY <1>0, QueuesAreNat, VersionsAreNat
  <2> QED BY <1>1, <2>1
<1>16. \A u \in Version : u # v => written'[u] = written[u] BY <1>0, <1>3
<1>17. v # 0 => written'[v] = update /\ v \in Version BY <1>0, <1>1, <1>3
<1>18. ASSUME NEW x
       PROVE  Sent(x)' = IF v # 0 /\ x \in w THEN update[x] ELSE Sent(x)
  <2>1. CASE v = 0
    <3>1. Elements(log'[Primary]) = Elements(log[Primary]) BY <1>1, <1>5, <2>1
    <3>2. written' = written BY <1>3, <2>1
    <3>3. Sent(x)' = Sent(x) BY <1>0, <3>1, <3>2, SentKept
    <3> QED BY <2>1, <3>3
  <2>2. CASE v # 0
    <3>1. Elements(log'[Primary]) = Elements(log[Primary]) \union {v} BY <1>1, <1>5, <2>2
    <3>2. \A u \in Elements(log[Primary]) : u < v /\ written'[u] = written[u]
      BY <1>1, <1>15, <1>16, <2>2
    <3>3. Sent(x)' = IF x \in DOMAIN written'[v] THEN written'[v][x] ELSE Sent(x)
      BY <1>0, <1>17, <2>2, <3>1, <3>2, SentAppend
    <3> QED BY <1>4, <1>17, <2>2, <3>3
  <2> QED BY <2>1, <2>2
<1>19. ASSUME NEW x \in Stripe
       PROVE  /\ cache'[x].pin = cache[x].pin
              /\ op.using_cache /\ x \in w => cache'[x].bl = update[x]
              /\ ~ (op.using_cache /\ x \in w) => cache'[x] = cache[x]
  <2>1. CASE ~ op.using_cache BY <1>3, <2>1
  <2>2. CASE op.using_cache
    <3>1. cache' = Presented(update) BY <1>3, <2>2
    <3>2. Presented(update)[x] = IF x \in DOMAIN update
                    THEN [cache[x] EXCEPT !.bl = update[x], !.pending = FALSE] ELSE cache[x]
      BY Zenon DEF Presented
    <3>3. CASE x \in w
      <4>1. cache'[x] = [cache[x] EXCEPT !.bl = update[x], !.pending = FALSE]
        BY <1>4, <3>1, <3>2, <3>3
      <4>2. cache[x] \in [pin : {NoPin} \union Version, pending : BOOLEAN, bl : Contents] BY <1>6
      <4>3. cache'[x].pin = cache[x].pin /\ cache'[x].bl = update[x] BY <4>1, <4>2
      <4> QED BY <2>2, <3>3, <4>3
    <3>4. CASE x \notin w BY <1>4, <3>1, <3>2, <3>4
    <3> QED BY <3>3, <3>4
  <2> QED BY <2>1, <2>2
<1>20. CachePinned'
  <2>1. \A x \in Stripe : Cached(x)' <=> Cached(x) BY <1>19 DEF Cached
  <2> QED BY <1>0, <1>12, <1>19, <2>1 DEF CachePinned
<1>21. op.using_cache => v # 0 BY <1>0, <1>1 DEF Dummy, v
<1>22. CacheRight'
  <2> SUFFICES ASSUME NEW x \in Stripe, Cached(x)', ~ cache'[x].pending,
                      \A a \in Briefs(waiting_commit') : x \in a.w => a.c
               PROVE  cache'[x].bl = Sent(x)'
    BY DEF CacheRight
  <2>1. CASE op.using_cache /\ x \in w BY <1>18, <1>19, <1>21, <2>1
  <2>2. CASE ~ (op.using_cache /\ x \in w)
    <3>1. ~ (v # 0 /\ x \in w) BY <1>11, <1>13, <2>2
    <3>2. Sent(x)' = Sent(x) BY <1>18, <3>1
    <3>3. cache'[x] = cache[x] BY <1>19, <2>2
    <3>4. Cached(x) BY <3>3 DEF Cached
    <3> QED BY <1>0, <1>11, <3>2, <3>3, <3>4 DEF CacheRight
  <2> QED BY <2>1, <2>2
<1>23. ReadsRight'
  <2>1. ASSUME NEW i \in DOMAIN rest PROVE ReadRight(waiting_reads[i])'
    <3>1. waiting_reads'[i] = waiting_reads[i + 1] /\ i + 1 \in DOMAIN waiting_reads BY <1>1, <1>7
    <3>2. ReadRight(waiting_reads[i + 1]) BY <1>0, <3>1 DEF ReadsRight
    <3>3. ASSUME NEW x \in waiting_reads[i + 1].remote_read PROVE Sent(x)' = Sent(x)
      <4>1. waiting_reads[i + 1].version # 0 BY <1>0, <3>1, <3>3 DEF Dummy
      <4>2. waiting_reads[i + 1].version \in Futures(rest) BY <1>7, <2>1, <4>1 DEF Futures, Future
      <4>3. v # 0 => v < waiting_reads[i + 1].version
        <5>1. v # 0 => v \in Future(op) BY DEF Future, v
        <5> QED BY <1>9, <4>2, <5>1 DEF Below
      <4>4. v # 0 => Brief(op) \in InFlight BY <1>8 DEF InFlight
      <4>5. v # 0 => x \notin w BY <1>13, <3>2, <3>3, <4>3, <4>4 DEF ReadRight
      <4> QED BY <1>18, <4>5
    <3> QED BY <1>12, <3>1, <3>2, <3>3 DEF ReadRight
  <2>2. \A i \in DOMAIN waiting_state' : ~ waiting_state'[i].read_done
    BY <1>0, <1>3 DEF ReadsRight
  <2> QED BY <1>1, <2>1, <2>2 DEF ReadsRight
<1>24. WrittenRight'
  <2>1. ASSUME NEW a \in Briefs(waiting_commit') PROVE DOMAIN written'[a.v] = a.w
    <3>1. CASE a \in Briefs(waiting_commit)
      <4>1. a.v # v /\ a.v \in Version BY <1>15, <3>1, FlightIs
      <4> QED BY <1>0, <1>16, <3>1, <4>1 DEF WrittenRight
    <3>2. CASE v # 0 /\ a = Brief(op) BY <1>4, <1>13, <1>17, <3>2
    <3> QED BY <1>11, <3>1, <3>2
  <2>2. ASSUME NEW s \in Shard, NEW i \in DOMAIN Stream(s)', Stream(s)'[i].log_update
        PROVE  DOMAIN written'[Stream(s)'[i].version] = {}
    <3> DEFINE q == Stream(s)
               r == Stream(s)'
    <3>1. q \in Seq(Message) /\ r = Append(q, m) BY <1>0, <1>5, StreamIs
    <3>2. \A j \in DOMAIN q : q[j].log_update =>
            /\ DOMAIN written[q[j].version] = {}
            /\ q[j].version \in Elements(log[Primary])
      <4>1. ASSUME NEW j \in DOMAIN q, q[j].log_update PROVE q[j].version \in Elements(log[Primary])
        <5>1. q[j].version # 0 BY <4>1 DEF IInv, Answers
        <5>2. q[j].version \in Carried(Stream(s)) BY <5>1 DEF Carried
        <5> QED BY <1>0, <5>2 DEF Streams
      <4> QED BY <1>0, <4>1 DEF WrittenRight
    <3> HIDE DEF q, r
    <3>3. /\ Len(q) \in Nat /\ DOMAIN q = 1 .. Len(q) /\ DOMAIN r = 1 .. Len(q) + 1
          /\ \A j \in DOMAIN q : r[j] = q[j]
          /\ r[Len(q) + 1] = m
      BY <1>1, <3>1, SplitLast
    <3>4. \A j \in DOMAIN r : r[j].log_update => j \in DOMAIN q BY <1>1, <3>3
    <3>5. \A j \in DOMAIN r : r[j].log_update => DOMAIN written'[r[j].version] = {}
      BY <1>15, <1>16, <3>2, <3>3, <3>4
    <3> QED BY <2>2, <3>5 DEF r
  <2>3. Due' \subseteq Due \union Elements(op.on_write)
    <3>1. /\ DOMAIN waiting_commit = 1 .. Len(waiting_commit)
          /\ DOMAIN waiting_commit' = 1 .. Len(waiting_commit) + 1 /\ Len(waiting_commit) \in Nat
          /\ \A k \in DOMAIN waiting_commit : waiting_commit'[k] = waiting_commit[k]
          /\ waiting_commit'[Len(waiting_commit) + 1] = new
      BY <1>1, <1>2, <1>6, SplitLast
    <3> QED BY <1>2, <3>1 DEF Due
  <2>4. ASSUME NEW u \in Futures(waiting_state) \union Futures(rest) \union Due \union Elements(op.on_write)
        PROVE  u # v /\ u \in Version /\ DOMAIN written[u] = {}
    <3>1. Elements(op.on_write) \subseteq Futures(waiting_reads) BY <1>9 DEF Future
    <3>2. Futures(rest) \subseteq Futures(waiting_reads) BY <1>9
    <3>3. DOMAIN written[u] = {} BY <1>0, <3>1, <3>2 DEF WrittenRight
    <3>4. u \in Version /\ u \in Nat /\ u # 0 BY <1>0, <3>1, <3>2, QueuesAreNat, VersionsAreNat
    <3>5. ASSUME u = v PROVE FALSE
      <4>1. v \in Future(op) /\ v \in Futures(waiting_reads) BY <1>9, <3>4, <3>5 DEF Future, v
      <4>2. u \in Futures(waiting_state) => v < u BY <1>0, <4>1 DEF Queues, Below
      <4>3. u \in Futures(rest) => v < u BY <1>9, <4>1 DEF Below
      <4>4. u \in Elements(op.on_write) => v < u BY <1>9
      <4>5. u \in Due => u < v BY <4>1 DEF IInv, OnWrites, Below
      <4> QED BY <3>4, <3>5, <4>2, <4>3, <4>4, <4>5
    <3> QED BY <3>3, <3>4, <3>5
  <2>5. \A u \in Futures(waiting_state') \union Futures(waiting_reads') \union Due' : DOMAIN written'[u] = {}
    BY <1>1, <1>3, <1>16, <2>3, <2>4
  <2>6. ASSUME NEW u \in Version, u > Len(plan') PROVE DOMAIN written'[u] = {}
    <3>1. DOMAIN written[u] = {} BY <1>0, <1>3, <2>6 DEF WrittenRight
    <3>2. v # 0 => v <= Len(plan)
      <4>1. v # 0 => v \in Futures(waiting_reads) BY <1>9 DEF Future, v
      <4> QED BY <1>0, <4>1 DEF Queues
    <3>3. u \in Nat /\ u # 0 /\ Len(plan) \in Nat BY <1>0, VersionsAreNat, QueuesAreNat
    <3>4. u # v BY <1>1, <1>3, <2>6, <3>2, <3>3
    <3> QED BY <1>16, <3>1, <3>4
  <2> QED BY <2>1, <2>2, <2>5, <2>6 DEF WrittenRight
<1> QED BY <1>14, <1>20, <1>22, <1>23, <1>24 DEF RInv

(* try_finish_rmw(): what is left in the cache belongs to younger writes. *)
LEMMA RInvFinish ==
  ASSUME IInv, RInv, TryFinishRmw
  PROVE  RInv'
<1> DEFINE op == Head(waiting_commit)
           v == op.version
           rest == Tail(waiting_commit)
           new == NewOp(0, NoPlan, v)
           drained == waiting_reads = <<>> /\ rest = <<>>
           dummy == drained /\ NeedsDummy(op)
<1>0. /\ TypeOK /\ DOMAIN written = Version /\ Queues /\ Commits
      /\ CacheUsers /\ CachePinned /\ CacheRight /\ ReadsRight /\ WrittenRight
  BY DEF IInv, RInv
<1>1. /\ waiting_commit # <<>> /\ waiting_commit' = rest
      /\ waiting_reads' = IF dummy THEN <<new>> ELSE waiting_reads
      /\ cache' = IF op.using_cache THEN Released(v) ELSE cache
      /\ cache_valid' = (cache_valid \/ (drained /\ ~ dummy))
      /\ UNCHANGED <<waiting_state, log_update, plan, shards, acked, intervals, ok>>
  BY DEF TryFinishRmw, CommitCanMove
<1>2. waiting_reads \in Seq(Op) /\ waiting_commit \in Seq(Op)
  BY <1>0, Types
<1>3. /\ op \in Op /\ rest \in Seq(Op)
      /\ 1 \in DOMAIN waiting_commit /\ waiting_commit[1] = op
      /\ \A i \in DOMAIN rest : rest[i] = waiting_commit[i + 1] /\ i + 1 \in DOMAIN waiting_commit
  BY <1>1, <1>2, SplitHead
<1>4. v \in {0} \union Version /\ v \in Nat
  <2>1. v \in {0} \union Version
    <3> HIDE DEF op
    <3> QED BY <1>3, OpFields
  <2> QED BY <2>1, VersionsAreNat
<1>5. /\ new.version = 0 /\ new.plan = NoPlan
      /\ new.pending_read = {} /\ new.remote_read = {} /\ new.on_write = <<>>
  BY DEF NewOp
<1>6. Briefs(waiting_commit) = Briefs(rest) \union (IF v # 0 THEN {Brief(op)} ELSE {})
  <2>1. Briefs(waiting_commit) = Briefs(Tail(waiting_commit))
           \union (IF Head(waiting_commit).version # 0 THEN {Brief(Head(waiting_commit))} ELSE {})
    BY <1>1, <1>2, BriefsAre
  <2> QED BY <2>1
<1>7. \A k \in DOMAIN rest : rest[k].version # 0 => v < rest[k].version
  <2>1. InVersionOrder(waiting_commit) BY <1>0 DEF Commits
  <2>2. \A k \in DOMAIN Tail(waiting_commit) : Tail(waiting_commit)[k].version # 0 =>
          Head(waiting_commit).version < Tail(waiting_commit)[k].version
    BY <1>1, <1>2, <2>1, VersionOrder
  <2> QED BY <2>2
<1>8. Brief(op).v = v /\ Brief(op).w = op.plan.will_write /\ Brief(op).c = op.using_cache
  BY BriefIs
<1>9. op.using_cache \in BOOLEAN
  <2> HIDE DEF op
  <2> QED BY <1>3, OpFields
<1> HIDE DEF op, rest, new, v
<1>10. Briefs(waiting_reads') = Briefs(waiting_reads)
  <2>1. CASE dummy
    <3>1. DOMAIN waiting_reads' = {1} /\ waiting_reads'[1] = new BY <1>1, <2>1
    <3>2. Briefs(waiting_reads') = {} BY <1>5, <3>1 DEF Briefs
    <3>3. Briefs(waiting_reads) = {} BY <2>1 DEF Briefs
    <3> QED BY <3>2, <3>3
  <2> QED BY <1>1, <2>1
<1>11. InFlight = InFlight' \union (IF v # 0 THEN {Brief(op)} ELSE {})
  BY <1>1, <1>6, <1>10 DEF InFlight
<1>12. ASSUME NEW a \in InFlight' PROVE v < a.v
  <2>1. a \in InFlight BY <1>11
  <2>2. v \in {0} \union Elements(log[Primary]) BY <1>0, <1>3 DEF Commits, v
  <2>3. CASE a \in Briefs(rest)
    <3>1. PICK k \in DOMAIN rest : rest[k].version # 0 /\ a = Brief(rest[k]) BY <2>3 DEF Briefs
    <3> QED BY <1>7, <3>1, BriefIs
  <2>4. CASE a \in Briefs(waiting_reads)
    <3>1. a.v \in Futures(waiting_reads) BY <2>4, FlightIs
    <3>2. a.v \in Version BY <2>1, FlightIs
    <3>3. 0 < a.v BY <3>2, VersionsAreNat
    <3> QED BY <1>0, <2>2, <3>1, <3>3 DEF Queues, Below
  <2> QED BY <1>1, <1>10, <2>3, <2>4 DEF InFlight
<1>13. drained /\ ~ dummy => InFlight' = {}
  BY <1>1 DEF InFlight, Briefs
<1>14. CacheUsers'
  <2>1. cache_valid' => \A a \in InFlight' : a.c
    BY <1>0, <1>1, <1>11, <1>13 DEF CacheUsers
  <2> QED BY <1>0, <1>11, <2>1 DEF CacheUsers
<1>15. UNCHANGED <<inbox, log, unanswered, written>> BY <1>1 DEF shards
<1>16. \A x : Sent(x)' = Sent(x) BY <1>15 DEF Sent, Stored
<1>17. ASSUME NEW x \in Stripe, Cached(x)'
       PROVE  /\ cache'[x] = cache[x] /\ Cached(x)
              /\ \E a \in InFlight' : a.v = cache[x].pin /\ a.c /\ x \in a.w
  <2>1. cache'[x] = cache[x] /\ (op.using_cache => cache[x].pin # v)
    <3>1. CASE ~ op.using_cache BY <1>1, <3>1
    <3>2. CASE op.using_cache
      <4>1. cache'[x] = IF cache[x].pin = v THEN Absent ELSE cache[x] BY <1>1, <3>2 DEF Released
      <4>2. cache'[x] # Absent BY <1>17 DEF Cached, Absent
      <4> QED BY <4>1, <4>2
    <3> QED BY <3>1, <3>2
  <2>2. Cached(x) BY <1>17, <2>1 DEF Cached
  <2>3. PICK a \in InFlight : a.v = cache[x].pin /\ a.c /\ x \in a.w BY <1>0, <2>2 DEF CachePinned
  <2>4. a # Brief(op) BY <1>8, <2>1, <2>3
  <2>5. a \in InFlight' BY <1>11, <2>4
  <2> QED BY <2>1, <2>2, <2>3, <2>5
<1>18. CachePinned' BY <1>17 DEF CachePinned
<1>19. CacheRight'
  <2> SUFFICES ASSUME NEW x \in Stripe, Cached(x)', ~ cache'[x].pending,
                      \A a \in Briefs(rest) : x \in a.w => a.c
               PROVE  cache'[x].bl = Sent(x)
    BY <1>1, <1>16 DEF CacheRight
  <2>1. cache'[x] = cache[x] /\ Cached(x) BY <1>17
  <2>2. PICK a \in InFlight' : a.c BY <1>17
  <2>3. v # 0 => Brief(op).c
    <3>1. v # 0 => Brief(op) \in InFlight /\ a \in InFlight BY <1>11
    <3>2. Brief(op).v < a.v BY <1>8, <1>12
    <3> QED BY <1>0, <2>2, <3>1, <3>2 DEF CacheUsers
  <2>4. \A b \in Briefs(waiting_commit) : x \in b.w => b.c BY <1>6, <2>3
  <2> QED BY <1>0, <2>1, <2>4 DEF CacheRight
<1>20. ReadsRight'
  <2>1. ASSUME NEW i \in DOMAIN waiting_reads' PROVE ReadRight(waiting_reads[i])'
    <3>1. CASE waiting_reads' = waiting_reads
      <4>1. ReadRight(waiting_reads[i]) BY <1>0, <2>1, <3>1 DEF ReadsRight
      <4> QED BY <1>11, <1>16, <3>1, <4>1 DEF ReadRight
    <3>2. CASE waiting_reads' = <<new>>
      <4>1. waiting_reads'[i] = new BY <2>1, <3>2
      <4>2. new.plan.to_read = {} BY <1>5 DEF NoPlan
      <4> QED BY <1>5, <4>1, <4>2 DEF ReadRight
    <3> QED BY <1>1, <3>1, <3>2
  <2> QED BY <1>0, <1>1, <2>1 DEF ReadsRight
<1>21. WrittenRight'
  <2>1. Due' \subseteq Due
    <3>1. Due' = UNION {Elements(rest[k].on_write) : k \in DOMAIN rest} BY <1>1 DEF Due
    <3> QED BY <1>3, <3>1 DEF Due
  <2>2. Futures(waiting_reads') \subseteq Futures(waiting_reads)
    <3>1. Future(new) = {} BY <1>5 DEF Future, Elements
    <3>2. CASE waiting_reads' = <<new>>
      <4>1. DOMAIN waiting_reads' = {1} /\ waiting_reads'[1] = new BY <3>2
      <4> QED BY <3>1, <4>1 DEF Futures
    <3> QED BY <1>1, <3>2
  <2>3. \A s \in Shard : Stream(s)' = Stream(s) BY <1>15 DEF Stream
  <2>4. Briefs(waiting_commit') \subseteq Briefs(waiting_commit) BY <1>1, <1>6
  <2> QED BY <1>0, <1>1, <1>15, <2>1, <2>2, <2>3, <2>4 DEF WrittenRight
<1> QED BY <1>14, <1>18, <1>19, <1>20, <1>21 DEF RInv

-----------------------------------------------------------------------------
(* The invariant of the refinement *)

(* on_change(): nothing is in flight, nothing is cached. *)
LEMMA RInvOnChange ==
  ASSUME IInv, RInv, OnChange
  PROVE  RInv'
<1>0. TypeOK /\ DOMAIN written = Version /\ WrittenRight /\ Streams /\ Reported BY DEF IInv, RInv
<1>1. /\ waiting_state' = <<>> /\ waiting_reads' = <<>> /\ waiting_commit' = <<>>
      /\ cache' = [x \in Stripe |-> Absent]
      /\ plan' = plan /\ written' = written
  BY DEF OnChange, CacheAfterChange
<1>2. \A s \in Shard : Stream(s)' = <<>> BY <1>0, StreamsChange
<1>3. Briefs(waiting_commit') = {} /\ InFlight' = {} BY <1>1 DEF InFlight, Briefs
<1>4. \A x \in Stripe : ~ Cached(x)' BY <1>1 DEF Cached, Absent
<1>5. CacheUsers' /\ CachePinned' /\ CacheRight' BY <1>3, <1>4 DEF CacheUsers, CachePinned, CacheRight
<1>6. ReadsRight' BY <1>1 DEF ReadsRight
<1>7. WrittenRight'
  <2>1. Due' = {} /\ Futures(waiting_state') = {} /\ Futures(waiting_reads') = {} BY <1>1 DEF Due, Futures
  <2>2. \A s \in Shard : DOMAIN Stream(s)' = {} BY <1>2
  <2> QED BY <1>0, <1>1, <1>3, <2>1, <2>2 DEF WrittenRight
<1> QED BY <1>5, <1>6, <1>7 DEF RInv

(* At first nothing is in flight and nothing is written. *)
LEMMA RInvInit ==
  ASSUME Init
  PROVE  RInv
<1> USE DEF Init
<1>1. Briefs(<<>>) = {} /\ InFlight = {} BY DEF InFlight, Briefs
<1>2. \A x \in Stripe : ~ Cached(x) BY DEF Cached, Absent
<1>3. CacheUsers /\ CachePinned /\ CacheRight BY <1>1, <1>2 DEF CacheUsers, CachePinned, CacheRight
<1>4. ReadsRight BY DEF ReadsRight
<1>5. WrittenRight
  <2>1. Due = {} /\ Futures(<<>>) = {} BY DEF Due, Futures
  <2>2. \A s \in Shard : Stream(s) = <<>> BY DEF Stream
  <2>3. \A v \in Version : DOMAIN written[v] = {} OBVIOUS
  <2> QED BY <1>1, <2>1, <2>2, <2>3 DEF WrittenRight
<1> QED BY <1>3, <1>4, <1>5 DEF RInv

(* Every step keeps the cache and the reads right. *)
LEMMA RInvNext ==
  ASSUME CachedPlans, IInv, RInv, [Next]_vars
  PROVE  RInv'
<1>1. CASE UNCHANGED vars
  <2> USE <1>1 DEF vars
  <2>0. TypeOK /\ DOMAIN written = Version /\ ReadsRight /\ WrittenRight BY DEF IInv, RInv
  <2>1. \A x \in Stripe : Sent(x)' = Sent(x) BY DEF Sent, Stored
  <2>2. CacheUsers' /\ CachePinned' /\ CacheRight' /\ InFlight' = InFlight BY <2>1, CacheKept
  <2>3. ReadsRight'
    <3>1. \A i \in DOMAIN waiting_state' : ~ waiting_state'[i].read_done BY <2>0 DEF ReadsRight
    <3> QED BY <2>0, <2>1, <2>2, <3>1, ReadsKept
  <2>4. WrittenRight'
    <3>1. \A s \in Shard : Stream(s)' = Stream(s) BY DEF Stream
    <3>2. Due' = Due BY DEF Due
    <3> QED BY <2>0, <3>1, <3>2 DEF WrittenRight
  <2> QED BY <2>2, <2>3, <2>4 DEF RInv
<1>2. CASE \E p \in Plans : SubmitTransaction(p) BY <1>2, RInvSubmit
<1>3. CASE SubmitLogEntries BY <1>3, RInvSubmitLog
<1>4. CASE TryStateToReads BY <1>4, RInvStateToReads
<1>5. CASE TryReadsToCommit BY <1>5, RInvReadsToCommit
<1>6. CASE RunOnWrite BY <1>6, RInvRunOnWrite
<1>7. CASE TryFinishRmw BY <1>7, RInvFinish
<1>8. CASE \E i \in DOMAIN waiting_reads, s \in Shard : ReadDone(i, s) BY <1>8, RInvReadDone
<1>9. CASE \E s \in Shard : HandleMessage(s) BY <1>9, RInvHandleMessage
<1>10. CASE \E s \in Shard : HandleReply(s) BY <1>10, RInvReply
<1>11. CASE OnChange BY <1>11, RInvOnChange
<1> QED BY <1>1, <1>2, <1>3, <1>4, <1>5, <1>6, <1>7, <1>8, <1>9, <1>10, <1>11 DEF Next, CheckOps

(* While no plan reads past the cache, the cache and the reads are right. *)
THEOREM RightInvariance == CachedPlans => (Spec => []RInv)
<1> SUFFICES ASSUME CachedPlans PROVE Spec => []RInv OBVIOUS
<1>1. Init => RInv BY RInvInit
<1>2. IInv /\ RInv /\ [Next]_vars => RInv' BY RInvNext
<1> QED BY <1>1, <1>2, Invariance, PTL DEF Spec

-----------------------------------------------------------------------------
(* The refinement mapping *)

(* The log with what every entry wrote, how much of it is reported, and how much
   some shard has rolled forward: what ImplementsECLog puts for ECLog's variables. *)
Hist == [i \in DOMAIN log[Primary] |-> [v |-> log[Primary][i], update |-> written[log[Primary][i]]]]
Told == Maximum({0} \union {i \in DOMAIN log[Primary] : log[Primary][i] \in acked})
Forwarded == Maximum({can_rollback_to[s] : s \in Shard})
Kept == LastUpTo(log[Primary], Forwarded)

(* The primary's log is a sequence of growing versions. *)
LEMMA LogIs ==
  ASSUME IInv
  PROVE  /\ log[Primary] \in Seq(Version) /\ Increasing(log[Primary])
         /\ Len(log[Primary]) \in Nat /\ DOMAIN log[Primary] = 1 .. Len(log[Primary])
         /\ \A i \in DOMAIN log[Primary] : log[Primary][i] \in Version /\ log[Primary][i] \in Nat
         /\ \A i \in DOMAIN log[Primary] : log[Primary][i] \in Elements(log[Primary])
<1>1. TypeOK /\ DOMAIN written = Version /\ Streams BY DEF IInv
<1>2. log[Primary] \in Seq(Version) /\ Increasing(log[Primary])
  BY <1>1, Types, ShardAssumption DEF Streams
<1>3. /\ Len(log[Primary]) \in Nat /\ DOMAIN log[Primary] = 1 .. Len(log[Primary])
      /\ \A i \in DOMAIN log[Primary] : log[Primary][i] \in Version
  BY <1>2, LenProperties
<1> QED BY <1>2, <1>3, VersionsAreNat DEF Elements

(* The reported entries are a prefix of the log. *)
LEMMA ToldIs ==
  ASSUME IInv
  PROVE  /\ Told \in 0 .. Len(log[Primary])
         /\ \A i \in DOMAIN log[Primary] : i <= Told <=> log[Primary][i] \in acked
<1> DEFINE l == log[Primary]
           S == {0} \union {i \in DOMAIN l : l[i] \in acked}
<1>1. /\ l \in Seq(Version) /\ Increasing(l) /\ Len(l) \in Nat /\ DOMAIN l = 1 .. Len(l)
      /\ \A i \in DOMAIN l : l[i] \in Elements(l)
  BY LogIs
<1>2. Streams /\ Reported BY DEF IInv
<1>3. ASSUME NEW i \in DOMAIN l, NEW j \in DOMAIN l, i < j, l[j] \in acked, l[i] \notin acked PROVE FALSE
  <2>1. PICK s \in Shard : l[i] \in Carried(Stream(s)) BY <1>1, <1>2, <1>3 DEF Reported
  <2>2. l[i] < l[j] BY <1>1, <1>3 DEF Increasing
  <2>3. l[j] \in Carried(Stream(s)) BY <1>1, <1>2, <2>1, <2>2 DEF Streams
  <2> QED BY <1>2, <1>3, <2>3 DEF Reported
<1>4. S # {} /\ S \in SUBSET (0 .. Len(l)) BY <1>1
<1>5. Told \in S /\ \A k \in S : k <= Told
  <2>1. Told = Maximum(S) BY DEF Told
  <2> HIDE DEF S, l
  <2> QED BY <1>1, <1>4, <2>1, MaximumIs
<1>6. Told \in 0 .. Len(l) BY <1>1, <1>5
<1>7. ASSUME NEW i \in DOMAIN l, i <= Told PROVE l[i] \in acked
  <2>1. Told \in DOMAIN l /\ l[Told] \in acked BY <1>1, <1>5, <1>7
  <2>2. i = Told \/ i < Told BY <1>1, <1>6, <1>7
  <2> QED BY <1>3, <2>1, <2>2
<1>8. \A i \in DOMAIN l : l[i] \in acked => i <= Told BY <1>5
<1> QED BY <1>6, <1>7, <1>8

(* The most that any shard has rolled forward was reported. *)
LEMMA ForwardedIs ==
  ASSUME IInv
  PROVE  /\ Forwarded \in {0} \union acked /\ Forwarded \in {0} \union Version /\ Forwarded \in Nat
         /\ \A s \in Shard : can_rollback_to[s] <= Forwarded
         /\ \E s \in Shard : can_rollback_to[s] = Forwarded
<1> DEFINE S == {can_rollback_to[s] : s \in Shard}
<1>1. TypeOK /\ DOMAIN written = Version /\ Forward BY DEF IInv
<1>2. /\ can_rollback_to \in [Shard -> {0} \union Version] /\ Primary \in Shard
      /\ \A s \in Shard : can_rollback_to[s] \in {0} \union acked
  BY <1>1, Types, ShardAssumption DEF Forward
<1>3. S # {} /\ S \in SUBSET (0 .. MaxVersion) /\ MaxVersion \in Nat BY <1>2, VersionIsNat
<1>4. Forwarded \in S /\ \A k \in S : k <= Forwarded
  <2>1. Forwarded = Maximum(S) BY DEF Forwarded
  <2> HIDE DEF S
  <2> QED BY <1>3, <2>1, MaximumIs
<1>5. PICK s \in Shard : can_rollback_to[s] = Forwarded BY <1>4
<1>6. Forwarded \in {0} \union Version BY <1>2, <1>5
<1> QED BY <1>2, <1>4, <1>5, <1>6, VersionsAreNat

(* The entries that are rolled forward are a prefix of the reported ones. *)
LEMMA KeptIs ==
  ASSUME IInv
  PROVE  /\ Kept \in 0 .. Told
         /\ \A i \in DOMAIN log[Primary] : i <= Kept <=> log[Primary][i] <= Forwarded
<1> DEFINE l == log[Primary]
<1>1. /\ l \in Seq(Version) /\ Increasing(l) /\ Len(l) \in Nat /\ DOMAIN l = 1 .. Len(l)
      /\ \A i \in DOMAIN l : l[i] \in Nat /\ l[i] \in Version
  BY LogIs
<1>2. /\ Forwarded \in {0} \union acked /\ Forwarded \in {0} \union Version /\ Forwarded \in Nat
  BY ForwardedIs
<1>3. /\ Kept \in 0 .. Len(l)
      /\ \A i \in DOMAIN l : l[i] <= Forwarded => i <= Kept
      /\ Kept # 0 => l[Kept] <= Forwarded
  <2> HIDE DEF l
  <2> QED BY <1>1, <1>2, UpToIs DEF Kept, l
<1>4. ASSUME NEW i \in DOMAIN l, i <= Kept PROVE l[i] <= Forwarded
  <2>1. Kept \in DOMAIN l /\ Kept # 0 /\ (i = Kept \/ i < Kept) BY <1>1, <1>3, <1>4
  <2>2. l[i] = l[Kept] \/ l[i] < l[Kept] BY <1>1, <1>4, <2>1 DEF Increasing
  <2> QED BY <1>1, <1>2, <1>3, <2>1, <2>2
<1>5. Kept <= Told
  <2>1. Told \in 0 .. Len(l) /\ \A i \in DOMAIN l : i <= Told <=> l[i] \in acked BY ToldIs
  <2>2. CASE Kept = 0 BY <2>1, <2>2
  <2>3. CASE Kept # 0
    <3>1. Kept \in DOMAIN l /\ l[Kept] <= Forwarded /\ l[Kept] # 0
      BY <1>1, <1>3, <2>3, VersionsAreNat
    <3>2. Forwarded \in acked BY <1>1, <1>2, <3>1
    <3>3. PICK j \in DOMAIN l : l[j] = Forwarded BY <3>2 DEF IInv, Reported, Elements
    <3>4. Kept <= j
      <4>1. j < Kept => l[j] < l[Kept] BY <1>1, <3>1, <3>3 DEF Increasing
      <4> QED BY <1>1, <1>2, <1>3, <3>1, <3>3, <4>1
    <3>5. j <= Told BY <2>1, <3>2, <3>3
    <3> QED BY <1>1, <1>3, <2>1, <3>4, <3>5
  <2> QED BY <2>2, <2>3
<1>6. Told \in 0 .. Len(l) BY ToldIs
<1> QED BY <1>1, <1>3, <1>4, <1>5, <1>6

(* There is one place where a sequence of n can be cut so that what A says of its
   positions holds before and not after. *)
LEMMA OneCut ==
  ASSUME NEW n \in Nat, NEW a \in 0 .. n, NEW b \in 0 .. n, NEW A,
         \A i \in 1 .. n : i <= a <=> i \in A, \A i \in 1 .. n : i <= b <=> i \in A
  PROVE  a = b
OBVIOUS

(* What the abstract log holds of a stripe is what was sent last. *)
LEMMA ContentsIs ==
  ASSUME IInv, NEW x
  PROVE  Abstract!ContentsAfter(Hist, x) = Sent(x)
<1> DEFINE l == log[Primary]
           P == {i \in DOMAIN l : x \in DOMAIN written[l[i]]}
           W == {u \in Elements(l) : x \in DOMAIN written[u]}
<1>1. /\ Increasing(l) /\ Len(l) \in Nat /\ DOMAIN l = 1 .. Len(l)
      /\ \A i \in DOMAIN l : l[i] \in Nat /\ l[i] \in Version /\ l[i] \in Elements(l)
  BY LogIs
<1>2. DOMAIN Hist = DOMAIN l /\ \A i \in DOMAIN l : Hist[i].update = written[l[i]] BY DEF Hist
<1>3. {i \in DOMAIN Hist : x \in DOMAIN Hist[i].update} = P BY <1>2
<1>4. Abstract!ContentsAfter(Hist, x) = IF P = {} THEN NoContents ELSE Hist[Maximum(P)].update[x]
  <2> DEFINE Q == {i \in DOMAIN Hist : x \in DOMAIN Hist[i].update}
  <2>1. Abstract!ContentsAfter(Hist, x) = IF Q = {} THEN NoContents ELSE Hist[Maximum(Q)].update[x]
    BY Zenon DEF Abstract!ContentsAfter, Maximum
  <2> HIDE DEF P
  <2> QED BY <1>3, <2>1, Zenon
<1>5. Sent(x) = IF W = {} THEN NoContents ELSE written[Maximum(W)][x] BY DEF Sent, Stored
<1>6. P = {} <=> W = {} BY <1>1 DEF Elements
<1>7. ASSUME P # {} PROVE Maximum(P) \in DOMAIN l /\ Maximum(W) = l[Maximum(P)]
  <2> DEFINE p == Maximum(P)
             w == Maximum(W)
  <2>1. p \in P /\ \A k \in P : k <= p
    <3>1. P \in SUBSET (0 .. Len(l)) BY <1>1
    <3> HIDE DEF P, l
    <3> QED BY <1>1, <1>7, <3>1, MaximumIs
  <2>2. w \in W /\ \A k \in W : k <= w
    <3>1. W \in SUBSET (0 .. MaxVersion) /\ MaxVersion \in Nat BY <1>1, VersionIsNat DEF Elements
    <3>2. W # {} BY <1>6, <1>7
    <3> HIDE DEF W
    <3> QED BY <3>1, <3>2, MaximumIs
  <2> HIDE DEF p, w
  <2>3. p \in DOMAIN l /\ l[p] \in W BY <1>1, <2>1
  <2>4. PICK j \in DOMAIN l : w = l[j] /\ j \in P BY <2>2 DEF Elements
  <2>5. j <= p /\ l[p] <= l[j] BY <2>1, <2>2, <2>3, <2>4
  <2>6. j < p => l[j] < l[p] BY <1>1, <2>3, <2>4 DEF Increasing
  <2>7. j = p BY <1>1, <2>3, <2>4, <2>5, <2>6
  <2> QED BY <2>3, <2>4, <2>7 DEF p, w
<1> HIDE DEF P, W, l
<1> QED BY <1>2, <1>4, <1>5, <1>6, <1>7

(* The entries of the abstract log. *)
LEMMA HistIs ==
  ASSUME IInv
  PROVE  /\ Hist \in Seq([v : Version, update : WrittenType]) /\ Len(Hist) = Len(log[Primary])
         /\ DOMAIN Hist = DOMAIN log[Primary]
         /\ \A i \in DOMAIN Hist : /\ Hist[i].v = log[Primary][i]
                                   /\ Hist[i].update = written[log[Primary][i]]
<1>1. TypeOK /\ DOMAIN written = Version BY DEF IInv
<1>2. \A v \in Version : written[v] \in WrittenType BY <1>1, Types
<1>3. /\ Len(log[Primary]) \in Nat /\ DOMAIN log[Primary] = 1 .. Len(log[Primary])
      /\ \A i \in DOMAIN log[Primary] : log[Primary][i] \in Version
  BY LogIs
<1>4. \A i \in 1 .. Len(log[Primary]) :
        [v |-> log[Primary][i], update |-> written[log[Primary][i]]] \in [v : Version, update : WrittenType]
  BY <1>2, <1>3
<1>5. Hist = [i \in 1 .. Len(log[Primary]) |->
                [v |-> log[Primary][i], update |-> written[log[Primary][i]]]]
  BY <1>3 DEF Hist
<1>6. Hist \in Seq([v : Version, update : WrittenType]) /\ Len(Hist) = Len(log[Primary])
  BY <1>3, <1>4, <1>5, IsASeq
<1> QED BY <1>3, <1>5, <1>6

(* The mapping, of a state in which the invariant holds. *)
Mapped ==
  LET l == log[Primary]
  IN  /\ l \in Seq(Version) /\ Increasing(l)
      /\ Len(l) \in Nat /\ DOMAIN l = 1 .. Len(l)
      /\ \A i \in DOMAIN l : l[i] \in Version /\ l[i] \in Nat /\ l[i] \in Elements(l)
      /\ Told \in 0 .. Len(l) /\ \A i \in DOMAIN l : i <= Told <=> l[i] \in acked
      /\ Forwarded \in {0} \union acked /\ Forwarded \in Nat
      /\ \A s \in Shard : can_rollback_to[s] <= Forwarded /\ can_rollback_to[s] \in Nat
      /\ \E s \in Shard : can_rollback_to[s] = Forwarded
      /\ Kept \in 0 .. Told /\ \A i \in DOMAIN l : i <= Kept <=> l[i] <= Forwarded
      /\ Hist \in Seq([v : Version, update : WrittenType]) /\ Len(Hist) = Len(l)
      /\ DOMAIN Hist = DOMAIN l
      /\ \A i \in DOMAIN Hist : Hist[i].v = l[i] /\ Hist[i].update = written[l[i]]

(* The facts about the mapping, together. *)
LEMMA MappedIs == IInv => Mapped
<1> SUFFICES ASSUME IInv PROVE Mapped OBVIOUS
<1>1. \A s \in Shard : can_rollback_to[s] \in Nat
  <2>1. \A s \in Shard : can_rollback_to[s] \in {0} \union Version BY Types DEF IInv
  <2> QED BY <2>1, VersionsAreNat
<1> QED BY <1>1, LogIs, ToldIs, ForwardedIs, KeptIs, HistIs DEF Mapped

(* What is reported and rolled forward of a log that has not changed. *)
LEMMA KeepStep ==
  ASSUME IInv, IInv', log'[Primary] = log[Primary], acked' = acked,
         \A u \in Elements(log[Primary]) : written'[u] = written[u],
         \A s \in Shard : can_rollback_to[s] <= can_rollback_to'[s]
  PROVE  Abstract!Next
<1> DEFINE l == log[Primary]
<1>0. Mapped /\ Mapped' BY MappedIs, PTL
<1>1. /\ Len(l) \in Nat /\ DOMAIN l = 1 .. Len(l)
      /\ \A i \in DOMAIN l : l[i] \in Elements(l) /\ l[i] \in Nat
  BY <1>0 DEF Mapped
<1>2. Hist' = Hist BY <1>1 DEF Hist
<1>3. Told' = Told BY DEF Told
<1>4. /\ Forwarded \in Nat /\ Forwarded' \in Nat /\ Forwarded <= Forwarded'
  <2>1. PICK s \in Shard : can_rollback_to[s] = Forwarded BY <1>0 DEF Mapped
  <2>2. /\ can_rollback_to'[s] <= Forwarded' /\ Forwarded' \in Nat
        /\ can_rollback_to[s] \in Nat /\ can_rollback_to'[s] \in Nat
    BY <1>0 DEF Mapped
  <2> QED BY <2>1, <2>2
<1>5. Kept \in 0 .. Told /\ \A i \in DOMAIN l : i <= Kept <=> l[i] <= Forwarded BY <1>0 DEF Mapped
<1>6. Kept' \in 0 .. Told' /\ \A i \in DOMAIN l : i <= Kept' <=> l[i] <= Forwarded'
  BY <1>0 DEF Mapped
<1>7. Told \in 0 .. Len(l) BY <1>0 DEF Mapped
<1>8. Kept <= Kept'
  <2>1. CASE Kept = 0 BY <1>3, <1>6, <1>7, <2>1
  <2>2. CASE Kept # 0
    <3>1. Kept \in DOMAIN l BY <1>1, <1>5, <1>7, <2>2
    <3>2. l[Kept] <= Forwarded' BY <1>1, <1>4, <1>5, <1>7, <3>1
    <3> QED BY <1>6, <3>1, <3>2
  <2> QED BY <2>1, <2>2
<1>9. Kept' \in Kept .. Told BY <1>3, <1>5, <1>6, <1>7, <1>8
<1> QED BY <1>2, <1>3, <1>9 DEF Abstract!Next, Abstract!Keep, Hist, Told, Kept, Forwarded

(* A newer entry at the end of the log, with what it wrote. *)
LEMMA WriteStep ==
  ASSUME IInv, IInv', NEW v \in Version, log'[Primary] = Append(log[Primary], v), acked' = acked,
         \A u \in Elements(log[Primary]) : written'[u] = written[u],
         \A s \in Shard : can_rollback_to[s] <= can_rollback_to'[s],
         NEW w \in SUBSET Stripe, NEW r \in SUBSET w,
         written'[v] = Abstract!Update(Hist, v, w, r)
  PROVE  Abstract!Next
<1> DEFINE l == log[Primary]
           n == log'[Primary]
           e == [v |-> v, update |-> written'[v]]
<1>0. Mapped /\ Mapped' BY MappedIs, PTL
<1>1. /\ l \in Seq(Version) /\ Len(l) \in Nat /\ DOMAIN l = 1 .. Len(l)
      /\ \A i \in DOMAIN l : l[i] \in Elements(l) /\ l[i] \in Nat
      /\ Increasing(n) /\ \A i \in DOMAIN n : n[i] \in Nat
  BY <1>0 DEF Mapped
<1>2. /\ DOMAIN n = 1 .. Len(l) + 1 /\ Len(n) = Len(l) + 1
      /\ \A i \in DOMAIN l : n[i] = l[i]
      /\ n[Len(l) + 1] = v
  BY <1>1, SplitLast
<1>3. /\ Told \in 0 .. Len(l) /\ \A i \in DOMAIN l : i <= Told <=> l[i] \in acked
      /\ Kept \in 0 .. Told /\ \A i \in DOMAIN l : i <= Kept <=> l[i] <= Forwarded
      /\ Hist \in Seq([v : Version, update : WrittenType]) /\ Len(Hist) = Len(l)
      /\ DOMAIN Hist = DOMAIN l
      /\ \A i \in DOMAIN Hist : Hist[i].v = l[i] /\ Hist[i].update = written[l[i]]
  BY <1>0 DEF Mapped
<1>4. /\ Told' \in 0 .. Len(n) /\ \A i \in DOMAIN n : i <= Told' <=> n[i] \in acked
      /\ Kept' \in 0 .. Told' /\ \A i \in DOMAIN n : i <= Kept' <=> n[i] <= Forwarded'
  BY <1>0 DEF Mapped
<1>5. /\ Forwarded \in Nat /\ Forwarded' \in Nat /\ Forwarded <= Forwarded'
  <2>1. PICK s \in Shard : can_rollback_to[s] = Forwarded BY <1>0 DEF Mapped
  <2>2. /\ can_rollback_to'[s] <= Forwarded' /\ Forwarded' \in Nat
        /\ can_rollback_to[s] \in Nat /\ can_rollback_to'[s] \in Nat
    BY <1>0 DEF Mapped
  <2> QED BY <2>1, <2>2
<1>6. /\ \A i \in DOMAIN Hist' : Hist'[i] = [v |-> n[i], update |-> written'[n[i]]]
      /\ DOMAIN Hist' = DOMAIN n
  BY DEF Hist
<1>7. \A i \in DOMAIN l : Hist[i] = [v |-> l[i], update |-> written[l[i]]] BY DEF Hist
<1>8. /\ Hist' \in Seq([v : Version, update : WrittenType]) /\ Len(Hist') = Len(n)
  BY <1>0 DEF Mapped
<1> HIDE DEF l, n
<1>9. \A i \in DOMAIN l : l[i] < v
  <2> SUFFICES ASSUME NEW i \in DOMAIN l PROVE l[i] < v OBVIOUS
  <2>1. i \in DOMAIN n /\ Len(l) + 1 \in DOMAIN n /\ i < Len(l) + 1 BY <1>1, <1>2
  <2>2. n[i] < n[Len(l) + 1] BY <1>1, <2>1 DEF Increasing
  <2> QED BY <1>2, <2>2
<1>10. v \notin acked
  <2>1. acked \subseteq Elements(l) BY DEF IInv, Reported, l
  <2>2. v \in Nat BY VersionsAreNat
  <2> QED BY <1>9, <2>1, <2>2 DEF Elements
<1>11. Told' = Told
  <2> DEFINE A == {i \in DOMAIN n : n[i] \in acked}
  <2>1. \A i \in 1 .. Len(l) + 1 : i <= Told' <=> i \in A BY <1>2, <1>4
  <2>2. \A i \in 1 .. Len(l) + 1 : i <= Told <=> i \in A
    <3> SUFFICES ASSUME NEW i \in 1 .. Len(l) + 1 PROVE i <= Told <=> i \in A OBVIOUS
    <3>1. CASE i \in DOMAIN l BY <1>2, <1>3, <3>1
    <3>2. CASE i = Len(l) + 1 BY <1>1, <1>2, <1>3, <1>10, <3>2
    <3> QED BY <1>1, <3>1, <3>2
  <2>3. Told \in 0 .. Len(l) + 1 /\ Told' \in 0 .. Len(l) + 1 /\ Len(l) + 1 \in Nat BY <1>1, <1>2, <1>3, <1>4
  <2> HIDE DEF A
  <2> QED BY <2>1, <2>2, <2>3, OneCut
<1>12. Kept' \in Kept .. Told
  <2>1. CASE Kept = 0 BY <1>3, <1>4, <1>11, <2>1
  <2>2. CASE Kept # 0
    <3>1. Kept \in DOMAIN l /\ Kept \in DOMAIN n BY <1>1, <1>2, <1>3, <2>2
    <3>2. n[Kept] <= Forwarded' BY <1>1, <1>2, <1>3, <1>5, <3>1
    <3>3. Kept <= Kept' BY <1>4, <3>1, <3>2
    <3> QED BY <1>3, <1>4, <1>11, <3>3
  <2> QED BY <2>1, <2>2
<1>13. Hist' = Append(Hist, e)
  <2> DEFINE h == Append(Hist, e)
             R == [v : Version, update : WrittenType]
  <2>1. e \in R
    <3>1. written'[v] \in WrittenType BY DEF IInv, TypeOK, WrittenType
    <3> QED BY <3>1
  <2>2. /\ h \in Seq(R) /\ DOMAIN h = 1 .. Len(l) + 1 /\ Len(h) = Len(l) + 1
        /\ \A i \in DOMAIN l : h[i] = Hist[i]
        /\ h[Len(l) + 1] = e
    <3> HIDE DEF e, R
    <3> QED BY <1>3, <2>1, SplitLast DEF R
  <2>3. ASSUME NEW i \in 1 .. Len(l) + 1 PROVE Hist'[i] = h[i]
    <3>1. CASE i \in DOMAIN l
      <4>1. n[i] = l[i] /\ written'[l[i]] = written[l[i]] /\ i \in DOMAIN n
        BY <1>1, <1>2, <3>1 DEF l
      <4> QED BY <1>6, <1>7, <2>2, <3>1, <4>1
    <3>2. CASE i = Len(l) + 1
      <4>1. i \in DOMAIN n /\ n[i] = v BY <1>1, <1>2, <3>2
      <4>2. Hist'[i] = e BY <1>6, <4>1
      <4>3. h[i] = e
        <5> HIDE DEF h, e
        <5> QED BY <2>2, <3>2
      <4> QED BY <4>2, <4>3
    <3> HIDE DEF h, e
    <3> QED BY <1>1, <3>1, <3>2
  <2> HIDE DEF h, R
  <2>4. Len(Hist') = Len(l) + 1 /\ Hist' \in Seq(R) BY <1>2, <1>8 DEF R
  <2>5. Hist' = h BY <2>2, <2>3, <2>4, SeqEqual
  <2> QED BY <2>5 DEF h
<1>14. \A i \in DOMAIN Hist : Hist[i].v < v BY <1>3, <1>9
<1>15. /\ \A i \in DOMAIN Hist : Hist[i].v < v
       /\ Hist' = Append(Hist, [v |-> v, update |-> Abstract!Update(Hist, v, w, r)])
       /\ Kept' \in Kept .. Told /\ Told' = Told
  BY <1>11, <1>12, <1>13, <1>14
<1>16. PICK c \in Kept .. Told : c = Kept' BY <1>12
<1>17. Abstract!Write(v, w, r, c)
  BY <1>15, <1>16 DEF Abstract!Write, Hist, Told, Kept, Forwarded
<1>18. \E a \in Version, b \in SUBSET Stripe, k \in Kept .. Told :
         \E d \in SUBSET b : Abstract!Write(a, b, d, k)
  <2>1. \E d \in SUBSET w : Abstract!Write(v, w, d, c) BY <1>17, Zenon
  <2> QED BY <2>1, Zenon
<1> QED BY <1>18, Zenon DEF Abstract!Next, Told, Kept, Forwarded

(* An entry is reported. *)
LEMMA TellStep ==
  ASSUME IInv, IInv', log'[Primary] = log[Primary], written' = written,
         can_rollback_to' = can_rollback_to, NEW v, acked' \subseteq acked \union {v},
         acked \subseteq acked'
  PROVE  Abstract!Next
<1> DEFINE l == log[Primary]
<1>0. Mapped /\ Mapped' BY MappedIs, PTL
<1>1. Hist' = Hist /\ Kept' = Kept BY DEF Hist, Kept, Forwarded
<1>2. /\ Len(l) \in Nat /\ DOMAIN l = 1 .. Len(l) /\ Increasing(l)
      /\ \A i \in DOMAIN l : l[i] \in Nat
      /\ Told \in 0 .. Len(l) /\ \A i \in DOMAIN l : i <= Told <=> l[i] \in acked
      /\ Len(Hist) = Len(l)
  BY <1>0 DEF Mapped
<1>3. /\ Told' \in 0 .. Len(l) /\ \A i \in DOMAIN l : i <= Told' <=> l[i] \in acked'
  BY <1>0 DEF Mapped
<1>4. CASE Told' = Told
  <2>1. Kept \in 0 .. Told BY <1>0 DEF Mapped
  <2>2. Kept \in Kept .. Told BY <1>2, <2>1
  <2> QED BY <1>1, <1>4, <2>2 DEF Abstract!Next, Abstract!Keep, Hist, Told, Kept, Forwarded
<1>5. CASE Told' # Told
  <2> HIDE DEF l
  <2>1. Told <= Told'
    <3>1. Told # 0 => Told \in DOMAIN l /\ l[Told] \in acked' BY <1>2
    <3> QED BY <1>2, <1>3, <3>1
  <2>2. Told' <= Told + 1
    <3> SUFFICES ASSUME Told + 2 <= Told' PROVE FALSE BY <1>2, <1>3
    <3>1. /\ Told + 1 \in DOMAIN l /\ Told + 2 \in DOMAIN l BY <1>2, <1>3
    <3>2. l[Told + 1] \in acked' /\ l[Told + 2] \in acked' BY <1>2, <1>3, <3>1
    <3>3. l[Told + 1] \notin acked /\ l[Told + 2] \notin acked BY <1>2, <3>1
    <3>4. l[Told + 1] = l[Told + 2] BY <3>2, <3>3
    <3>5. l[Told + 1] < l[Told + 2] BY <1>2, <3>1 DEF Increasing
    <3> QED BY <1>2, <3>1, <3>4, <3>5
  <2>3. Told' = Told + 1 /\ Told < Len(Hist) BY <1>2, <1>3, <1>5, <2>1, <2>2
  <2>4. Abstract!Tell BY <1>1, <2>3 DEF Abstract!Tell, Hist, Told, Kept, Forwarded
  <2> QED BY <2>4 DEF Abstract!Next
<1> QED BY <1>4, <1>5

(* The log is cut behind all that was reported, and what is left is kept. *)
LEMMA IntervalStep ==
  ASSUME IInv, IInv', OnChange
  PROVE  Abstract!Next
<1> DEFINE l == log[Primary]
           n == log'[Primary]
           c == LastUpTo(l, NewHead)
<1>0. Mapped /\ Mapped' BY MappedIs, PTL
<1>1. /\ log' = [s \in Shard |-> UpTo(log[s], NewHead)]
      /\ can_rollback_to' = [s \in Shard |-> NewHead]
      /\ acked' = acked \union {v \in Elements(l) : v <= NewHead}
      /\ written' = written
  BY DEF OnChange, NewHead
<1>2. TypeOK /\ DOMAIN written = Version /\ Streams /\ Reported BY DEF IInv
<1>3. NewHead \in {0} \union Version /\ NewHead \in Nat
  <2>1. NewHead \in {0} \union Version BY <1>2, NewHeadIs
  <2> QED BY <2>1, VersionsAreNat
<1>4. /\ l \in Seq(Version) /\ Len(l) \in Nat /\ DOMAIN l = 1 .. Len(l)
      /\ \A i \in DOMAIN l : l[i] \in Elements(l) /\ l[i] \in Nat
      /\ Told \in 0 .. Len(l) /\ \A i \in DOMAIN l : i <= Told <=> l[i] \in acked
      /\ Hist \in Seq([v : Version, update : WrittenType]) /\ Len(Hist) = Len(l)
      /\ DOMAIN Hist = DOMAIN l
  BY <1>0 DEF Mapped
<1>5. n = UpTo(l, NewHead) BY <1>1, ShardAssumption
<1>6. /\ c \in 0 .. Len(l) /\ Len(n) = c /\ DOMAIN n = 1 .. c
      /\ \A i \in 1 .. c : n[i] = l[i]
      /\ \A i \in DOMAIN l : l[i] <= NewHead => i <= c
  <2> HIDE DEF l, n, c
  <2> QED BY <1>3, <1>4, <1>5, UpToIs DEF c
<1>7. /\ Told' \in 0 .. c /\ \A i \in 1 .. c : i <= Told' <=> n[i] \in acked'
      /\ Kept' \in 0 .. Told' /\ \A i \in 1 .. c : i <= Kept' <=> n[i] <= Forwarded'
      /\ Hist' \in Seq([v : Version, update : WrittenType]) /\ Len(Hist') = c
      /\ \A i \in 1 .. c : n[i] \in Elements(n)
      /\ \E s \in Shard : can_rollback_to'[s] = Forwarded'
  <2>1. /\ Told' \in 0 .. Len(n) /\ \A i \in DOMAIN n : i <= Told' <=> n[i] \in acked'
        /\ Kept' \in 0 .. Told' /\ \A i \in DOMAIN n : i <= Kept' <=> n[i] <= Forwarded'
        /\ Hist' \in Seq([v : Version, update : WrittenType]) /\ Len(Hist') = Len(n)
        /\ \A i \in DOMAIN n : n[i] \in Elements(n)
        /\ \E s \in Shard : can_rollback_to'[s] = Forwarded'
    BY <1>0 DEF Mapped
  <2> HIDE DEF n, c
  <2> QED BY <1>6, <2>1
<1>8. Elements(n) = {u \in Elements(l) : u <= NewHead} /\ \A u \in acked : u <= NewHead
  BY <1>2, StreamsChange
<1>9. Hist' = [i \in DOMAIN n |-> [v |-> n[i], update |-> written[n[i]]]] BY <1>1 DEF Hist
<1>10. \A i \in DOMAIN l : Hist[i] = [v |-> l[i], update |-> written[l[i]]] BY DEF Hist
<1> HIDE DEF l, n, c
<1>11. Told' = c
  <2>1. \A i \in 1 .. c : n[i] \in acked' BY <1>1, <1>7, <1>8 DEF l
  <2>2. c # 0 => c <= Told' BY <1>6, <1>7, <2>1
  <2> QED BY <1>6, <1>7, <2>2
<1>12. Kept' = c
  <2>1. Forwarded' = NewHead BY <1>1, <1>7
  <2>2. \A i \in 1 .. c : n[i] <= Forwarded' BY <1>7, <1>8, <2>1
  <2>3. c # 0 => c <= Kept' BY <1>6, <1>7, <2>2
  <2> QED BY <1>6, <1>7, <1>11, <2>3
<1>13. Told <= c
  <2>1. Told # 0 => Told \in DOMAIN l /\ l[Told] \in acked BY <1>4
  <2> QED BY <1>4, <1>6, <1>8, <2>1
<1>14. Hist' = SubSeq(Hist, 1, c)
  <2> DEFINE h == SubSeq(Hist, 1, c)
             R == [v : Version, update : WrittenType]
  <2>1. \A i \in 1 .. c : Hist[i] \in R
    <3>1. Hist \in Seq(R) /\ Len(Hist) = Len(l) BY <1>4
    <3> HIDE DEF R
    <3> QED BY <1>4, <1>6, <3>1, ElementOfSeq
  <2>2. h \in Seq(R) /\ Len(h) = c /\ \A i \in 1 .. c : h[i] = Hist[i]
    <3> HIDE DEF R
    <3> QED BY <1>4, <1>6, <2>1, SubSeqProperties
  <2>3. ASSUME NEW i \in 1 .. c PROVE Hist'[i] = h[i]
    <3>1. i \in DOMAIN n /\ i \in DOMAIN l /\ n[i] = l[i] BY <1>4, <1>6
    <3>2. Hist'[i] = [v |-> l[i], update |-> written[l[i]]] BY <1>9, <3>1
    <3> HIDE DEF h
    <3> QED BY <1>10, <2>2, <3>1, <3>2
  <2> HIDE DEF h, R
  <2>4. Hist' \in Seq(R) /\ Len(Hist') = c BY <1>7 DEF R
  <2>5. Hist' = h BY <2>2, <2>3, <2>4, SeqEqual
  <2> QED BY <2>5 DEF h
<1>15. PICK k \in Told .. Len(Hist) : k = c BY <1>4, <1>6, <1>13
<1>16. Abstract!Interval(k)
  BY <1>11, <1>12, <1>14, <1>15 DEF Abstract!Interval, Hist, Told, Kept, Forwarded
<1>17. \E j \in Told .. Len(Hist) : Abstract!Interval(j) BY <1>16, Zenon
<1> QED BY <1>17, Zenon DEF Abstract!Next, Told, Hist

(* An entry that bypasses the pipeline writes nothing. *)
LEMMA UpdateLogsStep ==
  ASSUME IInv, IInv', NEW v \in Version, UpdateLogs(v), written' = written, acked' = acked,
         DOMAIN written[v] = {}
  PROVE  Abstract!Next
<1> DEFINE m == UpdateLogMissing(v)
<1>0. TypeOK /\ DOMAIN written = Version BY DEF IInv
<1>1. /\ log \in [Shard -> Seq(Version)] /\ can_rollback_to \in [Shard -> {0} \union Version]
      /\ written[v] \in WrittenType /\ Primary \in Shard
  BY <1>0, Types, ShardAssumption
<1>2. /\ log' = [log EXCEPT ![Primary] = @ \o Entries(m)]
      /\ can_rollback_to' = [can_rollback_to EXCEPT ![Primary] = Maximum({@, m.roll_forward_to})]
  BY DEF UpdateLogs, SendToAll, Handled
<1>3. m.version = v /\ m.roll_forward_to = 0 /\ v # 0 /\ Entries(m) = <<v>>
  BY VersionsAreNat DEF UpdateLogMissing, Entries
<1> HIDE DEF m
<1>4. log'[Primary] = Append(log[Primary], v)
  <2>1. log'[Primary] = log[Primary] \o <<v>> BY <1>1, <1>2, <1>3
  <2>2. log[Primary] \in Seq(Version) BY <1>1
  <2> QED BY <2>1, <2>2, AppendIsConcat
<1>5. \A s \in Shard : can_rollback_to[s] <= can_rollback_to'[s]
  <2> DEFINE a == can_rollback_to[Primary]
  <2>1. a \in {0} \union Version /\ a \in Nat BY <1>1, VersionsAreNat
  <2>2. Maximum({a, 0}) = IF a < 0 THEN 0 ELSE a
    <3> HIDE DEF a
    <3>1. 0 \in {0} \union Version OBVIOUS
    <3> QED BY <2>1, <3>1, LargerOfTwo
  <2>3. can_rollback_to'[Primary] = a BY <1>1, <1>2, <1>3, <2>1, <2>2
  <2>4. \A s \in Shard : can_rollback_to[s] \in Nat BY <1>1, VersionsAreNat
  <2> QED BY <1>1, <1>2, <2>1, <2>3, <2>4
<1>6. written'[v] = Abstract!Update(Hist, v, {}, {})
  <2>1. PICK w \in SUBSET Stripe : written[v] \in [w -> Contents] BY <1>1 DEF WrittenType
  <2>2. w = {} BY <2>1
  <2> QED BY <2>1, <2>2 DEF Abstract!Update
<1>7. {} \in SUBSET Stripe /\ {} \in SUBSET {} OBVIOUS
<1> QED BY <1>4, <1>5, <1>6, <1>7, WriteStep

(* try_reads_to_commit(): the write is computed from what the writes before it left,
   the dummy only tells the shards what to roll forward. *)
LEMMA ReadsToCommitStep ==
  ASSUME IInv, IInv', RInv, TryReadsToCommit
  PROVE  Abstract!Next
<1> DEFINE op == Head(waiting_reads)
           v == op.version
           m == SubWrite(op)
           w == op.plan.will_write
           r == op.plan.to_read
<1>0. TypeOK /\ DOMAIN written = Version /\ PlansKept BY DEF IInv
<1>1. /\ log \in [Shard -> Seq(Version)] /\ can_rollback_to \in [Shard -> {0} \union Version]
      /\ Primary \in Shard
  BY <1>0, Types, ShardAssumption
<1>2. /\ op \in Op /\ waiting_reads # <<>> /\ v \in {0} \union Version /\ v \in Nat
      /\ 1 \in DOMAIN waiting_reads /\ waiting_reads[1] = op
      /\ v # 0 => \A u \in Elements(log[Primary]) : u < v
  BY ReadsToCommitIs
<1>3. /\ ReadsCanMove
      /\ log' = [log EXCEPT ![Primary] = @ \o Entries(m)]
      /\ can_rollback_to' = [can_rollback_to EXCEPT ![Primary] = Maximum({@, m.roll_forward_to})]
      /\ written' = IF v = 0 THEN written ELSE [written EXCEPT ![v] = Generate(op)]
      /\ acked' = acked
  BY DEF TryReadsToCommit, SendToAll, Handled
<1>4. m.version = v /\ m.roll_forward_to = op.roll_forward_to BY DEF SubWrite
<1>5. Entries(m) = IF v = 0 THEN <<>> ELSE <<v>> BY <1>4 DEF Entries
<1>6. op.roll_forward_to \in {0} \union Version /\ w \in SUBSET Stripe
  <2> HIDE DEF op
  <2> QED BY <1>2, OpFields
<1>7. r \in SUBSET w BY <1>0, <1>2, ReadsWhatItWrites DEF PlansKept
<1>8. \A x \in w : Generate(op)[x] = {v} \union (IF x \in r THEN Sent(x) ELSE {})
  BY <1>2, <1>3, GeneratesRight
<1>9. DOMAIN Generate(op) = w /\ Generate(op) = [x \in w |-> Generate(op)[x]] BY DEF Generate
<1> HIDE DEF op, v, m, w, r
<1>10. \A s \in Shard : can_rollback_to[s] <= can_rollback_to'[s]
  <2> DEFINE a == can_rollback_to[Primary]
             b == m.roll_forward_to
  <2>1. a \in {0} \union Version /\ b \in {0} \union Version /\ a \in Nat /\ b \in Nat
    BY <1>1, <1>4, <1>6, VersionsAreNat
  <2>2. Maximum({a, b}) = IF a < b THEN b ELSE a
    <3> HIDE DEF a, b
    <3> QED BY <2>1, LargerOfTwo
  <2>3. can_rollback_to'[Primary] = Maximum({a, b}) BY <1>1, <1>3
  <2>4. \A s \in Shard : can_rollback_to[s] \in Nat BY <1>1, VersionsAreNat
  <2>5. a <= can_rollback_to'[Primary]
    <3> HIDE DEF a, b
    <3> QED BY <2>1, <2>2, <2>3
  <2> QED BY <1>1, <1>3, <2>4, <2>5
<1>11. CASE v = 0
  <2>1. log'[Primary] = log[Primary]
    <3>1. log'[Primary] = log[Primary] \o <<>> BY <1>1, <1>3, <1>5, <1>11
    <3>2. log[Primary] \in Seq(Version) BY <1>1
    <3> QED BY <3>1, <3>2, ConcatEmptySeq
  <2>2. written' = written BY <1>3, <1>11
  <2> QED BY <1>3, <1>10, <2>1, <2>2, KeepStep
<1>12. CASE v # 0
  <2>1. v \in Version BY <1>2, <1>12
  <2>2. log'[Primary] = Append(log[Primary], v)
    <3>1. log'[Primary] = log[Primary] \o <<v>> BY <1>1, <1>3, <1>5, <1>12
    <3>2. log[Primary] \in Seq(Version) BY <1>1
    <3> QED BY <2>1, <3>1, <3>2, AppendIsConcat
  <2>3. \A u \in Elements(log[Primary]) : written'[u] = written[u]
    <3>1. \A u \in Elements(log[Primary]) : u < v /\ u \in Nat BY <1>0, <1>2, <1>12, QueuesAreNat
    <3>2. \A u \in Elements(log[Primary]) : u # v BY <1>2, <3>1
    <3> QED BY <1>0, <1>3, <3>2
  <2>4. written'[v] = Abstract!Update(Hist, v, w, r)
    <3>1. written'[v] = Generate(op) BY <1>0, <1>3, <1>12, <2>1
    <3>2. \A x \in w : Abstract!ContentsAfter(Hist, x) = Sent(x) BY ContentsIs
    <3>3. Abstract!Update(Hist, v, w, r) =
            [x \in w |-> {v} \union IF x \in r THEN Abstract!ContentsAfter(Hist, x) ELSE {}]
      BY DEF Abstract!Update
    <3>4. \A x \in w : Generate(op)[x] = {v} \union IF x \in r THEN Abstract!ContentsAfter(Hist, x) ELSE {}
      BY <1>8, <3>2
    <3> QED BY <1>9, <3>1, <3>3, <3>4
  <2> QED BY <1>3, <1>6, <1>7, <1>10, <2>1, <2>2, <2>3, <2>4, WriteStep
<1> QED BY <1>11, <1>12

(* Every step of the pipeline is a step of the abstract log. *)
LEMMA StepsOfTheLog ==
  ASSUME IInv, IInv', RInv, [Next]_vars
  PROVE  Abstract!Next
<1>0. TypeOK /\ DOMAIN written = Version /\ Streams /\ WrittenRight BY DEF IInv, RInv
<1>1. /\ can_rollback_to \in [Shard -> {0} \union Version] /\ Primary \in Shard
      /\ \A s \in Shard : can_rollback_to[s] \in Nat
  <2>1. can_rollback_to \in [Shard -> {0} \union Version] BY <1>0, Types
  <2> QED BY <2>1, VersionsAreNat, ShardAssumption
<1>2. ASSUME UNCHANGED <<log, acked, written, can_rollback_to>> PROVE Abstract!Next
  <2>1. \A s \in Shard : can_rollback_to[s] <= can_rollback_to'[s] BY <1>1, <1>2
  <2> QED BY <1>2, <2>1, KeepStep
<1>3. CASE UNCHANGED vars BY <1>2, <1>3 DEF vars
<1>4. CASE \E p \in Plans : SubmitTransaction(p) BY <1>2, <1>4 DEF SubmitTransaction, shards
<1>5. CASE SubmitLogEntries
  <2>1. acked' = acked /\ NextVersion \in Version BY <1>5 DEF SubmitLogEntries
  <2>2. CASE UNCHANGED shards BY <1>2, <2>1, <2>2 DEF shards
  <2>3. CASE UpdateLogs(NextVersion) /\ written' = written
    <3>1. DOMAIN written[NextVersion] = {}
      <4>1. NextVersion > Len(plan)
        <5>1. Len(plan) \in Nat BY <1>0, QueuesAreNat
        <5> QED BY <5>1 DEF NextVersion
      <4> QED BY <1>0, <2>1, <4>1 DEF WrittenRight
    <3> QED BY <2>1, <2>3, <3>1, UpdateLogsStep
  <2> QED BY <1>5, <2>2, <2>3 DEF SubmitLogEntries
<1>6. CASE TryStateToReads BY <1>2, <1>6 DEF TryStateToReads, shards
<1>7. CASE TryReadsToCommit BY <1>7, ReadsToCommitStep
<1>8. CASE RunOnWrite
  <2> DEFINE last == waiting_commit[Len(waiting_commit)]
             v == Head(last.on_write)
  <2>1. UpdateLogs(v) /\ written' = written /\ acked' = acked /\ OnWriteDue BY <1>8 DEF RunOnWrite
  <2>2. v \in Due /\ v \in Version
    <3>1. waiting_commit \in Seq(Op) /\ waiting_commit # <<>> BY <1>0, <2>1, Types DEF OnWriteDue
    <3>2. Len(waiting_commit) \in DOMAIN waiting_commit /\ last \in Op
      BY <3>1, LenProperties, EmptySeq, ElementOfSeq
    <3>3. last.on_write \in Seq(Version) /\ last.on_write # <<>>
      <4>1. last.on_write # <<>> BY <2>1 DEF OnWriteDue
      <4> HIDE DEF last
      <4> QED BY <3>2, <4>1, OpFields
    <3>4. v \in Elements(last.on_write)
      <4> HIDE DEF last
      <4> QED BY <3>3, ElementsAre
    <3>5. v \in Due BY <3>2, <3>4 DEF Due
    <3> QED BY <1>0, <3>5, QueuesAreNat
  <2>3. DOMAIN written[v] = {} BY <1>0, <2>2 DEF WrittenRight
  <2> HIDE DEF v
  <2> QED BY <2>1, <2>2, <2>3, UpdateLogsStep
<1>9. CASE TryFinishRmw BY <1>2, <1>9 DEF TryFinishRmw, shards
<1>10. CASE \E i \in DOMAIN waiting_reads, s \in Shard : ReadDone(i, s)
  BY <1>2, <1>10 DEF ReadDone, shards
<1>11. ASSUME NEW t \in Shard, HandleMessage(t) PROVE Abstract!Next
  <2> DEFINE m == Head(inbox[t])
  <2>1. /\ inbox[t] # <<>> /\ written' = written /\ acked' = acked
        /\ log' = [log EXCEPT ![t] = @ \o Entries(m)]
        /\ can_rollback_to' = [can_rollback_to EXCEPT ![t] = Maximum({@, m.roll_forward_to})]
    BY <1>11 DEF HandleMessage, Handled
  <2>2. t # Primary BY <1>0, <2>1 DEF Streams
  <2>3. log'[Primary] = log[Primary] BY <2>1, <2>2
  <2>4. m \in Message
    <3>1. inbox[t] \in Seq(Message) BY <1>0, Types
    <3> QED BY <2>1, <3>1, SplitHead
  <2>5. m.roll_forward_to \in {0} \union Version
    <3> HIDE DEF m
    <3> QED BY <2>4 DEF Message
  <2>6. \A s \in Shard : can_rollback_to[s] <= can_rollback_to'[s]
    <3> DEFINE a == can_rollback_to[t]
               b == m.roll_forward_to
    <3>1. a \in {0} \union Version /\ b \in {0} \union Version /\ a \in Nat /\ b \in Nat
      BY <1>1, <2>5, VersionsAreNat
    <3>2. can_rollback_to'[t] = Maximum({a, b}) BY <1>1, <2>1
    <3>3. a <= can_rollback_to'[t]
      <4> HIDE DEF a, b
      <4>1. Maximum({a, b}) = IF a < b THEN b ELSE a BY <3>1, LargerOfTwo
      <4> QED BY <3>1, <3>2, <4>1
    <3> QED BY <1>1, <2>1, <3>3
  <2> QED BY <2>1, <2>3, <2>6, KeepStep
<1>12. ASSUME NEW t \in Shard, HandleReply(t) PROVE Abstract!Next
  <2> DEFINE m == Head(unanswered[t])
  <2>1. /\ UNCHANGED <<written, log, can_rollback_to>>
        /\ SubWriteReply(t, m) \/ LogUpdateReply(t, m)
    BY <1>12 DEF HandleReply
  <2>2. acked' = acked \/ acked' = acked \union {m.version} \/ acked' = acked \union ({m.version} \ {0})
    BY <2>1 DEF SubWriteReply, LogUpdateReply
  <2>3. acked' \subseteq acked \union {m.version} /\ acked \subseteq acked' BY <2>2
  <2> HIDE DEF m
  <2> QED BY <2>1, <2>3, TellStep
<1>13. CASE OnChange BY <1>13, IntervalStep
<1> QED BY <1>3, <1>4, <1>5, <1>6, <1>7, <1>8, <1>9, <1>10, <1>11, <1>12, <1>13 DEF Next, CheckOps

(* The pipeline, with many writes in flight and shards that answer in any order,
   implements the atomic log, if no write both reads a stripe and bypasses the cache:
   every write is computed from what the writes before it left, and a change of the
   interval loses nothing that was reported. *)
THEOREM Refinement == CachedPlans => (Spec => ImplementsECLog)
<1> SUFFICES ASSUME CachedPlans PROVE Spec => ImplementsECLog OBVIOUS
<1>1. Init => Abstract!Init
  <2> SUFFICES ASSUME Init PROVE Abstract!Init OBVIOUS
  <2>1. IInv /\ log[Primary] = <<>> BY IInvInit, ShardAssumption DEF Init
  <2>2. Mapped BY <2>1, MappedIs
  <2>3. Told = 0 /\ Kept = 0 /\ Hist = <<>>
    <3>1. Len(log[Primary]) = 0 BY <2>1
    <3> QED BY <2>1, <2>2, <3>1, EmptySeq DEF Mapped
  <2> QED BY <2>3 DEF Abstract!Init, Hist, Told, Kept, Forwarded
<1>2. IInv /\ IInv' /\ RInv /\ [Next]_vars => [Abstract!Next]_(Abstract!logVars) BY StepsOfTheLog
<1>3. Spec => []RInv BY RightInvariance
<1> QED BY <1>1, <1>2, <1>3, Invariance, PTL DEF Spec, ImplementsECLog, Abstract!Spec

=============================================================================
