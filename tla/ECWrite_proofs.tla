--------------------------- MODULE ECWrite_proofs ---------------------------
(***************************************************************************)
(* Proofs about ECWrite: no assertion of the write pipeline fails, writes  *)
(* complete in the order of the log, and only reported writes are rolled   *)
(* forward, for any number of shards, stripes, plans and versions.  That   *)
(* the pipeline implements ECLog is proved in ECWrite_refinement.          *)
(***************************************************************************)
EXTENDS ECWrite, FiniteSetTheorems, SequenceTheorems, WellFoundedInduction, TLAPS

-----------------------------------------------------------------------------
(* The inductive invariant. *)

(* The messages to s that are not yet answered: what s has handled, then what it
   has not. *)
Stream(s) == unanswered[s] \o inbox[s]

(* Strictly increasing. *)
Increasing(l) == \A i, j \in DOMAIN l : i < j => l[i] < l[j]

(* The versions of the entries among the messages of q: the dummy has none. *)
Carried(q) == {q[i].version : i \in DOMAIN q} \ {0}

(* The versions that op is going to give to the logs. *)
Future(op) == ({op.version} \ {0}) \union Elements(op.on_write)

(* No two messages carry the same version, versions only grow. *)
InVersionOrder(q) ==
  \A i, j \in DOMAIN q : i < j =>
    /\ q[i].version # q[j].version
    /\ q[j].version # 0 => q[i].version < q[j].version

(* What a shard has logged and what is on its way to it is the primary's log. *)
Streams ==
  /\ inbox[Primary] = <<>>
  /\ \A s \in Shard :
       /\ Increasing(log[s])
       /\ InVersionOrder(Stream(s))
       /\ \A v \in Carried(inbox[s]) : \A u \in Elements(log[s]) : u < v
       /\ Elements(log[Primary]) = Elements(log[s]) \union Carried(inbox[s])
       /\ Carried(Stream(s)) \subseteq Elements(log[Primary])
       /\ \A v \in Carried(Stream(s)) : \A u \in Elements(log[Primary]) :
            v < u => u \in Carried(Stream(s))

(* A write, or an entry that bypassed the pipeline, of version v is on its way to
   s or from there. *)
Asked(s, v) == \E i \in DOMAIN Stream(s) : ~ Stream(s)[i].log_update /\ Stream(s)[i].version = v
AskedLog(s, v) == \E i \in DOMAIN Stream(s) : Stream(s)[i].log_update /\ Stream(s)[i].version = v

(* A write of version v waits for s. *)
WaitsFor(s, v) ==
  \E k \in DOMAIN waiting_commit :
    waiting_commit[k].version = v /\ s \in waiting_commit[k].pending_commit

(* Messages and what waits for their answers belong together. *)
Answers ==
  /\ \A s \in Shard : \A i \in DOMAIN Stream(s) :
       Stream(s)[i].log_update => Stream(s)[i].version # 0
  /\ \A s \in Shard, v \in {0} \union Version : Asked(s, v) <=> WaitsFor(s, v)
  /\ \A s \in Shard, v \in Version : AskedLog(s, v) <=> s \in log_update[v]
  /\ \A v \in Version : \A k \in DOMAIN waiting_commit :
       waiting_commit[k].version = v => log_update[v] = {}

(* What is reported is in the log and on its way to nobody, the rest of the log is. *)
Reported ==
  /\ acked \subseteq Elements(log[Primary])
  /\ \A s \in Shard : acked \intersect Carried(Stream(s)) = {}
  /\ \A v \in Elements(log[Primary]) \ acked : \E s \in Shard : v \in Carried(Stream(s))
  /\ \A k \in DOMAIN waiting_commit :
       waiting_commit[k].pending_commit = {} => waiting_commit[k].version \in acked \union {0}

(* Nobody is told to roll forward anything but a reported write. *)
Forward ==
  /\ committed_to \in acked \union {0}
  /\ \A list \in {waiting_state, waiting_reads, waiting_commit} :
       \A i \in DOMAIN list : list[i].roll_forward_to \in acked \union {0}
  /\ \A s \in Shard : \A i \in DOMAIN Stream(s) :
       Stream(s)[i].roll_forward_to \in acked \union {0}
  /\ \A s \in Shard : can_rollback_to[s] \in acked \union {0}

(* The dummy is alone in waiting_reads. *)
Dummy ==
  /\ \A i \in DOMAIN waiting_state : waiting_state[i].version # 0
  /\ \A i \in DOMAIN waiting_reads : waiting_reads[i].version = 0 =>
       /\ Len(waiting_reads) = 1 /\ waiting_commit = <<>>
       /\ waiting_reads[i].plan = NoPlan /\ waiting_reads[i].on_write = <<>>
       /\ waiting_reads[i].remote_read = {} /\ waiting_reads[i].pending_read = {}
       /\ ~ waiting_reads[i].using_cache
       /\ ~ StateCanMove
  /\ \A i \in DOMAIN waiting_commit : waiting_commit[i].version = 0 =>
       waiting_commit[i].plan = NoPlan /\ ~ waiting_commit[i].using_cache

(* Every member of A is less than every member of B. *)
Below(A, B) == \A a \in A, b \in B : a < b

(* The versions that the operations of a list are going to give to the logs. *)
Futures(list) == UNION {Future(list[i]) : i \in DOMAIN list}

(* The operations of a list, and the callbacks that wait for them, are in the order
   of versions. *)
Queued(list) ==
  /\ \A i \in DOMAIN list : /\ \A u \in Elements(list[i].on_write) : list[i].version < u
                            /\ Increasing(list[i].on_write)
  /\ \A i, j \in DOMAIN list : i < j => Below(Future(list[i]), Future(list[j]))

(* Callbacks that waited for a write that is sent. *)
Due == UNION {Elements(waiting_commit[k].on_write) : k \in DOMAIN waiting_commit}

(* The lists are in the order of versions, ahead of the log. *)
Queues ==
  /\ Queued(waiting_state) /\ Queued(waiting_reads)
  /\ Below(Futures(waiting_reads), Futures(waiting_state))
  /\ Below(Elements(log[Primary]), Futures(waiting_reads))
  /\ Below(Elements(log[Primary]), Futures(waiting_state))
  /\ \A u \in Elements(log[Primary]) \union Futures(waiting_reads) \union Futures(waiting_state) :
       u <= Len(plan)

(* Callbacks are left only at the write that was sent last. *)
OnWrites ==
  /\ \A k \in DOMAIN waiting_commit :
       /\ k # Len(waiting_commit) => waiting_commit[k].on_write = <<>>
       /\ Increasing(waiting_commit[k].on_write)
  /\ Below(Elements(log[Primary]), Due)
  /\ Below(Due, Futures(waiting_reads))
  /\ Below(Due, Futures(waiting_state))
  /\ \A u \in Due : u <= Len(plan)

(* What was sent is in the log, in the order of versions. *)
Commits ==
  /\ InVersionOrder(waiting_commit)
  /\ \A k \in DOMAIN waiting_commit :
       waiting_commit[k].version \in {0} \union Elements(log[Primary])

(* op writes stripe x and has it in the cache. *)
UsesCache(op, x) == op.using_cache /\ x \in op.plan.will_write

(* The stripes that writes in flight use are cached, and are pending only as long
   as a write before them has not presented them. *)
CacheHolds ==
  /\ \A list \in {waiting_reads, waiting_commit} : \A i \in DOMAIN list :
       \A x \in Stripe : UsesCache(list[i], x) => list[i].version <= cache[x].pin
  /\ \A i \in DOMAIN waiting_reads : \A x \in waiting_reads[i].pending_read :
       /\ UsesCache(waiting_reads[i], x)
       /\ cache[x].pending => \E j \in 1 .. i - 1 : UsesCache(waiting_reads[j], x)
  /\ \A x \in Stripe : cache[x].pending => \E i \in DOMAIN waiting_reads : UsesCache(waiting_reads[i], x)

(* Operations carry the plans of clients, the dummy carries none. *)
PlansKept ==
  \A list \in {waiting_state, waiting_reads, waiting_commit} :
    \A i \in DOMAIN list : list[i].plan \in Plans \union {NoPlan}

(* The inductive invariant. *)
IInv ==
  /\ TypeOK
  /\ DOMAIN written = Version
  /\ ok
  /\ Streams
  /\ Answers
  /\ Reported
  /\ Forward
  /\ Dummy
  /\ Queues
  /\ OnWrites
  /\ Commits
  /\ CacheHolds
  /\ PlansKept

-----------------------------------------------------------------------------
(* Facts about numbers and sequences *)

(* A set of natural numbers that is not empty has a least element. *)
LEMMA LeastNatural ==
  ASSUME NEW S \in SUBSET Nat, S # {}
  PROVE  \E n \in S : \A k \in S : n <= k
<1>1. PICK n \in S : \A k \in S : ~ (<<k, n>> \in OpToRel(<, Nat))
  BY NatLessThanWellFounded, WFMin, Zenon
<1>2. ASSUME NEW k \in S, k < n PROVE FALSE
  <2>1. <<k, n>> \in OpToRel(<, Nat)
    BY <1>2 DEF OpToRel
  <2> QED BY <1>1, <2>1, Zenon
<1> QED BY <1>2

(* A bounded set of natural numbers that is not empty has a greatest element,
   which Maximum chooses. *)
LEMMA MaximumIs ==
  ASSUME NEW b \in Nat, NEW S \in SUBSET (0 .. b), S # {}
  PROVE  Maximum(S) \in S /\ \A k \in S : k <= Maximum(S)
<1> DEFINE B == {n \in Nat : \A k \in S : k <= n}
<1>1. b \in B
  OBVIOUS
<1>2. PICK n \in B : \A k \in B : n <= k
  <2>1. B \in SUBSET Nat /\ B # {} BY <1>1
  <2> HIDE DEF B
  <2> QED BY <2>1, LeastNatural
<1>3. n \in S
  <2> SUFFICES ASSUME n \notin S PROVE FALSE OBVIOUS
  <2>1. CASE n = 0
    <3>1. PICK k \in S : TRUE OBVIOUS
    <3>2. k <= 0 BY <1>2, <2>1
    <3> QED BY <2>1, <3>2
  <2>2. CASE n # 0
    <3>1. n - 1 \in B BY <1>2, <2>2
    <3> QED BY <1>2, <3>1
  <2> QED BY <2>1, <2>2
<1>4. \E m \in S : \A k \in S : k <= m
  BY <1>2, <1>3
<1> QED BY <1>4 DEF Maximum

(* The same for Minimum. *)
LEMMA MinimumIs ==
  ASSUME NEW S \in SUBSET Nat, S # {}
  PROVE  Minimum(S) \in S /\ \A k \in S : Minimum(S) <= k
BY LeastNatural DEF Minimum

(* The larger of two versions, as Maximum chooses it. *)
LEMMA LargerOfTwo ==
  ASSUME NEW a \in {0} \union Version, NEW b \in {0} \union Version
  PROVE  /\ Maximum({a, b}) \in {0} \union Version
         /\ Maximum({a, b}) = IF a < b THEN b ELSE a
<1>1. {a, b} \in SUBSET (0 .. MaxVersion) /\ {a, b} # {} /\ MaxVersion \in Nat
  BY BoundAssumption DEF Version
<1>2. Maximum({a, b}) \in {a, b} /\ \A k \in {a, b} : k <= Maximum({a, b})
  BY <1>1, MaximumIs, Zenon
<1> QED BY <1>1, <1>2 DEF Version

(* What the first and the other elements of a sequence are. *)
LEMMA SplitHead ==
  ASSUME NEW S, NEW q \in Seq(S), q # <<>>
  PROVE  /\ Head(q) \in S /\ Tail(q) \in Seq(S)
         /\ Len(q) \in Nat \ {0} /\ Len(Tail(q)) = Len(q) - 1
         /\ 1 \in DOMAIN q /\ q[1] = Head(q)
         /\ DOMAIN q = 1 .. Len(q) /\ DOMAIN Tail(q) = 1 .. Len(q) - 1
         /\ \A i \in DOMAIN Tail(q) : Tail(q)[i] = q[i + 1] /\ i + 1 \in DOMAIN q
BY HeadTailProperties, LenProperties, EmptySeq

(* The elements of a sequence with one more at the end. *)
LEMMA SplitLast ==
  ASSUME NEW S, NEW q \in Seq(S), NEW e \in S, NEW r, r = Append(q, e)
  PROVE  /\ r \in Seq(S) /\ Len(q) \in Nat
         /\ DOMAIN q = 1 .. Len(q) /\ DOMAIN r = 1 .. Len(q) + 1 /\ Len(r) = Len(q) + 1
         /\ \A i \in DOMAIN q : r[i] = q[i]
         /\ r[Len(q) + 1] = e
BY AppendProperties, LenProperties

(* What a sequence holds, with one more element and without the first. *)
LEMMA ElementsAre ==
  ASSUME NEW S, NEW q \in Seq(S)
  PROVE  /\ Elements(q) \subseteq S
         /\ \A e \in S : Elements(Append(q, e)) = Elements(q) \union {e}
         /\ q # <<>> => Elements(q) = {Head(q)} \union Elements(Tail(q))
         /\ Elements(<<>>) = {}
<1>1. Elements(q) \subseteq S
  BY LenProperties DEF Elements
<1>2. ASSUME NEW e \in S PROVE Elements(Append(q, e)) = Elements(q) \union {e}
  <2> DEFINE r == Append(q, e)
  <2>1. /\ DOMAIN q = 1 .. Len(q) /\ DOMAIN r = 1 .. Len(q) + 1 /\ Len(q) \in Nat
        /\ \A i \in DOMAIN q : r[i] = q[i]
        /\ r[Len(q) + 1] = e
    BY SplitLast
  <2> HIDE DEF r
  <2>2. \A x : x \in Elements(r) <=> x \in Elements(q) \/ x = e
    BY <2>1 DEF Elements
  <2> QED BY <2>2 DEF r
<1>3. ASSUME q # <<>> PROVE Elements(q) = {Head(q)} \union Elements(Tail(q))
  <2> DEFINE r == Tail(q)
  <2>1. /\ Len(q) \in Nat \ {0}
        /\ 1 \in DOMAIN q /\ q[1] = Head(q)
        /\ DOMAIN q = 1 .. Len(q) /\ DOMAIN r = 1 .. Len(q) - 1
        /\ \A i \in DOMAIN r : r[i] = q[i + 1] /\ i + 1 \in DOMAIN q
    BY <1>3, SplitHead
  <2> HIDE DEF r
  <2>2. ASSUME NEW x \in Elements(q), x # Head(q) PROVE x \in Elements(r)
    <3>1. PICK i \in DOMAIN q : x = q[i] BY <2>2 DEF Elements
    <3>2. i - 1 \in DOMAIN r /\ r[i - 1] = q[i]
      BY <2>1, <2>2, <3>1
    <3> QED BY <3>1, <3>2 DEF Elements
  <2>3. Head(q) \in Elements(q) /\ Elements(r) \subseteq Elements(q)
    BY <2>1 DEF Elements
  <2> QED BY <2>2, <2>3 DEF r
<1>4. Elements(<<>>) = {}
  BY DEF Elements
<1> QED BY <1>1, <1>2, <1>3, <1>4

-----------------------------------------------------------------------------
(* Type correctness *)

(* What a version may write: contents for some of the stripes. *)
WrittenType == UNION {[w -> Contents] : w \in SUBSET Stripe}

(* Type correctness, part by part. *)
LEMMA Types ==
  ASSUME TypeOK, DOMAIN written = Version
  PROVE  /\ waiting_state \in Seq(Op) /\ waiting_reads \in Seq(Op) /\ waiting_commit \in Seq(Op)
         /\ cache_valid \in BOOLEAN /\ ok \in BOOLEAN
         /\ cache \in [Stripe -> [pin : {NoPin} \union Version, pending : BOOLEAN, bl : Contents]]
         /\ committed_to \in {0} \union Version
         /\ log_update \in [Version -> SUBSET Shard]
         /\ plan \in Seq(WritePlan) /\ Len(plan) <= MaxVersion
         /\ \A v \in Version : written[v] \in WrittenType
         /\ inbox \in [Shard -> Seq(Message)] /\ unanswered \in [Shard -> Seq(Message)]
         /\ log \in [Shard -> Seq(Version)]
         /\ can_rollback_to \in [Shard -> {0} \union Version]
         /\ acked \subseteq Version
         /\ intervals \in 0 .. MaxInterval
<1>1. \A v \in Version : written[v] \in WrittenType
  BY DEF TypeOK, WrittenType
<1> QED BY <1>1 DEF TypeOK

(* The fields of an operation. *)
LEMMA OpFields ==
  ASSUME NEW op \in Op
  PROVE  /\ op.version \in {0} \union Version /\ op.plan \in WritePlan
         /\ op.roll_forward_to \in {0} \union Version
         /\ op.using_cache \in BOOLEAN /\ op.pending_read \subseteq Stripe
         /\ op.remote_read \subseteq Stripe /\ op.read_done \in BOOLEAN
         /\ op.remote_read_result \in [Stripe -> Contents]
         /\ op.pending_commit \subseteq Shard /\ op.on_write \in Seq(Version)
         /\ op.plan.to_read \subseteq Stripe /\ op.plan.will_write \subseteq Stripe
         /\ op.plan.invalidates_cache \in BOOLEAN
BY DEF Op, WritePlan

(* A new operation, the dummy too, is an operation: it reads, writes and waits for nothing. *)
LEMMA NewOpIs ==
  ASSUME NEW v \in {0} \union Version, NEW p \in WritePlan, NEW to \in {0} \union Version,
         NEW op, op = NewOp(v, p, to)
  PROVE  /\ op \in Op
         /\ op.version = v /\ op.plan = p /\ op.roll_forward_to = to
         /\ ~ op.using_cache /\ op.pending_read = {} /\ op.remote_read = {} /\ ~ op.read_done
         /\ op.pending_commit = {} /\ op.on_write = <<>>
<1>1. <<>> \in Seq(Version) BY EmptySeq
<1>2. [x \in Stripe |-> NoContents] \in [Stripe -> Contents] BY DEF NoContents, Contents
<1> QED BY <1>1, <1>2 DEF NewOp, Op

(* An entry that writes nothing has a plan. *)
LEMMA NoPlanIsPlan == NoPlan \in WritePlan
BY DEF NoPlan, WritePlan

(* Versions and the dummy's 0 are numbers. *)
LEMMA VersionIsNat ==
  /\ MaxVersion \in Nat /\ Version \subseteq Nat \ {0}
  /\ \A v \in {0} \union Version : v \in 0 .. MaxVersion
BY BoundAssumption DEF Version

(* Versions are natural numbers. *)
LEMMA VersionsAreNat ==
  /\ \A v \in {0} \union Version : v \in Nat
  /\ \A S \in SUBSET Version : \A v \in S : v \in Nat /\ v # 0 /\ v \in Version /\ 0 < v
BY BoundAssumption DEF Version

(* What an action that sends to all shards does to the shards' part of the state. *)
LEMMA SendToAllTypes ==
  ASSUME TypeOK, DOMAIN written = Version, NEW m \in Message, SendToAll(m)
  PROVE  /\ inbox' \in [Shard -> Seq(Message)] /\ unanswered' \in [Shard -> Seq(Message)]
         /\ log' \in [Shard -> Seq(Version)]
         /\ can_rollback_to' \in [Shard -> {0} \union Version]
<1> USE Types
<1>1. Entries(m) \in Seq(Version)
  BY EmptySeq DEF Entries, Message
<1>2. log[Primary] \o Entries(m) \in Seq(Version)
  BY <1>1, ConcatProperties, ShardAssumption
<1>3. Maximum({can_rollback_to[Primary], m.roll_forward_to}) \in {0} \union Version
  BY LargerOfTwo, ShardAssumption DEF Message
<1>4. \A s \in Shard : Append(unanswered[s], m) \in Seq(Message) /\ Append(inbox[s], m) \in Seq(Message)
  BY AppendProperties
<1> QED BY <1>2, <1>3, <1>4, ShardAssumption DEF SendToAll, Handled

-----------------------------------------------------------------------------
(* The streams of messages *)

(* An element at the end of a sequence that is appended to another. *)
LEMMA AppendToConcat ==
  ASSUME NEW S, NEW a \in Seq(S), NEW b \in Seq(S), NEW e \in S
  PROVE  a \o Append(b, e) = Append(a \o b, e)
<1>1. /\ a \o b \in Seq(S) /\ Len(a \o b) = Len(a) + Len(b)
      /\ \A i \in 1 .. Len(a) + Len(b) : (a \o b)[i] = IF i <= Len(a) THEN a[i] ELSE b[i - Len(a)]
  BY ConcatProperties
<1> DEFINE c == Append(b, e)  d == Append(a \o b, e)
<1>2. /\ c \in Seq(S) /\ Len(c) = Len(b) + 1 /\ c[Len(b) + 1] = e
      /\ \A i \in 1 .. Len(b) : c[i] = b[i]
  BY AppendProperties
<1>3. /\ d \in Seq(S) /\ Len(d) = Len(a) + Len(b) + 1 /\ d[Len(a) + Len(b) + 1] = e
      /\ \A i \in 1 .. Len(a) + Len(b) : d[i] = (a \o b)[i]
  BY <1>1, AppendProperties
<1> HIDE DEF c, d
<1>4. /\ a \o c \in Seq(S) /\ Len(a \o c) = Len(a) + Len(c)
      /\ \A i \in 1 .. Len(a) + Len(c) : (a \o c)[i] = IF i <= Len(a) THEN a[i] ELSE c[i - Len(a)]
  BY <1>2, ConcatProperties
<1>5. Len(a) \in Nat /\ Len(b) \in Nat BY LenProperties
<1>6. ASSUME NEW i \in 1 .. Len(a) + Len(b) + 1 PROVE (a \o c)[i] = d[i]
  <2>1. (a \o c)[i] = IF i <= Len(a) THEN a[i] ELSE c[i - Len(a)]
    BY <1>2, <1>4, <1>5
  <2>2. CASE i = Len(a) + Len(b) + 1
    <3>1. ~ (i <= Len(a)) /\ i - Len(a) = Len(b) + 1 BY <1>5, <2>2
    <3>2. (a \o c)[i] = c[Len(b) + 1] BY <2>1, <3>1
    <3> QED BY <1>2, <1>3, <2>2, <3>2
  <2>3. CASE i # Len(a) + Len(b) + 1
    <3>1. i \in 1 .. Len(a) + Len(b) BY <1>5, <2>3
    <3>2. d[i] = IF i <= Len(a) THEN a[i] ELSE b[i - Len(a)] BY <1>1, <1>3, <3>1
    <3>3. ~ (i <= Len(a)) => i - Len(a) \in 1 .. Len(b) BY <1>5, <3>1
    <3>4. ~ (i <= Len(a)) => c[i - Len(a)] = b[i - Len(a)] BY <1>2, <3>3
    <3> QED BY <2>1, <3>2, <3>4
  <2> QED BY <2>2, <2>3
<1>7. a \o c = d
  BY <1>2, <1>3, <1>4, <1>5, <1>6, SeqEqual
<1> QED BY <1>7 DEF c, d

(* The first element of a sequence moves to the end of the one before it. *)
LEMMA MoveHead ==
  ASSUME NEW S, NEW a \in Seq(S), NEW b \in Seq(S), b # <<>>
  PROVE  Append(a, Head(b)) \o Tail(b) = a \o b
<1> DEFINE c == Append(a, Head(b))  d == Tail(b)
<1>1. /\ a \o b \in Seq(S) /\ Len(a \o b) = Len(a) + Len(b)
      /\ \A i \in 1 .. Len(a) + Len(b) : (a \o b)[i] = IF i <= Len(a) THEN a[i] ELSE b[i - Len(a)]
  BY ConcatProperties
<1>2. /\ d \in Seq(S) /\ Len(d) = Len(b) - 1 /\ Len(b) \in Nat \ {0} /\ Head(b) \in S
      /\ Head(b) = b[1] /\ \A i \in 1 .. Len(b) - 1 : d[i] = b[i + 1]
  BY SplitHead
<1>3. /\ c \in Seq(S) /\ Len(c) = Len(a) + 1 /\ c[Len(a) + 1] = Head(b) /\ Len(a) \in Nat
      /\ \A i \in 1 .. Len(a) : c[i] = a[i]
  BY <1>2, AppendProperties, LenProperties
<1> HIDE DEF c, d
<1>4. /\ c \o d \in Seq(S) /\ Len(c \o d) = Len(c) + Len(d)
      /\ \A i \in 1 .. Len(c) + Len(d) : (c \o d)[i] = IF i <= Len(c) THEN c[i] ELSE d[i - Len(c)]
  BY <1>2, <1>3, ConcatProperties
<1>5. ASSUME NEW i \in 1 .. Len(a) + Len(b) PROVE (c \o d)[i] = (a \o b)[i]
  <2>1. (c \o d)[i] = IF i <= Len(c) THEN c[i] ELSE d[i - Len(c)]
    BY <1>2, <1>3, <1>4
  <2>2. (a \o b)[i] = IF i <= Len(a) THEN a[i] ELSE b[i - Len(a)]
    BY <1>1
  <2>3. CASE i <= Len(a)
    <3>1. i <= Len(c) /\ i \in 1 .. Len(a) BY <1>3, <2>3
    <3>2. c[i] = a[i] BY <1>3, <3>1
    <3> QED BY <2>1, <2>2, <2>3, <3>1, <3>2
  <2>4. CASE i = Len(a) + 1
    <3>1. i <= Len(c) /\ ~ (i <= Len(a)) /\ i - Len(a) = 1 BY <1>3, <2>4
    <3>2. (a \o b)[i] = b[1] BY <2>2, <3>1
    <3>3. (c \o d)[i] = c[Len(a) + 1] BY <2>1, <2>4, <3>1
    <3> QED BY <1>2, <1>3, <3>2, <3>3
  <2>5. CASE i > Len(a) + 1
    <3>1. /\ ~ (i <= Len(c)) /\ ~ (i <= Len(a))
          /\ i - Len(c) \in 1 .. Len(b) - 1 /\ i - Len(c) + 1 = i - Len(a)
      BY <1>2, <1>3, <2>5
    <3>2. d[i - Len(c)] = b[i - Len(a)] BY <1>2, <3>1
    <3> QED BY <2>1, <2>2, <3>1, <3>2
  <2> QED BY <1>2, <1>3, <2>3, <2>4, <2>5
<1>6. c \o d = a \o b
  <2>1. Len(c \o d) = Len(a) + Len(b) /\ Len(a \o b) = Len(a) + Len(b) BY <1>1, <1>2, <1>3, <1>4
  <2>2. \A i \in 1 .. Len(c \o d) : (c \o d)[i] = (a \o b)[i] BY <1>5, <2>1
  <2> QED BY <1>1, <1>4, <2>1, <2>2, SeqEqual
<1> QED BY <1>6 DEF c, d

(* What an unanswered stream is made of, and that its first message is the one
   that is answered next. *)
LEMMA StreamIs ==
  ASSUME TypeOK, DOMAIN written = Version, NEW s \in Shard
  PROVE  /\ Stream(s) \in Seq(Message)
         /\ Len(Stream(s)) = Len(unanswered[s]) + Len(inbox[s])
         /\ DOMAIN Stream(s) = 1 .. Len(unanswered[s]) + Len(inbox[s])
         /\ \A i \in DOMAIN unanswered[s] : i \in DOMAIN Stream(s) /\ Stream(s)[i] = unanswered[s][i]
         /\ \A i \in DOMAIN inbox[s] : /\ Len(unanswered[s]) + i \in DOMAIN Stream(s)
                                       /\ Stream(s)[Len(unanswered[s]) + i] = inbox[s][i]
         /\ unanswered[s] # <<>> => 1 \in DOMAIN Stream(s) /\ Stream(s)[1] = Head(unanswered[s])
<1> USE Types
<1>1. unanswered[s] \in Seq(Message) /\ inbox[s] \in Seq(Message) OBVIOUS
<1> DEFINE a == unanswered[s]  b == inbox[s]
<1>2. /\ a \o b \in Seq(Message) /\ Len(a \o b) = Len(a) + Len(b)
      /\ \A i \in 1 .. Len(a) + Len(b) : (a \o b)[i] = IF i <= Len(a) THEN a[i] ELSE b[i - Len(a)]
      /\ DOMAIN (a \o b) = 1 .. Len(a \o b)
      /\ DOMAIN a = 1 .. Len(a) /\ DOMAIN b = 1 .. Len(b) /\ Len(a) \in Nat /\ Len(b) \in Nat
  BY <1>1, ConcatProperties, LenProperties
<1>3. a # <<>> => Len(a) > 0 /\ a[1] = Head(a)
  BY <1>1, SplitHead
<1> HIDE DEF a, b
<1>4. Stream(s) = a \o b BY DEF Stream, a, b
<1> QED BY <1>2, <1>3, <1>4 DEF a, b

(* A message to all is added to every stream. *)
LEMMA StreamSend ==
  ASSUME TypeOK, DOMAIN written = Version, NEW m \in Message, SendToAll(m),
         inbox[Primary] = <<>>, NEW s \in Shard
  PROVE  Stream(s)' = Append(Stream(s), m)
<1>1. unanswered[s] \in Seq(Message) /\ inbox[s] \in Seq(Message) BY Types
<1>2. CASE s = Primary
  <2>1. unanswered'[s] = Append(unanswered[s], m) /\ inbox'[s] = <<>>
    BY <1>2, Types DEF SendToAll, Handled
  <2>2. /\ Append(unanswered[s], m) \o <<>> = Append(unanswered[s], m)
        /\ unanswered[s] \o <<>> = unanswered[s]
    BY <1>1, AppendProperties, ConcatEmptySeq
  <2> QED BY <1>2, <2>1, <2>2 DEF Stream
<1>3. CASE s # Primary
  <2>1. unanswered'[s] = unanswered[s] /\ inbox'[s] = Append(inbox[s], m)
    BY <1>3, Types DEF SendToAll, Handled
  <2> DEFINE a == unanswered[s]  b == inbox[s]
  <2>2. a \o Append(b, m) = Append(a \o b, m)
    <3>1. a \in Seq(Message) /\ b \in Seq(Message) BY <1>1
    <3> HIDE DEF a, b
    <3> QED BY <3>1, AppendToConcat
  <2> QED BY <2>1, <2>2, Zenon DEF Stream
<1> QED BY <1>2, <1>3

(* A shard that handles a message leaves its stream as it is. *)
LEMMA StreamHandle ==
  ASSUME TypeOK, DOMAIN written = Version, NEW t \in Shard, HandleMessage(t), NEW s \in Shard
  PROVE  Stream(s)' = Stream(s)
<1> USE Types
<1>1. unanswered[s] \in Seq(Message) /\ inbox[s] \in Seq(Message) OBVIOUS
<1>2. CASE s # t
  BY <1>2 DEF Stream, HandleMessage, Handled
<1>3. CASE s = t
  <2> DEFINE a == unanswered[s]  b == inbox[s]
  <2>1. b # <<>> /\ unanswered'[s] = Append(a, Head(b)) /\ inbox'[s] = Tail(b)
    BY <1>3 DEF HandleMessage, Handled
  <2>6. Append(a, Head(b)) \o Tail(b) = a \o b
    BY <1>1, <2>1, MoveHead
  <2> QED BY <2>1, <2>6 DEF Stream, a, b
<1> QED BY <1>2, <1>3

(* An answer takes the first message from the stream. *)
LEMMA StreamReply ==
  ASSUME TypeOK, DOMAIN written = Version, NEW t \in Shard, HandleReply(t), NEW s \in Shard
  PROVE  /\ s # t => Stream(s)' = Stream(s)
         /\ s = t => /\ Stream(s) # <<>> /\ Stream(s)' = Tail(Stream(s))
                     /\ Head(Stream(s)) = Head(unanswered[s])
<1> USE Types
<1>1. unanswered[s] \in Seq(Message) /\ inbox[s] \in Seq(Message) OBVIOUS
<1>2. s # t => Stream(s)' = Stream(s)
  BY DEF Stream, HandleReply
<1>3. CASE s = t
  <2> DEFINE a == unanswered[s]  b == inbox[s]
  <2>1. a # <<>> /\ unanswered'[s] = Tail(a) /\ inbox'[s] = b
    BY <1>3 DEF HandleReply
  <2>2. a \in Seq(Message) /\ b \in Seq(Message) /\ a \o b \in Seq(Message) /\ Tail(a) \in Seq(Message)
    BY <1>1, <2>1, HeadTailProperties, ConcatProperties
  <2> HIDE DEF a, b
  <2>3. a \o b # <<>> /\ Len(a) > 0 /\ Len(a) \in Nat /\ Len(b) \in Nat
    BY <2>1, <2>2, ConcatEqualIffEmpty, EmptySeq, LenProperties
  <2>4. Head(a \o b) = Head(a)
    BY <2>1, <2>2, <2>3, ConcatProperties, SplitHead
  <2>5. /\ Tail(a) \o b \in Seq(Message) /\ Tail(a \o b) \in Seq(Message)
        /\ Len(a \o b) = Len(a) + Len(b) /\ Len(Tail(a)) = Len(a) - 1
        /\ Len(Tail(a \o b)) = Len(a) + Len(b) - 1
        /\ Len(Tail(a) \o b) = Len(a) + Len(b) - 1
    BY <2>1, <2>2, <2>3, ConcatProperties, HeadTailProperties
  <2>6. ASSUME NEW i \in 1 .. Len(a) + Len(b) - 1 PROVE (Tail(a) \o b)[i] = Tail(a \o b)[i]
    <3>1. Tail(a \o b)[i] = (a \o b)[i + 1]
      BY <2>2, <2>3, <2>5, HeadTailProperties
    <3>2. (a \o b)[i + 1] = IF i + 1 <= Len(a) THEN a[i + 1] ELSE b[i + 1 - Len(a)]
      BY <2>2, <2>3, ConcatProperties
    <3>3. (Tail(a) \o b)[i] = IF i <= Len(a) - 1 THEN Tail(a)[i] ELSE b[i - (Len(a) - 1)]
      BY <2>2, <2>3, <2>5, ConcatProperties
    <3>4. i <= Len(a) - 1 => Tail(a)[i] = a[i + 1]
      BY <2>1, <2>2, <2>3, <2>5, HeadTailProperties
    <3> QED BY <2>3, <3>1, <3>2, <3>3, <3>4
  <2>7. Tail(a) \o b = Tail(a \o b)
    BY <2>5, <2>6, SeqEqual
  <2>8. Stream(s) = a \o b /\ Stream(s)' = Tail(a) \o b
    BY <2>1 DEF Stream, a, b
  <2>9. Head(Stream(s)) = Head(unanswered[s])
    BY <2>4, <2>8 DEF a
  <2> QED BY <1>3, <2>3, <2>7, <2>8, <2>9
<1> QED BY <1>2, <1>3

-----------------------------------------------------------------------------
(* Type correctness is preserved *)

(* The next version that is given out. *)
LEMMA NextVersionIs ==
  ASSUME TypeOK, DOMAIN written = Version, NextVersion \in Version, NEW p \in WritePlan,
         plan' = Append(plan, p)
  PROVE  /\ plan' \in Seq(WritePlan) /\ Len(plan') <= MaxVersion
         /\ Len(plan) \in Nat /\ NextVersion = Len(plan) + 1 /\ Len(plan') = NextVersion
<1>1. plan \in Seq(WritePlan) BY Types
<1> QED BY <1>1, AppendProperties, LenProperties, VersionIsNat DEF NextVersion, Version

(* An operation that was only moved on keeps its type. *)
LEMMA LastOpChanged ==
  ASSUME NEW list \in Seq(Op), list # <<>>, NEW v \in Version
  PROVE  AfterLast(list, v) \in Seq(Op)
<1>1. Len(list) \in 1 .. Len(list) /\ list[Len(list)] \in Op
  BY LenProperties, EmptySeq, ElementOfSeq
<1>2. Append(list[Len(list)].on_write, v) \in Seq(Version)
  BY <1>1, OpFields, AppendProperties
<1> DEFINE e == [list[Len(list)] EXCEPT !.on_write = Append(list[Len(list)].on_write, v)]
<1>3. e \in Op BY <1>1, <1>2 DEF Op
<1>4. [list EXCEPT ![Len(list)] = e] \in Seq(Op)
  <2> HIDE DEF e
  <2> QED BY <1>1, <1>3, ExceptSeq
<1> QED BY <1>4 DEF AfterLast

(* What ExtentCache's operations leave in the cache. *)
LEMMA CacheTypes ==
  ASSUME TypeOK, DOMAIN written = Version, NEW v \in Version, NEW w \in SUBSET Stripe
  PROVE  LET C == [Stripe -> [pin : {NoPin} \union Version, pending : BOOLEAN, bl : Contents]]
         IN  /\ Reserved(v, w) \in C
             /\ Released(v) \in C
             /\ CacheAfterChange \in C
             /\ \A update \in [w -> Contents] : Presented(update) \in C
<1>1. cache \in [Stripe -> [pin : {NoPin} \union Version, pending : BOOLEAN, bl : Contents]]
  BY Types
<1>2. NoContents \in Contents BY DEF NoContents, Contents
<1> HIDE DEF Contents
<1> QED BY <1>1, <1>2, Zenon DEF Reserved, Released, CacheAfterChange, Presented, Absent, NoPin

(* submit_transaction() keeps the types. *)
LEMMA TypeSubmit ==
  ASSUME TypeOK, DOMAIN written = Version, NEW p \in Plans, SubmitTransaction(p)
  PROVE  TypeOK' /\ DOMAIN written' = Version
<1> USE Types
<1>1. p \in WritePlan BY PlanAssumption
<1>2. plan' \in Seq(WritePlan) /\ Len(plan') <= MaxVersion
  BY <1>1, NextVersionIs DEF SubmitTransaction
<1>3. NewOp(NextVersion, p, RollForwardTo) \in Op
  BY <1>1, NewOpIs DEF RollForwardTo, SubmitTransaction
<1>4. waiting_state' \in Seq(Op)
  BY <1>3, AppendProperties DEF SubmitTransaction
<1> QED BY <1>2, <1>4 DEF TypeOK, SubmitTransaction, shards, WrittenType

(* submit_log_entries() keeps the types, on each of its three ways. *)
LEMMA TypeSubmitLog ==
  ASSUME TypeOK, DOMAIN written = Version, SubmitLogEntries
  PROVE  TypeOK' /\ DOMAIN written' = Version
<1> USE Types
<1> DEFINE v == NextVersion
<1>1. plan' \in Seq(WritePlan) /\ Len(plan') <= MaxVersion /\ v \in Version
  BY NoPlanIsPlan, NextVersionIs DEF SubmitLogEntries
<1> HIDE DEF v
<1>2. CASE waiting_state # <<>> /\ waiting_state' = AfterLast(waiting_state, v)
           /\ UNCHANGED <<waiting_reads, log_update, shards, ok>>
  <2>1. waiting_state' \in Seq(Op) BY <1>1, <1>2, LastOpChanged
  <2> QED BY <1>1, <1>2, <2>1 DEF TypeOK, SubmitLogEntries, shards, WrittenType
<1>3. CASE waiting_reads # <<>> /\ waiting_reads' = AfterLast(waiting_reads, v)
           /\ UNCHANGED <<waiting_state, log_update, shards, ok>>
  <2>1. waiting_reads' \in Seq(Op) BY <1>1, <1>3, LastOpChanged
  <2> QED BY <1>1, <1>3, <2>1 DEF TypeOK, SubmitLogEntries, shards, WrittenType
<1>4. CASE UpdateLogs(v) /\ UNCHANGED <<waiting_state, waiting_reads, written>>
  <2>1. UpdateLogMissing(v) \in Message
    BY <1>1 DEF UpdateLogMissing, Message
  <2>2. /\ inbox' \in [Shard -> Seq(Message)] /\ unanswered' \in [Shard -> Seq(Message)]
        /\ log' \in [Shard -> Seq(Version)]
        /\ can_rollback_to' \in [Shard -> {0} \union Version]
    BY <1>4, <2>1, SendToAllTypes DEF UpdateLogs
  <2>3. log_update' \in [Version -> SUBSET Shard] /\ ok' \in BOOLEAN
    BY <1>1, <1>4 DEF UpdateLogs, LogUpdateWaitsOn, InOrder
  <2> QED BY <1>1, <1>4, <2>2, <2>3 DEF TypeOK, SubmitLogEntries, WrittenType
<1> QED BY <1>2, <1>3, <1>4 DEF SubmitLogEntries, v

(* What a shard has stored are contents. *)
LEMMA StoredType ==
  ASSUME TypeOK, DOMAIN written = Version, NEW s \in Shard, NEW x \in Stripe
  PROVE  Stored(s, x) \in Contents
<1> DEFINE writers == {v \in Elements(log[s]) : x \in DOMAIN written[v]}
<1>1. Elements(log[s]) \subseteq Version
  BY Types, ElementsAre
<1>2. writers # {} => Maximum(writers) \in writers
  <2>1. writers \in SUBSET (0 .. MaxVersion) BY <1>1, VersionIsNat
  <2> QED BY <2>1, MaximumIs, VersionIsNat
<1>3. writers # {} => written[Maximum(writers)][x] \in Contents
  BY <1>1, <1>2, Types DEF WrittenType
<1>4. NoContents \in Contents BY DEF NoContents, Contents
<1> QED BY <1>3, <1>4 DEF Stored

(* try_state_to_reads() keeps the types. *)
LEMMA TypeStateToReads ==
  ASSUME TypeOK, DOMAIN written = Version, TryStateToReads
  PROVE  TypeOK' /\ DOMAIN written' = Version
<1> USE Types
<1> DEFINE op == Head(waiting_state)
           using == UsingCache(op)
           remote == IF using THEN MustRead(op.plan.to_read) ELSE op.plan.to_read
           new == [op EXCEPT !.using_cache = using, !.remote_read = remote,
                             !.pending_read = op.plan.to_read \ remote]
<1>1. waiting_state # <<>> BY DEF TryStateToReads, StateCanMove
<1>2. op \in Op /\ Tail(waiting_state) \in Seq(Op) BY <1>1, SplitHead
<1>3. using \in BOOLEAN /\ remote \subseteq Stripe /\ op.plan.to_read \subseteq Stripe
  BY <1>2, OpFields DEF UsingCache, MustRead
<1>4. new \in Op
  <2> HIDE DEF op, using, remote
  <2> QED BY <1>2, <1>3, OpFields DEF Op
<1>5. /\ waiting_state' = Tail(waiting_state)
      /\ waiting_reads' = Append(waiting_reads, new)
      /\ cache_valid' = (cache_valid /\ ~ op.plan.invalidates_cache)
      /\ cache' = IF using THEN Reserved(op.version, op.plan.will_write) ELSE cache
      /\ UNCHANGED <<waiting_commit, committed_to, log_update, plan, shards, acked,
                     intervals, ok>>
  BY DEF TryStateToReads
<1>6. cache' \in [Stripe -> [pin : {NoPin} \union Version, pending : BOOLEAN, bl : Contents]]
  <2>1. NoContents \in Contents BY DEF NoContents, Contents
  <2>2. op.version \in {0} \union Version BY <1>2, OpFields
  <2> HIDE DEF op, using, remote, new
  <2> QED BY <1>5, <2>1, <2>2 DEF Reserved, NoPin
<1>7. waiting_reads' \in Seq(Op) BY <1>4, <1>5, AppendProperties
<1> HIDE DEF op, using, remote, new
<1> QED BY <1>2, <1>5, <1>6, <1>7 DEF TypeOK, shards, WrittenType

(* The callback of a read keeps the types. *)
LEMMA TypeReadDone ==
  ASSUME TypeOK, DOMAIN written = Version, NEW i \in DOMAIN waiting_reads, NEW s \in Shard,
         ReadDone(i, s)
  PROVE  TypeOK' /\ DOMAIN written' = Version
<1> USE Types
<1> DEFINE op == waiting_reads[i]
           res == [x \in Stripe |-> IF x \in op.remote_read THEN Stored(s, x)
                                                            ELSE op.remote_read_result[x]]
           new == [op EXCEPT !.read_done = TRUE, !.remote_read_result = res]
<1>1. i \in 1 .. Len(waiting_reads) /\ op \in Op
  BY LenProperties, ElementOfSeq
<1>2. res \in [Stripe -> Contents]
  <2> HIDE DEF op
  <2> QED BY <1>1, StoredType, OpFields
<1>3. new \in Op
  <2> HIDE DEF op, res
  <2> QED BY <1>1, <1>2 DEF Op
<1>4. waiting_reads' = [waiting_reads EXCEPT ![i] = new]
  BY DEF ReadDone
<1>5. waiting_reads' \in Seq(Op)
  <2> HIDE DEF new
  <2> QED BY <1>1, <1>3, <1>4, ExceptSeq
<1> QED BY <1>5 DEF ReadDone, TypeOK, shards, WrittenType

(* The message that carries an operation. *)
LEMMA SubWriteIs ==
  ASSUME NEW op \in Op, NEW m, m = SubWrite(op)
  PROVE  /\ m \in Message /\ m.version = op.version /\ m.roll_forward_to = op.roll_forward_to
         /\ ~ m.log_update
BY OpFields DEF SubWrite, Message

(* The message that carries an entry past the pipeline. *)
LEMMA UpdateLogMissingIs ==
  ASSUME NEW v \in Version, NEW m, m = UpdateLogMissing(v)
  PROVE  m \in Message /\ m.version = v /\ m.roll_forward_to = 0 /\ m.log_update
BY DEF UpdateLogMissing, Message

(* What generate_transactions() makes for the stripes of an operation. *)
LEMMA GenerateType ==
  ASSUME TypeOK, DOMAIN written = Version, NEW op \in Op, op.version \in Version
  PROVE  /\ Generate(op) \in [op.plan.will_write -> Contents]
         /\ Generate(op) \in WrittenType
<1>1. \A x \in op.plan.will_write :
        {op.version} \union
          (IF x \notin op.plan.to_read THEN NoContents
           ELSE IF x \in op.pending_read THEN cache[x].bl
           ELSE op.remote_read_result[x]) \in Contents
  BY Types, OpFields DEF NoContents, Contents
<1>2. op.plan.will_write \in SUBSET Stripe BY OpFields
<1> HIDE DEF Contents
<1>3. Generate(op) \in [op.plan.will_write -> Contents]
  BY <1>1 DEF Generate
<1> QED BY <1>2, <1>3 DEF WrittenType

(* The operation that try_reads_to_commit() moves on. *)
Committing(op) ==
  [op EXCEPT !.pending_read = {}, !.remote_read = {}, !.read_done = FALSE,
             !.remote_read_result = [x \in Stripe |-> NoContents],
             !.pending_commit = Shard]

(* An operation that is sent is still an operation. *)
LEMMA CommittingIs ==
  ASSUME NEW op \in Op, NEW new, new = Committing(op)
  PROVE  /\ new \in Op
         /\ new.version = op.version /\ new.plan = op.plan /\ new.pending_commit = Shard
         /\ new.roll_forward_to = op.roll_forward_to /\ new.on_write = op.on_write
         /\ new.using_cache <=> op.using_cache
<1>1. [x \in Stripe |-> NoContents] \in [Stripe -> Contents] BY DEF NoContents, Contents
<1> QED BY <1>1 DEF Committing, Op

(* try_reads_to_commit() keeps the types. *)
LEMMA TypeReadsToCommit ==
  ASSUME TypeOK, DOMAIN written = Version, TryReadsToCommit, Dummy
  PROVE  TypeOK' /\ DOMAIN written' = Version
<1> USE Types
<1> DEFINE op == Head(waiting_reads)
           update == Generate(op)
<1>1. waiting_reads # <<>> BY DEF TryReadsToCommit, ReadsCanMove
<1>2. op \in Op /\ Tail(waiting_reads) \in Seq(Op) BY <1>1, SplitHead
<1>3. /\ waiting_reads' = Tail(waiting_reads)
      /\ waiting_commit' = Append(waiting_commit, Committing(op))
      /\ cache' = IF op.using_cache THEN Presented(update) ELSE cache
      /\ written' = IF op.version = 0 THEN written ELSE [written EXCEPT ![op.version] = update]
      /\ SendToAll(SubWrite(op))
      /\ ok' \in BOOLEAN
      /\ UNCHANGED <<waiting_state, cache_valid, committed_to, log_update, plan, acked,
                     intervals>>
  BY DEF TryReadsToCommit, Committing
<1>4. waiting_commit' \in Seq(Op)
  BY <1>2, <1>3, CommittingIs, AppendProperties
<1>5. /\ inbox' \in [Shard -> Seq(Message)] /\ unanswered' \in [Shard -> Seq(Message)]
      /\ log' \in [Shard -> Seq(Version)]
      /\ can_rollback_to' \in [Shard -> {0} \union Version]
  BY <1>2, <1>3, SubWriteIs, SendToAllTypes
<1>6. cache' \in [Stripe -> [pin : {NoPin} \union Version, pending : BOOLEAN, bl : Contents]]
  <2>1. CASE op.using_cache
    <3>1. op.version # 0
      BY <1>1, <2>1, SplitHead DEF Dummy
    <3>2. update \in [op.plan.will_write -> Contents] /\ op.version \in Version
          /\ op.plan.will_write \in SUBSET Stripe
      BY <1>2, <3>1, OpFields, GenerateType
    <3> HIDE DEF op, update
    <3> QED BY <1>3, <2>1, <3>2, CacheTypes
  <2> QED BY <1>3, <2>1
<1>7. DOMAIN written' = Version /\ \A v \in Version : written'[v] \in WrittenType
  <2>1. op.version # 0 => op.version \in Version /\ update \in WrittenType
    BY <1>2, OpFields, GenerateType
  <2> HIDE DEF op, update
  <2> QED BY <1>3, <2>1
<1> HIDE DEF op, update
<1>8. \A v \in Version : \E w \in SUBSET Stripe : written'[v] \in [w -> Contents]
  BY <1>7 DEF WrittenType
<1>9. \A list \in {waiting_state', waiting_reads', waiting_commit'} : list \in Seq(Op)
  BY <1>2, <1>3, <1>4
<1> QED BY <1>3, <1>5, <1>6, <1>7, <1>8, <1>9 DEF TypeOK

(* The callbacks at the end of try_reads_to_commit() keep the types. *)
LEMMA TypeRunOnWrite ==
  ASSUME TypeOK, DOMAIN written = Version, RunOnWrite
  PROVE  TypeOK' /\ DOMAIN written' = Version
<1> USE Types
<1> DEFINE n == Len(waiting_commit)
           op == waiting_commit[n]
           v == Head(op.on_write)
           new == [op EXCEPT !.on_write = Tail(op.on_write)]
<1>1. waiting_commit # <<>> /\ op.on_write # <<>> BY DEF RunOnWrite, OnWriteDue
<1>2. n \in 1 .. Len(waiting_commit) /\ op \in Op
  BY <1>1, LenProperties, EmptySeq, ElementOfSeq
<1>3. v \in Version /\ Tail(op.on_write) \in Seq(Version)
  BY <1>1, <1>2, OpFields, SplitHead
<1>4. new \in Op
  <2> HIDE DEF op
  <2> QED BY <1>2, <1>3 DEF Op
<1>5. waiting_commit' = [waiting_commit EXCEPT ![n] = new] /\ UpdateLogs(v)
  BY DEF RunOnWrite
<1>6. waiting_commit' \in Seq(Op)
  <2> HIDE DEF new
  <2> QED BY <1>2, <1>4, <1>5, ExceptSeq
<1> HIDE DEF n, op, v, new
<1>7. /\ inbox' \in [Shard -> Seq(Message)] /\ unanswered' \in [Shard -> Seq(Message)]
      /\ log' \in [Shard -> Seq(Version)]
      /\ can_rollback_to' \in [Shard -> {0} \union Version]
  BY <1>3, <1>5, UpdateLogMissingIs, SendToAllTypes DEF UpdateLogs
<1>8. log_update' \in [Version -> SUBSET Shard] /\ ok' \in BOOLEAN
  BY <1>3, <1>5 DEF UpdateLogs, LogUpdateWaitsOn, InOrder
<1> QED BY <1>6, <1>7, <1>8 DEF RunOnWrite, TypeOK, WrittenType

(* try_finish_rmw() keeps the types, the dummy included. *)
LEMMA TypeFinish ==
  ASSUME TypeOK, DOMAIN written = Version, TryFinishRmw
  PROVE  TypeOK' /\ DOMAIN written' = Version
<1> USE Types
<1> DEFINE op == Head(waiting_commit)
           new == NewOp(0, NoPlan, op.version)
<1>1. waiting_commit # <<>> BY DEF TryFinishRmw, CommitCanMove
<1>2. op \in Op /\ Tail(waiting_commit) \in Seq(Op) BY <1>1, SplitHead
<1>3. /\ waiting_commit' = Tail(waiting_commit)
      /\ committed_to' = Maximum({committed_to, op.version})
      /\ waiting_reads' = <<new>> \/ waiting_reads' = waiting_reads
      /\ cache' = IF op.using_cache THEN Released(op.version) ELSE cache
      /\ cache_valid' \in BOOLEAN
      /\ UNCHANGED <<waiting_state, log_update, plan, shards, acked, intervals, ok>>
  BY DEF TryFinishRmw
<1>4. new \in Op /\ op.version \in {0} \union Version
  <2>1. op.version \in {0} \union Version BY <1>2, OpFields
  <2>2. PICK z \in {0} \union Version : new = NewOp(z, NoPlan, op.version) OBVIOUS
  <2> HIDE DEF op, new
  <2>3. NoPlan \in WritePlan BY NoPlanIsPlan
  <2>4. \A a \in {0} \union Version, b \in WritePlan, c \in {0} \union Version : NewOp(a, b, c) \in Op
    BY NewOpIs
  <2> QED BY <2>1, <2>2, <2>3, <2>4, Zenon
<1>5. <<new>> \in Seq(Op)
  <2> HIDE DEF new
  <2> QED BY <1>4
<1>6. committed_to' \in {0} \union Version
  BY <1>3, <1>4, LargerOfTwo
<1>7. cache' \in [Stripe -> [pin : {NoPin} \union Version, pending : BOOLEAN, bl : Contents]]
  <2>1. NoContents \in Contents BY DEF NoContents, Contents
  <2> HIDE DEF op, new
  <2> QED BY <1>3, <2>1 DEF Released, Absent, NoPin
<1> HIDE DEF op, new
<1> QED BY <1>2, <1>3, <1>5, <1>6, <1>7 DEF TypeOK, shards, WrittenType

(* A shard that takes a message keeps the types. *)
LEMMA TypeHandleMessage ==
  ASSUME TypeOK, DOMAIN written = Version, NEW s \in Shard, HandleMessage(s)
  PROVE  TypeOK' /\ DOMAIN written' = Version
<1> USE Types
<1> DEFINE m == Head(inbox[s])
<1>1. m \in Message /\ Tail(inbox[s]) \in Seq(Message)
  BY SplitHead DEF HandleMessage
<1>2. /\ log' = [log EXCEPT ![s] = @ \o Entries(m)]
      /\ can_rollback_to' = [can_rollback_to EXCEPT ![s] = Maximum({@, m.roll_forward_to})]
      /\ unanswered' = [unanswered EXCEPT ![s] = Append(@, m)]
      /\ inbox' = [inbox EXCEPT ![s] = Tail(@)]
      /\ ok' \in BOOLEAN
      /\ UNCHANGED <<waiting_state, waiting_reads, waiting_commit, cache_valid, cache,
                     committed_to, log_update, plan, written, acked, intervals>>
  BY DEF HandleMessage, Handled
<1> HIDE DEF m
<1>3. Entries(m) \in Seq(Version)
  BY <1>1, EmptySeq DEF Entries, Message
<1>4. log[s] \o Entries(m) \in Seq(Version)
  BY <1>3, ConcatProperties
<1>5. Maximum({can_rollback_to[s], m.roll_forward_to}) \in {0} \union Version
  BY <1>1, LargerOfTwo DEF Message
<1>6. Append(unanswered[s], m) \in Seq(Message)
  BY <1>1, AppendProperties
<1> QED BY <1>1, <1>2, <1>4, <1>5, <1>6 DEF TypeOK, WrittenType

(* An answer of a shard keeps the types. *)
LEMMA TypeReply ==
  ASSUME TypeOK, DOMAIN written = Version, Answers, NEW s \in Shard, HandleReply(s)
  PROVE  TypeOK' /\ DOMAIN written' = Version
<1> USE Types
<1> DEFINE m == Head(unanswered[s])
<1>1. m \in Message /\ Tail(unanswered[s]) \in Seq(Message)
  BY SplitHead DEF HandleReply
<1>2. m.version \in {0} \union Version
  BY <1>1 DEF Message
<1>3. m.log_update => m.version \in Version
  BY <1>2, StreamIs DEF Answers, HandleReply
<1>4. unanswered' \in [Shard -> Seq(Message)]
  BY <1>1 DEF HandleReply
<1> HIDE DEF m
<1>5. CASE SubWriteReply(s, m)
  <2> DEFINE mine == {i \in DOMAIN waiting_commit : waiting_commit[i].version = m.version}
             i == Minimum(mine)
             left == waiting_commit[i].pending_commit \ {s}
             new == [waiting_commit[i] EXCEPT !.pending_commit = left]
  <2>1. mine # {} => i \in 1 .. Len(waiting_commit) /\ waiting_commit[i] \in Op
    <3>1. mine \in SUBSET Nat /\ mine \subseteq 1 .. Len(waiting_commit) BY LenProperties
    <3>2. mine # {} => Minimum(mine) \in mine
      <4> HIDE DEF mine
      <4> QED BY <3>1, MinimumIs
    <3> QED BY <3>1, <3>2, ElementOfSeq
  <2>2. mine # {} => new \in Op
    <3> HIDE DEF mine, i
    <3> QED BY <2>1, OpFields DEF Op
  <2>3. waiting_commit' = IF mine = {} THEN waiting_commit ELSE [waiting_commit EXCEPT ![i] = new]
    BY <1>5 DEF SubWriteReply
  <2>4. acked' \subseteq Version /\ ok' \in BOOLEAN /\ UNCHANGED log_update
    BY <1>2, <1>5 DEF SubWriteReply
  <2>5. waiting_commit' \in Seq(Op)
    <3> HIDE DEF mine, i, new
    <3> QED BY <2>1, <2>2, <2>3, ExceptSeq
  <2> QED BY <1>4, <2>4, <2>5 DEF HandleReply, TypeOK, WrittenType
<1>6. CASE LogUpdateReply(s, m)
  <2>1. m.version \in Version BY <1>3, <1>6 DEF LogUpdateReply
  <2>2. /\ log_update' \in [Version -> SUBSET Shard] /\ acked' \subseteq Version
        /\ UNCHANGED <<waiting_commit, ok>>
    BY <1>6, <2>1 DEF LogUpdateReply
  <2> QED BY <1>4, <2>2 DEF HandleReply, TypeOK, WrittenType
<1> QED BY <1>5, <1>6 DEF HandleReply, m

(* The last entry of a log that is in order. *)
LEMMA LastUpdateIs ==
  ASSUME NEW l \in Seq(Version)
  PROVE  /\ LastUpdate(l) \in {0} \union Version
         /\ l = <<>> => LastUpdate(l) = 0
         /\ l # <<>> => LastUpdate(l) \in Elements(l)
         /\ Increasing(l) => \A u \in Elements(l) : u <= LastUpdate(l)
<1>1. /\ DOMAIN l = 1 .. Len(l) /\ Len(l) \in Nat /\ \A i \in 1 .. Len(l) : l[i] \in Version
      /\ l # <<>> => Len(l) \in 1 .. Len(l)
  BY LenProperties, EmptySeq
<1>2. ASSUME Increasing(l), NEW i \in DOMAIN l PROVE l[i] <= LastUpdate(l)
  <2>1. l # <<>> /\ Len(l) \in DOMAIN l /\ i <= Len(l) BY <1>1
  <2>2. i < Len(l) => l[i] < l[Len(l)] BY <1>2, <2>1 DEF Increasing
  <2>3. l[i] \in Nat /\ l[Len(l)] \in Nat BY <1>1, <2>1, VersionIsNat
  <2>4. LastUpdate(l) = l[Len(l)] BY <2>1 DEF LastUpdate
  <2> QED BY <1>1, <2>1, <2>2, <2>3, <2>4
<1>3. Increasing(l) => \A u \in Elements(l) : u <= LastUpdate(l)
  BY <1>2 DEF Elements
<1> QED BY <1>1, <1>3 DEF LastUpdate, Elements

(* The shortest log at the end of an interval. *)
NewHead == Minimum({LastUpdate(log[s]) : s \in Shard})

(* The head that peering chooses is that of some shard's log, and of no longer one. *)
LEMMA NewHeadIs ==
  ASSUME TypeOK, DOMAIN written = Version
  PROVE  /\ NewHead \in {0} \union Version
         /\ \E s \in Shard : NewHead = LastUpdate(log[s])
         /\ \A s \in Shard : NewHead <= LastUpdate(log[s])
<1> DEFINE H == {LastUpdate(log[s]) : s \in Shard}
<1>1. \A s \in Shard : LastUpdate(log[s]) \in {0} \union Version
  BY Types, LastUpdateIs
<1>2. H # {} /\ H \subseteq {0} \union Version BY <1>1, ShardAssumption
<1>3. H \in SUBSET Nat
  <2> HIDE DEF H
  <2> QED BY <1>2, VersionIsNat
<1>4. NewHead \in H /\ \A k \in H : NewHead <= k
  <2> HIDE DEF H
  <2>1. NewHead = Minimum(H) BY DEF H, NewHead
  <2> QED BY <1>2, <1>3, <2>1, MinimumIs, Zenon
<1> QED BY <1>2, <1>4

(* What is left of a log that is cut. *)
LEMMA UpToIs ==
  ASSUME NEW l \in Seq(Version), NEW h \in {0} \union Version
  PROVE  /\ UpTo(l, h) \in Seq(Version) /\ LastUpTo(l, h) \in 0 .. Len(l)
         /\ Len(UpTo(l, h)) = LastUpTo(l, h)
         /\ DOMAIN UpTo(l, h) = 1 .. LastUpTo(l, h)
         /\ \A i \in 1 .. LastUpTo(l, h) : UpTo(l, h)[i] = l[i]
         /\ \A i \in DOMAIN l : l[i] <= h => i <= LastUpTo(l, h)
         /\ LastUpTo(l, h) # 0 => l[LastUpTo(l, h)] <= h
<1> DEFINE S == {0} \union {i \in DOMAIN l : l[i] <= h}
           n == LastUpTo(l, h)
<1>1. /\ DOMAIN l = 1 .. Len(l) /\ Len(l) \in Nat /\ \A i \in 1 .. Len(l) : l[i] \in Version
  BY LenProperties
<1>2. S # {} /\ S \in SUBSET (0 .. Len(l)) BY <1>1
<1>3. n \in S /\ \A k \in S : k <= n
  <2>1. n = Maximum(S) BY DEF LastUpTo
  <2> HIDE DEF S, n
  <2> QED BY <1>1, <1>2, <2>1, MaximumIs
<1>4. n \in 0 .. Len(l) /\ (n # 0 => l[n] <= h) BY <1>1, <1>3
<1> HIDE DEF n
<1>5. UpTo(l, h) = SubSeq(l, 1, n) BY DEF UpTo, n
<1>6. /\ SubSeq(l, 1, n) \in Seq(Version) /\ Len(SubSeq(l, 1, n)) = n
      /\ \A i \in 1 .. n : SubSeq(l, 1, n)[i] = l[i]
  BY <1>1, <1>4, SubSeqProperties
<1>7. DOMAIN SubSeq(l, 1, n) = 1 .. n BY <1>6, LenProperties
<1> QED BY <1>3, <1>4, <1>5, <1>6, <1>7 DEF n

(* on_change() and the peering that follows keep the types. *)
LEMMA TypeOnChange ==
  ASSUME TypeOK, DOMAIN written = Version, OnChange
  PROVE  TypeOK' /\ DOMAIN written' = Version
<1> USE Types
<1>1. /\ intervals < MaxInterval /\ intervals' = intervals + 1
      /\ waiting_state' = <<>> /\ waiting_reads' = <<>> /\ waiting_commit' = <<>>
      /\ cache_valid' = TRUE /\ cache' = CacheAfterChange /\ committed_to' = 0
      /\ log_update' = [v \in Version |-> {}]
      /\ inbox' = [s \in Shard |-> <<>>] /\ unanswered' = [s \in Shard |-> <<>>]
      /\ log' = [s \in Shard |-> UpTo(log[s], NewHead)]
      /\ can_rollback_to' = [s \in Shard |-> NewHead]
      /\ acked' = acked \union {v \in Elements(log[Primary]) : v <= NewHead}
      /\ ok' \in BOOLEAN
      /\ UNCHANGED <<plan, written>>
  BY DEF OnChange, NewHead
<1>2. NewHead \in {0} \union Version BY NewHeadIs
<1>3. Elements(log[Primary]) \subseteq Version BY ElementsAre, ShardAssumption
<1>4. cache' \in [Stripe -> [pin : {NoPin} \union Version, pending : BOOLEAN, bl : Contents]]
  BY <1>1 DEF CacheAfterChange, Absent, NoPin, NoContents, Contents
<1>5. log' \in [Shard -> Seq(Version)] BY <1>1, <1>2, UpToIs
<1>6. intervals' \in 0 .. MaxInterval BY <1>1, BoundAssumption
<1>7. <<>> \in Seq(Op) /\ <<>> \in Seq(Message) BY EmptySeq
<1>8. inbox' \in [Shard -> Seq(Message)] /\ unanswered' \in [Shard -> Seq(Message)]
  BY <1>1, <1>7
<1>9. \A list \in {waiting_state', waiting_reads', waiting_commit'} : list \in Seq(Op)
  BY <1>1, <1>7
<1>10. /\ log_update' \in [Version -> SUBSET Shard] /\ can_rollback_to' \in [Shard -> {0} \union Version]
       /\ acked' \subseteq Version /\ committed_to' \in {0} \union Version
  BY <1>1, <1>2, <1>3
<1> QED BY <1>1, <1>4, <1>5, <1>6, <1>8, <1>9, <1>10 DEF TypeOK

-----------------------------------------------------------------------------
(* Versions in lists of messages and of operations *)

(* The versions that a longer or a shorter list carries. *)
LEMMA CarriedIs ==
  ASSUME NEW S, NEW q \in Seq(S)
  PROVE  /\ \A e \in S : Carried(Append(q, e)) = Carried(q) \union ({e.version} \ {0})
         /\ q # <<>> => Carried(q) = ({Head(q).version} \ {0}) \union Carried(Tail(q))
         /\ Carried(<<>>) = {}
<1>1. ASSUME NEW e \in S PROVE Carried(Append(q, e)) = Carried(q) \union ({e.version} \ {0})
  <2> DEFINE r == Append(q, e)
  <2>1. /\ DOMAIN q = 1 .. Len(q) /\ DOMAIN r = 1 .. Len(q) + 1 /\ Len(q) \in Nat
        /\ \A i \in DOMAIN q : r[i] = q[i]
        /\ r[Len(q) + 1] = e
    BY SplitLast
  <2> HIDE DEF r
  <2>2. \A x : x \in Carried(r) <=> x \in Carried(q) \/ (x = e.version /\ x # 0)
    BY <2>1 DEF Carried
  <2> QED BY <2>2 DEF r
<1>2. ASSUME q # <<>> PROVE Carried(q) = ({Head(q).version} \ {0}) \union Carried(Tail(q))
  <2> DEFINE r == Tail(q)
  <2>1. /\ Len(q) \in Nat \ {0}
        /\ 1 \in DOMAIN q /\ q[1] = Head(q)
        /\ DOMAIN q = 1 .. Len(q) /\ DOMAIN r = 1 .. Len(q) - 1
        /\ \A i \in DOMAIN r : r[i] = q[i + 1] /\ i + 1 \in DOMAIN q
    BY <1>2, SplitHead
  <2> HIDE DEF r
  <2>2. ASSUME NEW x \in Carried(q), x # Head(q).version PROVE x \in Carried(r)
    <3>1. PICK i \in DOMAIN q : x = q[i].version /\ x # 0 BY <2>2 DEF Carried
    <3>2. i - 1 \in DOMAIN r /\ r[i - 1] = q[i]
      BY <2>1, <2>2, <3>1
    <3> QED BY <3>1, <3>2 DEF Carried
  <2>3. Carried(r) \subseteq Carried(q)
    BY <2>1 DEF Carried
  <2>4. Head(q).version # 0 => Head(q).version \in Carried(q)
    BY <2>1 DEF Carried
  <2>5. 0 \notin Carried(q) BY DEF Carried
  <2> QED BY <2>2, <2>3, <2>4, <2>5 DEF r
<1>3. Carried(<<>>) = {}
  BY DEF Carried
<1> QED BY <1>1, <1>2, <1>3

(* A list in the order of versions stays so without its head, and with an
   element at the end that is newer than the others. *)
LEMMA VersionOrder ==
  ASSUME NEW S, NEW q \in Seq(S), InVersionOrder(q)
  PROVE  /\ q # <<>> => /\ InVersionOrder(Tail(q))
                        /\ \A i \in DOMAIN Tail(q) :
                             /\ Tail(q)[i].version # Head(q).version
                             /\ Tail(q)[i].version # 0 => Head(q).version < Tail(q)[i].version
         /\ \A e \in S :
              (\A i \in DOMAIN q : /\ q[i].version # e.version
                                   /\ e.version # 0 => q[i].version < e.version)
              => InVersionOrder(Append(q, e))
<1>1. ASSUME q # <<>>
      PROVE  /\ InVersionOrder(Tail(q))
             /\ \A i \in DOMAIN Tail(q) :
                  /\ Tail(q)[i].version # Head(q).version
                  /\ Tail(q)[i].version # 0 => Head(q).version < Tail(q)[i].version
  <2> DEFINE r == Tail(q)
  <2>1. /\ Len(q) \in Nat \ {0}
        /\ 1 \in DOMAIN q /\ q[1] = Head(q)
        /\ DOMAIN q = 1 .. Len(q) /\ DOMAIN r = 1 .. Len(q) - 1
        /\ \A i \in DOMAIN r : r[i] = q[i + 1] /\ i + 1 \in DOMAIN q
    BY <1>1, SplitHead
  <2> HIDE DEF r
  <2>2. InVersionOrder(r)
    <3> SUFFICES ASSUME NEW i \in DOMAIN r, NEW j \in DOMAIN r, i < j
                 PROVE  r[i].version # r[j].version /\ (r[j].version # 0 => r[i].version < r[j].version)
      BY DEF InVersionOrder
    <3>1. i + 1 \in DOMAIN q /\ j + 1 \in DOMAIN q /\ i + 1 < j + 1 /\ r[i] = q[i + 1] /\ r[j] = q[j + 1]
      BY <2>1
    <3> QED BY <3>1 DEF InVersionOrder
  <2>3. ASSUME NEW i \in DOMAIN r
        PROVE  r[i].version # Head(q).version /\ (r[i].version # 0 => Head(q).version < r[i].version)
    <3>1. i + 1 \in DOMAIN q /\ 1 \in DOMAIN q /\ 1 < i + 1 /\ r[i] = q[i + 1] /\ q[1] = Head(q)
      BY <2>1
    <3> QED BY <3>1 DEF InVersionOrder
  <2> QED BY <2>2, <2>3 DEF r
<1>2. ASSUME NEW e \in S,
             \A i \in DOMAIN q : q[i].version # e.version /\ (e.version # 0 => q[i].version < e.version)
      PROVE  InVersionOrder(Append(q, e))
  <2> DEFINE r == Append(q, e)
  <2>1. /\ DOMAIN q = 1 .. Len(q) /\ DOMAIN r = 1 .. Len(q) + 1 /\ Len(q) \in Nat
        /\ \A i \in DOMAIN q : r[i] = q[i]
        /\ r[Len(q) + 1] = e
    BY SplitLast
  <2> HIDE DEF r
  <2>2. ASSUME NEW i \in DOMAIN r, NEW j \in DOMAIN r, i < j
        PROVE  r[i].version # r[j].version /\ (r[j].version # 0 => r[i].version < r[j].version)
    <3>1. i \in DOMAIN q /\ r[i] = q[i] BY <2>1, <2>2
    <3>2. CASE j \in DOMAIN q BY <2>1, <2>2, <3>1, <3>2 DEF InVersionOrder
    <3>3. CASE j = Len(q) + 1 BY <1>2, <2>1, <3>1, <3>3
    <3> QED BY <2>1, <3>2, <3>3
  <2> QED BY <2>2 DEF r, InVersionOrder
<1> QED BY <1>1, <1>2

(* The same for the versions themselves. *)
LEMMA IncreasingIs ==
  ASSUME NEW q \in Seq(Version), Increasing(q)
  PROVE  /\ q # <<>> => /\ Increasing(Tail(q))
                        /\ \A u \in Elements(Tail(q)) : Head(q) < u
         /\ \A e \in Version : (\A u \in Elements(q) : u < e) => Increasing(Append(q, e))
<1>1. ASSUME q # <<>>
      PROVE  Increasing(Tail(q)) /\ \A u \in Elements(Tail(q)) : Head(q) < u
  <2> DEFINE r == Tail(q)
  <2>1. /\ Len(q) \in Nat \ {0}
        /\ 1 \in DOMAIN q /\ q[1] = Head(q)
        /\ DOMAIN q = 1 .. Len(q) /\ DOMAIN r = 1 .. Len(q) - 1
        /\ \A i \in DOMAIN r : r[i] = q[i + 1] /\ i + 1 \in DOMAIN q
    BY <1>1, SplitHead
  <2> HIDE DEF r
  <2>2. ASSUME NEW i \in DOMAIN r, NEW j \in DOMAIN r, i < j PROVE r[i] < r[j]
    <3>1. i + 1 \in DOMAIN q /\ j + 1 \in DOMAIN q /\ i + 1 < j + 1 /\ r[i] = q[i + 1] /\ r[j] = q[j + 1]
      BY <2>1, <2>2
    <3> QED BY <3>1 DEF Increasing
  <2>3. ASSUME NEW i \in DOMAIN r PROVE Head(q) < r[i]
    <3>1. i + 1 \in DOMAIN q /\ 1 \in DOMAIN q /\ 1 < i + 1 /\ r[i] = q[i + 1] /\ q[1] = Head(q)
      BY <2>1
    <3> QED BY <3>1 DEF Increasing
  <2> QED BY <2>2, <2>3 DEF r, Increasing, Elements
<1>2. ASSUME NEW e \in Version, \A u \in Elements(q) : u < e PROVE Increasing(Append(q, e))
  <2> DEFINE r == Append(q, e)
  <2>1. /\ DOMAIN q = 1 .. Len(q) /\ DOMAIN r = 1 .. Len(q) + 1 /\ Len(q) \in Nat
        /\ \A i \in DOMAIN q : r[i] = q[i]
        /\ r[Len(q) + 1] = e
    BY SplitLast
  <2> HIDE DEF r
  <2>2. ASSUME NEW i \in DOMAIN r, NEW j \in DOMAIN r, i < j PROVE r[i] < r[j]
    <3>1. i \in DOMAIN q /\ r[i] = q[i] BY <2>1, <2>2
    <3>2. CASE j \in DOMAIN q BY <2>1, <2>2, <3>1, <3>2 DEF Increasing
    <3>3. CASE j = Len(q) + 1 BY <1>2, <2>1, <3>1, <3>3 DEF Elements
    <3> QED BY <2>1, <3>2, <3>3
  <2> QED BY <2>2 DEF r, Increasing
<1> QED BY <1>1, <1>2

(* The versions of a stream are those its shard has handled and those it has not. *)
LEMMA CarriedByStream ==
  ASSUME TypeOK, DOMAIN written = Version, NEW s \in Shard
  PROVE  /\ Carried(inbox[s]) \subseteq Carried(Stream(s))
         /\ Carried(unanswered[s]) \subseteq Carried(Stream(s))
         /\ Carried(Stream(s)) \subseteq Version
<1> DEFINE q == Stream(s)  a == unanswered[s]  b == inbox[s]
<1>1. /\ q \in Seq(Message)
      /\ \A i \in DOMAIN a : i \in DOMAIN q /\ q[i] = a[i]
      /\ \A i \in DOMAIN b : Len(a) + i \in DOMAIN q /\ q[Len(a) + i] = b[i]
  BY StreamIs
<1> HIDE DEF q, a, b
<1>2. \A i \in DOMAIN q : q[i] \in Message BY <1>1, LenProperties
<1>3. \A i \in DOMAIN q : q[i].version \in {0} \union Version BY <1>2 DEF Message
<1>4. Carried(q) \subseteq Version BY <1>3 DEF Carried
<1>5. Carried(a) \subseteq Carried(q) BY <1>1 DEF Carried
<1>6. Carried(b) \subseteq Carried(q) BY <1>1 DEF Carried
<1> QED BY <1>4, <1>5, <1>6 DEF q, a, b

-----------------------------------------------------------------------------
(* The logs and streams of the shards *)

(* A log after a message. *)
LEMMA LogHandled ==
  ASSUME NEW l \in Seq(Version), NEW m \in Message, NEW r, r = l \o Entries(m)
  PROVE  /\ r \in Seq(Version)
         /\ Elements(r) = Elements(l) \union ({m.version} \ {0})
         /\ m.version = 0 => r = l
         /\ m.version # 0 => r = Append(l, m.version)
         /\ Increasing(l) /\ (m.version # 0 => \A u \in Elements(l) : u < m.version)
              => Increasing(r)
<1>1. m.version \in {0} \union Version BY DEF Message
<1>2. CASE m.version = 0
  <2>1. r = l BY <1>2, ConcatEmptySeq DEF Entries
  <2> QED BY <1>2, <2>1
<1>3. CASE m.version # 0
  <2>1. r = l \o <<m.version>> /\ m.version \in Version BY <1>1, <1>3 DEF Entries
  <2>2. Append(l, m.version) = l \o <<m.version>> BY <2>1, AppendIsConcat
  <2>3. r = Append(l, m.version) /\ r \in Seq(Version) BY <2>1, <2>2, AppendProperties
  <2>4. Elements(r) = Elements(l) \union {m.version}
    <3>1. \A e \in Version : Elements(Append(l, e)) = Elements(l) \union {e} BY ElementsAre
    <3> QED BY <2>1, <2>3, <3>1, Zenon
  <2>5. Increasing(l) /\ (\A u \in Elements(l) : u < m.version) => Increasing(r)
    BY <2>1, <2>3, IncreasingIs
  <2> QED BY <1>3, <2>3, <2>4, <2>5
<1> QED BY <1>2, <1>3

(* What Streams says of one shard. *)
StreamOK(s, st, in, l, pl) ==
  /\ Increasing(l)
  /\ InVersionOrder(st)
  /\ \A v \in Carried(in) : \A u \in Elements(l) : u < v
  /\ Elements(pl) = Elements(l) \union Carried(in)
  /\ Carried(st) \subseteq Elements(pl)
  /\ \A v \in Carried(st) : \A u \in Elements(pl) : v < u => u \in Carried(st)

(* The messages to a shard are the ones it handled and the ones it did not. *)
LEMMA StreamsAre ==
  Streams <=> /\ inbox[Primary] = <<>>
              /\ \A s \in Shard : StreamOK(s, Stream(s), inbox[s], log[s], log[Primary])
BY DEF Streams, StreamOK

(* A message that is newer than the log goes to all shards. *)
LEMMA StreamsSend ==
  ASSUME TypeOK, DOMAIN written = Version, Streams, NEW m \in Message, SendToAll(m),
         m.version # 0 => \A u \in Elements(log[Primary]) : u < m.version,
         m.version = 0 => \A s \in Shard : \A i \in DOMAIN Stream(s) : Stream(s)[i].version # 0
  PROVE  /\ Streams'
         /\ Elements(log'[Primary]) = Elements(log[Primary]) \union ({m.version} \ {0})
         /\ \A s \in Shard : /\ Stream(s)' = Append(Stream(s), m)
                             /\ Carried(Stream(s)') = Carried(Stream(s)) \union ({m.version} \ {0})
         /\ InOrder(Primary, m)
<1> DEFINE v == m.version
           pl == log[Primary]
           npl == pl \o Entries(m)
<1>1. /\ log \in [Shard -> Seq(Version)] /\ inbox \in [Shard -> Seq(Message)]
      /\ unanswered \in [Shard -> Seq(Message)] /\ Primary \in Shard
  BY Types, ShardAssumption
<1>2. /\ inbox[Primary] = <<>>
      /\ \A s \in Shard : StreamOK(s, Stream(s), inbox[s], log[s], log[Primary])
  BY StreamsAre
<1>3. /\ log' = [log EXCEPT ![Primary] = npl]
      /\ inbox' = [s \in Shard |-> IF s = Primary THEN inbox[s] ELSE Append(inbox[s], m)]
  BY DEF SendToAll, Handled
<1>4. \A s \in Shard : Stream(s)' = Append(Stream(s), m)
  BY <1>2, StreamSend
<1>5. /\ npl \in Seq(Version) /\ Elements(npl) = Elements(pl) \union ({v} \ {0})
      /\ (v # 0 => \A u \in Elements(pl) : u < v) /\ Increasing(pl) /\ Increasing(npl)
  <2>1. pl \in Seq(Version) BY <1>1
  <2>2. Increasing(pl) BY <1>1, <1>2 DEF StreamOK
  <2>3. v # 0 => \A u \in Elements(pl) : u < v OBVIOUS
  <2>4. npl = pl \o Entries(m) OBVIOUS
  <2> HIDE DEF pl, npl
  <2> QED BY <2>1, <2>2, <2>3, <2>4, LogHandled
<1>6. \A s \in Shard : Stream(s) \in Seq(Message) BY StreamIs
<1>7. ASSUME NEW s \in Shard
      PROVE  /\ StreamOK(s, Stream(s)', inbox'[s], log'[s], log'[Primary])
             /\ Carried(Stream(s)') = Carried(Stream(s)) \union ({v} \ {0})
  <2> DEFINE st == Stream(s)  nst == Append(st, m)
             in == inbox[s]   nin == inbox'[s]
             l == log[s]      nl == log'[s]
  <2>1. log'[Primary] = npl /\ Stream(s)' = nst BY <1>1, <1>3, <1>4
  <2>2. Carried(nst) = Carried(st) \union ({v} \ {0}) BY <1>6, CarriedIs
  <2>3. StreamOK(s, st, in, l, pl) BY <1>2
  <2>4. \A i \in DOMAIN st : st[i].version \in {0} \union Elements(pl)
    BY <2>3 DEF StreamOK, Carried
  <2>5. v \in {0} \union Version /\ Elements(pl) \subseteq Version
    BY <1>1, ElementsAre DEF Message
  <2>12. v \in Nat /\ \A u \in Elements(pl) : u \in Nat
    <3> HIDE DEF v, pl
    <3> QED BY <2>5, VersionsAreNat, Zenon
  <2>6. v # 0 => \A i \in DOMAIN st : st[i].version < v /\ st[i].version # v
    <3> HIDE DEF v, st, pl, npl
    <3> SUFFICES ASSUME v # 0, NEW i \in DOMAIN st PROVE st[i].version < v /\ st[i].version # v
      OBVIOUS
    <3>2. st[i].version \in Elements(pl) \/ st[i].version = 0 BY <2>4
    <3>3. st[i].version \in Elements(pl) => st[i].version < v BY <1>5
    <3>4. st[i].version \in Nat BY <2>12, <3>2
    <3> QED BY <2>12, <3>2, <3>3, <3>4
  <2>7. v = 0 => \A i \in DOMAIN st : st[i].version # v
    OBVIOUS
  <2>8. InVersionOrder(st) /\ st \in Seq(Message) BY <1>6, <2>3 DEF StreamOK
  <2> HIDE DEF st, v
  <2>9. InVersionOrder(nst) BY <2>6, <2>7, <2>8, VersionOrder DEF v
  <2> HIDE DEF nst, npl, pl, in, nin, l, nl
  <2>10. CASE s = Primary
    <3>1. nin = in /\ nl = npl /\ l = pl /\ in = <<>>
      BY <1>1, <1>2, <1>3, <2>10 DEF nin, in, nl, l, pl
    <3>2. Carried(in) = {}
      BY <3>1 DEF Carried
    <3> QED
      <4>1. StreamOK(s, nst, nin, nl, npl)
        <5>1. Increasing(nl) BY <1>5, <2>3, <3>1 DEF StreamOK
        <5>2. Carried(st) \subseteq Elements(pl) /\ Elements(pl) = Elements(l) \union Carried(in)
          BY <2>3 DEF StreamOK
        <5>3. Elements(npl) = Elements(nl) \union Carried(nin)
          BY <1>5, <3>1, <3>2, <5>2
        <5>4. \A w \in Carried(nin) : \A u \in Elements(nl) : u < w
          BY <1>5, <2>3, <3>1, <3>2, <5>2 DEF StreamOK
        <5>5. Carried(nst) \subseteq Elements(npl) BY <1>5, <2>2, <5>2
        <5>6. \A w \in Carried(nst) : \A u \in Elements(npl) : w < u => u \in Carried(nst)
          <6> SUFFICES ASSUME NEW w \in Carried(nst), NEW u \in Elements(npl), w < u
                       PROVE  u \in Carried(nst)
            OBVIOUS
          <6>1. CASE u \in {v} \ {0} BY <2>2, <6>1
          <6>2. CASE u \notin {v} \ {0}
            <7>1. u \in Elements(pl) BY <1>5, <6>2
            <7>2. w \notin {v} \ {0}
              <8>1. u \in Nat /\ v \in Nat BY <2>12, <7>1
              <8>2. v # 0 => u < v BY <1>5, <7>1
              <8> QED BY <8>1, <8>2
            <7> QED BY <2>2, <2>3, <7>1, <7>2 DEF StreamOK
          <6> QED BY <6>1, <6>2
        <5> QED BY <2>9, <5>1, <5>3, <5>4, <5>5, <5>6 DEF StreamOK
      <4> QED BY <2>1, <2>2, <4>1 DEF nin, nl, st
  <2>11. CASE s # Primary
    <3>1. nin = Append(in, m) /\ nl = l /\ in \in Seq(Message)
      BY <1>1, <1>3, <2>11 DEF nin, in, nl, l
    <3>2. Carried(nin) = Carried(in) \union ({v} \ {0})
      BY <3>1, CarriedIs DEF v
    <3> QED
      <4>1. StreamOK(s, nst, nin, nl, npl)
        <5>1. Increasing(nl) BY <1>5, <2>3, <3>1 DEF StreamOK
        <5>2. Carried(st) \subseteq Elements(pl) /\ Elements(pl) = Elements(l) \union Carried(in)
          BY <2>3 DEF StreamOK
        <5>3. Elements(npl) = Elements(nl) \union Carried(nin)
          BY <1>5, <3>1, <3>2, <5>2
        <5>4. \A w \in Carried(nin) : \A u \in Elements(nl) : u < w
          BY <1>5, <2>3, <3>1, <3>2, <5>2 DEF StreamOK
        <5>5. Carried(nst) \subseteq Elements(npl) BY <1>5, <2>2, <5>2
        <5>6. \A w \in Carried(nst) : \A u \in Elements(npl) : w < u => u \in Carried(nst)
          <6> SUFFICES ASSUME NEW w \in Carried(nst), NEW u \in Elements(npl), w < u
                       PROVE  u \in Carried(nst)
            OBVIOUS
          <6>1. CASE u \in {v} \ {0} BY <2>2, <6>1
          <6>2. CASE u \notin {v} \ {0}
            <7>1. u \in Elements(pl) BY <1>5, <6>2
            <7>2. w \notin {v} \ {0}
              <8>1. u \in Nat /\ v \in Nat BY <2>12, <7>1
              <8>2. v # 0 => u < v BY <1>5, <7>1
              <8> QED BY <8>1, <8>2
            <7> QED BY <2>2, <2>3, <7>1, <7>2 DEF StreamOK
          <6> QED BY <6>1, <6>2
        <5> QED BY <2>9, <5>1, <5>3, <5>4, <5>5, <5>6 DEF StreamOK
      <4> QED BY <2>1, <2>2, <4>1 DEF nin, nl, st
  <2> QED BY <2>10, <2>11
<1>8. InOrder(Primary, m)
  <2>1. Increasing(pl) /\ pl \in Seq(Version) BY <1>1, <1>5
  <2>2. pl # <<>> => LastUpdate(pl) \in Elements(pl) BY <2>1, LastUpdateIs
  <2>3. v \in {0} \union Version BY DEF Message
  <2>4. v # 0 => LastUpdate(pl) < v
    BY <1>5, <2>2, <2>3, VersionIsNat DEF LastUpdate
  <2> QED BY <2>4 DEF InOrder
<1>9. inbox'[Primary] = <<>> BY <1>1, <1>2, <1>3
<1>10. Streams' BY <1>7, <1>9 DEF Streams, StreamOK
<1> QED BY <1>1, <1>3, <1>4, <1>5, <1>7, <1>8, <1>10

(* A shard takes its next message: nothing changes in what is in its log or under way. *)
LEMMA StreamsHandle ==
  ASSUME TypeOK, DOMAIN written = Version, Streams, NEW t \in Shard, HandleMessage(t)
  PROVE  /\ Streams'
         /\ log'[Primary] = log[Primary] /\ t # Primary
         /\ \A s \in Shard : Stream(s)' = Stream(s) /\ Elements(log[s]) \subseteq Elements(log'[s])
         /\ InOrder(t, Head(inbox[t]))
<1> DEFINE m == Head(inbox[t])
           v == m.version
           in == inbox[t]  nin == Tail(in)
           l == log[t]     nl == l \o Entries(m)
<1>1. /\ log \in [Shard -> Seq(Version)] /\ inbox \in [Shard -> Seq(Message)]
      /\ unanswered \in [Shard -> Seq(Message)] /\ Primary \in Shard
  BY Types, ShardAssumption
<1>2. /\ inbox[Primary] = <<>>
      /\ \A s \in Shard : StreamOK(s, Stream(s), inbox[s], log[s], log[Primary])
  BY StreamsAre
<1>3. /\ inbox[t] # <<>>
      /\ log' = [log EXCEPT ![t] = nl]
      /\ inbox' = [inbox EXCEPT ![t] = nin]
  BY DEF HandleMessage, Handled
<1>4. t # Primary BY <1>2, <1>3
<1>5. \A s \in Shard : Stream(s)' = Stream(s) BY StreamHandle
<1>6. /\ in \in Seq(Message) /\ m \in Message /\ nin \in Seq(Message) /\ l \in Seq(Version)
      /\ v \in {0} \union Version /\ Elements(l) \subseteq Version
  <2>1. in \in Seq(Message) /\ l \in Seq(Version) BY <1>1
  <2>2. m \in Message /\ nin \in Seq(Message) BY <1>3, <2>1, SplitHead
  <2>3. v \in {0} \union Version BY <2>2 DEF Message
  <2>4. Elements(l) \subseteq Version BY <2>1, ElementsAre
  <2> QED BY <2>1, <2>2, <2>3, <2>4
<1>7. Carried(in) = ({v} \ {0}) \union Carried(nin)
  BY <1>3, <1>6, CarriedIs
<1>8. StreamOK(t, Stream(t), in, l, log[Primary]) BY <1>2
<1>9. InVersionOrder(in)
  <2> DEFINE q == Stream(t)  a == unanswered[t]
  <2>1. /\ q \in Seq(Message) /\ Len(a) \in Nat /\ DOMAIN in = 1 .. Len(in) /\ Len(in) \in Nat
        /\ \A i \in DOMAIN in : Len(a) + i \in DOMAIN q /\ q[Len(a) + i] = in[i]
    BY <1>1, StreamIs, LenProperties
  <2>2. InVersionOrder(q) BY <1>8 DEF StreamOK
  <2> HIDE DEF q, a, in
  <2> SUFFICES ASSUME NEW i \in DOMAIN in, NEW j \in DOMAIN in, i < j
               PROVE  in[i].version # in[j].version /\ (in[j].version # 0 => in[i].version < in[j].version)
    BY DEF InVersionOrder
  <2>3. Len(a) + i < Len(a) + j BY <2>1
  <2> QED BY <2>1, <2>2, <2>3 DEF InVersionOrder
<1>10. \A w \in Carried(nin) : v < w
  <2>1. \A i \in DOMAIN nin : nin[i].version # 0 => v < nin[i].version
    BY <1>3, <1>6, <1>9, VersionOrder
  <2> QED BY <2>1 DEF Carried
<1> HIDE DEF in, nin, l, nl
<1>11. v # 0 => \A u \in Elements(l) : u < v
  BY <1>7, <1>8 DEF StreamOK
<1>12. /\ nl \in Seq(Version) /\ Elements(nl) = Elements(l) \union ({v} \ {0}) /\ Increasing(nl)
  <2>1. Increasing(l) BY <1>8 DEF StreamOK
  <2> QED BY <1>6, <1>11, <2>1, LogHandled DEF nl
<1>13. StreamOK(t, Stream(t), nin, nl, log[Primary])
  <2>1. \A w \in Carried(nin) : \A u \in Elements(nl) : u < w
    BY <1>7, <1>8, <1>10, <1>12 DEF StreamOK
  <2>2. Elements(log[Primary]) = Elements(nl) \union Carried(nin)
    BY <1>7, <1>8, <1>12 DEF StreamOK
  <2> QED BY <1>8, <1>12, <2>1, <2>2 DEF StreamOK
<1>14. /\ log'[Primary] = log[Primary] /\ log'[t] = nl /\ inbox'[t] = nin
       /\ \A s \in Shard : s # t => log'[s] = log[s] /\ inbox'[s] = inbox[s]
  BY <1>1, <1>3, <1>4
<1>15. \A s \in Shard : StreamOK(s, Stream(s)', inbox'[s], log'[s], log'[Primary])
  <2> SUFFICES ASSUME NEW s \in Shard PROVE StreamOK(s, Stream(s)', inbox'[s], log'[s], log'[Primary])
    OBVIOUS
  <2>1. CASE s = t BY <1>5, <1>13, <1>14, <2>1
  <2>2. CASE s # t BY <1>2, <1>5, <1>14, <2>2
  <2> QED BY <2>1, <2>2
<1>16. Streams' BY <1>1, <1>2, <1>4, <1>14, <1>15 DEF Streams, StreamOK
<1>17. InOrder(t, m)
  <2>1. l # <<>> => LastUpdate(l) \in Elements(l) BY <1>6, LastUpdateIs
  <2>2. v # 0 => LastUpdate(l) < v
    <3>1. l = <<>> => LastUpdate(l) = 0 BY DEF LastUpdate
    <3>2. v \in Nat BY <1>6, VersionsAreNat, Zenon
    <3> QED BY <1>11, <2>1, <3>1, <3>2
  <2> QED BY <2>2 DEF InOrder, l
<1>18. \A s \in Shard : Elements(log[s]) \subseteq Elements(log'[s])
  BY <1>12, <1>14 DEF l
<1> QED BY <1>4, <1>5, <1>14, <1>16, <1>17, <1>18

(* An answer takes the oldest version from a stream. *)
LEMMA StreamsReply ==
  ASSUME TypeOK, DOMAIN written = Version, Streams, NEW t \in Shard, HandleReply(t)
  PROVE  LET m == Head(unanswered[t])
         IN  /\ Streams'
             /\ \A s \in Shard : s # t => Stream(s)' = Stream(s)
             /\ m \in Message /\ 1 \in DOMAIN Stream(t) /\ Stream(t)[1] = m
             /\ Carried(Stream(t)) = ({m.version} \ {0}) \union Carried(Stream(t)')
             /\ m.version \notin Carried(Stream(t)')
             /\ \A i \in DOMAIN Stream(t)' : /\ Stream(t)'[i] = Stream(t)[i + 1] /\ i + 1 \in DOMAIN Stream(t)
                                             /\ Stream(t)'[i].version # m.version
             /\ \A i \in DOMAIN Stream(t) : i = 1 \/ (i - 1 \in DOMAIN Stream(t)' /\ Stream(t)'[i - 1] = Stream(t)[i])
<1> DEFINE m == Head(unanswered[t])
           v == m.version
           st == Stream(t)  nst == Tail(st)
<1>1. /\ inbox[Primary] = <<>>
      /\ \A s \in Shard : StreamOK(s, Stream(s), inbox[s], log[s], log[Primary])
  BY StreamsAre
<1>2. /\ st # <<>> /\ Stream(t)' = nst /\ Head(st) = m
      /\ \A s \in Shard : s # t => Stream(s)' = Stream(s)
  BY StreamReply
<1>3. st \in Seq(Message) BY StreamIs
<1>4. StreamOK(t, st, inbox[t], log[t], log[Primary]) BY <1>1
<1>5. inbox' = inbox /\ log' = log BY DEF HandleReply
<1>10. \A u \in Elements(log[Primary]) : u \in Nat
  <2>1. Elements(log[Primary]) \subseteq Version BY Types, ElementsAre, ShardAssumption
  <2> QED BY <2>1, VersionsAreNat, Zenon
<1> HIDE DEF st, nst, m
<1>6. /\ m \in Message /\ nst \in Seq(Message)
      /\ Len(st) \in Nat \ {0} /\ 1 \in DOMAIN st /\ st[1] = m
      /\ DOMAIN st = 1 .. Len(st) /\ DOMAIN nst = 1 .. Len(st) - 1
      /\ \A i \in DOMAIN nst : nst[i] = st[i + 1] /\ i + 1 \in DOMAIN st
  BY <1>2, <1>3, SplitHead DEF nst
<1>7. Carried(st) = ({v} \ {0}) \union Carried(nst)
  BY <1>2, <1>3, CarriedIs DEF nst
<1>8. /\ InVersionOrder(nst)
      /\ \A i \in DOMAIN nst : nst[i].version # v /\ (nst[i].version # 0 => v < nst[i].version)
  BY <1>2, <1>3, <1>4, VersionOrder DEF nst, StreamOK
<1>9. v \notin Carried(nst) /\ \A w \in Carried(nst) : v < w
  BY <1>8 DEF Carried
<1>11. StreamOK(t, nst, inbox[t], log[t], log[Primary])
  <2>1. \A w \in Carried(nst) : \A u \in Elements(log[Primary]) : w < u => u \in Carried(nst)
    <3> SUFFICES ASSUME NEW w \in Carried(nst), NEW u \in Elements(log[Primary]), w < u
                 PROVE  u \in Carried(nst)
      OBVIOUS
    <3>1. u \in Carried(st) /\ w \in Elements(log[Primary]) BY <1>4, <1>7 DEF StreamOK
    <3>2. u \in Nat /\ w \in Nat /\ v < w BY <1>9, <1>10, <3>1
    <3>3. v \in {0} \union Version BY <1>6 DEF Message
    <3>4. v \in Nat BY <3>3, VersionsAreNat, Zenon
    <3>5. u # v BY <3>2, <3>4
    <3> QED BY <1>7, <3>1, <3>5
  <2> QED BY <1>4, <1>7, <1>8, <2>1 DEF StreamOK
<1>12. \A s \in Shard : StreamOK(s, Stream(s)', inbox'[s], log'[s], log'[Primary])
  BY <1>1, <1>2, <1>5, <1>11
<1>13. Streams' BY <1>1, <1>5, <1>12 DEF Streams, StreamOK
<1>14. \A i \in DOMAIN st : i = 1 \/ (i - 1 \in DOMAIN nst /\ nst[i - 1] = st[i])
  BY <1>6
<1> QED BY <1>2, <1>6, <1>7, <1>8, <1>9, <1>13, <1>14 DEF m, st

(* What is left of a log that is in order. *)
LEMMA UpToKeeps ==
  ASSUME NEW l \in Seq(Version), NEW h \in {0} \union Version, Increasing(l)
  PROVE  /\ Elements(UpTo(l, h)) = {u \in Elements(l) : u <= h}
         /\ Increasing(UpTo(l, h))
<1> DEFINE r == UpTo(l, h)  n == LastUpTo(l, h)
<1>1. /\ n \in 0 .. Len(l) /\ DOMAIN r = 1 .. n
      /\ \A i \in 1 .. n : r[i] = l[i]
      /\ \A i \in DOMAIN l : l[i] <= h => i <= n
      /\ n # 0 => l[n] <= h
      /\ DOMAIN l = 1 .. Len(l) /\ Len(l) \in Nat
      /\ \A i \in DOMAIN l : l[i] \in Version
  BY UpToIs, LenProperties
<1> HIDE DEF r, n
<1>2. h \in Nat /\ \A i \in DOMAIN l : l[i] \in Nat
  BY <1>1, VersionsAreNat
<1>3. ASSUME NEW i \in DOMAIN r PROVE i \in DOMAIN l /\ l[i] <= h
  <2>1. i \in DOMAIN l /\ n \in DOMAIN l /\ i <= n /\ n # 0 BY <1>1
  <2>2. i < n => l[i] < l[n] BY <2>1 DEF Increasing
  <2> QED BY <1>1, <1>2, <2>1, <2>2
<1>4. Elements(r) = {u \in Elements(l) : u <= h}
  BY <1>1, <1>3 DEF Elements
<1>5. Increasing(r)
  BY <1>1, <1>3 DEF Increasing
<1> QED BY <1>4, <1>5 DEF r

(* A change of the interval leaves the same log everywhere, with all that was
   reported, and no messages. *)
LEMMA StreamsChange ==
  ASSUME TypeOK, DOMAIN written = Version, Streams, Reported, OnChange
  PROVE  /\ Streams'
         /\ \A s \in Shard : Stream(s)' = <<>>
         /\ Elements(log'[Primary]) = {u \in Elements(log[Primary]) : u <= NewHead}
         /\ NewHead \in {0} \union Elements(log'[Primary])
         /\ \A u \in acked : u <= NewHead
<1>1. /\ log \in [Shard -> Seq(Version)] /\ Primary \in Shard /\ NewHead \in {0} \union Version
  BY Types, ShardAssumption, NewHeadIs
<1>2. /\ inbox[Primary] = <<>>
      /\ \A s \in Shard : StreamOK(s, Stream(s), inbox[s], log[s], log[Primary])
  BY StreamsAre
<1>3. /\ inbox' = [s \in Shard |-> <<>>] /\ unanswered' = [s \in Shard |-> <<>>]
      /\ log' = [s \in Shard |-> UpTo(log[s], NewHead)]
  BY DEF OnChange, NewHead
<1>4. \A s \in Shard : Stream(s)' = <<>>
  BY <1>3 DEF Stream
<1>5. \A s \in Shard : /\ Increasing(log[s]) /\ log[s] \in Seq(Version)
                       /\ \A u \in Elements(log[s]) : u <= LastUpdate(log[s])
                       /\ log[s] = <<>> => LastUpdate(log[s]) = 0
                       /\ log[s] # <<>> => LastUpdate(log[s]) \in Elements(log[s])
  BY <1>1, <1>2, LastUpdateIs DEF StreamOK
<1>6. \A s \in Shard : /\ Elements(log'[s]) = {u \in Elements(log[s]) : u <= NewHead}
                       /\ Increasing(log'[s])
  BY <1>1, <1>3, <1>5, UpToKeeps
<1>7. ASSUME NEW s \in Shard
      PROVE  /\ Elements(log[s]) \subseteq Elements(log[Primary])
             /\ \A u \in Elements(log[Primary]) : u <= NewHead => u \in Elements(log[s])
  <2>1. Elements(log[Primary]) = Elements(log[s]) \union Carried(inbox[s])
    BY <1>2 DEF StreamOK
  <2>2. ASSUME NEW u \in Carried(inbox[s]), u <= NewHead PROVE FALSE
    <3>1. NewHead <= LastUpdate(log[s]) BY NewHeadIs
    <3>2. u \in Version
      BY <2>1, <1>1, ElementsAre
    <3>3. u \in Nat /\ u # 0 /\ NewHead \in Nat BY <1>1, <3>2, VersionsAreNat
    <3>4. LastUpdate(log[s]) \in Nat BY <1>1, LastUpdateIs, VersionsAreNat
    <3>5. log[s] # <<>> BY <1>5, <2>2, <3>1, <3>3
    <3>6. LastUpdate(log[s]) < u BY <1>2, <1>5, <3>5 DEF StreamOK
    <3> QED BY <2>2, <3>1, <3>3, <3>4, <3>6
  <2> QED BY <2>1, <2>2
<1>8. \A s \in Shard : Elements(log'[s]) = Elements(log'[Primary])
  BY <1>1, <1>6, <1>7
<1>9. \A s \in Shard : StreamOK(s, <<>>, <<>>, log'[s], log'[Primary])
  <2>1. Carried(<<>>) = {} BY DEF Carried
  <2>2. InVersionOrder(<<>>) BY DEF InVersionOrder
  <2> QED BY <1>6, <1>8, <2>1, <2>2 DEF StreamOK
<1>10. Streams'
  BY <1>1, <1>3, <1>4, <1>9 DEF Streams, StreamOK
<1>11. NewHead \in {0} \union Elements(log'[Primary])
  <2>1. PICK s \in Shard : NewHead = LastUpdate(log[s]) BY NewHeadIs
  <2>2. NewHead \in Nat BY <1>1, VersionsAreNat
  <2>3. NewHead = 0 \/ NewHead \in Elements(log[Primary]) BY <1>5, <1>7, <2>1
  <2> QED BY <1>1, <1>6, <2>2, <2>3
<1>12. ASSUME NEW u \in acked PROVE u <= NewHead
  <2>1. PICK s \in Shard : NewHead = LastUpdate(log[s]) BY NewHeadIs
  <2>2. u \in Elements(log[Primary]) /\ u \notin Carried(Stream(s)) BY DEF Reported
  <2>3. u \in Elements(log[s])
    BY <1>2, <2>2, CarriedByStream DEF StreamOK
  <2> QED BY <1>5, <2>1, <2>3
<1> QED BY <1>1, <1>4, <1>6, <1>10, <1>11, <1>12

-----------------------------------------------------------------------------
(* The waiting lists *)

(* The future of an operation are versions. *)
LEMMA FutureIs ==
  /\ \A op \in Op : /\ Future(op) \subseteq Version /\ Elements(op.on_write) \subseteq Future(op)
                    /\ op.version # 0 => op.version \in Future(op)
  /\ \A list \in Seq(Op) : Futures(list) \subseteq Version
<1>1. ASSUME NEW op \in Op
      PROVE  /\ Future(op) \subseteq Version /\ Elements(op.on_write) \subseteq Future(op)
             /\ op.version # 0 => op.version \in Future(op)
  <2>1. Elements(op.on_write) \subseteq Version BY OpFields, ElementsAre
  <2>2. op.version \in {0} \union Version BY OpFields
  <2> QED BY <2>1, <2>2 DEF Future
<1>2. ASSUME NEW list \in Seq(Op) PROVE Futures(list) \subseteq Version
  <2>1. \A i \in DOMAIN list : list[i] \in Op BY LenProperties
  <2>2. \A i \in DOMAIN list : Future(list[i]) \subseteq Version BY <1>1, <2>1, Zenon
  <2> QED BY <2>2 DEF Futures
<1> QED BY <1>1, <1>2

(* An operation enters a list. *)
LEMMA QueueAppend ==
  ASSUME NEW list \in Seq(Op), NEW op \in Op, NEW r, r = Append(list, op)
  PROVE  /\ Futures(r) = Futures(list) \union Future(op)
         /\ /\ Queued(list) /\ Increasing(op.on_write)
            /\ \A u \in Elements(op.on_write) : op.version < u
            /\ Below(Futures(list), Future(op))
            => Queued(r)
<1>1. /\ DOMAIN list = 1 .. Len(list) /\ DOMAIN r = 1 .. Len(list) + 1 /\ Len(list) \in Nat
      /\ \A i \in DOMAIN list : r[i] = list[i]
      /\ r[Len(list) + 1] = op
  BY SplitLast
<1>2. \A u : u \in Futures(r) <=> u \in Futures(list) \/ u \in Future(op)
  BY <1>1 DEF Futures
<1>3. ASSUME Queued(list), Increasing(op.on_write),
             \A u \in Elements(op.on_write) : op.version < u,
             Below(Futures(list), Future(op))
      PROVE  Queued(r)
  <2>1. ASSUME NEW i \in DOMAIN r
        PROVE  Increasing(r[i].on_write) /\ \A u \in Elements(r[i].on_write) : r[i].version < u
    <3>1. CASE i \in DOMAIN list BY <1>1, <1>3, <3>1 DEF Queued
    <3>2. CASE i = Len(list) + 1 BY <1>1, <1>3, <3>2
    <3> QED BY <1>1, <3>1, <3>2
  <2>2. ASSUME NEW i \in DOMAIN r, NEW j \in DOMAIN r, i < j
        PROVE  Below(Future(r[i]), Future(r[j]))
    <3>1. i \in DOMAIN list /\ r[i] = list[i] BY <1>1, <2>2
    <3>2. CASE j \in DOMAIN list BY <1>1, <1>3, <2>2, <3>1, <3>2 DEF Queued
    <3>3. CASE j = Len(list) + 1 BY <1>1, <1>3, <3>1, <3>3 DEF Below, Futures
    <3> QED BY <1>1, <3>2, <3>3
  <2> QED BY <2>1, <2>2 DEF Queued
<1> QED BY <1>2, <1>3

(* The oldest operation leaves a list. *)
LEMMA QueueTail ==
  ASSUME NEW list \in Seq(Op), list # <<>>, NEW r, r = Tail(list)
  PROVE  /\ Futures(list) = Future(Head(list)) \union Futures(r)
         /\ Queued(list) => /\ Queued(r)
                            /\ Below(Future(Head(list)), Futures(r))
                            /\ Increasing(Head(list).on_write)
                            /\ \A u \in Elements(Head(list).on_write) : Head(list).version < u
<1>1. /\ Len(list) \in Nat \ {0}
      /\ 1 \in DOMAIN list /\ list[1] = Head(list)
      /\ DOMAIN list = 1 .. Len(list) /\ DOMAIN r = 1 .. Len(list) - 1
      /\ \A i \in DOMAIN r : r[i] = list[i + 1] /\ i + 1 \in DOMAIN list
  BY SplitHead
<1>2. Future(Head(list)) \subseteq Futures(list) /\ Futures(r) \subseteq Futures(list)
  BY <1>1 DEF Futures
<1>3. ASSUME NEW u \in Futures(list), u \notin Future(Head(list)) PROVE u \in Futures(r)
  <2>1. PICK i \in DOMAIN list : u \in Future(list[i]) BY <1>3 DEF Futures
  <2>2. i - 1 \in DOMAIN r /\ r[i - 1] = list[i] BY <1>1, <1>3, <2>1
  <2> QED BY <2>1, <2>2 DEF Futures
<1>4. ASSUME Queued(list)
      PROVE  /\ Queued(r) /\ Below(Future(Head(list)), Futures(r))
             /\ Increasing(Head(list).on_write)
             /\ \A u \in Elements(Head(list).on_write) : Head(list).version < u
  <2>1. ASSUME NEW i \in DOMAIN r, NEW j \in DOMAIN r, i < j
        PROVE  Below(Future(r[i]), Future(r[j]))
    <3>1. i + 1 \in DOMAIN list /\ j + 1 \in DOMAIN list /\ i + 1 < j + 1
          /\ r[i] = list[i + 1] /\ r[j] = list[j + 1]
      BY <1>1, <2>1
    <3> QED BY <1>4, <3>1 DEF Queued
  <2>2. ASSUME NEW i \in DOMAIN r PROVE Below(Future(Head(list)), Future(r[i]))
    <3>1. i + 1 \in DOMAIN list /\ 1 \in DOMAIN list /\ 1 < i + 1 /\ r[i] = list[i + 1]
          /\ list[1] = Head(list)
      BY <1>1
    <3> QED BY <1>4, <3>1 DEF Queued
  <2>3. Below(Future(Head(list)), Futures(r)) BY <2>2 DEF Below, Futures
  <2>4. Queued(r) BY <1>1, <1>4, <2>1 DEF Queued
  <2> QED BY <1>1, <1>4, <2>3, <2>4 DEF Queued
<1> QED BY <1>2, <1>3, <1>4

(* A callback is added to the last operation of a list. *)
LEMMA QueueAfterLast ==
  ASSUME NEW list \in Seq(Op), list # <<>>, NEW v \in Version, NEW r, r = AfterLast(list, v),
         list[Len(list)].version \in {0} \union Version
  PROVE  /\ DOMAIN r = DOMAIN list /\ Len(r) = Len(list)
         /\ \A i \in DOMAIN list :
              /\ r[i].version = list[i].version /\ r[i].plan = list[i].plan
              /\ r[i].roll_forward_to = list[i].roll_forward_to
              /\ r[i].using_cache = list[i].using_cache
              /\ r[i].pending_read = list[i].pending_read /\ r[i].remote_read = list[i].remote_read
              /\ r[i].read_done = list[i].read_done
              /\ r[i].remote_read_result = list[i].remote_read_result
         /\ Futures(r) = Futures(list) \union {v}
         /\ Queued(list) /\ (\A u \in Futures(list) : u < v) => Queued(r)
<1> DEFINE n == Len(list)
           op == list[n]
           new == [op EXCEPT !.on_write = Append(op.on_write, v)]
<1>1. /\ n \in Nat /\ n \in DOMAIN list /\ DOMAIN list = 1 .. n /\ op \in Op
      /\ \A i \in DOMAIN list : list[i] \in Op
  BY LenProperties, EmptySeq
<1>2. op.on_write \in Seq(Version) /\ op.version \in {0} \union Version
  <2> HIDE DEF op
  <2> QED BY <1>1, OpFields
<1>3. r = [list EXCEPT ![n] = new] BY DEF AfterLast
<1>4. /\ new.version = op.version /\ new.plan = op.plan
      /\ new.roll_forward_to = op.roll_forward_to /\ new.using_cache = op.using_cache
      /\ new.pending_read = op.pending_read /\ new.remote_read = op.remote_read
      /\ new.read_done = op.read_done /\ new.remote_read_result = op.remote_read_result
      /\ new.on_write = Append(op.on_write, v) /\ new \in Op
  <2>1. Append(op.on_write, v) \in Seq(Version) BY <1>2, AppendProperties
  <2> HIDE DEF op
  <2> QED BY <1>1, <2>1 DEF Op
<1>5. Elements(new.on_write) = Elements(op.on_write) \union {v}
  <2>1. \A e \in Version : Elements(Append(op.on_write, e)) = Elements(op.on_write) \union {e}
    BY <1>2, ElementsAre
  <2> HIDE DEF new
  <2> QED BY <1>4, <2>1, Zenon
<1>6. Future(new) = Future(op) \union {v} BY <1>4, <1>5 DEF Future
<1> HIDE DEF new, op
<1>7. /\ DOMAIN r = DOMAIN list /\ r[n] = new /\ \A i \in DOMAIN list : i # n => r[i] = list[i]
      /\ Len(r) = n
  BY <1>1, <1>3, <1>4, ExceptSeq DEF op
<1>8. Futures(r) = Futures(list) \union {v}
  <2>1. \A i \in DOMAIN list : Future(r[i]) = IF i = n THEN Future(op) \union {v} ELSE Future(list[i])
    BY <1>6, <1>7
  <2>2. list[n] = op BY DEF op
  <2>3. \A u : u \in Futures(r) <=> u \in Futures(list) \/ u = v
    BY <1>1, <1>7, <2>1, <2>2 DEF Futures
  <2> QED BY <2>3
<1>9. ASSUME Queued(list), \A u \in Futures(list) : u < v PROVE Queued(r)
  <2>1. Elements(op.on_write) \subseteq Future(op) /\ Future(op) \subseteq Futures(list)
    BY <1>1 DEF Future, Futures, op
  <2>2. Increasing(new.on_write)
    <3>1. Increasing(op.on_write) BY <1>1, <1>9 DEF Queued, op
    <3>2. \A u \in Elements(op.on_write) : u < v BY <1>9, <2>1
    <3> QED BY <1>2, <1>4, <3>1, <3>2, IncreasingIs
  <2>3. \A u \in Elements(new.on_write) : new.version < u
    <3>1. \A u \in Elements(op.on_write) : op.version < u BY <1>1, <1>9 DEF Queued, op
    <3>2. op.version < v
      <4>1. CASE op.version = 0 BY <4>1, VersionIsNat
      <4>2. CASE op.version # 0
        <5>1. op.version \in Future(op) BY <4>2 DEF Future
        <5> QED BY <1>9, <2>1, <5>1
      <4> QED BY <4>1, <4>2
    <3> QED BY <1>4, <1>5, <3>1, <3>2
  <2>4. ASSUME NEW i \in DOMAIN r, NEW j \in DOMAIN r, i < j
        PROVE  Below(Future(r[i]), Future(r[j]))
    <3>1. i # n /\ r[i] = list[i] /\ i \in DOMAIN list /\ j \in DOMAIN list BY <1>1, <1>7, <2>4
    <3>2. Below(Future(list[i]), Future(list[j])) BY <1>9, <2>4, <3>1 DEF Queued
    <3>3. CASE j # n BY <1>7, <3>1, <3>2, <3>3
    <3>4. CASE j = n
      <4>1. Future(list[i]) \subseteq Futures(list) BY <3>1 DEF Futures
      <4>2. r[j] = new /\ list[j] = op BY <1>7, <3>4 DEF op
      <4> QED BY <1>6, <1>9, <3>1, <3>2, <4>1, <4>2 DEF Below
    <3> QED BY <3>3, <3>4
  <2>5. ASSUME NEW i \in DOMAIN r
        PROVE  Increasing(r[i].on_write) /\ \A u \in Elements(r[i].on_write) : r[i].version < u
    BY <1>7, <1>9, <2>2, <2>3 DEF Queued
  <2> QED BY <2>4, <2>5 DEF Queued
<1>10. \A i \in DOMAIN list :
         /\ r[i].version = list[i].version /\ r[i].plan = list[i].plan
         /\ r[i].roll_forward_to = list[i].roll_forward_to
         /\ r[i].using_cache = list[i].using_cache
         /\ r[i].pending_read = list[i].pending_read /\ r[i].remote_read = list[i].remote_read
         /\ r[i].read_done = list[i].read_done
         /\ r[i].remote_read_result = list[i].remote_read_result
  BY <1>4, <1>7 DEF op
<1> QED BY <1>7, <1>8, <1>9, <1>10 DEF n

-----------------------------------------------------------------------------
(* Questions and answers *)

(* A message to all asks every shard. *)
LEMMA AskedSend ==
  ASSUME TypeOK, DOMAIN written = Version, NEW m \in Message,
         \A s \in Shard : Stream(s)' = Append(Stream(s), m)
  PROVE  \A s \in Shard :
           /\ \A v : Asked(s, v)' <=> Asked(s, v) \/ (~ m.log_update /\ v = m.version)
           /\ \A v : AskedLog(s, v)' <=> AskedLog(s, v) \/ (m.log_update /\ v = m.version)
           /\ \A i \in DOMAIN Stream(s)' : Stream(s)'[i] = m \/ (i \in DOMAIN Stream(s) /\ Stream(s)'[i] = Stream(s)[i])
<1> SUFFICES ASSUME NEW s \in Shard
             PROVE  /\ \A v : Asked(s, v)' <=> Asked(s, v) \/ (~ m.log_update /\ v = m.version)
                    /\ \A v : AskedLog(s, v)' <=> AskedLog(s, v) \/ (m.log_update /\ v = m.version)
                    /\ \A i \in DOMAIN Stream(s)' : Stream(s)'[i] = m \/ (i \in DOMAIN Stream(s) /\ Stream(s)'[i] = Stream(s)[i])
  OBVIOUS
<1> DEFINE q == Stream(s)  r == Stream(s)'
<1>1. q \in Seq(Message) /\ r = Append(q, m) BY StreamIs
<1> HIDE DEF q, r
<1>2. /\ DOMAIN q = 1 .. Len(q) /\ DOMAIN r = 1 .. Len(q) + 1 /\ Len(q) \in Nat
      /\ \A i \in DOMAIN q : r[i] = q[i]
      /\ r[Len(q) + 1] = m
  BY <1>1, SplitLast
<1>3. \A v : (\E i \in DOMAIN r : ~ r[i].log_update /\ r[i].version = v)
             <=> (\E i \in DOMAIN q : ~ q[i].log_update /\ q[i].version = v)
                 \/ (~ m.log_update /\ v = m.version)
  BY <1>2
<1>4. \A v : (\E i \in DOMAIN r : r[i].log_update /\ r[i].version = v)
             <=> (\E i \in DOMAIN q : q[i].log_update /\ q[i].version = v)
                 \/ (m.log_update /\ v = m.version)
  BY <1>2
<1>5. \A i \in DOMAIN r : r[i] = m \/ (i \in DOMAIN q /\ r[i] = q[i])
  BY <1>2
<1> QED BY <1>3, <1>4, <1>5 DEF Asked, AskedLog, q, r

(* What is asked is carried, and the other way round. *)
LEMMA AskedIsCarried ==
  \A s \in Shard : \A v : v # 0 => (v \in Carried(Stream(s)) <=> Asked(s, v) \/ AskedLog(s, v))
BY DEF Carried, Asked, AskedLog

(* An answer ends exactly one question. *)
LEMMA AskedReply ==
  ASSUME TypeOK, DOMAIN written = Version, Streams, NEW t \in Shard, HandleReply(t),
         NEW m, m = Head(unanswered[t])
  PROVE  /\ \A s \in Shard : \A v :
              /\ Asked(s, v)' <=> Asked(s, v) /\ ~ (s = t /\ v = m.version)
              /\ AskedLog(s, v)' <=> AskedLog(s, v) /\ ~ (s = t /\ v = m.version)
         /\ \A s \in Shard : \A i \in DOMAIN Stream(s)' :
              \E j \in DOMAIN Stream(s) : Stream(s)'[i] = Stream(s)[j]
         /\ ~ m.log_update => Asked(t, m.version)
         /\ m.log_update => AskedLog(t, m.version)
<1>1. /\ \A s \in Shard : s # t => Stream(s)' = Stream(s)
      /\ 1 \in DOMAIN Stream(t) /\ Stream(t)[1] = m
      /\ \A i \in DOMAIN Stream(t)' : /\ Stream(t)'[i] = Stream(t)[i + 1] /\ i + 1 \in DOMAIN Stream(t)
                                      /\ Stream(t)'[i].version # m.version
      /\ \A i \in DOMAIN Stream(t) : i = 1 \/ (i - 1 \in DOMAIN Stream(t)' /\ Stream(t)'[i - 1] = Stream(t)[i])
  BY StreamsReply
<1>2. ASSUME NEW s \in Shard, s # t, NEW v
      PROVE  (Asked(s, v)' <=> Asked(s, v)) /\ (AskedLog(s, v)' <=> AskedLog(s, v))
  BY <1>1, <1>2 DEF Asked, AskedLog
<1> DEFINE q == Stream(t)  r == Stream(t)'
<1>3. /\ 1 \in DOMAIN q /\ q[1] = m
      /\ \A i \in DOMAIN r : r[i] = q[i + 1] /\ i + 1 \in DOMAIN q /\ r[i].version # m.version
      /\ \A i \in DOMAIN q : i = 1 \/ (i - 1 \in DOMAIN r /\ r[i - 1] = q[i])
  BY <1>1
<1> HIDE DEF q, r
<1>4. ASSUME NEW v
      PROVE  /\ (\E i \in DOMAIN r : ~ r[i].log_update /\ r[i].version = v)
                <=> (\E i \in DOMAIN q : ~ q[i].log_update /\ q[i].version = v) /\ v # m.version
             /\ (\E i \in DOMAIN r : r[i].log_update /\ r[i].version = v)
                <=> (\E i \in DOMAIN q : q[i].log_update /\ q[i].version = v) /\ v # m.version
  BY <1>3
<1>5. \A v : /\ Asked(t, v)' <=> Asked(t, v) /\ v # m.version
             /\ AskedLog(t, v)' <=> AskedLog(t, v) /\ v # m.version
  BY <1>4 DEF Asked, AskedLog, q, r
<1>6. \A s \in Shard : \A i \in DOMAIN Stream(s)' :
        \E j \in DOMAIN Stream(s) : Stream(s)'[i] = Stream(s)[j]
  BY <1>1
<1> QED BY <1>1, <1>2, <1>5, <1>6 DEF Asked, AskedLog

-----------------------------------------------------------------------------
(* try_reads_to_commit() *)

(* The step in short: op leaves waiting_reads, enters waiting_commit and is sent. *)
LEMMA ReadsToCommitIs ==
  ASSUME IInv, TryReadsToCommit, NEW op, op = Head(waiting_reads), NEW m, m = SubWrite(op)
  PROVE  /\ op \in Op /\ m \in Message /\ waiting_reads # <<>>
         /\ op.version \in {0} \union Version /\ op.version \in Nat
         /\ m.version = op.version /\ m.roll_forward_to = op.roll_forward_to /\ ~ m.log_update
         /\ 1 \in DOMAIN waiting_reads /\ waiting_reads[1] = op
         /\ waiting_reads' = Tail(waiting_reads)
         /\ waiting_commit' = Append(waiting_commit, Committing(op))
         /\ SendToAll(m)
         /\ op.version # 0 => \A u \in Elements(log[Primary]) : u < op.version
         /\ op.version = 0 => /\ waiting_commit = <<>>
                              /\ \A s \in Shard : \A i \in DOMAIN Stream(s) : Stream(s)[i].version # 0
<1> USE DEF IInv
<1>1. /\ waiting_reads # <<>> /\ waiting_reads' = Tail(waiting_reads)
      /\ waiting_commit' = Append(waiting_commit, Committing(op))
      /\ SendToAll(m)
  BY DEF TryReadsToCommit, Committing, ReadsCanMove
<1>2. op \in Op /\ 1 \in DOMAIN waiting_reads /\ waiting_reads[1] = op
  BY <1>1, Types, SplitHead
<1>3. op.version \in {0} \union Version BY <1>2, OpFields
<1>4. op.version \in Nat BY <1>3, VersionsAreNat
<1>5. m \in Message /\ m.version = op.version /\ m.roll_forward_to = op.roll_forward_to /\ ~ m.log_update
  BY <1>2, SubWriteIs
<1>6. ASSUME op.version # 0 PROVE \A u \in Elements(log[Primary]) : u < op.version
  <2>1. op.version \in Futures(waiting_reads) BY <1>2, <1>6 DEF Futures, Future
  <2> QED BY <2>1 DEF Queues, Below
<1>7. ASSUME op.version = 0
      PROVE  /\ waiting_commit = <<>>
             /\ \A s \in Shard : \A i \in DOMAIN Stream(s) : Stream(s)[i].version # 0
  <2>1. waiting_commit = <<>> BY <1>2, <1>7 DEF Dummy
  <2>2. ASSUME NEW s \in Shard, NEW i \in DOMAIN Stream(s), Stream(s)[i].version = 0 PROVE FALSE
    <3>1. ~ Stream(s)[i].log_update BY <2>2 DEF Answers
    <3>2. Asked(s, 0) BY <2>2, <3>1 DEF Asked
    <3>3. \A v \in {0} \union Version : Asked(s, v) => WaitsFor(s, v) BY DEF Answers
    <3>4. WaitsFor(s, 0) BY <3>2, <3>3, Zenon
    <3> QED BY <2>1, <3>4 DEF WaitsFor
  <2> QED BY <2>1, <2>2
<1> QED BY <1>1, <1>2, <1>3, <1>4, <1>5, <1>6, <1>7

(* try_reads_to_commit() and what the shards have and are sent. *)
LEMMA ReadsToCommitShards ==
  ASSUME IInv, TryReadsToCommit
  PROVE  Streams' /\ Answers' /\ Reported' /\ Forward' /\ Commits'
<1> DEFINE op == Head(waiting_reads)
           m == SubWrite(op)
           v == op.version
           new == Committing(op)
           pl == Elements(log[Primary])
<1>0. /\ TypeOK /\ DOMAIN written = Version /\ Streams /\ Answers /\ Reported /\ Forward /\ Commits
  BY DEF IInv
<1>1. /\ op \in Op /\ m \in Message
      /\ op.version \in {0} \union Version /\ op.version \in Nat
      /\ m.version = op.version /\ m.roll_forward_to = op.roll_forward_to /\ ~ m.log_update
      /\ 1 \in DOMAIN waiting_reads /\ waiting_reads[1] = op
      /\ waiting_reads' = Tail(waiting_reads)
      /\ waiting_commit' = Append(waiting_commit, new)
      /\ SendToAll(m)
      /\ v # 0 => \A u \in pl : u < v
      /\ v = 0 => /\ waiting_commit = <<>>
                  /\ \A s \in Shard : \A i \in DOMAIN Stream(s) : Stream(s)[i].version # 0
  BY ReadsToCommitIs
<1>2. /\ new \in Op /\ new.version = v /\ new.pending_commit = Shard
      /\ new.roll_forward_to = op.roll_forward_to
  BY <1>1, CommittingIs
<1> HIDE DEF op, m, new
<1>3. /\ Streams'
      /\ Elements(log'[Primary]) = pl \union ({v} \ {0})
      /\ \A s \in Shard : /\ Stream(s)' = Append(Stream(s), m)
                          /\ Carried(Stream(s)') = Carried(Stream(s)) \union ({v} \ {0})
  BY <1>0, <1>1, StreamsSend
<1>4. /\ waiting_commit \in Seq(Op) /\ DOMAIN waiting_commit = 1 .. Len(waiting_commit)
      /\ DOMAIN waiting_commit' = 1 .. Len(waiting_commit) + 1 /\ Len(waiting_commit) \in Nat
      /\ \A k \in DOMAIN waiting_commit : waiting_commit'[k] = waiting_commit[k]
      /\ waiting_commit'[Len(waiting_commit) + 1] = new
  BY <1>0, <1>1, <1>2, Types, SplitLast
<1>5. \A k \in DOMAIN waiting_commit' : (k \in DOMAIN waiting_commit /\ waiting_commit'[k] = waiting_commit[k])
                                        \/ waiting_commit'[k] = new
  BY <1>4
<1>6. /\ acked' = acked /\ log_update' = log_update /\ committed_to' = committed_to
      /\ waiting_state' = waiting_state
  BY DEF TryReadsToCommit
<1>7. pl \subseteq Version BY <1>0, Types, ShardAssumption, ElementsAre
<1>8. Answers'
  <2>1. \A s \in Shard :
          /\ \A u : Asked(s, u)' <=> Asked(s, u) \/ (~ m.log_update /\ u = m.version)
          /\ \A u : AskedLog(s, u)' <=> AskedLog(s, u) \/ (m.log_update /\ u = m.version)
          /\ \A i \in DOMAIN Stream(s)' : Stream(s)'[i] = m \/ (i \in DOMAIN Stream(s) /\ Stream(s)'[i] = Stream(s)[i])
    BY <1>0, <1>1, <1>3, AskedSend
  <2>2. \A s \in Shard : \A u : WaitsFor(s, u)' <=> WaitsFor(s, u) \/ u = v
    BY <1>2, <1>4, <1>5 DEF WaitsFor
  <2>3. \A s \in Shard : \A i \in DOMAIN Stream(s)' :
          Stream(s)'[i].log_update => Stream(s)'[i].version # 0
    BY <1>0, <1>1, <2>1 DEF Answers
  <2>4. \A s \in Shard, u \in {0} \union Version : Asked(s, u)' <=> WaitsFor(s, u)'
    <3> SUFFICES ASSUME NEW s \in Shard, NEW u \in {0} \union Version
                 PROVE  Asked(s, u)' <=> WaitsFor(s, u)'
      OBVIOUS
    <3>1. Asked(s, u) <=> WaitsFor(s, u) BY <1>0 DEF Answers
    <3>2. Asked(s, u)' <=> Asked(s, u) \/ u = v BY <1>1, <2>1
    <3>3. WaitsFor(s, u)' <=> WaitsFor(s, u) \/ u = v BY <2>2
    <3> QED BY <3>1, <3>2, <3>3
  <2>5. \A s \in Shard, u \in Version : AskedLog(s, u)' <=> s \in log_update[u]
    BY <1>0, <1>1, <2>1, Zenon DEF Answers
  <2>6. ASSUME NEW u \in Version, NEW k \in DOMAIN waiting_commit', waiting_commit'[k].version = u
        PROVE  log_update[u] = {}
    <3>1. CASE k \in DOMAIN waiting_commit /\ waiting_commit'[k] = waiting_commit[k]
      BY <1>0, <2>6, <3>1 DEF Answers
    <3>2. CASE waiting_commit'[k] = new
      <4>1. u = v /\ u # 0 /\ u \in Nat BY <1>2, <2>6, <3>2, VersionsAreNat
      <4>2. ASSUME NEW s \in log_update[u] PROVE FALSE
        <5>1. s \in Shard BY <1>0, <2>6, <4>2, Types
        <5>2. AskedLog(s, u) BY <1>0, <2>6, <4>2, <5>1 DEF Answers
        <5>3. u \in Carried(Stream(s)) BY <4>1, <5>1, <5>2, AskedIsCarried
        <5>4. u \in pl BY <1>0, <5>1, <5>3 DEF Streams
        <5> QED BY <1>1, <4>1, <5>4
      <4> QED BY <4>2
    <3> QED BY <1>5, <3>1, <3>2
  <2> QED BY <1>6, <2>3, <2>4, <2>5, <2>6 DEF Answers
<1>9. Reported'
  <2>1. acked \subseteq pl \union ({v} \ {0}) BY <1>0 DEF Reported
  <2>2. v # 0 => v \notin acked
    <3>1. v \notin pl \/ v = 0 BY <1>1
    <3> QED BY <1>0, <3>1 DEF Reported
  <2>3. \A s \in Shard : acked \intersect Carried(Stream(s)') = {}
    BY <1>0, <1>3, <2>2 DEF Reported
  <2>4. ASSUME NEW u \in Elements(log'[Primary]) \ acked
        PROVE  \E s \in Shard : u \in Carried(Stream(s)')
    <3>1. CASE u \in pl BY <1>0, <1>3, <2>4, <3>1 DEF Reported
    <3>2. CASE u \in {v} \ {0} BY <1>3, <3>2, ShardAssumption
    <3> QED BY <1>3, <3>1, <3>2
  <2>5. ASSUME NEW k \in DOMAIN waiting_commit', waiting_commit'[k].pending_commit = {}
        PROVE  waiting_commit'[k].version \in acked \union {0}
    <3>1. new.pending_commit # {} BY <1>2, ShardAssumption
    <3>2. waiting_commit'[k] # new BY <2>5, <3>1
    <3> QED BY <1>0, <1>5, <2>5, <3>2 DEF Reported
  <2> QED BY <1>3, <1>6, <2>1, <2>3, <2>4, <2>5 DEF Reported
<1>10. Forward'
  <2>1. op.roll_forward_to \in acked \union {0} BY <1>0, <1>1 DEF Forward
  <2>2. \A k \in DOMAIN waiting_commit' : waiting_commit'[k].roll_forward_to \in acked \union {0}
    BY <1>0, <1>2, <1>5, <2>1 DEF Forward
  <2>3. \A i \in DOMAIN waiting_reads' : waiting_reads'[i].roll_forward_to \in acked \union {0}
    <3>1. waiting_reads \in Seq(Op) /\ waiting_reads # <<>>
      BY <1>0, Types DEF TryReadsToCommit, ReadsCanMove
    <3>2. \A i \in DOMAIN Tail(waiting_reads) :
            Tail(waiting_reads)[i] = waiting_reads[i + 1] /\ i + 1 \in DOMAIN waiting_reads
      BY <3>1, SplitHead
    <3> QED BY <1>0, <1>1, <3>2 DEF Forward
  <2>4. \A s \in Shard : \A i \in DOMAIN Stream(s)' : Stream(s)'[i].roll_forward_to \in acked \union {0}
    <3>1. \A s \in Shard : \A i \in DOMAIN Stream(s)' :
            Stream(s)'[i] = m \/ (i \in DOMAIN Stream(s) /\ Stream(s)'[i] = Stream(s)[i])
      BY <1>0, <1>1, <1>3, AskedSend
    <3> QED BY <1>0, <1>1, <2>1, <3>1 DEF Forward
  <2>5. \A s \in Shard : can_rollback_to'[s] \in acked \union {0}
    <3>1. can_rollback_to' = [can_rollback_to EXCEPT ![Primary] = Maximum({@, m.roll_forward_to})]
      BY <1>1 DEF SendToAll, Handled
    <3>2. /\ can_rollback_to[Primary] \in {0} \union Version /\ m.roll_forward_to \in {0} \union Version
          /\ can_rollback_to \in [Shard -> {0} \union Version]
      BY <1>0, <1>1, Types, ShardAssumption DEF Message
    <3>3. Maximum({can_rollback_to[Primary], m.roll_forward_to}) \in {can_rollback_to[Primary], m.roll_forward_to}
      BY <3>2, LargerOfTwo
    <3> QED BY <1>0, <1>1, <2>1, <3>1, <3>2, <3>3, ShardAssumption DEF Forward
  <2> QED BY <1>0, <1>6, <2>2, <2>3, <2>4, <2>5 DEF Forward
<1>11. Commits'
  <2>1. \A k \in DOMAIN waiting_commit : waiting_commit[k].version \in {0} \union pl
    BY <1>0 DEF Commits
  <2>2. \A k \in DOMAIN waiting_commit : waiting_commit[k].version # v /\ (v # 0 => waiting_commit[k].version < v)
    <3> SUFFICES ASSUME NEW k \in DOMAIN waiting_commit
                 PROVE  waiting_commit[k].version # v /\ (v # 0 => waiting_commit[k].version < v)
      OBVIOUS
    <3>1. CASE v = 0 BY <1>1, <1>4, <3>1
    <3>2. CASE v # 0
      <4>1. waiting_commit[k].version = 0 \/ waiting_commit[k].version \in pl BY <2>1
      <4>2. waiting_commit[k].version < v BY <1>1, <3>2, <4>1
      <4>3. waiting_commit[k].version \in Nat BY <1>7, <4>1, VersionsAreNat
      <4> QED BY <1>1, <4>2, <4>3
    <3> QED BY <3>1, <3>2
  <2>3. InVersionOrder(waiting_commit')
    <3>1. InVersionOrder(waiting_commit) BY <1>0 DEF Commits
    <3>2. waiting_commit \in Seq(Op) /\ new \in Op /\ waiting_commit' = Append(waiting_commit, new)
      BY <1>1, <1>2, <1>4
    <3>3. \A k \in DOMAIN waiting_commit : /\ waiting_commit[k].version # new.version
                                           /\ new.version # 0 => waiting_commit[k].version < new.version
      BY <1>2, <2>2
    <3>4. InVersionOrder(Append(waiting_commit, new)) BY <3>1, <3>2, <3>3, VersionOrder
    <3> QED BY <3>2, <3>4 DEF InVersionOrder
  <2>4. \A k \in DOMAIN waiting_commit' : waiting_commit'[k].version \in {0} \union Elements(log'[Primary])
    BY <1>2, <1>3, <1>5, <2>1
  <2> QED BY <2>3, <2>4 DEF Commits
<1> QED BY <1>3, <1>8, <1>9, <1>10, <1>11

(* try_reads_to_commit() and the order of the lists. *)
LEMMA ReadsToCommitQueues ==
  ASSUME IInv, TryReadsToCommit
  PROVE  Dummy' /\ Queues' /\ OnWrites' /\ PlansKept'
<1> DEFINE op == Head(waiting_reads)
           m == SubWrite(op)
           v == op.version
           new == Committing(op)
           pl == Elements(log[Primary])
           rest == Tail(waiting_reads)
<1>0. /\ TypeOK /\ DOMAIN written = Version /\ Streams /\ Dummy /\ Queues /\ OnWrites /\ PlansKept
  BY DEF IInv
<1>1. /\ op \in Op /\ m \in Message /\ waiting_reads # <<>>
      /\ op.version \in {0} \union Version /\ op.version \in Nat
      /\ m.version = op.version /\ ~ m.log_update
      /\ 1 \in DOMAIN waiting_reads /\ waiting_reads[1] = op
      /\ waiting_reads' = rest
      /\ waiting_commit' = Append(waiting_commit, new)
      /\ SendToAll(m)
      /\ v # 0 => \A u \in pl : u < v
      /\ v = 0 => /\ waiting_commit = <<>>
                  /\ \A s \in Shard : \A i \in DOMAIN Stream(s) : Stream(s)[i].version # 0
  BY ReadsToCommitIs
<1>2. /\ new \in Op /\ new.version = v /\ new.plan = op.plan /\ new.on_write = op.on_write
      /\ new.using_cache <=> op.using_cache
  BY <1>1, CommittingIs
<1> HIDE DEF op, m, new
<1>3. Elements(log'[Primary]) = pl \union ({v} \ {0})
  BY <1>0, <1>1, StreamsSend
<1>4. /\ waiting_commit \in Seq(Op) /\ DOMAIN waiting_commit = 1 .. Len(waiting_commit)
      /\ DOMAIN waiting_commit' = 1 .. Len(waiting_commit) + 1 /\ Len(waiting_commit) \in Nat
      /\ Len(waiting_commit') = Len(waiting_commit) + 1
      /\ \A k \in DOMAIN waiting_commit : waiting_commit'[k] = waiting_commit[k]
      /\ waiting_commit'[Len(waiting_commit) + 1] = new
  BY <1>0, <1>1, <1>2, Types, SplitLast
<1>5. /\ plan' = plan /\ waiting_state' = waiting_state /\ cache_valid' = cache_valid
      /\ ~ OnWriteDue
  BY DEF TryReadsToCommit
<1>6. waiting_reads \in Seq(Op) BY <1>0, Types
<1>7. /\ Len(waiting_reads) \in Nat \ {0} /\ DOMAIN waiting_reads = 1 .. Len(waiting_reads)
      /\ DOMAIN rest = 1 .. Len(waiting_reads) - 1 /\ rest \in Seq(Op)
      /\ \A i \in DOMAIN rest : rest[i] = waiting_reads[i + 1] /\ i + 1 \in DOMAIN waiting_reads
  BY <1>1, <1>6, SplitHead
<1>8. /\ Futures(waiting_reads) = Future(op) \union Futures(rest)
      /\ Queued(rest) /\ Below(Future(op), Futures(rest))
      /\ Increasing(op.on_write) /\ \A u \in Elements(op.on_write) : v < u
  <2>1. Queued(waiting_reads) BY <1>0 DEF Queues
  <2>2. /\ Futures(waiting_reads) = Future(Head(waiting_reads)) \union Futures(rest)
        /\ Queued(rest) /\ Below(Future(Head(waiting_reads)), Futures(rest))
        /\ Increasing(Head(waiting_reads).on_write)
        /\ \A u \in Elements(Head(waiting_reads).on_write) : Head(waiting_reads).version < u
    BY <1>1, <1>6, <2>1, QueueTail
  <2> QED BY <2>2 DEF op
<1> HIDE DEF rest
<1>9. Dummy'
  <2>1. \A i \in DOMAIN rest : rest[i].version # 0
    <3> SUFFICES ASSUME NEW i \in DOMAIN rest, rest[i].version = 0 PROVE FALSE OBVIOUS
    <3>1. i + 1 \in DOMAIN waiting_reads /\ waiting_reads[i + 1].version = 0 BY <1>7
    <3>2. Len(waiting_reads) = 1 BY <1>0, <3>1 DEF Dummy
    <3> QED BY <1>7, <3>2
  <2>2. v = 0 => op.plan = NoPlan /\ ~ op.using_cache BY <1>0, <1>1 DEF Dummy
  <2>3. ASSUME NEW k \in DOMAIN waiting_commit', waiting_commit'[k].version = 0
        PROVE  waiting_commit'[k].plan = NoPlan /\ ~ waiting_commit'[k].using_cache
    <3>1. CASE k \in DOMAIN waiting_commit BY <1>0, <1>4, <2>3, <3>1 DEF Dummy
    <3>2. CASE k = Len(waiting_commit) + 1 BY <1>2, <1>4, <2>2, <2>3, <3>2
    <3> QED BY <1>4, <3>1, <3>2
  <2>4. \A i \in DOMAIN waiting_state' : waiting_state'[i].version # 0 BY <1>0, <1>5 DEF Dummy
  <2> QED BY <1>1, <2>1, <2>3, <2>4 DEF Dummy
<1>10. Queues'
  <2>1. Below(Futures(rest), Futures(waiting_state)) /\ Below(Future(op), Futures(waiting_state))
    BY <1>0, <1>8 DEF Queues, Below
  <2>2. {v} \ {0} \subseteq Future(op) BY DEF Future
  <2>3. Below(pl \union ({v} \ {0}), Futures(rest))
    BY <1>0, <1>8, <2>2 DEF Queues, Below
  <2>4. Below(pl \union ({v} \ {0}), Futures(waiting_state))
    BY <1>0, <2>1, <2>2 DEF Queues, Below
  <2>5. \A u \in (pl \union ({v} \ {0})) \union Futures(rest) \union Futures(waiting_state) : u <= Len(plan)
    BY <1>0, <1>8, <2>2 DEF Queues
  <2>6. Queued(waiting_state) BY <1>0 DEF Queues
  <2> QED BY <1>1, <1>3, <1>5, <1>8, <2>1, <2>3, <2>4, <2>5, <2>6 DEF Queues
<1>11. OnWrites'
  <2>1. ASSUME NEW k \in DOMAIN waiting_commit PROVE waiting_commit[k].on_write = <<>>
    <3>1. CASE k # Len(waiting_commit) BY <1>0, <3>1 DEF OnWrites
    <3>2. CASE k = Len(waiting_commit)
      <4>1. waiting_commit # <<>> BY <1>4, <3>2
      <4> QED BY <1>5, <3>2, <4>1 DEF OnWriteDue
    <3> QED BY <3>1, <3>2
  <2>2. \A k \in DOMAIN waiting_commit' :
          /\ k # Len(waiting_commit') => waiting_commit'[k].on_write = <<>>
          /\ Increasing(waiting_commit'[k].on_write)
    <3> SUFFICES ASSUME NEW k \in DOMAIN waiting_commit'
                 PROVE  /\ k # Len(waiting_commit') => waiting_commit'[k].on_write = <<>>
                        /\ Increasing(waiting_commit'[k].on_write)
      OBVIOUS
    <3>1. CASE k \in DOMAIN waiting_commit BY <1>4, <2>1, <3>1 DEF Increasing
    <3>2. CASE k = Len(waiting_commit) + 1 BY <1>2, <1>4, <1>8, <3>2
    <3> QED BY <1>4, <3>1, <3>2
  <2>3. Due' = Elements(op.on_write)
    <3>1. \A u : u \in Due' <=> u \in Elements(op.on_write)
      <4> SUFFICES ASSUME NEW u PROVE u \in Due' <=> u \in Elements(op.on_write) OBVIOUS
      <4>1. u \in Due' <=> \E k \in DOMAIN waiting_commit' : u \in Elements(waiting_commit'[k].on_write)
        BY DEF Due
      <4>2. \A k \in DOMAIN waiting_commit : u \notin Elements(waiting_commit'[k].on_write)
        BY <1>4, <2>1 DEF Elements
      <4>3. waiting_commit'[Len(waiting_commit) + 1].on_write = op.on_write BY <1>2, <1>4
      <4> QED BY <1>4, <4>1, <4>2, <4>3
    <3> QED BY <3>1
  <2>4. Elements(op.on_write) \subseteq Future(op) BY DEF Future
  <2>5. Future(op) \subseteq Futures(waiting_reads) BY <1>8
  <2>6. Below(pl \union ({v} \ {0}), Elements(op.on_write))
    BY <1>0, <1>8, <2>4, <2>5 DEF Queues, Below
  <2>7. Below(Elements(op.on_write), Futures(rest)) BY <1>8, <2>4 DEF Below
  <2>8. Below(Elements(op.on_write), Futures(waiting_state)) BY <1>0, <2>4, <2>5 DEF Queues, Below
  <2>9. \A u \in Elements(op.on_write) : u <= Len(plan) BY <1>0, <2>4, <2>5 DEF Queues
  <2> QED BY <1>1, <1>3, <1>5, <2>2, <2>3, <2>6, <2>7, <2>8, <2>9 DEF OnWrites
<1>12. PlansKept'
  <2>1. \A i \in DOMAIN rest : rest[i].plan \in Plans \union {NoPlan} BY <1>0, <1>7 DEF PlansKept
  <2>2. op.plan \in Plans \union {NoPlan} BY <1>0, <1>1 DEF PlansKept
  <2>3. \A k \in DOMAIN waiting_commit' : waiting_commit'[k].plan \in Plans \union {NoPlan}
    <3> SUFFICES ASSUME NEW k \in DOMAIN waiting_commit' PROVE waiting_commit'[k].plan \in Plans \union {NoPlan}
      OBVIOUS
    <3>1. CASE k \in DOMAIN waiting_commit BY <1>0, <1>4, <3>1 DEF PlansKept
    <3>2. CASE k = Len(waiting_commit) + 1 BY <1>2, <1>4, <2>2, <3>2
    <3> QED BY <1>4, <3>1, <3>2
  <2> QED BY <1>0, <1>1, <1>5, <2>1, <2>3 DEF PlansKept
<1> QED BY <1>9, <1>10, <1>11, <1>12

(* The head of waiting_reads finds its stripes in the cache, and the writes behind
   it find there what it presents. *)
LEMMA ReadsToCommitCache ==
  ASSUME IInv, TryReadsToCommit
  PROVE  CacheHolds' /\ ok'
<1> DEFINE op == Head(waiting_reads)
           m == SubWrite(op)
           update == Generate(op)
           new == Committing(op)
           rest == Tail(waiting_reads)
<1>0. /\ TypeOK /\ DOMAIN written = Version /\ ok /\ Streams /\ Dummy /\ CacheHolds
  BY DEF IInv
<1>1. /\ op \in Op /\ m \in Message /\ waiting_reads # <<>>
      /\ op.version \in {0} \union Version /\ op.version \in Nat
      /\ m.version = op.version
      /\ 1 \in DOMAIN waiting_reads /\ waiting_reads[1] = op
      /\ waiting_reads' = rest
      /\ waiting_commit' = Append(waiting_commit, new)
      /\ SendToAll(m)
      /\ op.version # 0 => \A u \in Elements(log[Primary]) : u < op.version
      /\ op.version = 0 => \A s \in Shard : \A i \in DOMAIN Stream(s) : Stream(s)[i].version # 0
  BY ReadsToCommitIs
<1>2. /\ new \in Op /\ new.version = op.version /\ new.plan = op.plan
      /\ new.using_cache <=> op.using_cache
  BY <1>1, CommittingIs
<1>3. cache' = IF op.using_cache THEN Presented(update) ELSE cache
  BY DEF TryReadsToCommit
<1>4. DOMAIN update = op.plan.will_write /\ op.plan.will_write \subseteq Stripe
  BY <1>1, OpFields DEF Generate
<1>5. InOrder(Primary, m)
  BY <1>0, <1>1, StreamsSend
<1>6. /\ waiting_commit \in Seq(Op) /\ DOMAIN waiting_commit = 1 .. Len(waiting_commit)
      /\ DOMAIN waiting_commit' = 1 .. Len(waiting_commit) + 1 /\ Len(waiting_commit) \in Nat
      /\ \A k \in DOMAIN waiting_commit : waiting_commit'[k] = waiting_commit[k]
      /\ waiting_commit'[Len(waiting_commit) + 1] = new
  <2>1. waiting_commit \in Seq(Op) BY <1>0, Types
  <2> HIDE DEF new
  <2> QED BY <1>1, <1>2, <2>1, SplitLast
<1>7. /\ Len(waiting_reads) \in Nat \ {0} /\ DOMAIN waiting_reads = 1 .. Len(waiting_reads)
      /\ DOMAIN rest = 1 .. Len(waiting_reads) - 1
      /\ \A i \in DOMAIN rest : rest[i] = waiting_reads[i + 1] /\ i + 1 \in DOMAIN waiting_reads
  <2>1. waiting_reads \in Seq(Op) BY <1>0, Types
  <2> QED BY <1>1, <2>1, SplitHead
<1>8. cache \in [Stripe -> [pin : {NoPin} \union Version, pending : BOOLEAN, bl : Contents]]
  BY <1>0, Types
<1> HIDE DEF op, m, update, new, rest
<1>9. ASSUME NEW x \in Stripe
      PROVE  /\ cache'[x].pin = cache[x].pin
             /\ cache'[x].pending => cache[x].pending /\ ~ UsesCache(op, x)
  <2>1. CASE ~ op.using_cache BY <1>3, <2>1 DEF UsesCache
  <2>2. CASE op.using_cache
    <3>1. cache'[x] = IF x \in op.plan.will_write
                      THEN [cache[x] EXCEPT !.bl = update[x], !.pending = FALSE] ELSE cache[x]
      <4>1. cache' = Presented(update) BY <1>3, <2>2
      <4>2. Presented(update)[x] = IF x \in DOMAIN update
                      THEN [cache[x] EXCEPT !.bl = update[x], !.pending = FALSE] ELSE cache[x]
        BY Zenon DEF Presented
      <4> QED BY <1>4, <4>1, <4>2, Zenon
    <3>2. CASE x \in op.plan.will_write
      <4>1. cache'[x] = [cache[x] EXCEPT !.bl = update[x], !.pending = FALSE]
        BY <3>1, <3>2
      <4> QED BY <1>8, <4>1
    <3>3. CASE x \notin op.plan.will_write
      <4>1. cache'[x] = cache[x] BY <3>1, <3>3
      <4> QED BY <3>3, <4>1 DEF UsesCache
    <3> QED BY <3>2, <3>3
  <2> QED BY <2>1, <2>2
<1>10. \A x \in Stripe : UsesCache(op, x) => Cached(x)
  <2> SUFFICES ASSUME NEW x \in Stripe, UsesCache(op, x) PROVE Cached(x) OBVIOUS
  <2>1. op.version <= cache[x].pin BY <1>0, <1>1 DEF CacheHolds
  <2>2. op.version # 0 BY <1>0, <1>1 DEF Dummy, UsesCache
  <2> QED BY <1>1, <2>1, <2>2 DEF Cached, NoPin
<1>11. \A x \in Stripe : UsesCache(new, x) <=> UsesCache(op, x)
  BY <1>2 DEF UsesCache
<1>12. ok'
  <2>1. op.pending_read \subseteq Stripe BY <1>1, OpFields
  <2>2. \A x \in op.pending_read : UsesCache(op, x) /\ ~ cache[x].pending
    <3> SUFFICES ASSUME NEW x \in op.pending_read PROVE UsesCache(op, x) /\ ~ cache[x].pending
      OBVIOUS
    <3>1. /\ UsesCache(op, x)
          /\ cache[x].pending => \E j \in 1 .. 1 - 1 : UsesCache(waiting_reads[j], x)
      BY <1>0, <1>1 DEF CacheHolds
    <3> QED BY <3>1
  <2>3. CanGet(op.pending_read) BY <1>10, <2>1, <2>2 DEF CanGet
  <2>4. op.pending_read # {} => op.using_cache BY <2>2 DEF UsesCache
  <2>5. op.using_cache => \A x \in DOMAIN update : Cached(x)
    BY <1>4, <1>10 DEF UsesCache
  <2> QED BY <1>0, <1>5, <2>3, <2>4, <2>5 DEF TryReadsToCommit, op, update, m
<1>13. CacheHolds'
  <2>1. ASSUME NEW i \in DOMAIN rest, NEW x \in Stripe, UsesCache(rest[i], x)
        PROVE  rest[i].version <= cache'[x].pin
    BY <1>0, <1>7, <1>9, <2>1 DEF CacheHolds
  <2>2. ASSUME NEW k \in DOMAIN waiting_commit', NEW x \in Stripe, UsesCache(waiting_commit'[k], x)
        PROVE  waiting_commit'[k].version <= cache'[x].pin
    <3>1. CASE k \in DOMAIN waiting_commit BY <1>0, <1>6, <1>9, <2>2, <3>1 DEF CacheHolds
    <3>2. CASE k = Len(waiting_commit) + 1
      <4>1. waiting_commit'[k] = new BY <1>6, <3>2
      <4>2. op.version <= cache[x].pin BY <1>0, <1>1, <1>11, <2>2, <4>1 DEF CacheHolds
      <4> QED BY <1>2, <1>9, <4>1, <4>2
    <3> QED BY <1>6, <3>1, <3>2
  <2>3. ASSUME NEW i \in DOMAIN rest, NEW x \in rest[i].pending_read
        PROVE  /\ UsesCache(rest[i], x)
               /\ cache'[x].pending => \E j \in 1 .. i - 1 : UsesCache(rest[j], x)
    <3>1. i + 1 \in DOMAIN waiting_reads /\ rest[i] = waiting_reads[i + 1] BY <1>7
    <3>2. /\ UsesCache(rest[i], x)
          /\ cache[x].pending => \E j \in 1 .. (i + 1) - 1 : UsesCache(waiting_reads[j], x)
      BY <1>0, <2>3, <3>1 DEF CacheHolds
    <3>3. x \in Stripe
      <4>1. waiting_reads \in Seq(Op) BY <1>0, Types
      <4>2. waiting_reads[i + 1] \in Op BY <3>1, <4>1, LenProperties
      <4>3. waiting_reads[i + 1].pending_read \subseteq Stripe BY <4>2, OpFields
      <4> QED BY <2>3, <3>1, <4>3
    <3>4. ASSUME cache'[x].pending PROVE \E j \in 1 .. i - 1 : UsesCache(rest[j], x)
      <4>1. cache[x].pending /\ ~ UsesCache(op, x) BY <1>9, <3>3, <3>4
      <4>2. PICK j \in 1 .. i : UsesCache(waiting_reads[j], x) BY <1>7, <3>2, <4>1
      <4>3. j # 1 BY <1>1, <4>1, <4>2
      <4>4. j - 1 \in 1 .. i - 1 /\ j - 1 \in DOMAIN rest /\ rest[j - 1] = waiting_reads[j]
        BY <1>7, <4>3
      <4> QED BY <4>2, <4>4
    <3> QED BY <3>2, <3>4
  <2>4. ASSUME NEW x \in Stripe, cache'[x].pending PROVE \E i \in DOMAIN rest : UsesCache(rest[i], x)
    <3>1. cache[x].pending /\ ~ UsesCache(op, x) BY <1>9, <2>4
    <3>2. PICK i \in DOMAIN waiting_reads : UsesCache(waiting_reads[i], x) BY <1>0, <3>1 DEF CacheHolds
    <3>3. i # 1 BY <1>1, <3>1, <3>2
    <3>4. i - 1 \in DOMAIN rest /\ rest[i - 1] = waiting_reads[i] BY <1>7, <3>3
    <3> QED BY <3>2, <3>4
  <2> QED BY <1>1, <2>1, <2>2, <2>3, <2>4 DEF CacheHolds
<1> QED BY <1>12, <1>13

(* A write whose reads are done keeps the invariant. *)
LEMMA IInvReadsToCommit ==
  ASSUME IInv, TryReadsToCommit
  PROVE  IInv'
BY TypeReadsToCommit, ReadsToCommitShards, ReadsToCommitQueues, ReadsToCommitCache DEF IInv

-----------------------------------------------------------------------------
(* The steps that leave the shards alone *)

(* What does not depend on waiting_state and waiting_reads. *)
LEMMA ShardsKept ==
  ASSUME UNCHANGED <<shards, acked, log_update>>
  PROVE  /\ Streams => Streams'
         /\ UNCHANGED waiting_commit => /\ Answers => Answers'
                                        /\ Reported => Reported'
                                        /\ Commits => Commits'
         /\ \A s \in Shard : Stream(s)' = Stream(s)
         /\ \A s \in Shard : \A v : (Asked(s, v)' <=> Asked(s, v)) /\ (AskedLog(s, v)' <=> AskedLog(s, v))
<1>1. /\ UNCHANGED <<inbox, log, can_rollback_to, unanswered, acked, log_update>>
  BY DEF shards
<1>2. \A s \in Shard : Stream(s)' = Stream(s) BY <1>1 DEF Stream
<1>3. Streams => Streams' BY <1>1, <1>2 DEF Streams
<1>4. \A s \in Shard : \A v : (Asked(s, v)' <=> Asked(s, v)) /\ (AskedLog(s, v)' <=> AskedLog(s, v))
  BY <1>2 DEF Asked, AskedLog
<1>5. ASSUME UNCHANGED waiting_commit, Answers PROVE Answers'
  <2>1. \A s \in Shard, v \in {0} \union Version : WaitsFor(s, v)' <=> WaitsFor(s, v)
    BY <1>5 DEF WaitsFor
  <2> QED BY <1>1, <1>2, <1>4, <1>5, <2>1 DEF Answers
<1>6. ASSUME UNCHANGED waiting_commit, Reported PROVE Reported'
  BY <1>1, <1>2, <1>6 DEF Reported
<1>7. ASSUME UNCHANGED waiting_commit, Commits PROVE Commits'
  BY <1>1, <1>7 DEF Commits
<1> QED BY <1>2, <1>3, <1>4, <1>5, <1>6, <1>7

(* The dummy moves on at once. *)
LEMMA NoDummySettled ==
  ASSUME IInv, ~ ReadsCanMove
  PROVE  \A i \in DOMAIN waiting_reads : waiting_reads[i].version # 0
<1> SUFFICES ASSUME NEW i \in DOMAIN waiting_reads, waiting_reads[i].version = 0 PROVE FALSE
  OBVIOUS
<1>1. waiting_reads \in Seq(Op) BY Types DEF IInv
<1>2. Len(waiting_reads) = 1 /\ waiting_reads[i].remote_read = {} BY DEF IInv, Dummy
<1>3. waiting_reads # <<>> /\ i = 1 /\ Head(waiting_reads) = waiting_reads[1]
  BY <1>1, <1>2, LenProperties, SplitHead
<1> QED BY <1>2, <1>3 DEF ReadsCanMove, ReadInProgress

(* submit_transaction() *)
LEMMA IInvSubmit ==
  ASSUME IInv, NEW p \in Plans, SubmitTransaction(p)
  PROVE  IInv'
<1> DEFINE v == NextVersion
           op == NewOp(v, p, RollForwardTo)
           pl == Elements(log[Primary])
<1>0. /\ TypeOK /\ DOMAIN written = Version /\ ok /\ Streams /\ Answers /\ Reported /\ Forward /\ Dummy
      /\ Queues /\ OnWrites /\ Commits /\ CacheHolds /\ PlansKept
  BY DEF IInv
<1>1. /\ Settled /\ v \in Version /\ plan' = Append(plan, p)
      /\ waiting_state' = Append(waiting_state, op)
      /\ UNCHANGED <<waiting_reads, waiting_commit, cache_valid, cache, committed_to,
                     log_update, shards, acked, intervals, ok>>
  BY DEF SubmitTransaction
<1>2. /\ p \in WritePlan /\ plan \in Seq(WritePlan) /\ waiting_state \in Seq(Op)
      /\ committed_to \in {0} \union Version
  BY <1>0, PlanAssumption, Types
<1>3. Len(plan) \in Nat /\ v = Len(plan) + 1 /\ Len(plan') = v
  BY <1>0, <1>1, <1>2, NextVersionIs
<1>4. /\ op \in Op /\ op.version = v /\ op.plan = p /\ op.roll_forward_to = committed_to
      /\ op.on_write = <<>>
  <2>1. op = NewOp(v, p, committed_to) BY DEF RollForwardTo
  <2>2. v \in {0} \union Version BY <1>1
  <2> HIDE DEF op, v
  <2> QED BY <1>2, <2>1, <2>2, NewOpIs
<1>5. TypeOK' /\ DOMAIN written' = Version BY <1>0, TypeSubmit
<1>6. Streams' /\ Answers' /\ Reported' /\ Commits' /\ \A s \in Shard : Stream(s)' = Stream(s)
  BY <1>0, <1>1, ShardsKept
<1>7. v \in Nat /\ v # 0 BY <1>1, VersionsAreNat
<1> HIDE DEF op, v
<1>8. /\ DOMAIN waiting_state = 1 .. Len(waiting_state)
      /\ DOMAIN waiting_state' = 1 .. Len(waiting_state) + 1
      /\ \A i \in DOMAIN waiting_state : waiting_state'[i] = waiting_state[i]
      /\ waiting_state'[Len(waiting_state) + 1] = op /\ Len(waiting_state) \in Nat
  BY <1>1, <1>2, <1>4, SplitLast
<1>9. \A i \in DOMAIN waiting_state' :
        (i \in DOMAIN waiting_state /\ waiting_state'[i] = waiting_state[i]) \/ waiting_state'[i] = op
  BY <1>8
<1>10. /\ UNCHANGED <<inbox, log, can_rollback_to, unanswered>>
  BY <1>1 DEF shards
<1>11. Forward'
  <2>1. \A i \in DOMAIN waiting_state' : waiting_state'[i].roll_forward_to \in acked \union {0}
    BY <1>0, <1>4, <1>9 DEF Forward
  <2> QED BY <1>0, <1>1, <1>6, <1>10, <2>1 DEF Forward
<1>12. Dummy'
  <2>1. \A i \in DOMAIN waiting_state' : waiting_state'[i].version # 0
    BY <1>0, <1>4, <1>7, <1>9 DEF Dummy
  <2>2. \A i \in DOMAIN waiting_reads : waiting_reads[i].version # 0
    BY <1>1, NoDummySettled DEF Settled
  <2>3. waiting_reads' = waiting_reads /\ waiting_commit' = waiting_commit BY <1>1
  <2>4. \A i \in DOMAIN waiting_commit : waiting_commit[i].version = 0 =>
           waiting_commit[i].plan = NoPlan /\ ~ waiting_commit[i].using_cache
    BY <1>0 DEF Dummy
  <2> QED BY <2>1, <2>2, <2>3, <2>4 DEF Dummy
<1>13. Future(op) = {v}
  BY <1>4, <1>7, ElementsAre DEF Future, Elements
<1>14. /\ \A u \in pl \union Futures(waiting_reads) \union Futures(waiting_state) : u <= Len(plan)
       /\ \A u \in Due : u <= Len(plan)
  BY <1>0 DEF Queues, OnWrites
<1>15. /\ pl \subseteq Version /\ Futures(waiting_reads) \subseteq Version
       /\ Futures(waiting_state) \subseteq Version
  BY <1>0, <1>2, Types, ElementsAre, FutureIs, ShardAssumption
<1>16. Due \subseteq Version
  <2>1. \A k \in DOMAIN waiting_commit : waiting_commit[k] \in Op BY <1>0, Types, LenProperties
  <2>2. \A k \in DOMAIN waiting_commit : Elements(waiting_commit[k].on_write) \subseteq Version
    BY <2>1, OpFields, ElementsAre
  <2> QED BY <2>2 DEF Due
<1>17. \A u \in pl \union Futures(waiting_reads) \union Futures(waiting_state) \union Due :
         u \in Nat /\ u < v /\ u <= v
  <2> SUFFICES ASSUME NEW u \in pl \union Futures(waiting_reads) \union Futures(waiting_state) \union Due
               PROVE  u \in Nat /\ u < v /\ u <= v
    OBVIOUS
  <2>1. u <= Len(plan) BY <1>14
  <2>2. u \in Version BY <1>15, <1>16
  <2>3. u \in Nat BY <2>2, VersionsAreNat
  <2> QED BY <1>3, <2>1, <2>3
<1>18. Futures(waiting_state') = Futures(waiting_state) \union {v} /\ Queued(waiting_state')
  <2>1. Below(Futures(waiting_state), Future(op)) BY <1>13, <1>17 DEF Below
  <2>2. Increasing(op.on_write) /\ \A u \in Elements(op.on_write) : op.version < u
    BY <1>4 DEF Increasing, Elements
  <2>3. Queued(waiting_state) BY <1>0 DEF Queues
  <2> QED BY <1>1, <1>2, <1>4, <1>13, <2>1, <2>2, <2>3, QueueAppend
<1>19. Queues'
  <2>1. Queued(waiting_reads') /\ Futures(waiting_reads') = Futures(waiting_reads)
    BY <1>0, <1>1 DEF Queues
  <2>2. Below(Futures(waiting_reads), Futures(waiting_state')) /\ Below(pl, Futures(waiting_state'))
    BY <1>0, <1>17, <1>18 DEF Queues, Below
  <2>3. Below(pl, Futures(waiting_reads)) BY <1>0 DEF Queues
  <2>4. \A u \in pl \union Futures(waiting_reads) \union Futures(waiting_state') : u <= Len(plan')
    BY <1>3, <1>7, <1>17, <1>18
  <2> QED BY <1>10, <1>18, <2>1, <2>2, <2>3, <2>4 DEF Queues
<1>20. OnWrites'
  <2>1. Due' = Due BY <1>1 DEF Due
  <2>2. Below(Due, Futures(waiting_state')) BY <1>0, <1>17, <1>18 DEF OnWrites, Below
  <2>3. \A u \in Due : u <= Len(plan') BY <1>3, <1>17
  <2>4. waiting_reads' = waiting_reads /\ waiting_commit' = waiting_commit BY <1>1
  <2> QED BY <1>0, <1>10, <2>1, <2>2, <2>3, <2>4 DEF OnWrites
<1>21. CacheHolds' BY <1>0, <1>1 DEF CacheHolds
<1>22. PlansKept'
  <2>1. \A i \in DOMAIN waiting_state' : waiting_state'[i].plan \in Plans \union {NoPlan}
    BY <1>0, <1>4, <1>9 DEF PlansKept
  <2> QED BY <1>0, <1>1, <2>1 DEF PlansKept
<1> QED BY <1>0, <1>1, <1>5, <1>6, <1>11, <1>12, <1>19, <1>20, <1>21, <1>22 DEF IInv

(* What a write reads from the shards, and the write once that is known. *)
ReadsRemotely(op) == IF UsingCache(op) THEN MustRead(op.plan.to_read) ELSE op.plan.to_read
Reading(op) == [op EXCEPT !.using_cache = UsingCache(op), !.remote_read = ReadsRemotely(op),
                          !.pending_read = op.plan.to_read \ ReadsRemotely(op)]

(* What a write is when it enters waiting_reads. *)
LEMMA ReadingIs ==
  ASSUME NEW op \in Op, cache_valid \in BOOLEAN, NEW new, new = Reading(op)
  PROVE  /\ new \in Op
         /\ new.version = op.version /\ new.plan = op.plan /\ new.pending_commit = op.pending_commit
         /\ new.roll_forward_to = op.roll_forward_to /\ new.on_write = op.on_write
         /\ new.using_cache <=> ~ op.plan.invalidates_cache /\ cache_valid
         /\ new.remote_read = ReadsRemotely(op)
         /\ new.pending_read = op.plan.to_read \ ReadsRemotely(op)
         /\ new.read_done = op.read_done
<1> DEFINE r == ReadsRemotely(op)  u == UsingCache(op)
<1>1. u \in BOOLEAN /\ r \subseteq Stripe /\ op.plan.to_read \subseteq Stripe
  BY OpFields DEF ReadsRemotely, UsingCache, MustRead
<1>2. u <=> ~ op.plan.invalidates_cache /\ cache_valid BY DEF UsingCache
<1>3. new = [op EXCEPT !.using_cache = u, !.remote_read = r, !.pending_read = op.plan.to_read \ r]
  BY DEF Reading
<1> HIDE DEF r, u
<1>4. /\ new \in Op
      /\ new.version = op.version /\ new.plan = op.plan /\ new.pending_commit = op.pending_commit
      /\ new.roll_forward_to = op.roll_forward_to /\ new.on_write = op.on_write
      /\ new.using_cache = u
      /\ new.remote_read = r
      /\ new.pending_read = op.plan.to_read \ r
      /\ new.read_done = op.read_done
  BY <1>1, <1>3 DEF Op
<1> QED BY <1>2, <1>4 DEF r

(* A write reads only what it also writes. *)
LEMMA ReadsWhatItWrites ==
  \A p \in Plans \union {NoPlan} : p.to_read \subseteq p.will_write
BY PlanAssumption DEF NoPlan

(* The versions that wait, are due or are logged are natural numbers. *)
LEMMA QueuesAreNat ==
  ASSUME TypeOK, DOMAIN written = Version
  PROVE  /\ \A u \in Elements(log[Primary]) : u \in Version /\ u \in Nat
         /\ \A u \in Futures(waiting_reads) : u \in Version /\ u \in Nat
         /\ \A u \in Futures(waiting_state) : u \in Version /\ u \in Nat
         /\ \A u \in Due : u \in Version /\ u \in Nat
         /\ Len(plan) \in Nat
<1>1. /\ Elements(log[Primary]) \subseteq Version /\ Futures(waiting_reads) \subseteq Version
      /\ Futures(waiting_state) \subseteq Version
  BY Types, ElementsAre, FutureIs, ShardAssumption
<1>2. Due \subseteq Version
  <2>1. \A k \in DOMAIN waiting_commit : waiting_commit[k] \in Op BY Types, LenProperties
  <2>2. \A k \in DOMAIN waiting_commit : Elements(waiting_commit[k].on_write) \subseteq Version
    BY <2>1, OpFields, ElementsAre
  <2> QED BY <2>2 DEF Due
<1>3. Len(plan) \in Nat BY Types, LenProperties
<1> QED BY <1>1, <1>2, <1>3, VersionsAreNat, Zenon

(* try_state_to_reads() *)
LEMMA IInvStateToReads ==
  ASSUME IInv, TryStateToReads
  PROVE  IInv'
<1> DEFINE op == Head(waiting_state)
           v == op.version
           new == Reading(op)
           rest == Tail(waiting_state)
           pl == Elements(log[Primary])
<1>0. /\ TypeOK /\ DOMAIN written = Version /\ ok /\ Streams /\ Answers /\ Reported /\ Forward /\ Dummy
      /\ Queues /\ OnWrites /\ Commits /\ CacheHolds /\ PlansKept
  BY DEF IInv
<1>1. /\ StateCanMove /\ waiting_state # <<>>
      /\ waiting_state' = rest
      /\ waiting_reads' = Append(waiting_reads, new)
      /\ cache' = IF UsingCache(op) THEN Reserved(v, op.plan.will_write) ELSE cache
      /\ UNCHANGED <<waiting_commit, committed_to, log_update, plan, shards, acked, intervals, ok>>
  BY DEF TryStateToReads, Reading, ReadsRemotely, StateCanMove
<1>2. /\ waiting_state \in Seq(Op) /\ waiting_reads \in Seq(Op) /\ cache_valid \in BOOLEAN
      /\ waiting_commit \in Seq(Op)
      /\ cache \in [Stripe -> [pin : {NoPin} \union Version, pending : BOOLEAN, bl : Contents]]
  BY <1>0, Types
<1>3. /\ op \in Op /\ Len(waiting_state) \in Nat \ {0} /\ rest \in Seq(Op)
      /\ 1 \in DOMAIN waiting_state /\ waiting_state[1] = op
      /\ DOMAIN waiting_state = 1 .. Len(waiting_state) /\ DOMAIN rest = 1 .. Len(waiting_state) - 1
      /\ \A i \in DOMAIN rest : rest[i] = waiting_state[i + 1] /\ i + 1 \in DOMAIN waiting_state
  BY <1>1, <1>2, SplitHead
<1>4. /\ new \in Op /\ new.version = v /\ new.plan = op.plan
      /\ new.roll_forward_to = op.roll_forward_to /\ new.on_write = op.on_write
      /\ new.using_cache <=> ~ op.plan.invalidates_cache /\ cache_valid
      /\ new.remote_read = ReadsRemotely(op)
      /\ new.pending_read = op.plan.to_read \ ReadsRemotely(op)
  <2>1. new = Reading(op) OBVIOUS
  <2> HIDE DEF op, new
  <2> QED BY <1>2, <1>3, <2>1, ReadingIs
<1>5. TypeOK' /\ DOMAIN written' = Version BY <1>0, TypeStateToReads
<1>6. Streams' /\ Answers' /\ Reported' /\ Commits' /\ \A s \in Shard : Stream(s)' = Stream(s)
  BY <1>0, <1>1, ShardsKept
<1>7. /\ Futures(waiting_state) = Future(op) \union Futures(rest)
      /\ Queued(rest) /\ Below(Future(op), Futures(rest))
      /\ Increasing(op.on_write) /\ \A u \in Elements(op.on_write) : v < u
  <2>1. Queued(waiting_state) BY <1>0 DEF Queues
  <2>2. /\ Futures(waiting_state) = Future(Head(waiting_state)) \union Futures(rest)
        /\ Queued(rest) /\ Below(Future(Head(waiting_state)), Futures(rest))
        /\ Increasing(Head(waiting_state).on_write)
        /\ \A u \in Elements(Head(waiting_state).on_write) : Head(waiting_state).version < u
    BY <1>1, <1>2, <2>1, QueueTail
  <2> QED BY <2>2
<1> HIDE DEF op, new, rest
<1>8. /\ DOMAIN waiting_reads = 1 .. Len(waiting_reads)
      /\ DOMAIN waiting_reads' = 1 .. Len(waiting_reads) + 1 /\ Len(waiting_reads) \in Nat
      /\ \A i \in DOMAIN waiting_reads : waiting_reads'[i] = waiting_reads[i]
      /\ waiting_reads'[Len(waiting_reads) + 1] = new
  BY <1>1, <1>2, <1>4, SplitLast
<1>9. \A i \in DOMAIN waiting_reads' :
        (i \in DOMAIN waiting_reads /\ waiting_reads'[i] = waiting_reads[i]) \/ waiting_reads'[i] = new
  BY <1>8
<1>10. UNCHANGED <<inbox, log, can_rollback_to, unanswered>>
  BY <1>1 DEF shards
<1>11. v \in Version /\ v \in Nat /\ v # 0 /\ v \in Future(op)
  <2>1. v # 0 BY <1>0, <1>3 DEF Dummy
  <2>2. v \in {0} \union Version BY <1>3, OpFields
  <2>3. v \in Version BY <2>1, <2>2
  <2> QED BY <2>1, <2>3, VersionsAreNat DEF Future
<1>12. Forward'
  <2>1. op.roll_forward_to \in acked \union {0} BY <1>0, <1>3 DEF Forward
  <2>2. \A i \in DOMAIN waiting_reads' : waiting_reads'[i].roll_forward_to \in acked \union {0}
    BY <1>0, <1>4, <1>9, <2>1 DEF Forward
  <2>3. \A i \in DOMAIN rest : rest[i].roll_forward_to \in acked \union {0}
    BY <1>0, <1>3 DEF Forward
  <2> QED BY <1>0, <1>1, <1>6, <1>10, <2>2, <2>3 DEF Forward
<1>13. \A i \in DOMAIN waiting_reads : waiting_reads[i].version # 0
  BY <1>0, <1>1 DEF Dummy
<1>14. Dummy'
  <2>1. \A i \in DOMAIN waiting_reads' : waiting_reads'[i].version # 0 BY <1>4, <1>9, <1>11, <1>13
  <2>2. \A i \in DOMAIN rest : rest[i].version # 0 BY <1>0, <1>3 DEF Dummy
  <2>3. waiting_state' = rest /\ waiting_commit' = waiting_commit BY <1>1
  <2>4. \A i \in DOMAIN waiting_commit : waiting_commit[i].version = 0 =>
           waiting_commit[i].plan = NoPlan /\ ~ waiting_commit[i].using_cache
    BY <1>0 DEF Dummy
  <2> QED BY <2>1, <2>2, <2>3, <2>4 DEF Dummy
<1>15. Future(new) = Future(op) BY <1>4 DEF Future
<1>16. Futures(waiting_reads') = Futures(waiting_reads) \union Future(op) /\ Queued(waiting_reads')
  <2>1. Below(Futures(waiting_reads), Future(new)) BY <1>0, <1>7, <1>15 DEF Below, Queues
  <2>2. Increasing(new.on_write) /\ \A u \in Elements(new.on_write) : new.version < u
    BY <1>4, <1>7
  <2>3. Queued(waiting_reads) BY <1>0 DEF Queues
  <2>4. waiting_reads' = Append(waiting_reads, new) /\ new \in Op BY <1>1, <1>4
  <2>5. Futures(waiting_reads') = Futures(waiting_reads) \union Future(new)
    BY <1>2, <2>4, QueueAppend
  <2>6. Queued(waiting_reads')
    BY <1>2, <2>1, <2>2, <2>3, <2>4, QueueAppend
  <2> QED BY <1>15, <2>5, <2>6, Zenon
<1>17. Queues'
  <2>1. Below(Futures(waiting_reads'), Futures(rest)) /\ Below(pl, Futures(rest))
        /\ Below(pl, Futures(waiting_reads'))
    BY <1>0, <1>7, <1>16 DEF Below, Queues
  <2>2. \A u \in pl \union Futures(waiting_reads') \union Futures(rest) : u <= Len(plan)
    BY <1>0, <1>7, <1>16 DEF Queues
  <2> QED BY <1>1, <1>7, <1>10, <1>16, <2>1, <2>2 DEF Queues
<1>18. OnWrites'
  <2>1. Due' = Due BY <1>1 DEF Due
  <2>2. Below(Due, Futures(waiting_reads')) /\ Below(Due, Futures(rest))
    BY <1>0, <1>7, <1>16 DEF Below, OnWrites
  <2> QED BY <1>0, <1>1, <1>10, <2>1, <2>2 DEF OnWrites
<1>19. PlansKept'
  <2>1. \A i \in DOMAIN rest : rest[i].plan \in Plans \union {NoPlan} BY <1>0, <1>3 DEF PlansKept
  <2>2. op.plan \in Plans \union {NoPlan} BY <1>0, <1>3 DEF PlansKept
  <2>3. \A i \in DOMAIN waiting_reads' : waiting_reads'[i].plan \in Plans \union {NoPlan}
    BY <1>0, <1>4, <1>9, <2>2 DEF PlansKept
  <2> QED BY <1>0, <1>1, <2>1, <2>3 DEF PlansKept
<1>20. \A i \in DOMAIN waiting_reads : waiting_reads[i].version < v
  <2> SUFFICES ASSUME NEW i \in DOMAIN waiting_reads PROVE waiting_reads[i].version < v OBVIOUS
  <2>1. waiting_reads[i].version \in Futures(waiting_reads) BY <1>13 DEF Futures, Future
  <2> QED BY <1>0, <1>7, <1>11, <2>1 DEF Queues, Below
<1>21. \A k \in DOMAIN waiting_commit : waiting_commit[k].version < v
  <2> SUFFICES ASSUME NEW k \in DOMAIN waiting_commit PROVE waiting_commit[k].version < v OBVIOUS
  <2>1. waiting_commit[k].version \in {0} \union pl BY <1>0 DEF Commits
  <2>2. CASE waiting_commit[k].version = 0 BY <1>11, <2>2
  <2>3. CASE waiting_commit[k].version \in pl BY <1>0, <1>7, <1>11, <2>3 DEF Queues, Below
  <2> QED BY <2>1, <2>2, <2>3
<1>22. \A i \in DOMAIN waiting_reads : waiting_reads[i].version \in Nat
  <2>1. \A i \in DOMAIN waiting_reads : waiting_reads[i].version \in {0} \union Version
    BY <1>2, OpFields, LenProperties
  <2> QED BY <2>1, VersionsAreNat, Zenon
<1>23. \A k \in DOMAIN waiting_commit : waiting_commit[k].version \in Nat
  <2>1. \A k \in DOMAIN waiting_commit : waiting_commit[k].version \in {0} \union Version
    BY <1>2, OpFields, LenProperties
  <2> QED BY <2>1, VersionsAreNat, Zenon
<1>24. CacheHolds'
  <2>1. op.plan.to_read \subseteq op.plan.will_write /\ op.plan.will_write \subseteq Stripe
    <3>1. op.plan \in Plans \union {NoPlan} BY <1>0, <1>3 DEF PlansKept
    <3> QED BY <1>3, <3>1, ReadsWhatItWrites, OpFields
  <2>2. \A x \in Stripe : cache'[x] = IF ~ UsesCache(new, x) THEN cache[x]
                                      ELSE IF Cached(x) THEN [cache[x] EXCEPT !.pin = v]
                                      ELSE [pin |-> v, pending |-> TRUE, bl |-> NoContents]
    <3> SUFFICES ASSUME NEW x \in Stripe
                 PROVE  cache'[x] = IF ~ UsesCache(new, x) THEN cache[x]
                                      ELSE IF Cached(x) THEN [cache[x] EXCEPT !.pin = v]
                                      ELSE [pin |-> v, pending |-> TRUE, bl |-> NoContents]
      OBVIOUS
    <3>1. UsesCache(new, x) <=> UsingCache(op) /\ x \in op.plan.will_write
      BY <1>4 DEF UsesCache, UsingCache
    <3>2. CASE ~ UsingCache(op) BY <1>1, <3>1, <3>2
    <3>3. CASE UsingCache(op)
      <4>1. Reserved(v, op.plan.will_write)[x] = IF x \notin op.plan.will_write THEN cache[x]
                                      ELSE IF Cached(x) THEN [cache[x] EXCEPT !.pin = v]
                                      ELSE [pin |-> v, pending |-> TRUE, bl |-> NoContents]
        BY DEF Reserved
      <4> QED BY <1>1, <3>1, <3>3, <4>1, Zenon
    <3> QED BY <3>2, <3>3
  <2>3. ASSUME NEW x \in Stripe
        PROVE  /\ UsesCache(new, x) => cache'[x].pin = v
               /\ ~ UsesCache(new, x) => cache'[x] = cache[x]
               /\ cache'[x].pin = cache[x].pin \/ cache'[x].pin = v
               /\ Cached(x) => cache'[x].pending = cache[x].pending
    <3>1. CASE ~ UsesCache(new, x) BY <2>2, <3>1
    <3>2. CASE UsesCache(new, x) /\ Cached(x)
      <4>1. cache'[x] = [cache[x] EXCEPT !.pin = v] BY <2>2, <3>2
      <4> QED BY <1>2, <3>2, <4>1
    <3>3. CASE UsesCache(new, x) /\ ~ Cached(x)
      <4>1. cache'[x] = [pin |-> v, pending |-> TRUE, bl |-> NoContents] BY <2>2, <3>3
      <4>2. cache'[x].pin = v BY <4>1
      <4> QED BY <3>3, <4>2, Zenon
    <3> QED BY <3>1, <3>2, <3>3
  <2>4. ASSUME NEW i \in DOMAIN waiting_reads', NEW x \in Stripe, UsesCache(waiting_reads'[i], x)
        PROVE  waiting_reads'[i].version <= cache'[x].pin
    <3>1. CASE i \in DOMAIN waiting_reads /\ waiting_reads'[i] = waiting_reads[i]
      <4>1. waiting_reads[i].version <= cache[x].pin BY <1>0, <2>4, <3>1 DEF CacheHolds
      <4>2. waiting_reads[i].version <= v BY <1>11, <1>20, <1>22, <3>1
      <4> QED BY <2>3, <3>1, <4>1, <4>2
    <3>2. CASE waiting_reads'[i] = new BY <1>4, <1>11, <2>3, <2>4, <3>2
    <3> QED BY <1>9, <3>1, <3>2
  <2>5. ASSUME NEW k \in DOMAIN waiting_commit, NEW x \in Stripe, UsesCache(waiting_commit[k], x)
        PROVE  waiting_commit[k].version <= cache'[x].pin
    <3>1. waiting_commit[k].version <= cache[x].pin BY <1>0, <2>5 DEF CacheHolds
    <3>2. waiting_commit[k].version <= v BY <1>11, <1>21, <1>23
    <3> QED BY <2>3, <3>1, <3>2
  <2>6. \A i \in DOMAIN waiting_reads : \A x \in Stripe : UsesCache(waiting_reads[i], x) => Cached(x)
    <3> SUFFICES ASSUME NEW i \in DOMAIN waiting_reads, NEW x \in Stripe, UsesCache(waiting_reads[i], x)
                 PROVE  Cached(x)
      OBVIOUS
    <3>1. waiting_reads[i].version <= cache[x].pin BY <1>0 DEF CacheHolds
    <3>2. waiting_reads[i].version # 0 /\ waiting_reads[i].version \in Nat BY <1>13, <1>22
    <3> QED BY <3>1, <3>2 DEF Cached, NoPin
  <2>7. ASSUME NEW i \in DOMAIN waiting_reads', NEW x \in waiting_reads'[i].pending_read
        PROVE  /\ UsesCache(waiting_reads'[i], x)
               /\ cache'[x].pending => \E j \in 1 .. i - 1 : UsesCache(waiting_reads'[j], x)
    <3>1. CASE i \in DOMAIN waiting_reads /\ waiting_reads'[i] = waiting_reads[i]
      <4>1. /\ UsesCache(waiting_reads[i], x)
            /\ cache[x].pending => \E j \in 1 .. i - 1 : UsesCache(waiting_reads[j], x)
        BY <1>0, <2>7, <3>1 DEF CacheHolds
      <4>2. x \in Stripe
        <5>1. waiting_reads[i] \in Op BY <1>2, <3>1, LenProperties
        <5> QED BY <2>7, <3>1, <5>1, OpFields
      <4>3. cache'[x].pending = cache[x].pending BY <2>3, <2>6, <3>1, <4>1, <4>2
      <4>4. \A j \in 1 .. i - 1 : waiting_reads'[j] = waiting_reads[j] BY <1>8, <3>1
      <4> QED BY <3>1, <4>1, <4>3, <4>4
    <3>2. CASE i = Len(waiting_reads) + 1
      <4>1. waiting_reads'[i] = new BY <1>8, <3>2
      <4>2. x \in op.plan.to_read /\ x \notin ReadsRemotely(op) BY <1>4, <2>7, <4>1
      <4>3. UsingCache(op) /\ Cached(x) BY <4>2 DEF ReadsRemotely, MustRead
      <4>4. UsesCache(new, x) /\ x \in Stripe BY <1>4, <2>1, <4>2, <4>3 DEF UsesCache, UsingCache
      <4>5. cache'[x].pending = cache[x].pending BY <2>3, <4>3, <4>4
      <4>6. cache[x].pending => \E j \in 1 .. i - 1 : UsesCache(waiting_reads'[j], x)
        <5>1. cache[x].pending => \E j \in DOMAIN waiting_reads : UsesCache(waiting_reads[j], x)
          BY <1>0, <4>4 DEF CacheHolds
        <5>2. DOMAIN waiting_reads = 1 .. i - 1 BY <1>8, <3>2
        <5> QED BY <1>8, <5>1, <5>2
      <4> QED BY <4>1, <4>4, <4>5, <4>6
    <3> QED BY <1>8, <3>1, <3>2
  <2>8. ASSUME NEW x \in Stripe, cache'[x].pending
        PROVE  \E i \in DOMAIN waiting_reads' : UsesCache(waiting_reads'[i], x)
    <3>1. CASE UsesCache(new, x) BY <1>8, <3>1
    <3>2. CASE ~ UsesCache(new, x)
      <4>1. cache[x].pending BY <2>3, <2>8, <3>2
      <4>2. PICK i \in DOMAIN waiting_reads : UsesCache(waiting_reads[i], x)
        BY <1>0, <4>1 DEF CacheHolds
      <4> QED BY <1>8, <4>2
    <3> QED BY <3>1, <3>2
  <2>9. waiting_commit' = waiting_commit BY <1>1
  <2> QED BY <2>4, <2>5, <2>7, <2>8, <2>9 DEF CacheHolds
<1> QED BY <1>0, <1>1, <1>5, <1>6, <1>12, <1>14, <1>17, <1>18, <1>19, <1>24 DEF IInv

(* What a finished read changes. *)
LEMMA ReadDoneIs ==
  ASSUME TypeOK, DOMAIN written = Version, NEW i \in DOMAIN waiting_reads, NEW s \in Shard,
         ReadDone(i, s)
  PROVE  /\ DOMAIN waiting_reads' = DOMAIN waiting_reads /\ Len(waiting_reads') = Len(waiting_reads)
         /\ \A j \in DOMAIN waiting_reads :
              /\ waiting_reads'[j].version = waiting_reads[j].version
              /\ waiting_reads'[j].plan = waiting_reads[j].plan
              /\ waiting_reads'[j].roll_forward_to = waiting_reads[j].roll_forward_to
              /\ waiting_reads'[j].using_cache = waiting_reads[j].using_cache
              /\ waiting_reads'[j].pending_read = waiting_reads[j].pending_read
              /\ waiting_reads'[j].remote_read = waiting_reads[j].remote_read
              /\ waiting_reads'[j].on_write = waiting_reads[j].on_write
              /\ j # i => waiting_reads'[j] = waiting_reads[j]
         /\ \A x \in waiting_reads[i].remote_read :
              waiting_reads'[i].remote_read_result[x] = Stored(s, x)
<1> DEFINE op == waiting_reads[i]
           res == [x \in Stripe |-> IF x \in op.remote_read THEN Stored(s, x)
                                                            ELSE op.remote_read_result[x]]
           new == [op EXCEPT !.read_done = TRUE, !.remote_read_result = res]
<1>1. waiting_reads \in Seq(Op) BY Types
<1>2. i \in 1 .. Len(waiting_reads) /\ op \in Op
  BY <1>1, LenProperties, ElementOfSeq
<1>3. waiting_reads' = [waiting_reads EXCEPT ![i] = new]
  <2> USE Types
  <2> QED BY DEF ReadDone
<1>4. op.remote_read \subseteq Stripe BY <1>2, OpFields
<1> HIDE DEF res
<1>5. /\ new.version = op.version /\ new.plan = op.plan
      /\ new.roll_forward_to = op.roll_forward_to /\ new.using_cache = op.using_cache
      /\ new.pending_read = op.pending_read /\ new.remote_read = op.remote_read
      /\ new.on_write = op.on_write /\ new.remote_read_result = res
  <2> HIDE DEF op
  <2> QED BY <1>2 DEF Op
<1>6. \A x \in op.remote_read : res[x] = Stored(s, x) BY <1>4 DEF res
<1>7. TypeOK' BY TypeReadDone
<1>8. DOMAIN waiting_reads' = DOMAIN waiting_reads /\ waiting_reads'[i] = new
      /\ \A j \in DOMAIN waiting_reads : j # i => waiting_reads'[j] = waiting_reads[j]
  <2> HIDE DEF new
  <2> QED BY <1>3
<1>9. waiting_reads' \in Seq(Op) BY <1>7 DEF TypeOK
<1>10. Len(waiting_reads') = Len(waiting_reads)
  BY <1>1, <1>8, <1>9, LenProperties
<1> HIDE DEF new
<1>11. ASSUME NEW j \in DOMAIN waiting_reads
       PROVE  /\ waiting_reads'[j].version = waiting_reads[j].version
              /\ waiting_reads'[j].plan = waiting_reads[j].plan
              /\ waiting_reads'[j].roll_forward_to = waiting_reads[j].roll_forward_to
              /\ waiting_reads'[j].using_cache = waiting_reads[j].using_cache
              /\ waiting_reads'[j].pending_read = waiting_reads[j].pending_read
              /\ waiting_reads'[j].remote_read = waiting_reads[j].remote_read
              /\ waiting_reads'[j].on_write = waiting_reads[j].on_write
  BY <1>5, <1>8
<1> QED BY <1>5, <1>6, <1>8, <1>10, <1>11

(* A list whose operations keep their versions and callbacks keeps its order. *)
LEMMA QueueKept ==
  ASSUME NEW list, NEW r, DOMAIN r = DOMAIN list,
         \A i \in DOMAIN list : r[i].version = list[i].version /\ r[i].on_write = list[i].on_write
  PROVE  Futures(r) = Futures(list) /\ (Queued(list) => Queued(r))
<1>1. \A i \in DOMAIN list : Future(r[i]) = Future(list[i]) BY DEF Future
<1>2. Futures(r) = Futures(list) BY <1>1 DEF Futures
<1>3. Queued(list) => Queued(r) BY <1>1 DEF Queued
<1> QED BY <1>2, <1>3

(* Two lists of operations that differ only in what was read and in callbacks. *)
Alike(a, b) ==
  /\ DOMAIN a = DOMAIN b
  /\ \A i \in DOMAIN b :
       /\ a[i].version = b[i].version /\ a[i].plan = b[i].plan
       /\ a[i].roll_forward_to = b[i].roll_forward_to
       /\ a[i].using_cache = b[i].using_cache /\ a[i].pending_read = b[i].pending_read

(* The cache serves a list that is like one that it serves. *)
LEMMA CacheHoldsKept ==
  ASSUME TypeOK, DOMAIN written = Version, CacheHolds, UNCHANGED cache,
         Alike(waiting_reads', waiting_reads), Alike(waiting_commit', waiting_commit)
  PROVE  CacheHolds'
<1>1. /\ waiting_reads \in Seq(Op) /\ DOMAIN waiting_reads = 1 .. Len(waiting_reads)
      /\ Len(waiting_reads) \in Nat
  BY Types, LenProperties
<1>2. \A j \in DOMAIN waiting_reads : waiting_reads[j].pending_read \subseteq Stripe
  <2>1. \A j \in DOMAIN waiting_reads : waiting_reads[j] \in Op BY <1>1
  <2> QED BY <2>1, OpFields
<1>3. \A j \in DOMAIN waiting_reads, x \in Stripe :
        UsesCache(waiting_reads'[j], x) <=> UsesCache(waiting_reads[j], x)
  BY DEF UsesCache, Alike
<1>4. \A k \in DOMAIN waiting_commit, x \in Stripe :
        UsesCache(waiting_commit'[k], x) <=> UsesCache(waiting_commit[k], x)
  BY DEF UsesCache, Alike
<1>5. ASSUME NEW j \in DOMAIN waiting_reads, NEW x \in waiting_reads[j].pending_read
      PROVE  /\ UsesCache(waiting_reads'[j], x)
             /\ cache[x].pending => \E k \in 1 .. j - 1 : UsesCache(waiting_reads'[k], x)
  <2>1. /\ UsesCache(waiting_reads[j], x)
        /\ cache[x].pending => \E k \in 1 .. j - 1 : UsesCache(waiting_reads[k], x)
    BY <1>5 DEF CacheHolds
  <2>2. x \in Stripe /\ \A k \in 1 .. j - 1 : k \in DOMAIN waiting_reads BY <1>1, <1>2, <1>5
  <2> QED BY <1>3, <2>1, <2>2
<1>6. \A j \in DOMAIN waiting_reads, x \in Stripe : UsesCache(waiting_reads'[j], x) =>
        waiting_reads'[j].version <= cache[x].pin
  BY <1>3 DEF CacheHolds, Alike
<1>7. \A k \in DOMAIN waiting_commit, x \in Stripe : UsesCache(waiting_commit'[k], x) =>
        waiting_commit'[k].version <= cache[x].pin
  BY <1>4 DEF CacheHolds, Alike
<1>8. \A x \in Stripe : cache[x].pending => \E j \in DOMAIN waiting_reads : UsesCache(waiting_reads'[j], x)
  BY <1>3 DEF CacheHolds
<1>9. /\ DOMAIN waiting_reads' = DOMAIN waiting_reads /\ DOMAIN waiting_commit' = DOMAIN waiting_commit
      /\ \A j \in DOMAIN waiting_reads : waiting_reads'[j].pending_read = waiting_reads[j].pending_read
  BY DEF Alike
<1> QED BY <1>5, <1>6, <1>7, <1>8, <1>9 DEF CacheHolds

(* The read of a write is done. *)
LEMMA IInvReadDone ==
  ASSUME IInv, NEW i \in DOMAIN waiting_reads, NEW s \in Shard, ReadDone(i, s)
  PROVE  IInv'
<1>0. /\ TypeOK /\ DOMAIN written = Version /\ ok /\ Streams /\ Answers /\ Reported /\ Forward /\ Dummy
      /\ Queues /\ OnWrites /\ Commits /\ CacheHolds /\ PlansKept
  BY DEF IInv
<1>1. /\ Settled
      /\ UNCHANGED <<waiting_state, waiting_commit, cache_valid, cache, committed_to,
                     log_update, plan, shards, acked, intervals, ok>>
  BY Zenon DEF ReadDone
<1>2. /\ DOMAIN waiting_reads' = DOMAIN waiting_reads /\ Len(waiting_reads') = Len(waiting_reads)
      /\ \A j \in DOMAIN waiting_reads :
           /\ waiting_reads'[j].version = waiting_reads[j].version
           /\ waiting_reads'[j].plan = waiting_reads[j].plan
           /\ waiting_reads'[j].roll_forward_to = waiting_reads[j].roll_forward_to
           /\ waiting_reads'[j].using_cache = waiting_reads[j].using_cache
           /\ waiting_reads'[j].pending_read = waiting_reads[j].pending_read
           /\ waiting_reads'[j].on_write = waiting_reads[j].on_write
  BY <1>0, ReadDoneIs
<1>3. TypeOK' /\ DOMAIN written' = Version BY <1>0, TypeReadDone
<1>4. Streams' /\ Answers' /\ Reported' /\ Commits' /\ \A t \in Shard : Stream(t)' = Stream(t)
  BY <1>0, <1>1, ShardsKept
<1>5. UNCHANGED <<inbox, log, can_rollback_to, unanswered>>
  BY <1>1 DEF shards
<1>6. Forward'
  <2>1. \A j \in DOMAIN waiting_reads' : waiting_reads'[j].roll_forward_to \in acked \union {0}
    BY <1>0, <1>2 DEF Forward
  <2> QED BY <1>0, <1>1, <1>4, <1>5, <2>1 DEF Forward
<1>7. Dummy'
  <2>1. \A j \in DOMAIN waiting_reads' : waiting_reads'[j].version # 0 BY <1>1, <1>2, NoDummySettled DEF Settled
  <2>2. waiting_state' = waiting_state /\ waiting_commit' = waiting_commit BY <1>1
  <2>3. /\ \A k \in DOMAIN waiting_commit : waiting_commit[k].version = 0 =>
              waiting_commit[k].plan = NoPlan /\ ~ waiting_commit[k].using_cache
        /\ \A k \in DOMAIN waiting_state : waiting_state[k].version # 0
    BY <1>0 DEF Dummy
  <2> QED BY <2>1, <2>2, <2>3 DEF Dummy
<1>8. Futures(waiting_reads') = Futures(waiting_reads) /\ (Queued(waiting_reads) => Queued(waiting_reads'))
  BY <1>2, QueueKept
<1>9. Queues' BY <1>0, <1>1, <1>5, <1>8 DEF Queues
<1>10. OnWrites'
  <2>1. Due' = Due BY <1>1 DEF Due
  <2> QED BY <1>0, <1>1, <1>5, <1>8, <2>1 DEF OnWrites
<1>11. Alike(waiting_reads', waiting_reads) /\ Alike(waiting_commit', waiting_commit)
  BY <1>1, <1>2 DEF Alike
<1>12. CacheHolds' BY <1>0, <1>1, <1>11, CacheHoldsKept
<1>13. PlansKept' BY <1>0, <1>1, <1>2 DEF PlansKept
<1> QED BY <1>0, <1>1, <1>3, <1>4, <1>6, <1>7, <1>9, <1>10, <1>12, <1>13 DEF IInv

(* try_finish_rmw() *)
LEMMA IInvFinish ==
  ASSUME IInv, TryFinishRmw
  PROVE  IInv'
<1> DEFINE op == Head(waiting_commit)
           v == op.version
           rest == Tail(waiting_commit)
           new == NewOp(0, NoPlan, v)
           pl == Elements(log[Primary])
<1>0. /\ TypeOK /\ DOMAIN written = Version /\ ok /\ Streams /\ Answers /\ Reported /\ Forward /\ Dummy
      /\ Queues /\ OnWrites /\ Commits /\ CacheHolds /\ PlansKept
  BY DEF IInv
<1>1. /\ ~ StateCanMove /\ ~ ReadsCanMove
      /\ waiting_commit # <<>> /\ op.pending_commit = {}
      /\ waiting_commit' = rest
      /\ committed_to' = Maximum({committed_to, v})
      /\ \/ waiting_reads' = waiting_reads
         \/ waiting_reads = <<>> /\ rest = <<>> /\ waiting_reads' = <<new>> /\ (cache_valid' <=> cache_valid)
      /\ cache' = IF op.using_cache THEN Released(v) ELSE cache
      /\ UNCHANGED <<waiting_state, log_update, plan, shards, acked, intervals, ok>>
  BY DEF TryFinishRmw, CommitCanMove, WriteInProgress
<1>2. /\ waiting_reads \in Seq(Op) /\ waiting_commit \in Seq(Op) /\ committed_to \in {0} \union Version
      /\ cache \in [Stripe -> [pin : {NoPin} \union Version, pending : BOOLEAN, bl : Contents]]
  BY <1>0, Types
<1>3. /\ op \in Op /\ Len(waiting_commit) \in Nat \ {0} /\ rest \in Seq(Op)
      /\ Len(rest) = Len(waiting_commit) - 1
      /\ 1 \in DOMAIN waiting_commit /\ waiting_commit[1] = op
      /\ DOMAIN waiting_commit = 1 .. Len(waiting_commit) /\ DOMAIN rest = 1 .. Len(waiting_commit) - 1
      /\ \A i \in DOMAIN rest : rest[i] = waiting_commit[i + 1] /\ i + 1 \in DOMAIN waiting_commit
  BY <1>1, <1>2, SplitHead
<1>4. TypeOK' /\ DOMAIN written' = Version BY <1>0, TypeFinish
<1>5. v \in {0} \union Version /\ v \in Nat
  <2>1. v \in {0} \union Version
    <3> HIDE DEF op
    <3> QED BY <1>3, OpFields
  <2> QED BY <2>1, VersionsAreNat
<1>6. /\ new \in Op /\ new.version = 0 /\ new.plan = NoPlan /\ new.roll_forward_to = v
      /\ ~ new.using_cache /\ new.pending_read = {} /\ new.remote_read = {} /\ new.on_write = <<>>
  <2>1. new = NewOp(0, NoPlan, v) OBVIOUS
  <2> HIDE DEF new, v
  <2>2. \A a \in {0} \union Version : NewOp(a, NoPlan, v) \in Op /\ NewOp(a, NoPlan, v).version = a
          /\ NewOp(a, NoPlan, v).plan = NoPlan /\ NewOp(a, NoPlan, v).roll_forward_to = v
          /\ ~ NewOp(a, NoPlan, v).using_cache /\ NewOp(a, NoPlan, v).pending_read = {}
          /\ NewOp(a, NoPlan, v).remote_read = {} /\ NewOp(a, NoPlan, v).on_write = <<>>
    BY <1>5, NoPlanIsPlan, NewOpIs
  <2> QED BY <2>1, <2>2, Zenon
<1> HIDE DEF op, rest, new
<1>7. Streams' /\ \A s \in Shard : Stream(s)' = Stream(s)
  BY <1>0, <1>1, ShardsKept
<1>8. \A s \in Shard : \A u : (Asked(s, u)' <=> Asked(s, u)) /\ (AskedLog(s, u)' <=> AskedLog(s, u))
  BY <1>1, ShardsKept
<1>9. UNCHANGED <<inbox, log, can_rollback_to, unanswered>>
  BY <1>1 DEF shards
<1>10. \A k \in DOMAIN waiting_commit : k = 1 \/ (k - 1 \in DOMAIN rest /\ rest[k - 1] = waiting_commit[k])
  BY <1>3
<1>11. Answers'
  <2>1. \A s \in Shard, u \in {0} \union Version : WaitsFor(s, u)' <=> WaitsFor(s, u)
    <3> SUFFICES ASSUME NEW s \in Shard, NEW u \in {0} \union Version PROVE WaitsFor(s, u)' <=> WaitsFor(s, u)
      OBVIOUS
    <3>1. WaitsFor(s, u)' <=> \E k \in DOMAIN rest : rest[k].version = u /\ s \in rest[k].pending_commit
      BY <1>1 DEF WaitsFor
    <3> QED BY <1>1, <1>3, <1>10, <3>1 DEF WaitsFor
  <2>2. \A u \in Version : \A k \in DOMAIN rest : rest[k].version = u => log_update[u] = {}
    BY <1>0, <1>3 DEF Answers
  <2>3. waiting_commit' = rest /\ log_update' = log_update BY <1>1
  <2> QED BY <1>0, <1>7, <1>8, <2>1, <2>2, <2>3 DEF Answers
<1>12. v \in acked \union {0} BY <1>0, <1>1, <1>3 DEF Reported
<1>13. Reported'
  <2>1. \A k \in DOMAIN rest : rest[k].pending_commit = {} => rest[k].version \in acked \union {0}
    BY <1>0, <1>3 DEF Reported
  <2> QED BY <1>0, <1>1, <1>7, <1>9, <2>1 DEF Reported
<1>14. \A i \in DOMAIN waiting_reads' :
         \/ i \in DOMAIN waiting_reads /\ waiting_reads'[i] = waiting_reads[i]
         \/ waiting_reads'[i] = new /\ waiting_reads' = <<new>> /\ waiting_reads = <<>> /\ rest = <<>>
            /\ (cache_valid' <=> cache_valid)
  BY <1>1
<1>15. Forward'
  <2>1. committed_to' \in acked \union {0}
    <3>1. committed_to' \in {committed_to, v} BY <1>1, <1>2, <1>5, LargerOfTwo
    <3> QED BY <1>0, <1>12, <3>1 DEF Forward
  <2>2. \A i \in DOMAIN rest : rest[i].roll_forward_to \in acked \union {0} BY <1>0, <1>3 DEF Forward
  <2>3. \A i \in DOMAIN waiting_reads' : waiting_reads'[i].roll_forward_to \in acked \union {0}
    BY <1>0, <1>6, <1>12, <1>14 DEF Forward
  <2> QED BY <1>0, <1>1, <1>7, <1>9, <2>1, <2>2, <2>3 DEF Forward
<1>16. Dummy'
  <2>1. \A i \in DOMAIN waiting_reads : waiting_reads[i].version # 0 BY <1>1, NoDummySettled
  <2>2. ASSUME NEW i \in DOMAIN waiting_reads', waiting_reads'[i].version = 0
        PROVE  /\ Len(waiting_reads') = 1 /\ waiting_commit' = <<>>
               /\ waiting_reads'[i].plan = NoPlan /\ waiting_reads'[i].on_write = <<>>
               /\ waiting_reads'[i].remote_read = {} /\ waiting_reads'[i].pending_read = {}
               /\ ~ waiting_reads'[i].using_cache
               /\ ~ StateCanMove'
    <3>1. waiting_reads'[i] = new /\ waiting_reads' = <<new>> /\ rest = <<>> /\ (cache_valid' <=> cache_valid)
      BY <1>14, <2>1, <2>2
    <3>2. ~ StateCanMove' BY <1>1, <3>1 DEF StateCanMove
    <3>3. Len(waiting_reads') = 1 BY <3>1
    <3> QED BY <1>1, <1>6, <3>1, <3>2, <3>3
  <2>3. \A i \in DOMAIN rest : rest[i].version = 0 => rest[i].plan = NoPlan /\ ~ rest[i].using_cache
    BY <1>0, <1>3 DEF Dummy
  <2>4. \A i \in DOMAIN waiting_state' : waiting_state'[i].version # 0 BY <1>0, <1>1 DEF Dummy
  <2> QED BY <1>1, <2>2, <2>3, <2>4 DEF Dummy
<1>17. Future(new) = {} BY <1>6, <1>5 DEF Future, Elements
<1>18. Futures(waiting_reads') \subseteq Futures(waiting_reads) /\ Queued(waiting_reads')
  <2>1. CASE waiting_reads' = waiting_reads BY <1>0, <2>1 DEF Queues
  <2>2. CASE waiting_reads' = <<new>>
    <3>1. DOMAIN waiting_reads' = {1} /\ waiting_reads'[1] = new BY <2>2
    <3>2. Futures(waiting_reads') = {} BY <1>17, <3>1 DEF Futures
    <3>3. Increasing(new.on_write) /\ \A u \in Elements(new.on_write) : new.version < u
      BY <1>6 DEF Increasing, Elements
    <3>4. Queued(waiting_reads') BY <3>1, <3>3 DEF Queued
    <3> QED BY <3>2, <3>4
  <2> QED BY <1>1, <2>1, <2>2
<1>19. Queues' BY <1>0, <1>1, <1>9, <1>18 DEF Queues, Below
<1>20. OnWrites'
  <2>1. Due' \subseteq Due
    <3>1. Due' = UNION {Elements(rest[k].on_write) : k \in DOMAIN rest} BY <1>1 DEF Due
    <3> QED BY <1>3, <3>1 DEF Due
  <2>2. \A k \in DOMAIN rest : /\ k # Len(rest) => rest[k].on_write = <<>>
                               /\ Increasing(rest[k].on_write)
    <3> SUFFICES ASSUME NEW k \in DOMAIN rest
                 PROVE  (k # Len(rest) => rest[k].on_write = <<>>) /\ Increasing(rest[k].on_write)
      OBVIOUS
    <3>1. k + 1 \in DOMAIN waiting_commit /\ rest[k] = waiting_commit[k + 1] BY <1>3
    <3>2. k # Len(rest) => k + 1 # Len(waiting_commit) BY <1>3
    <3> QED BY <1>0, <3>1, <3>2 DEF OnWrites
  <2> QED BY <1>0, <1>1, <1>9, <1>18, <2>1, <2>2 DEF OnWrites, Below
<1>21. /\ InVersionOrder(rest)
       /\ \A k \in DOMAIN rest : rest[k].version # 0 => v < rest[k].version
  <2>1. InVersionOrder(waiting_commit) BY <1>0 DEF Commits
  <2>2. Head(waiting_commit) = op /\ Tail(waiting_commit) = rest BY DEF op, rest
  <2> QED BY <1>1, <1>2, <2>1, <2>2, VersionOrder
<1>22. Commits'
  <2>1. \A k \in DOMAIN rest : rest[k].version \in {0} \union pl BY <1>0, <1>3 DEF Commits
  <2> QED BY <1>1, <1>9, <1>21, <2>1 DEF Commits
<1>23. CacheHolds'
  <2>1. ASSUME NEW x \in Stripe
        PROVE  /\ cache'[x].pending => cache[x].pending
               /\ cache'[x].pin = cache[x].pin \/ cache[x].pin = v
    <3>1. CASE ~ op.using_cache BY <1>1, <3>1
    <3>2. CASE op.using_cache
      <4>1. cache'[x] = IF cache[x].pin = v THEN Absent ELSE cache[x] BY <1>1, <3>2 DEF Released
      <4>2. ~ Absent.pending BY DEF Absent
      <4> QED BY <4>1, <4>2
    <3> QED BY <3>1, <3>2
  <2>2. v \in {0} \union pl BY <1>0, <1>3 DEF Commits
  <2>3. \A x \in Stripe : cache[x].pin \in Nat
    <3>1. \A x \in Stripe : cache[x].pin \in {0} \union Version BY <1>2 DEF NoPin
    <3> QED BY <3>1, VersionsAreNat, Zenon
  <2>4. ASSUME NEW i \in DOMAIN waiting_reads', NEW x \in Stripe, UsesCache(waiting_reads'[i], x)
        PROVE  waiting_reads'[i].version <= cache'[x].pin
    <3>1. waiting_reads'[i] # new BY <1>6, <2>4 DEF UsesCache
    <3>2. i \in DOMAIN waiting_reads /\ waiting_reads'[i] = waiting_reads[i] BY <1>14, <3>1
    <3>3. waiting_reads[i].version <= cache[x].pin BY <1>0, <2>4, <3>2 DEF CacheHolds
    <3>4. waiting_reads[i].version \in Nat /\ waiting_reads[i].version # 0 /\ v < waiting_reads[i].version
      <4>1. waiting_reads[i].version # 0 BY <1>0, <2>4, <3>2 DEF Dummy, UsesCache
      <4>2. waiting_reads[i].version \in Futures(waiting_reads) BY <3>2, <4>1 DEF Futures, Future
      <4>3. waiting_reads[i].version \in Nat BY <1>0, <4>2, QueuesAreNat
      <4>4. v = 0 \/ v < waiting_reads[i].version BY <1>0, <2>2, <4>2 DEF Queues, Below
      <4> QED BY <4>1, <4>3, <4>4
    <3>5. cache[x].pin # v BY <1>5, <2>3, <3>3, <3>4
    <3> QED BY <2>1, <3>2, <3>3, <3>5
  <2>5. ASSUME NEW k \in DOMAIN rest, NEW x \in Stripe, UsesCache(rest[k], x)
        PROVE  rest[k].version <= cache'[x].pin
    <3>1. rest[k].version <= cache[x].pin BY <1>0, <1>3, <2>5 DEF CacheHolds
    <3>2. rest[k].version # 0 BY <1>0, <1>3, <2>5 DEF Dummy, UsesCache
    <3>3. rest[k].version \in {0} \union Version
      <4>1. rest[k] \in Op BY <1>3, LenProperties
      <4> QED BY <4>1, OpFields
    <3>4. rest[k].version \in Nat BY <3>3, VersionsAreNat, Zenon
    <3>5. v < rest[k].version BY <1>21, <3>2
    <3>6. cache[x].pin # v BY <1>5, <2>3, <3>1, <3>4, <3>5
    <3> QED BY <2>1, <3>1, <3>6
  <2>6. ASSUME NEW i \in DOMAIN waiting_reads', NEW x \in waiting_reads'[i].pending_read
        PROVE  /\ UsesCache(waiting_reads'[i], x)
               /\ cache'[x].pending => \E j \in 1 .. i - 1 : UsesCache(waiting_reads'[j], x)
    <3>1. waiting_reads'[i] # new BY <1>6, <2>6
    <3>2. i \in DOMAIN waiting_reads /\ waiting_reads' = waiting_reads BY <1>1, <1>14, <2>6, <3>1
    <3>3. x \in Stripe
      <4>1. waiting_reads[i] \in Op BY <1>2, <3>2, LenProperties
      <4> QED BY <2>6, <3>2, <4>1, OpFields
    <3>4. /\ UsesCache(waiting_reads[i], x)
          /\ cache[x].pending => \E j \in 1 .. i - 1 : UsesCache(waiting_reads[j], x)
      BY <1>0, <2>6, <3>2 DEF CacheHolds
    <3> QED BY <2>1, <3>2, <3>3, <3>4
  <2>7. ASSUME NEW x \in Stripe, cache'[x].pending
        PROVE  \E i \in DOMAIN waiting_reads' : UsesCache(waiting_reads'[i], x)
    <3>1. cache[x].pending BY <2>1, <2>7
    <3>2. PICK i \in DOMAIN waiting_reads : UsesCache(waiting_reads[i], x) BY <1>0, <3>1 DEF CacheHolds
    <3>3. waiting_reads # <<>> BY <3>2
    <3> QED BY <1>1, <3>2, <3>3
  <2> QED BY <1>1, <2>4, <2>5, <2>6, <2>7 DEF CacheHolds
<1>24. PlansKept'
  <2>1. \A i \in DOMAIN rest : rest[i].plan \in Plans \union {NoPlan} BY <1>0, <1>3 DEF PlansKept
  <2>2. \A i \in DOMAIN waiting_reads' : waiting_reads'[i].plan \in Plans \union {NoPlan}
    BY <1>0, <1>6, <1>14 DEF PlansKept
  <2> QED BY <1>0, <1>1, <2>1, <2>2 DEF PlansKept
<1> QED BY <1>0, <1>1, <1>4, <1>7, <1>11, <1>13, <1>15, <1>16, <1>19, <1>20, <1>22, <1>23, <1>24 DEF IInv

-----------------------------------------------------------------------------
(* Entries that bypass the pipeline *)

(* The shards' part of the invariant when an entry newer than the log goes to all. *)
LEMMA LogUpdateShards ==
  ASSUME IInv, NEW v \in Version, UpdateLogs(v), \A u \in Elements(log[Primary]) : u < v,
         UNCHANGED <<waiting_state, waiting_reads, acked, committed_to>>,
         Alike(waiting_commit', waiting_commit),
         \A k \in DOMAIN waiting_commit : waiting_commit'[k].pending_commit = waiting_commit[k].pending_commit
  PROVE  /\ Streams' /\ Answers' /\ Reported' /\ Forward' /\ Commits' /\ ok'
         /\ Elements(log'[Primary]) = Elements(log[Primary]) \union {v}
<1> DEFINE m == UpdateLogMissing(v)
           pl == Elements(log[Primary])
<1>0. /\ TypeOK /\ DOMAIN written = Version /\ ok /\ Streams /\ Answers /\ Reported /\ Forward /\ Commits
  BY DEF IInv
<1>1. m \in Message /\ m.version = v /\ m.roll_forward_to = 0 /\ m.log_update
  BY UpdateLogMissingIs
<1>2. /\ SendToAll(m) /\ log_update' = [log_update EXCEPT ![v] = Shard]
      /\ ok' = (ok /\ InOrder(Primary, m))
  BY DEF UpdateLogs, LogUpdateWaitsOn
<1> HIDE DEF m
<1>3. v # 0 /\ v \in Nat /\ {v} \ {0} = {v} BY VersionsAreNat
<1>4. /\ Streams'
      /\ Elements(log'[Primary]) = pl \union ({v} \ {0})
      /\ \A s \in Shard : /\ Stream(s)' = Append(Stream(s), m)
                          /\ Carried(Stream(s)') = Carried(Stream(s)) \union ({v} \ {0})
      /\ InOrder(Primary, m)
  BY <1>0, <1>1, <1>2, <1>3, StreamsSend
<1>5. v \notin pl
  <2>1. v \in pl => v < v OBVIOUS
  <2> QED BY <1>3, <2>1
<1>6. /\ DOMAIN waiting_commit' = DOMAIN waiting_commit
      /\ \A k \in DOMAIN waiting_commit :
           /\ waiting_commit'[k].version = waiting_commit[k].version
           /\ waiting_commit'[k].roll_forward_to = waiting_commit[k].roll_forward_to
           /\ waiting_commit'[k].pending_commit = waiting_commit[k].pending_commit
  BY DEF Alike
<1>7. log_update \in [Version -> SUBSET Shard] BY <1>0, Types
<1>8. \A s \in Shard :
        /\ \A u : Asked(s, u)' <=> Asked(s, u) \/ (~ m.log_update /\ u = m.version)
        /\ \A u : AskedLog(s, u)' <=> AskedLog(s, u) \/ (m.log_update /\ u = m.version)
        /\ \A i \in DOMAIN Stream(s)' : Stream(s)'[i] = m \/ (i \in DOMAIN Stream(s) /\ Stream(s)'[i] = Stream(s)[i])
  BY <1>0, <1>1, <1>4, AskedSend
<1>9. Answers'
  <2>1. \A s \in Shard : \A i \in DOMAIN Stream(s)' :
          Stream(s)'[i].log_update => Stream(s)'[i].version # 0
    BY <1>0, <1>1, <1>3, <1>8 DEF Answers
  <2>2. \A s \in Shard, u \in {0} \union Version : Asked(s, u)' <=> WaitsFor(s, u)'
    <3> SUFFICES ASSUME NEW s \in Shard, NEW u \in {0} \union Version
                 PROVE  Asked(s, u)' <=> WaitsFor(s, u)'
      OBVIOUS
    <3>1. Asked(s, u) <=> WaitsFor(s, u) BY <1>0 DEF Answers
    <3>2. Asked(s, u)' <=> Asked(s, u) BY <1>1, <1>8
    <3>3. WaitsFor(s, u)' <=> WaitsFor(s, u) BY <1>6 DEF WaitsFor
    <3> QED BY <3>1, <3>2, <3>3
  <2>3. \A s \in Shard, u \in Version : AskedLog(s, u)' <=> s \in log_update'[u]
    <3> SUFFICES ASSUME NEW s \in Shard, NEW u \in Version
                 PROVE  AskedLog(s, u)' <=> s \in log_update'[u]
      OBVIOUS
    <3>1. AskedLog(s, u) <=> s \in log_update[u] BY <1>0 DEF Answers
    <3>2. AskedLog(s, u)' <=> AskedLog(s, u) \/ u = v BY <1>1, <1>8
    <3>3. CASE u = v BY <1>2, <1>7, <3>2, <3>3
    <3>4. CASE u # v BY <1>2, <1>7, <3>1, <3>2, <3>4
    <3> QED BY <3>3, <3>4
  <2>4. ASSUME NEW u \in Version, NEW k \in DOMAIN waiting_commit, waiting_commit[k].version = u
        PROVE  log_update'[u] = {}
    <3>1. u \in {0} \union pl BY <1>0, <2>4 DEF Commits
    <3>2. u # v BY <1>3, <1>5, <3>1
    <3>3. log_update[u] = {} BY <1>0, <2>4 DEF Answers
    <3> QED BY <1>2, <1>7, <3>2, <3>3
  <2> QED BY <1>6, <2>1, <2>2, <2>3, <2>4 DEF Answers
<1>10. Reported'
  <2>1. acked \subseteq pl \union {v} BY <1>0 DEF Reported
  <2>2. v \notin acked BY <1>0, <1>5 DEF Reported
  <2>3. \A s \in Shard : acked \intersect Carried(Stream(s)') = {}
    BY <1>0, <1>3, <1>4, <2>2 DEF Reported
  <2>4. ASSUME NEW u \in Elements(log'[Primary]) \ acked
        PROVE  \E s \in Shard : u \in Carried(Stream(s)')
    <3>1. CASE u \in pl BY <1>0, <1>4, <2>4, <3>1 DEF Reported
    <3>2. CASE u = v BY <1>3, <1>4, <3>2, ShardAssumption
    <3> QED BY <1>3, <1>4, <3>1, <3>2
  <2>5. \A k \in DOMAIN waiting_commit' : waiting_commit'[k].pending_commit = {} =>
          waiting_commit'[k].version \in acked \union {0}
    BY <1>0, <1>6 DEF Reported
  <2> QED BY <1>3, <1>4, <2>1, <2>3, <2>4, <2>5 DEF Reported
<1>11. Forward'
  <2>1. \A k \in DOMAIN waiting_commit' : waiting_commit'[k].roll_forward_to \in acked \union {0}
    BY <1>0, <1>6 DEF Forward
  <2>2. \A s \in Shard : \A i \in DOMAIN Stream(s)' : Stream(s)'[i].roll_forward_to \in acked \union {0}
    BY <1>0, <1>1, <1>8 DEF Forward
  <2>3. \A s \in Shard : can_rollback_to'[s] \in acked \union {0}
    <3>1. can_rollback_to' = [can_rollback_to EXCEPT ![Primary] = Maximum({@, m.roll_forward_to})]
      BY <1>2 DEF SendToAll, Handled
    <3>2. /\ can_rollback_to[Primary] \in {0} \union Version /\ m.roll_forward_to \in {0} \union Version
          /\ can_rollback_to \in [Shard -> {0} \union Version]
      BY <1>0, <1>1, Types, ShardAssumption
    <3>3. Maximum({can_rollback_to[Primary], m.roll_forward_to}) \in {can_rollback_to[Primary], m.roll_forward_to}
      BY <3>2, LargerOfTwo
    <3> QED BY <1>0, <1>1, <3>1, <3>2, <3>3, ShardAssumption DEF Forward
  <2> QED BY <1>0, <2>1, <2>2, <2>3 DEF Forward
<1>12. Commits'
  <2>1. InVersionOrder(waiting_commit') BY <1>0, <1>6 DEF Commits, InVersionOrder
  <2> QED BY <1>0, <1>4, <1>6, <2>1 DEF Commits
<1> QED BY <1>0, <1>2, <1>3, <1>4, <1>9, <1>10, <1>11, <1>12

(* The callbacks at the end of try_reads_to_commit(): the oldest of them is run. *)
LEMMA RunOnWriteIs ==
  ASSUME IInv, RunOnWrite
  PROVE  \E v \in Version :
           /\ UpdateLogs(v) /\ v \in Due
           /\ Alike(waiting_commit', waiting_commit)
           /\ Len(waiting_commit') = Len(waiting_commit)
           /\ \A k \in DOMAIN waiting_commit :
                /\ waiting_commit'[k].pending_commit = waiting_commit[k].pending_commit
                /\ k # Len(waiting_commit) => waiting_commit'[k] = waiting_commit[k]
                /\ Increasing(waiting_commit'[k].on_write)
           /\ Due' \subseteq Due /\ \A u \in Due' : v < u
<1> DEFINE n == Len(waiting_commit)
           op == waiting_commit[n]
           v == Head(op.on_write)
           new == [op EXCEPT !.on_write = Tail(op.on_write)]
<1>0. TypeOK /\ DOMAIN written = Version /\ OnWrites BY DEF IInv
<1>1. /\ waiting_commit # <<>> /\ op.on_write # <<>>
      /\ waiting_commit' = [waiting_commit EXCEPT ![n] = new]
      /\ UpdateLogs(v)
  BY DEF RunOnWrite, OnWriteDue
<1>2. waiting_commit \in Seq(Op) BY <1>0, Types
<1>3. n \in 1 .. Len(waiting_commit) /\ op \in Op /\ DOMAIN waiting_commit = 1 .. n /\ n \in Nat
  BY <1>1, <1>2, LenProperties, EmptySeq, ElementOfSeq
<1>4. op.on_write \in Seq(Version) BY <1>3, OpFields
<1>5. v \in Version /\ Tail(op.on_write) \in Seq(Version)
  BY <1>1, <1>4, SplitHead
<1>6. /\ new \in Op /\ new.version = op.version /\ new.plan = op.plan
      /\ new.roll_forward_to = op.roll_forward_to /\ new.using_cache = op.using_cache
      /\ new.pending_read = op.pending_read /\ new.pending_commit = op.pending_commit
      /\ new.on_write = Tail(op.on_write)
  <2> HIDE DEF op
  <2> QED BY <1>3, <1>5 DEF Op
<1> HIDE DEF new
<1>7. /\ DOMAIN waiting_commit' = DOMAIN waiting_commit /\ Len(waiting_commit') = n
      /\ waiting_commit'[n] = new
      /\ \A k \in DOMAIN waiting_commit : k # n => waiting_commit'[k] = waiting_commit[k]
  BY <1>1, <1>2, <1>3, <1>6, ExceptSeq
<1>8. Increasing(op.on_write) /\ \A k \in DOMAIN waiting_commit : k # n => waiting_commit[k].on_write = <<>>
  BY <1>0, <1>3 DEF OnWrites
<1>9. /\ Increasing(Tail(op.on_write)) /\ \A u \in Elements(Tail(op.on_write)) : v < u
      /\ Elements(op.on_write) = {v} \union Elements(Tail(op.on_write))
  BY <1>1, <1>4, <1>8, IncreasingIs, ElementsAre
<1>10. Elements(op.on_write) \subseteq Due BY <1>3 DEF Due
<1>11. Due' \subseteq Elements(Tail(op.on_write))
  <2>1. \A k \in DOMAIN waiting_commit : k # n => Elements(waiting_commit'[k].on_write) = {}
    BY <1>7, <1>8 DEF Elements
  <2>2. Elements(waiting_commit'[n].on_write) = Elements(Tail(op.on_write)) BY <1>6, <1>7
  <2>3. Due' = UNION {Elements(waiting_commit'[k].on_write) : k \in DOMAIN waiting_commit'} BY DEF Due
  <2> QED BY <1>7, <2>1, <2>2, <2>3
<1>12. Alike(waiting_commit', waiting_commit) BY <1>6, <1>7 DEF Alike
<1>13. \A k \in DOMAIN waiting_commit :
         /\ waiting_commit'[k].pending_commit = waiting_commit[k].pending_commit
         /\ k # n => waiting_commit'[k] = waiting_commit[k]
         /\ Increasing(waiting_commit'[k].on_write)
  <2>1. \A k \in DOMAIN waiting_commit : Increasing(waiting_commit[k].on_write) BY <1>0 DEF OnWrites
  <2> QED BY <1>6, <1>7, <1>9, <2>1
<1> HIDE DEF op, v
<1> QED BY <1>1, <1>5, <1>7, <1>9, <1>10, <1>11, <1>12, <1>13

(* The end of try_reads_to_commit() *)
LEMMA IInvRunOnWrite ==
  ASSUME IInv, RunOnWrite
  PROVE  IInv'
<1> DEFINE pl == Elements(log[Primary])
<1>0. /\ TypeOK /\ DOMAIN written = Version /\ ok /\ Streams /\ Answers /\ Reported /\ Forward /\ Dummy
      /\ Queues /\ OnWrites /\ Commits /\ CacheHolds /\ PlansKept
  BY DEF IInv
<1>1. PICK v \in Version :
           /\ UpdateLogs(v) /\ v \in Due
           /\ Alike(waiting_commit', waiting_commit)
           /\ Len(waiting_commit') = Len(waiting_commit)
           /\ \A k \in DOMAIN waiting_commit :
                /\ waiting_commit'[k].pending_commit = waiting_commit[k].pending_commit
                /\ k # Len(waiting_commit) => waiting_commit'[k] = waiting_commit[k]
                /\ Increasing(waiting_commit'[k].on_write)
           /\ Due' \subseteq Due /\ \A u \in Due' : v < u
  BY RunOnWriteIs
<1>2. /\ waiting_commit # <<>>
      /\ UNCHANGED <<waiting_state, waiting_reads, cache_valid, cache, committed_to, plan, written, acked, intervals>>
  BY DEF RunOnWrite, OnWriteDue
<1>3. \A u \in pl : u < v BY <1>0, <1>1 DEF OnWrites, Below
<1>4. /\ Streams' /\ Answers' /\ Reported' /\ Forward' /\ Commits' /\ ok'
      /\ Elements(log'[Primary]) = pl \union {v}
  BY <1>1, <1>2, <1>3, LogUpdateShards
<1>5. TypeOK' /\ DOMAIN written' = Version BY <1>0, TypeRunOnWrite
<1>6. /\ DOMAIN waiting_commit' = DOMAIN waiting_commit
      /\ \A k \in DOMAIN waiting_commit : /\ waiting_commit'[k].version = waiting_commit[k].version
                                          /\ waiting_commit'[k].plan = waiting_commit[k].plan
                                          /\ waiting_commit'[k].using_cache = waiting_commit[k].using_cache
  BY <1>1 DEF Alike
<1>7. Dummy'
  <2>1. \A i \in DOMAIN waiting_reads : waiting_reads[i].version # 0 BY <1>0, <1>2 DEF Dummy
  <2>2. \A k \in DOMAIN waiting_commit' : waiting_commit'[k].version = 0 =>
          waiting_commit'[k].plan = NoPlan /\ ~ waiting_commit'[k].using_cache
    BY <1>0, <1>6 DEF Dummy
  <2>3. \A i \in DOMAIN waiting_state : waiting_state[i].version # 0 BY <1>0 DEF Dummy
  <2>4. waiting_state' = waiting_state /\ waiting_reads' = waiting_reads BY <1>2
  <2> QED BY <2>1, <2>2, <2>3, <2>4 DEF Dummy
<1>8. Queues' BY <1>0, <1>1, <1>2, <1>4 DEF Queues, OnWrites, Below
<1>9. OnWrites'
  <2>1. \A k \in DOMAIN waiting_commit' :
          /\ k # Len(waiting_commit') => waiting_commit'[k].on_write = <<>>
          /\ Increasing(waiting_commit'[k].on_write)
    BY <1>0, <1>1, <1>6 DEF OnWrites
  <2>2. Below(Elements(log'[Primary]), Due') BY <1>0, <1>1, <1>4 DEF OnWrites, Below
  <2>3. Below(Due', Futures(waiting_reads)) /\ Below(Due', Futures(waiting_state))
        /\ \A u \in Due' : u <= Len(plan)
    BY <1>0, <1>1 DEF OnWrites, Below
  <2> QED BY <1>2, <2>1, <2>2, <2>3 DEF OnWrites
<1>10. CacheHolds'
  <2>1. Alike(waiting_reads', waiting_reads) BY <1>2 DEF Alike
  <2> QED BY <1>0, <1>1, <1>2, <2>1, CacheHoldsKept
<1>11. PlansKept' BY <1>0, <1>2, <1>6 DEF PlansKept
<1> QED BY <1>4, <1>5, <1>7, <1>8, <1>9, <1>10, <1>11 DEF IInv

(* submit_log_entries() *)
LEMMA IInvSubmitLog ==
  ASSUME IInv, SubmitLogEntries
  PROVE  IInv'
<1> DEFINE v == NextVersion
           pl == Elements(log[Primary])
<1>0. /\ TypeOK /\ DOMAIN written = Version /\ ok /\ Streams /\ Answers /\ Reported /\ Forward /\ Dummy
      /\ Queues /\ OnWrites /\ Commits /\ CacheHolds /\ PlansKept
  BY DEF IInv
<1>1. /\ Settled /\ v \in Version /\ plan' = Append(plan, NoPlan)
      /\ UNCHANGED <<waiting_commit, cache_valid, cache, committed_to, acked, intervals>>
  BY DEF SubmitLogEntries
<1>2. /\ waiting_state \in Seq(Op) /\ waiting_reads \in Seq(Op)
  BY <1>0, Types
<1>3. Len(plan) \in Nat /\ v = Len(plan) + 1 /\ Len(plan') = v
  BY <1>0, <1>1, NoPlanIsPlan, NextVersionIs
<1>4. TypeOK' /\ DOMAIN written' = Version BY <1>0, TypeSubmitLog
<1>5. v \in Nat /\ v # 0 BY <1>1, VersionsAreNat
<1> HIDE DEF v
<1>6. \A u \in pl \union Futures(waiting_reads) \union Futures(waiting_state) \union Due :
        u \in Nat /\ u < v /\ u <= v
  <2> SUFFICES ASSUME NEW u \in pl \union Futures(waiting_reads) \union Futures(waiting_state) \union Due
               PROVE  u \in Nat /\ u < v /\ u <= v
    OBVIOUS
  <2>1. u <= Len(plan) BY <1>0 DEF Queues, OnWrites
  <2>2. u \in Nat BY <1>0, QueuesAreNat
  <2> QED BY <1>3, <2>1, <2>2
<1>7. /\ \A i \in DOMAIN waiting_reads : waiting_reads[i].version # 0
      /\ \A i \in DOMAIN waiting_state : waiting_state[i].version # 0
      /\ \A k \in DOMAIN waiting_commit : waiting_commit[k].version = 0 =>
           waiting_commit[k].plan = NoPlan /\ ~ waiting_commit[k].using_cache
  BY <1>0, <1>1, NoDummySettled DEF Settled, Dummy
<1>8. Due' = Due BY <1>1 DEF Due
<1>9. waiting_commit' = waiting_commit /\ Alike(waiting_commit', waiting_commit) BY <1>1 DEF Alike
<1>10. CASE /\ waiting_state # <<>> /\ waiting_state' = AfterLast(waiting_state, v)
            /\ UNCHANGED <<waiting_reads, log_update, shards, ok>>
  <2>1. waiting_state[Len(waiting_state)].version \in {0} \union Version
    <3>1. waiting_state[Len(waiting_state)] \in Op
      BY <1>2, <1>10, LenProperties, EmptySeq, ElementOfSeq
    <3> QED BY <3>1, OpFields
  <2>2. /\ DOMAIN waiting_state' = DOMAIN waiting_state
        /\ \A i \in DOMAIN waiting_state :
             /\ waiting_state'[i].version = waiting_state[i].version
             /\ waiting_state'[i].plan = waiting_state[i].plan
             /\ waiting_state'[i].roll_forward_to = waiting_state[i].roll_forward_to
        /\ Futures(waiting_state') = Futures(waiting_state) \union {v}
        /\ Queued(waiting_state) /\ (\A u \in Futures(waiting_state) : u < v) => Queued(waiting_state')
    BY <1>1, <1>2, <1>10, <2>1, QueueAfterLast
  <2>3. Streams' /\ Answers' /\ Reported' /\ Commits' /\ \A s \in Shard : Stream(s)' = Stream(s)
    BY <1>0, <1>1, <1>10, ShardsKept
  <2>4. UNCHANGED <<inbox, log, can_rollback_to, unanswered>> /\ waiting_reads' = waiting_reads /\ ok' = ok
    BY <1>10 DEF shards
  <2>5. Forward'
    <3>1. \A i \in DOMAIN waiting_state' : waiting_state'[i].roll_forward_to \in acked \union {0}
      BY <1>0, <2>2 DEF Forward
    <3> QED BY <1>0, <1>1, <2>3, <2>4, <3>1 DEF Forward
  <2>6. Dummy' BY <1>7, <1>9, <2>2, <2>4 DEF Dummy
  <2>7. Queues'
    <3>1. Queued(waiting_state') BY <1>0, <1>6, <2>2 DEF Queues
    <3>2. Below(Futures(waiting_reads), Futures(waiting_state')) /\ Below(pl, Futures(waiting_state'))
      BY <1>0, <1>6, <2>2 DEF Queues, Below
    <3>3. \A u \in pl \union Futures(waiting_reads) \union Futures(waiting_state') : u <= Len(plan')
      BY <1>3, <1>5, <1>6, <2>2
    <3> QED BY <1>0, <2>4, <3>1, <3>2, <3>3 DEF Queues
  <2>8. OnWrites'
    <3>1. Below(Due, Futures(waiting_state')) BY <1>0, <1>6, <2>2 DEF OnWrites, Below
    <3>2. \A u \in Due : u <= Len(plan') BY <1>3, <1>6
    <3> QED BY <1>0, <1>8, <1>9, <2>4, <3>1, <3>2 DEF OnWrites
  <2>9. CacheHolds' BY <1>0, <1>1, <2>4 DEF CacheHolds
  <2>10. PlansKept' BY <1>0, <1>1, <2>2, <2>4 DEF PlansKept
  <2> QED BY <1>0, <1>4, <2>3, <2>4, <2>5, <2>6, <2>7, <2>8, <2>9, <2>10 DEF IInv
<1>11. CASE /\ waiting_reads # <<>> /\ waiting_state = <<>> /\ waiting_reads' = AfterLast(waiting_reads, v)
            /\ UNCHANGED <<waiting_state, log_update, shards, ok>>
  <2>1. waiting_reads[Len(waiting_reads)].version \in {0} \union Version
    <3>1. waiting_reads[Len(waiting_reads)] \in Op
      BY <1>2, <1>11, LenProperties, EmptySeq, ElementOfSeq
    <3> QED BY <3>1, OpFields
  <2>2. /\ DOMAIN waiting_reads' = DOMAIN waiting_reads
        /\ \A i \in DOMAIN waiting_reads :
             /\ waiting_reads'[i].version = waiting_reads[i].version
             /\ waiting_reads'[i].plan = waiting_reads[i].plan
             /\ waiting_reads'[i].roll_forward_to = waiting_reads[i].roll_forward_to
             /\ waiting_reads'[i].using_cache = waiting_reads[i].using_cache
             /\ waiting_reads'[i].pending_read = waiting_reads[i].pending_read
        /\ Futures(waiting_reads') = Futures(waiting_reads) \union {v}
        /\ Queued(waiting_reads) /\ (\A u \in Futures(waiting_reads) : u < v) => Queued(waiting_reads')
    BY <1>1, <1>2, <1>11, <2>1, QueueAfterLast
  <2>3. Streams' /\ Answers' /\ Reported' /\ Commits' /\ \A s \in Shard : Stream(s)' = Stream(s)
    BY <1>0, <1>1, <1>11, ShardsKept
  <2>4. UNCHANGED <<inbox, log, can_rollback_to, unanswered>> /\ waiting_state' = waiting_state /\ ok' = ok
    BY <1>11 DEF shards
  <2>5. Forward'
    <3>1. \A i \in DOMAIN waiting_reads' : waiting_reads'[i].roll_forward_to \in acked \union {0}
      BY <1>0, <2>2 DEF Forward
    <3> QED BY <1>0, <1>1, <2>3, <2>4, <3>1 DEF Forward
  <2>6. Dummy' BY <1>7, <1>9, <2>2, <2>4 DEF Dummy
  <2>7. Futures(waiting_state) = {} BY <1>11 DEF Futures
  <2>8. Queues'
    <3>1. Queued(waiting_reads') BY <1>0, <1>6, <2>2 DEF Queues
    <3>2. Below(Futures(waiting_reads'), Futures(waiting_state)) /\ Below(pl, Futures(waiting_reads'))
      BY <1>0, <1>6, <2>2, <2>7 DEF Queues, Below
    <3>3. \A u \in pl \union Futures(waiting_reads') \union Futures(waiting_state) : u <= Len(plan')
      BY <1>3, <1>5, <1>6, <2>2
    <3> QED BY <1>0, <2>4, <3>1, <3>2, <3>3 DEF Queues
  <2>9. OnWrites'
    <3>1. Below(Due, Futures(waiting_reads')) BY <1>0, <1>6, <2>2 DEF OnWrites, Below
    <3>2. \A u \in Due : u <= Len(plan') BY <1>3, <1>6
    <3> QED BY <1>0, <1>8, <1>9, <2>4, <3>1, <3>2 DEF OnWrites
  <2>10. CacheHolds'
    <3>1. Alike(waiting_reads', waiting_reads) BY <2>2 DEF Alike
    <3> QED BY <1>0, <1>1, <1>9, <3>1, CacheHoldsKept
  <2>11. PlansKept' BY <1>0, <1>1, <2>2, <2>4 DEF PlansKept
  <2> QED BY <1>0, <1>4, <2>3, <2>4, <2>5, <2>6, <2>8, <2>9, <2>10, <2>11 DEF IInv
<1>12. CASE /\ waiting_state = <<>> /\ waiting_reads = <<>> /\ UpdateLogs(v)
            /\ UNCHANGED <<waiting_state, waiting_reads, written>>
  <2>1. /\ Streams' /\ Answers' /\ Reported' /\ Forward' /\ Commits' /\ ok'
        /\ Elements(log'[Primary]) = pl \union {v}
    BY <1>1, <1>6, <1>9, <1>12, LogUpdateShards
  <2>2. Dummy' BY <1>7, <1>9, <1>12 DEF Dummy
  <2>3. Futures(waiting_state) = {} /\ Futures(waiting_reads) = {} BY <1>12 DEF Futures
  <2>4. Queues'
    <3>1. \A u \in pl \union {v} : u <= Len(plan') BY <1>3, <1>5, <1>6
    <3>2. Queued(waiting_state) /\ Queued(waiting_reads) BY <1>0 DEF Queues
    <3> QED BY <1>12, <2>1, <2>3, <3>1, <3>2 DEF Queues, Below
  <2>5. Due = {}
    <3>1. waiting_commit \in Seq(Op) BY <1>0, Types
    <3>2. \A k \in DOMAIN waiting_commit : waiting_commit[k].on_write = <<>>
      <4> SUFFICES ASSUME NEW k \in DOMAIN waiting_commit PROVE waiting_commit[k].on_write = <<>> OBVIOUS
      <4>1. CASE k # Len(waiting_commit) BY <1>0, <4>1 DEF OnWrites
      <4>2. CASE k = Len(waiting_commit)
        <5>1. waiting_commit # <<>> BY <3>1
        <5> QED BY <1>1, <4>2, <5>1 DEF Settled, OnWriteDue
      <4> QED BY <4>1, <4>2
    <3> QED BY <3>2 DEF Due, Elements
  <2>6. OnWrites'
    <3>1. Due' = {} BY <1>8, <2>5
    <3> QED BY <1>0, <1>9, <3>1 DEF OnWrites, Below
  <2>7. CacheHolds' BY <1>0, <1>1, <1>12 DEF CacheHolds
  <2>8. PlansKept' BY <1>0, <1>1, <1>12 DEF PlansKept
  <2> QED BY <1>4, <2>1, <2>2, <2>4, <2>6, <2>7, <2>8 DEF IInv
<1> QED BY <1>10, <1>11, <1>12 DEF SubmitLogEntries, v

-----------------------------------------------------------------------------
(* Messages and answers *)

(* handle_sub_write() and do_update_log_missing() *)
LEMMA IInvHandleMessage ==
  ASSUME IInv, NEW t \in Shard, HandleMessage(t)
  PROVE  IInv'
<1> DEFINE m == Head(inbox[t])
<1>0. /\ TypeOK /\ DOMAIN written = Version /\ ok /\ Streams /\ Answers /\ Reported /\ Forward /\ Dummy
      /\ Queues /\ OnWrites /\ Commits /\ CacheHolds /\ PlansKept
  BY DEF IInv
<1>1. /\ inbox[t] # <<>>
      /\ can_rollback_to' = [can_rollback_to EXCEPT ![t] = Maximum({@, m.roll_forward_to})]
      /\ ok' = (ok /\ InOrder(t, m))
      /\ UNCHANGED <<waiting_state, waiting_reads, waiting_commit, cache_valid, cache,
                     committed_to, log_update, plan, written, acked, intervals>>
  BY DEF HandleMessage, Handled
<1>2. /\ Streams' /\ log'[Primary] = log[Primary]
      /\ \A s \in Shard : Stream(s)' = Stream(s)
      /\ InOrder(t, m)
  BY <1>0, StreamsHandle
<1>3. TypeOK' /\ DOMAIN written' = Version BY <1>0, TypeHandleMessage
<1>4. Answers'
  <2>1. \A s \in Shard : \A v : (Asked(s, v)' <=> Asked(s, v)) /\ (AskedLog(s, v)' <=> AskedLog(s, v))
    BY <1>2 DEF Asked, AskedLog
  <2>2. \A s \in Shard, v \in {0} \union Version : WaitsFor(s, v)' <=> WaitsFor(s, v)
    BY <1>1 DEF WaitsFor
  <2> QED BY <1>0, <1>1, <1>2, <2>1, <2>2 DEF Answers
<1>5. Reported' BY <1>0, <1>1, <1>2 DEF Reported
<1>6. Forward'
  <2>1. inbox[t] \in Seq(Message) /\ can_rollback_to \in [Shard -> {0} \union Version] BY <1>0, Types
  <2>2. m \in Message /\ 1 \in DOMAIN inbox[t] /\ inbox[t][1] = m BY <1>1, <2>1, SplitHead
  <2>3. m.roll_forward_to \in acked \union {0}
    <3>1. PICK i \in DOMAIN Stream(t) : Stream(t)[i] = m
      <4>1. \A i \in DOMAIN inbox[t] : /\ Len(unanswered[t]) + i \in DOMAIN Stream(t)
                                       /\ Stream(t)[Len(unanswered[t]) + i] = inbox[t][i]
        BY <1>0, StreamIs
      <4> HIDE DEF m
      <4> QED BY <2>2, <4>1, Zenon
    <3> QED BY <1>0, <3>1 DEF Forward
  <2>4. can_rollback_to[t] \in {0} \union Version /\ m.roll_forward_to \in {0} \union Version
    BY <2>1, <2>2 DEF Message
  <2>5. Maximum({can_rollback_to[t], m.roll_forward_to}) \in {can_rollback_to[t], m.roll_forward_to}
    BY <2>4, LargerOfTwo
  <2>6. \A s \in Shard : can_rollback_to'[s] \in acked \union {0}
    BY <1>0, <1>1, <2>1, <2>3, <2>5 DEF Forward
  <2> QED BY <1>0, <1>1, <1>2, <2>6 DEF Forward
<1>7. Dummy' BY <1>0, <1>1 DEF Dummy, StateCanMove
<1>8. Queues' BY <1>0, <1>1, <1>2 DEF Queues
<1>9. OnWrites'
  <2>1. Due' = Due BY <1>1 DEF Due
  <2> QED BY <1>0, <1>1, <1>2, <2>1 DEF OnWrites
<1>10. Commits' BY <1>0, <1>1, <1>2 DEF Commits
<1>11. CacheHolds' BY <1>0, <1>1 DEF CacheHolds
<1>12. PlansKept' BY <1>0, <1>1 DEF PlansKept
<1> QED BY <1>0, <1>1, <1>2, <1>3, <1>4, <1>5, <1>6, <1>7, <1>8, <1>9, <1>10, <1>11, <1>12 DEF IInv

(* Version v was just answered by one shard and is reported exactly if no shard is
   still to answer it. *)
Answered(v) ==
  \/ /\ acked' = acked
     /\ v # 0 => \E s \in Shard : v \in Carried(Stream(s)')
  \/ /\ acked' = acked \union {v} /\ v # 0
     /\ \A s \in Shard : v \notin Carried(Stream(s)')

(* handle_sub_write_reply() finds the one write that waits for the answer. *)
LEMMA SubWriteReplyIs ==
  ASSUME IInv, NEW t \in Shard, HandleReply(t), NEW m, m = Head(unanswered[t]), SubWriteReply(t, m)
  PROVE  /\ Answers' /\ ok' /\ Answered(m.version)
         /\ Alike(waiting_commit', waiting_commit) /\ Len(waiting_commit') = Len(waiting_commit)
         /\ \A k \in DOMAIN waiting_commit :
              /\ waiting_commit'[k].on_write = waiting_commit[k].on_write
              /\ waiting_commit'[k].pending_commit = {} => waiting_commit'[k].version \in acked' \union {0}
<1> DEFINE v == m.version
           pl == Elements(log[Primary])
           mine == {i \in DOMAIN waiting_commit : waiting_commit[i].version = v}
<1>0. /\ TypeOK /\ DOMAIN written = Version /\ ok /\ Streams /\ Answers /\ Reported /\ Commits
  BY DEF IInv
<1>1. /\ ~ m.log_update /\ log_update' = log_update
      /\ waiting_commit' = IF mine = {} THEN waiting_commit
                           ELSE [waiting_commit EXCEPT ![Minimum(mine)].pending_commit =
                                   waiting_commit[Minimum(mine)].pending_commit \ {t}]
      /\ acked' = IF mine # {} /\ waiting_commit[Minimum(mine)].pending_commit \ {t} = {}
                  THEN acked \union ({v} \ {0}) ELSE acked
      /\ ok' = (ok /\ mine # {} /\ t \in waiting_commit[Minimum(mine)].pending_commit)
  BY DEF SubWriteReply
<1>2. /\ \A s \in Shard : \A u :
           /\ Asked(s, u)' <=> Asked(s, u) /\ ~ (s = t /\ u = v)
           /\ AskedLog(s, u)' <=> AskedLog(s, u) /\ ~ (s = t /\ u = v)
      /\ \A s \in Shard : \A i \in DOMAIN Stream(s)' :
           \E j \in DOMAIN Stream(s) : Stream(s)'[i] = Stream(s)[j]
      /\ Asked(t, v)
  BY <1>0, <1>1, AskedReply
<1>3. v \in {0} \union Version
  <2>1. m \in Message BY <1>0, StreamsReply
  <2> QED BY <2>1 DEF Message
<1>4. PICK k \in DOMAIN waiting_commit : waiting_commit[k].version = v /\ t \in waiting_commit[k].pending_commit
  <2>1. WaitsFor(t, v) BY <1>0, <1>2, <1>3 DEF Answers
  <2> QED BY <2>1 DEF WaitsFor
<1>5. waiting_commit \in Seq(Op) /\ DOMAIN waiting_commit = 1 .. Len(waiting_commit) /\ Len(waiting_commit) \in Nat
  BY <1>0, Types, LenProperties
<1>6. \A i \in DOMAIN waiting_commit : waiting_commit[i].version = v => i = k
  <2> SUFFICES ASSUME NEW i \in DOMAIN waiting_commit, waiting_commit[i].version = v, i # k PROVE FALSE
    OBVIOUS
  <2>1. i < k \/ k < i BY <1>5
  <2> QED BY <1>0, <1>4, <2>1 DEF Commits, InVersionOrder
<1>7. mine = {k} BY <1>4, <1>6
<1>8. Minimum(mine) = k
  <2>1. {k} \in SUBSET Nat /\ {k} # {} BY <1>5
  <2>2. Minimum({k}) \in {k} BY <2>1, MinimumIs, Zenon
  <2> QED BY <1>7, <2>2
<1> DEFINE op == waiting_commit[k]
           left == op.pending_commit \ {t}
           new == [op EXCEPT !.pending_commit = left]
<1>9. /\ waiting_commit' = [waiting_commit EXCEPT ![k] = new]
      /\ acked' = IF left = {} THEN acked \union ({v} \ {0}) ELSE acked
      /\ ok'
  <2>1. mine # {} BY <1>7
  <2> HIDE DEF mine
  <2> QED BY <1>0, <1>1, <1>4, <1>8, <2>1
<1>10. op \in Op BY <1>5
<1>11. /\ new \in Op /\ new.version = v /\ new.plan = op.plan
       /\ new.roll_forward_to = op.roll_forward_to /\ new.using_cache = op.using_cache
       /\ new.pending_read = op.pending_read /\ new.pending_commit = left
       /\ new.on_write = op.on_write
  <2>1. op.version = v /\ left \subseteq Shard BY <1>4, <1>10, OpFields
  <2> HIDE DEF op, left
  <2> QED BY <1>10, <2>1 DEF Op
<1> HIDE DEF new
<1>12. /\ DOMAIN waiting_commit' = DOMAIN waiting_commit /\ Len(waiting_commit') = Len(waiting_commit)
       /\ waiting_commit'[k] = new
       /\ \A i \in DOMAIN waiting_commit : i # k => waiting_commit'[i] = waiting_commit[i]
  <2>1. waiting_commit' \in Seq(Op) BY <1>5, <1>9, <1>11, ExceptSeq
  <2>2. /\ DOMAIN waiting_commit' = DOMAIN waiting_commit
        /\ waiting_commit'[k] = new
        /\ \A i \in DOMAIN waiting_commit : i # k => waiting_commit'[i] = waiting_commit[i]
    BY <1>9
  <2>3. Len(waiting_commit') = Len(waiting_commit) BY <1>5, <2>1, <2>2, LenProperties
  <2> QED BY <2>2, <2>3
<1> HIDE DEF left, op, mine
<1>13. Alike(waiting_commit', waiting_commit)
  BY <1>4, <1>11, <1>12 DEF Alike, op
<1>14. \A i \in DOMAIN waiting_commit : waiting_commit'[i].on_write = waiting_commit[i].on_write
  BY <1>11, <1>12 DEF op
<1>15. ASSUME NEW s \in Shard, NEW u
       PROVE  WaitsFor(s, u)' <=> WaitsFor(s, u) /\ ~ (s = t /\ u = v)
  <2>1. \A i \in DOMAIN waiting_commit :
          waiting_commit'[i].version = u /\ s \in waiting_commit'[i].pending_commit
          <=> waiting_commit[i].version = u /\ s \in waiting_commit[i].pending_commit /\ ~ (s = t /\ u = v)
    <3> SUFFICES ASSUME NEW i \in DOMAIN waiting_commit
                 PROVE  waiting_commit'[i].version = u /\ s \in waiting_commit'[i].pending_commit
                        <=> waiting_commit[i].version = u /\ s \in waiting_commit[i].pending_commit /\ ~ (s = t /\ u = v)
      OBVIOUS
    <3>1. CASE i # k BY <1>6, <1>12, <3>1
    <3>2. CASE i = k BY <1>4, <1>11, <1>12, <3>2 DEF left, op
    <3> QED BY <3>1, <3>2
  <2> QED BY <1>12, <2>1 DEF WaitsFor
<1>16. Answers'
  <2>1. \A s \in Shard : \A i \in DOMAIN Stream(s)' :
          Stream(s)'[i].log_update => Stream(s)'[i].version # 0
    BY <1>0, <1>2 DEF Answers
  <2>2. \A s \in Shard, u \in {0} \union Version : Asked(s, u)' <=> WaitsFor(s, u)'
    BY <1>0, <1>2, <1>15 DEF Answers
  <2>3. \A s \in Shard, u \in Version : AskedLog(s, u)' <=> s \in log_update[u]
    <3> SUFFICES ASSUME NEW s \in Shard, NEW u \in Version PROVE AskedLog(s, u)' <=> s \in log_update[u]
      OBVIOUS
    <3>1. AskedLog(s, u) <=> s \in log_update[u] BY <1>0 DEF Answers
    <3>2. u = v => log_update[u] = {} BY <1>0, <1>4 DEF Answers
    <3> QED BY <1>2, <3>1, <3>2
  <2>4. \A u \in Version : \A i \in DOMAIN waiting_commit' :
          waiting_commit'[i].version = u => log_update[u] = {}
    BY <1>0, <1>13 DEF Answers, Alike
  <2> QED BY <1>1, <2>1, <2>2, <2>3, <2>4 DEF Answers
<1>17. Answered(v)
  <2>1. CASE v = 0
    <3>1. acked' = acked BY <1>9, <2>1
    <3> QED BY <2>1, <3>1 DEF Answered
  <2>2. CASE v # 0 /\ left = {}
    <3>1. acked' = acked \union {v} BY <1>9, <2>2
    <3>2. ASSUME NEW s \in Shard, v \in Carried(Stream(s)') PROVE FALSE
      <4>1. Asked(s, v)' \/ AskedLog(s, v)' BY <2>2, <3>2 DEF Carried, Asked, AskedLog
      <4>2. v \in Version BY <1>3, <2>2
      <4>3. ~ AskedLog(s, v)'
        <5>1. log_update[v] = {} BY <1>0, <1>4, <4>2 DEF Answers
        <5>2. AskedLog(s, v)' <=> s \in log_update'[v] BY <1>16, <4>2 DEF Answers
        <5> QED BY <1>1, <5>1, <5>2
      <4>4. WaitsFor(s, v)'
        <5>1. Asked(s, v)' <=> WaitsFor(s, v)' BY <1>16, <4>2 DEF Answers
        <5> QED BY <4>1, <4>3, <5>1
      <4>5. PICK i \in DOMAIN waiting_commit : waiting_commit'[i].version = v /\ s \in waiting_commit'[i].pending_commit
        BY <1>12, <4>4 DEF WaitsFor
      <4>6. i = k BY <1>6, <1>12, <4>5
      <4> QED BY <1>11, <1>12, <2>2, <4>5, <4>6
    <3> QED BY <2>2, <3>1, <3>2 DEF Answered
  <2>3. CASE v # 0 /\ left # {}
    <3>1. acked' = acked BY <1>9, <2>3
    <3>2. PICK s \in left : TRUE BY <2>3
    <3>3. s \in Shard BY <1>10, <3>2, OpFields DEF left
    <3>4. WaitsFor(s, v)' BY <1>11, <1>12, <3>2 DEF WaitsFor
    <3>5. Asked(s, v)' <=> WaitsFor(s, v)' BY <1>3, <1>16, <3>3 DEF Answers
    <3>6. v \in Carried(Stream(s)') BY <2>3, <3>4, <3>5 DEF Asked, Carried
    <3> QED BY <3>1, <3>3, <3>6 DEF Answered
  <2> QED BY <2>1, <2>2, <2>3
<1>18. \A i \in DOMAIN waiting_commit :
         waiting_commit'[i].pending_commit = {} => waiting_commit'[i].version \in acked' \union {0}
  <2> SUFFICES ASSUME NEW i \in DOMAIN waiting_commit, waiting_commit'[i].pending_commit = {}
               PROVE  waiting_commit'[i].version \in acked' \union {0}
    OBVIOUS
  <2>1. CASE i = k
    <3>1. left = {} /\ waiting_commit'[i].version = v BY <1>11, <1>12, <2>1
    <3> QED BY <1>9, <3>1
  <2>2. CASE i # k
    <3>1. waiting_commit[i].version \in acked \union {0} BY <1>0, <1>12, <2>2 DEF Reported
    <3>2. acked \subseteq acked' BY <1>9
    <3> QED BY <1>12, <2>2, <3>1, <3>2
  <2> QED BY <2>1, <2>2
<1> QED BY <1>9, <1>12, <1>13, <1>14, <1>16, <1>17, <1>18

(* do_update_log_missing_reply() *)
LEMMA LogUpdateReplyIs ==
  ASSUME IInv, NEW t \in Shard, HandleReply(t), NEW m, m = Head(unanswered[t]), LogUpdateReply(t, m)
  PROVE  /\ Answers' /\ ok' /\ Answered(m.version)
         /\ waiting_commit' = waiting_commit
         /\ \A k \in DOMAIN waiting_commit :
              waiting_commit[k].pending_commit = {} => waiting_commit[k].version \in acked' \union {0}
<1> DEFINE v == m.version
<1>0. /\ TypeOK /\ DOMAIN written = Version /\ ok /\ Streams /\ Answers /\ Reported /\ Commits
  BY DEF IInv
<1>1. /\ m.log_update /\ waiting_commit' = waiting_commit /\ ok' = ok
      /\ log_update' = [log_update EXCEPT ![v] = @ \ {t}]
      /\ acked' = IF log_update'[v] = {} THEN acked \union {v} ELSE acked
  BY DEF LogUpdateReply
<1>2. /\ \A s \in Shard : \A u :
           /\ Asked(s, u)' <=> Asked(s, u) /\ ~ (s = t /\ u = v)
           /\ AskedLog(s, u)' <=> AskedLog(s, u) /\ ~ (s = t /\ u = v)
      /\ \A s \in Shard : \A i \in DOMAIN Stream(s)' :
           \E j \in DOMAIN Stream(s) : Stream(s)'[i] = Stream(s)[j]
      /\ AskedLog(t, v)
  BY <1>0, <1>1, AskedReply
<1>3. v \in Version
  <2>1. m \in Message /\ 1 \in DOMAIN Stream(t) /\ Stream(t)[1] = m BY <1>0, StreamsReply
  <2>2. v # 0 BY <1>0, <1>1, <2>1 DEF Answers
  <2> QED BY <2>1, <2>2 DEF Message
<1>4. v # 0 BY <1>3, VersionsAreNat
<1>5. log_update \in [Version -> SUBSET Shard] /\ t \in log_update[v]
  BY <1>0, <1>2, <1>3, Types DEF Answers
<1>6. \A k \in DOMAIN waiting_commit : waiting_commit[k].version # v
  BY <1>0, <1>3, <1>5 DEF Answers
<1>7. \A s \in Shard : ~ Asked(s, v)
  <2>1. \A s \in Shard : ~ WaitsFor(s, v) BY <1>6 DEF WaitsFor
  <2> QED BY <1>0, <1>3, <2>1 DEF Answers
<1> HIDE DEF v
<1>8. \A u \in Version : log_update'[u] = IF u = v THEN log_update[v] \ {t} ELSE log_update[u]
  BY <1>1, <1>5
<1>9. Answers'
  <2>1. \A s \in Shard : \A i \in DOMAIN Stream(s)' :
          Stream(s)'[i].log_update => Stream(s)'[i].version # 0
    BY <1>0, <1>2 DEF Answers
  <2>2. \A s \in Shard, u \in {0} \union Version : Asked(s, u)' <=> WaitsFor(s, u)'
    <3> SUFFICES ASSUME NEW s \in Shard, NEW u \in {0} \union Version PROVE Asked(s, u)' <=> WaitsFor(s, u)'
      OBVIOUS
    <3>1. Asked(s, u) <=> WaitsFor(s, u) BY <1>0 DEF Answers
    <3>2. WaitsFor(s, u)' <=> WaitsFor(s, u) BY <1>1 DEF WaitsFor
    <3>3. Asked(s, u)' <=> Asked(s, u) BY <1>2, <1>7
    <3> QED BY <3>1, <3>2, <3>3
  <2>3. \A s \in Shard, u \in Version : AskedLog(s, u)' <=> s \in log_update'[u]
    <3> SUFFICES ASSUME NEW s \in Shard, NEW u \in Version PROVE AskedLog(s, u)' <=> s \in log_update'[u]
      OBVIOUS
    <3>1. AskedLog(s, u) <=> s \in log_update[u] BY <1>0 DEF Answers
    <3>2. CASE u = v BY <1>2, <1>8, <3>1, <3>2
    <3>3. CASE u # v BY <1>2, <1>8, <3>1, <3>3
    <3> QED BY <3>2, <3>3
  <2>4. \A u \in Version : \A i \in DOMAIN waiting_commit :
          waiting_commit[i].version = u => log_update'[u] = {}
    BY <1>0, <1>6, <1>8 DEF Answers
  <2> QED BY <1>1, <2>1, <2>2, <2>3, <2>4 DEF Answers
<1>10. Answered(v)
  <2>1. CASE log_update'[v] = {}
    <3>1. acked' = acked \union {v} BY <1>1, <2>1
    <3>2. ASSUME NEW s \in Shard, v \in Carried(Stream(s)') PROVE FALSE
      <4>1. Asked(s, v)' \/ AskedLog(s, v)' BY <1>4, <3>2 DEF Carried, Asked, AskedLog
      <4>2. AskedLog(s, v)' <=> s \in log_update'[v] BY <1>3, <1>9 DEF Answers
      <4> QED BY <1>2, <1>7, <2>1, <4>1, <4>2
    <3> QED BY <1>4, <3>1, <3>2 DEF Answered
  <2>2. CASE log_update'[v] # {}
    <3>1. acked' = acked BY <1>1, <2>2
    <3>2. PICK s \in log_update'[v] : TRUE BY <2>2
    <3>3. s \in Shard BY <1>3, <1>5, <1>8, <3>2
    <3>4. AskedLog(s, v)' <=> s \in log_update'[v] BY <1>3, <1>9, <3>3 DEF Answers
    <3>5. v \in Carried(Stream(s)') BY <1>4, <3>2, <3>4 DEF AskedLog, Carried
    <3> QED BY <3>1, <3>3, <3>5 DEF Answered
  <2> QED BY <2>1, <2>2
<1>11. \A k \in DOMAIN waiting_commit :
         waiting_commit[k].pending_commit = {} => waiting_commit[k].version \in acked' \union {0}
  BY <1>0, <1>1 DEF Reported
<1> QED BY <1>0, <1>1, <1>9, <1>10, <1>11 DEF v

(* An answer arrives at the primary. *)
LEMMA IInvReply ==
  ASSUME IInv, NEW t \in Shard, HandleReply(t)
  PROVE  IInv'
<1> DEFINE m == Head(unanswered[t])
           v == m.version
           pl == Elements(log[Primary])
<1>0. /\ TypeOK /\ DOMAIN written = Version /\ ok /\ Streams /\ Answers /\ Reported /\ Forward /\ Dummy
      /\ Queues /\ OnWrites /\ Commits /\ CacheHolds /\ PlansKept
  BY DEF IInv
<1>1. /\ UNCHANGED <<waiting_state, waiting_reads, cache_valid, cache, committed_to, plan,
                     written, inbox, log, can_rollback_to, intervals>>
      /\ SubWriteReply(t, m) \/ LogUpdateReply(t, m)
  BY DEF HandleReply
<1>2. /\ Answers' /\ ok' /\ Answered(v)
      /\ Alike(waiting_commit', waiting_commit) /\ Len(waiting_commit') = Len(waiting_commit)
      /\ \A k \in DOMAIN waiting_commit :
           /\ waiting_commit'[k].on_write = waiting_commit[k].on_write
           /\ waiting_commit'[k].pending_commit = {} => waiting_commit'[k].version \in acked' \union {0}
  <2>1. CASE SubWriteReply(t, m) BY <2>1, SubWriteReplyIs
  <2>2. CASE LogUpdateReply(t, m)
    <3>1. /\ Answers' /\ ok' /\ Answered(v) /\ waiting_commit' = waiting_commit
          /\ \A k \in DOMAIN waiting_commit :
               waiting_commit[k].pending_commit = {} => waiting_commit[k].version \in acked' \union {0}
      BY <2>2, LogUpdateReplyIs
    <3>2. Alike(waiting_commit', waiting_commit) BY <3>1 DEF Alike
    <3> QED BY <3>1, <3>2
  <2> QED BY <1>1, <2>1, <2>2
<1>3. /\ Streams' /\ m \in Message
      /\ \A s \in Shard : s # t => Stream(s)' = Stream(s)
      /\ Carried(Stream(t)) = ({v} \ {0}) \union Carried(Stream(t)')
  BY <1>0, StreamsReply
<1>4. \A s \in Shard : \A i \in DOMAIN Stream(s)' :
        \E j \in DOMAIN Stream(s) : Stream(s)'[i] = Stream(s)[j]
  BY <1>0, AskedReply
<1>5. TypeOK' /\ DOMAIN written' = Version BY <1>0, TypeReply
<1> HIDE DEF m
<1>6. /\ DOMAIN waiting_commit' = DOMAIN waiting_commit
      /\ \A k \in DOMAIN waiting_commit :
           /\ waiting_commit'[k].version = waiting_commit[k].version
           /\ waiting_commit'[k].plan = waiting_commit[k].plan
           /\ waiting_commit'[k].roll_forward_to = waiting_commit[k].roll_forward_to
           /\ waiting_commit'[k].using_cache = waiting_commit[k].using_cache
  BY <1>2 DEF Alike
<1>7. v # 0 => v \in pl BY <1>0, <1>3 DEF Streams
<1>8. \A s \in Shard : Carried(Stream(s)') \subseteq Carried(Stream(s))
  BY <1>3
<1>9. acked \subseteq acked' BY <1>2 DEF Answered
<1>10. Reported'
  <2>1. acked' \subseteq pl BY <1>0, <1>2, <1>7 DEF Answered, Reported
  <2>2. \A s \in Shard : acked' \intersect Carried(Stream(s)') = {}
    BY <1>0, <1>2, <1>8 DEF Answered, Reported
  <2>3. ASSUME NEW u \in pl \ acked' PROVE \E s \in Shard : u \in Carried(Stream(s)')
    <3>1. u # 0 BY <1>0, QueuesAreNat, VersionsAreNat
    <3>2. CASE u = v BY <1>2, <2>3, <3>1, <3>2 DEF Answered
    <3>3. CASE u # v
      <4>1. PICK s \in Shard : u \in Carried(Stream(s)) BY <1>0, <1>9, <2>3 DEF Reported
      <4> QED BY <1>3, <3>3, <4>1
    <3> QED BY <3>2, <3>3
  <2> QED BY <1>1, <1>2, <1>6, <2>1, <2>2, <2>3 DEF Reported
<1>11. Forward'
  <2>1. \A k \in DOMAIN waiting_commit' : waiting_commit'[k].roll_forward_to \in acked' \union {0}
    BY <1>0, <1>6, <1>9 DEF Forward
  <2>2. \A list \in {waiting_state, waiting_reads} : \A i \in DOMAIN list :
          list[i].roll_forward_to \in acked' \union {0}
    BY <1>0, <1>9 DEF Forward
  <2>3. \A s \in Shard : \A i \in DOMAIN Stream(s)' : Stream(s)'[i].roll_forward_to \in acked' \union {0}
    BY <1>0, <1>4, <1>9 DEF Forward
  <2>4. committed_to \in acked' \union {0} /\ \A s \in Shard : can_rollback_to[s] \in acked' \union {0}
    BY <1>0, <1>9 DEF Forward
  <2> QED BY <1>1, <2>1, <2>2, <2>3, <2>4 DEF Forward
<1>12. Dummy'
  <2>1. waiting_commit = <<>> => waiting_commit' = <<>>
    <3>1. waiting_commit' \in Seq(Op) BY <1>5 DEF TypeOK
    <3> QED BY <1>2, <3>1, EmptySeq
  <2>2. \A k \in DOMAIN waiting_commit' : waiting_commit'[k].version = 0 =>
          waiting_commit'[k].plan = NoPlan /\ ~ waiting_commit'[k].using_cache
    BY <1>0, <1>6 DEF Dummy
  <2>3. StateCanMove' <=> StateCanMove BY <1>1 DEF StateCanMove
  <2> QED BY <1>0, <1>1, <2>1, <2>2, <2>3 DEF Dummy
<1>13. Queues' BY <1>0, <1>1 DEF Queues
<1>14. OnWrites'
  <2>1. Due' = Due
    <3>1. Due' = UNION {Elements(waiting_commit'[k].on_write) : k \in DOMAIN waiting_commit'} BY DEF Due
    <3> QED BY <1>2, <1>6, <3>1 DEF Due
  <2>2. \A k \in DOMAIN waiting_commit' :
          /\ k # Len(waiting_commit') => waiting_commit'[k].on_write = <<>>
          /\ Increasing(waiting_commit'[k].on_write)
    BY <1>0, <1>2, <1>6 DEF OnWrites
  <2> QED BY <1>0, <1>1, <2>1, <2>2 DEF OnWrites
<1>15. Commits'
  <2>1. InVersionOrder(waiting_commit') BY <1>0, <1>6 DEF Commits, InVersionOrder
  <2> QED BY <1>0, <1>1, <1>6, <2>1 DEF Commits
<1>16. CacheHolds'
  <2>1. Alike(waiting_reads', waiting_reads) BY <1>1 DEF Alike
  <2> QED BY <1>0, <1>1, <1>2, <2>1, CacheHoldsKept
<1>17. PlansKept' BY <1>0, <1>1, <1>6 DEF PlansKept
<1> QED BY <1>2, <1>3, <1>5, <1>10, <1>11, <1>12, <1>13, <1>14, <1>15, <1>16, <1>17 DEF IInv

-----------------------------------------------------------------------------
(* A change of the interval *)

(* on_change() and the peering that follows: what was rolled forward is kept. *)
LEMMA IInvOnChange ==
  ASSUME IInv, OnChange
  PROVE  IInv'
<1> DEFINE pl == Elements(log[Primary])
           npl == Elements(log'[Primary])
<1>0. /\ TypeOK /\ DOMAIN written = Version /\ ok /\ Streams /\ Reported /\ Forward /\ Queues
  BY DEF IInv
<1>1. /\ waiting_state' = <<>> /\ waiting_reads' = <<>> /\ waiting_commit' = <<>>
      /\ cache' = CacheAfterChange /\ committed_to' = 0
      /\ log_update' = [v \in Version |-> {}]
      /\ can_rollback_to' = [s \in Shard |-> NewHead]
      /\ acked' = acked \union {v \in pl : v <= NewHead}
      /\ ok' = (ok /\ \A s \in Shard : can_rollback_to[s] <= NewHead)
      /\ plan' = plan
  BY DEF OnChange, NewHead
<1>2. /\ Streams'
      /\ \A s \in Shard : Stream(s)' = <<>>
      /\ npl = {u \in pl : u <= NewHead}
      /\ NewHead \in {0} \union npl
      /\ \A u \in acked : u <= NewHead
  BY <1>0, StreamsChange
<1>3. TypeOK' /\ DOMAIN written' = Version BY <1>0, TypeOnChange
<1>4. NewHead \in Nat
  <2>1. NewHead \in {0} \union Version BY <1>0, NewHeadIs
  <2> QED BY <2>1, VersionsAreNat
<1>5. acked' = npl BY <1>0, <1>1, <1>2 DEF Reported
<1>6. Answers'
  <2>1. \A s \in Shard : DOMAIN Stream(s)' = {} BY <1>2
  <2>2. \A s \in Shard : \A v : ~ Asked(s, v)' /\ ~ AskedLog(s, v)' BY <2>1 DEF Asked, AskedLog
  <2>3. \A s \in Shard : \A v : ~ WaitsFor(s, v)' BY <1>1 DEF WaitsFor
  <2>4. \A v \in Version : log_update'[v] = {} BY <1>1
  <2> QED BY <2>1, <2>2, <2>3, <2>4 DEF Answers
<1>7. Reported'
  <2>1. \A s \in Shard : Carried(Stream(s)') = {} BY <1>2 DEF Carried
  <2>2. DOMAIN waiting_commit' = {} BY <1>1
  <2> QED BY <1>5, <2>1, <2>2 DEF Reported
<1>8. Forward'
  <2>1. \A s \in Shard : can_rollback_to'[s] \in acked' \union {0} BY <1>1, <1>2, <1>5
  <2>2. \A s \in Shard : DOMAIN Stream(s)' = {} BY <1>2
  <2>3. \A list \in {waiting_state', waiting_reads', waiting_commit'} : DOMAIN list = {} BY <1>1
  <2> QED BY <1>1, <2>1, <2>2, <2>3 DEF Forward
<1>9. Dummy' BY <1>1 DEF Dummy
<1>10. Futures(waiting_reads') = {} /\ Futures(waiting_state') = {} BY <1>1 DEF Futures
<1>11. Queues'
  <2>1. Queued(<<>>) BY DEF Queued
  <2>2. \A u \in npl : u <= Len(plan') BY <1>0, <1>1, <1>2 DEF Queues
  <2> QED BY <1>1, <1>10, <2>1, <2>2 DEF Queues, Below
<1>12. OnWrites'
  <2>1. Due' = {} BY <1>1 DEF Due
  <2> QED BY <1>1, <2>1 DEF OnWrites, Below
<1>13. Commits' BY <1>1 DEF Commits, InVersionOrder
<1>14. CacheHolds'
  <2>1. \A x \in Stripe : ~ cache'[x].pending BY <1>1 DEF CacheAfterChange, Absent
  <2> QED BY <1>1, <2>1 DEF CacheHolds
<1>15. PlansKept' BY <1>1 DEF PlansKept
<1>16. ok'
  <2>1. \A s \in Shard : can_rollback_to[s] \in acked \union {0} BY <1>0 DEF Forward
  <2>2. ASSUME NEW s \in Shard PROVE can_rollback_to[s] <= NewHead
    <3>1. CASE can_rollback_to[s] \in acked BY <1>2, <3>1
    <3>2. CASE can_rollback_to[s] = 0 BY <1>4, <3>2
    <3> QED BY <2>1, <3>1, <3>2
  <2>3. ok' = (ok /\ \A s \in Shard : can_rollback_to[s] <= NewHead) BY <1>1
  <2> QED BY <1>0, <2>2, <2>3, Zenon
<1> QED BY <1>2, <1>3, <1>6, <1>7, <1>8, <1>9, <1>11, <1>12, <1>13, <1>14, <1>15, <1>16 DEF IInv

-----------------------------------------------------------------------------
(* The theorems *)

(* The pipeline starts empty. *)
LEMMA IInvInit ==
  ASSUME Init
  PROVE  IInv
<1> USE DEF Init
<1>1. TypeOK
  <2>1. \A S : <<>> \in Seq(S) OBVIOUS
  <2>2. \A v \in Version : written[v] \in [{} -> Contents] OBVIOUS
  <2>3. cache \in [Stripe -> [pin : {NoPin} \union Version, pending : BOOLEAN, bl : Contents]]
    BY DEF Absent, NoContents, Contents
  <2>4. Len(plan) <= MaxVersion /\ intervals \in 0 .. MaxInterval BY BoundAssumption
  <2> QED BY <2>1, <2>2, <2>3, <2>4 DEF TypeOK
<1>2. Primary \in Shard BY ShardAssumption
<1>3. \A s \in Shard : Stream(s) = <<>> BY DEF Stream
<1>4. Carried(<<>>) = {} /\ Elements(<<>>) = {} BY DEF Carried, Elements
<1>5. Streams BY <1>2, <1>3, <1>4 DEF Streams, Increasing, InVersionOrder
<1>6. Answers BY <1>3 DEF Answers, Asked, AskedLog, WaitsFor
<1>7. Reported BY <1>2, <1>3, <1>4 DEF Reported
<1>8. Forward BY <1>3 DEF Forward
<1>9. Dummy BY DEF Dummy
<1>10. Due = {} /\ Futures(<<>>) = {} BY DEF Due, Futures
<1>11. Queues BY <1>2, <1>4, <1>10 DEF Queues, Queued, Below
<1>12. OnWrites BY <1>10 DEF OnWrites, Below
<1>13. Commits BY DEF Commits, InVersionOrder
<1>14. CacheHolds BY DEF CacheHolds, Absent
<1>15. PlansKept BY DEF PlansKept
<1> QED BY <1>1, <1>5, <1>6, <1>7, <1>8, <1>9, <1>11, <1>12, <1>13, <1>14, <1>15 DEF IInv

(* The inductive invariant holds of every step of the pipeline and of every change
   of the interval. *)
LEMMA IInvNext ==
  ASSUME IInv, [Next]_vars
  PROVE  IInv'
<1>1. CASE UNCHANGED vars
  <2> USE <1>1 DEF vars
  <2>1. \A s \in Shard : Stream(s)' = Stream(s) BY DEF Stream
  <2>2. Due' = Due BY DEF Due
  <2>3. TypeOK' /\ DOMAIN written' = Version /\ ok' BY DEF IInv, TypeOK
  <2>4. Streams' BY <2>1 DEF IInv, Streams
  <2>5. Answers'
    <3>1. \A s \in Shard : \A v : /\ Asked(s, v)' <=> Asked(s, v)
                                  /\ AskedLog(s, v)' <=> AskedLog(s, v)
      BY <2>1 DEF Asked, AskedLog
    <3>2. \A s \in Shard, v \in {0} \union Version : WaitsFor(s, v)' <=> WaitsFor(s, v) BY DEF WaitsFor
    <3> QED BY <2>1, <3>1, <3>2 DEF IInv, Answers
  <2>6. Reported' BY <2>1 DEF IInv, Reported
  <2>7. Forward' BY <2>1 DEF IInv, Forward
  <2>8. Dummy' BY DEF IInv, Dummy, StateCanMove
  <2>9. Queues' BY DEF IInv, Queues
  <2>10. OnWrites' BY <2>2 DEF IInv, OnWrites
  <2>11. Commits' BY DEF IInv, Commits
  <2>12. CacheHolds' BY DEF IInv, CacheHolds
  <2>13. PlansKept' BY DEF IInv, PlansKept
  <2> QED BY <2>3, <2>4, <2>5, <2>6, <2>7, <2>8, <2>9, <2>10, <2>11, <2>12, <2>13 DEF IInv
<1>2. CASE \E p \in Plans : SubmitTransaction(p) BY <1>2, IInvSubmit
<1>3. CASE SubmitLogEntries BY <1>3, IInvSubmitLog
<1>4. CASE TryStateToReads BY <1>4, IInvStateToReads
<1>5. CASE TryReadsToCommit BY <1>5, IInvReadsToCommit
<1>6. CASE RunOnWrite BY <1>6, IInvRunOnWrite
<1>7. CASE TryFinishRmw BY <1>7, IInvFinish
<1>8. CASE \E i \in DOMAIN waiting_reads, s \in Shard : ReadDone(i, s) BY <1>8, IInvReadDone
<1>9. CASE \E s \in Shard : HandleMessage(s) BY <1>9, IInvHandleMessage
<1>10. CASE \E s \in Shard : HandleReply(s) BY <1>10, IInvReply
<1>11. CASE OnChange BY <1>11, IInvOnChange
<1> QED BY <1>1, <1>2, <1>3, <1>4, <1>5, <1>6, <1>7, <1>8, <1>9, <1>10, <1>11 DEF Next, CheckOps

(* The inductive invariant of the pipeline. *)
THEOREM Invariance == Spec => []IInv
<1>1. Init => IInv BY IInvInit
<1>2. IInv /\ [Next]_vars => IInv' BY IInvNext
<1> QED BY <1>1, <1>2, PTL DEF Spec

(* Every variable of the pipeline, the cache and the shards keeps its type. *)
THEOREM TypeCorrect == Spec => []TypeOK
<1>1. IInv => TypeOK BY DEF IInv
<1> QED BY <1>1, Invariance, PTL

(* No assertion of the pipeline, the cache or the logs fails, whatever the order in
   which the shards answer and whenever the interval changes. *)
THEOREM AssertsHold == Spec => []NoAssertFails
<1>1. IInv => NoAssertFails BY DEF IInv, NoAssertFails
<1> QED BY <1>1, Invariance, PTL

(* eval_repop() reports writes in the order of the log: a shard answers in order, so
   what was reported is answered by all, with all that came before it. *)
THEOREM InOrderOfTheLog == Spec => []CompleteInOrder
<1>1. ASSUME IInv PROVE CompleteInOrder
  <2> DEFINE l == log[Primary]
  <2>0. Streams /\ Reported /\ TypeOK /\ DOMAIN written = Version BY <1>1 DEF IInv
  <2>1. Increasing(l) /\ l \in Seq(Version) BY <2>0, ShardAssumption, Types DEF Streams
  <2> SUFFICES ASSUME NEW i \in DOMAIN l, NEW j \in DOMAIN l, i < j, l[j] \in acked
               PROVE  l[i] \in acked
    BY DEF CompleteInOrder
  <2>2. l[i] < l[j] BY <2>1 DEF Increasing
  <2>3. l[i] \in Elements(l) /\ l[j] \in Elements(l) BY DEF Elements
  <2>4. ASSUME l[i] \notin acked PROVE FALSE
    <3>1. PICK s \in Shard : l[i] \in Carried(Stream(s)) BY <2>0, <2>3, <2>4 DEF Reported
    <3>2. l[j] \in Carried(Stream(s)) BY <2>0, <2>2, <2>3, <3>1 DEF Streams
    <3> QED BY <2>0, <3>2 DEF Reported
  <2> QED BY <2>4
<1> QED BY <1>1, Invariance, PTL

(* A shard rolls forward only what was reported, and every shard has it in its log. *)
THEOREM ForwardIsCommitted == Spec => []RollForwardIsCommitted
<1>1. ASSUME IInv PROVE RollForwardIsCommitted
  <2>0. Streams /\ Reported /\ Forward /\ TypeOK /\ DOMAIN written = Version BY <1>1 DEF IInv
  <2> SUFFICES ASSUME NEW s \in Shard, NEW t \in Shard, can_rollback_to[s] # 0
               PROVE  can_rollback_to[s] \in acked /\ can_rollback_to[s] <= LastUpdate(log[t])
    BY DEF RollForwardIsCommitted
  <2>1. can_rollback_to[s] \in acked BY <2>0 DEF Forward
  <2>2. can_rollback_to[s] \in Elements(log[Primary]) /\ can_rollback_to[s] \notin Carried(Stream(t))
    BY <2>0, <2>1 DEF Reported
  <2>3. can_rollback_to[s] \in Elements(log[t])
    <3>1. Elements(log[Primary]) = Elements(log[t]) \union Carried(inbox[t]) BY <2>0 DEF Streams
    <3>2. Carried(inbox[t]) \subseteq Carried(Stream(t)) BY <2>0, CarriedByStream
    <3> QED BY <2>2, <3>1, <3>2
  <2>4. Increasing(log[t]) /\ log[t] \in Seq(Version) BY <2>0, Types DEF Streams
  <2>5. can_rollback_to[s] <= LastUpdate(log[t]) BY <2>3, <2>4, LastUpdateIs
  <2> QED BY <2>1, <2>5
<1> QED BY <1>1, Invariance, PTL

=============================================================================
