----------------------------- MODULE ECBackend -----------------------------
(***************************************************************************)
(* Client reads and recovery of an object in an erasure coded pool,        *)
(* src/osd/ECBackend.cc, with the Optimal-LRC plugin.  Chunk i is on shard *)
(* i of the placement group.  The object is one stripe, so that a recovery *)
(* is complete after one extent.                                           *)
(*                                                                         *)
(* A read sends one sub read to each shard it needs and handles the        *)
(* replies one by one.  When a shard goes down or comes back, a new        *)
(* interval starts and the primary forgets what it was doing.              *)
(*                                                                         *)
(* A definition Op_Variant is a faulty variant of Op, kept to show that    *)
(* the properties notice the fault; no action uses one.                    *)
(***************************************************************************)
EXTENDS OptLrc

CONSTANTS Profiles,      \* the codes looked at, by their name in configs
          FastProfiles,  \* those whose pool has fast_read set at times
          Thorough,      \* those with more than one fault at a time
          MaxFaults      \* bound: shards missing and sub reads of an operation
                         \* that have failed, at a time, for those codes

ASSUME ProfileAssumption ==
  Profiles \subseteq DOMAIN configs /\ FastProfiles \union Thorough \subseteq Profiles
ASSUME BoundAssumption == MaxFaults \in Nat

VARIABLES profile,  \* the code of the pool
          stored,   \* stored[i]: what shard i has, or would have if it came back
          missing,  \* the shards that are down or lack the object
          rop,      \* the client read in progress (ReadOp)
          recovery, \* the recovery in progress (RecoveryOp)
          reply,    \* the answer a client has just been given
          aborted   \* an assert of the primary has failed

vars == <<profile, stored, missing, rop, recovery, reply, aborted>>

conf == configs[profile]

Available == Chunks(conf) \ missing

FaultAllowed(errors) ==
  Cardinality(missing) + Cardinality(errors) < IF profile \in Thorough THEN MaxFaults ELSE 1

None == [state |-> "none"]

ReadOp == [state : {"reading"}, fast : BOOLEAN, check_for_errors : BOOLEAN,
           in_progress : SUBSET Chunks(conf), obj_to_source : SUBSET Chunks(conf),
           returned : SUBSET Chunks(conf), errors : SUBSET Chunks(conf)]

RecoveryOp == [state : {"READING", "WRITING"}, missing_on : SUBSET Chunks(conf),
               in_progress : SUBSET Chunks(conf), returned : SUBSET Chunks(conf),
               errors : SUBSET Chunks(conf), waiting_on_pushes : SUBSET Chunks(conf)]

Recoverable_DataOnly == MinimumToDecode(conf, DataChunks(conf), Available).ok

(* ECRecPred: peering stays incomplete, reads wait and recovery skips the object
   unless every chunk can be had. *)
Recoverable == MinimumToDecode(conf, Chunks(conf), Available).ok

(* The answers to a read that waits for all of them only add up, so they are
   taken in one order. *)
NextReplies(op, fast) == IF fast THEN op.in_progress ELSE {Min(op.in_progress)}

(* handle_sub_read_reply() of shard i's chunk, or of its error. *)
Replied(op, i, failed) ==
  [op EXCEPT !.in_progress = @ \ {i},
             !.returned = IF failed THEN @ ELSE @ \union {i},
             !.errors = IF failed THEN @ \union {i} ELSE @]

Returned(op) == [i \in op.returned |-> stored[i]]

-----------------------------------------------------------------------------
(* Client reads *)

(* objects_read_and_reconstruct() *)
StartRead(fast, check) ==
  /\ rop = None
  /\ fast => profile \in FastProfiles
  /\ Recoverable
  /\ LET min == MinimumToDecode(conf, DataChunks(conf), Available)
         to_read == IF fast THEN Available ELSE min.need
     IN  /\ aborted' = (aborted \/ ~min.ok)
         /\ rop' = [state |-> "reading", fast |-> fast, check_for_errors |-> check,
                    in_progress |-> to_read, obj_to_source |-> to_read,
                    returned |-> {}, errors |-> {}]
  /\ reply' = None
  /\ UNCHANGED <<profile, stored, missing, recovery>>

ReadStatus_TooEarly(r) ==
  LET enough == MinimumToDecode(conf, DataChunks(conf), r.returned).ok
  IN  CASE ~enough /\ r.in_progress # {} -> "wait"
        [] ~enough /\ r.in_progress = {} -> "fail"
        [] enough -> "answer"

ReadStatus_AsksNobody(r) ==
  LET enough == MinimumToDecode(conf, DataChunks(conf), r.returned).ok
  IN  CASE r.in_progress # {} /\ ~(r.fast /\ enough) -> "wait"
        [] ~enough /\ r.in_progress = {} /\ ~r.fast -> "more"
        [] ~enough /\ r.in_progress = {} /\ r.fast -> "fail"
        [] enough /\ (r.fast \/ r.in_progress = {}) ->
             IF r.errors # {} /\ r.check_for_errors THEN "fail" ELSE "answer"

(* What is next after a reply: wait for other shards, read the shards that were
   not asked yet, fail, or answer. *)
ReadStatus(r) ==
  LET enough == MinimumToDecode(conf, DataChunks(conf), r.returned).ok
      others == Available \ r.obj_to_source
  IN  CASE r.in_progress # {} /\ ~(r.fast /\ enough) -> "wait"
        [] ~enough /\ r.in_progress = {} /\ ~r.fast /\ others # {} -> "more"
        [] ~enough /\ r.in_progress = {} /\ (r.fast \/ others = {}) -> "fail"
        [] enough /\ (r.fast \/ r.in_progress = {}) ->
             IF r.errors # {} /\ r.check_for_errors THEN "fail" ELSE "answer"

(* CallClientContexts: the answer, with what it was made from. *)
Answer(r) ==
  [state |-> "answered", data |-> Decode(conf, DataChunks(conf), Returned(r)),
   fast |-> r.fast, check_for_errors |-> r.check_for_errors, errors |-> r.errors]

(* A shard answers the client read: handle_sub_read_reply(),
   send_all_remaining_reads(), complete_read_op(). *)
ReadReply(i, failed) ==
  /\ rop # None
  /\ i \in NextReplies(rop, rop.fast)
  /\ failed => FaultAllowed(rop.errors)
  /\ LET r == Replied(rop, i, failed)
         status == ReadStatus(r)
         others == Available \ r.obj_to_source
     IN  /\ rop' = CASE status = "wait" -> r
                     [] status = "more" -> [r EXCEPT !.in_progress = others,
                                                     !.obj_to_source = @ \union others]
                     [] status \in {"fail", "answer"} -> None
         /\ reply' = CASE status = "answer" -> Answer(r)
                       [] status = "fail" -> [state |-> "failed"]
                       [] status \in {"wait", "more"} -> reply
  /\ UNCHANGED <<profile, stored, missing, recovery, aborted>>

-----------------------------------------------------------------------------
(* Recovery *)

(* recover_object(), continue_recovery_op() in state IDLE *)
StartRecovery(S) ==
  /\ recovery = None
  /\ Recoverable
  /\ S # {}
  /\ LET min == MinimumToDecode(conf, S, Available)
     IN  /\ aborted' = (aborted \/ ~min.ok)
         /\ recovery' = [state |-> "READING", missing_on |-> S, in_progress |-> min.need,
                         returned |-> {}, errors |-> {}, waiting_on_pushes |-> {}]
  /\ reply' = None
  /\ UNCHANGED <<profile, stored, missing, rop>>

(* OnRecoveryReadComplete: with an error the recovery is given up, for another
   attempt; otherwise the chunks are pushed. *)
RecoveryReply(i, failed) ==
  /\ recovery.state = "READING"
  /\ i \in NextReplies(recovery, FALSE)
  /\ failed => FaultAllowed(recovery.errors)
  /\ LET r == Replied(recovery, i, failed)
     IN  recovery' = IF r.in_progress # {} THEN r
                     ELSE IF r.errors # {} THEN None
                     ELSE [r EXCEPT !.state = "WRITING", !.waiting_on_pushes = r.missing_on]
  /\ reply' = None
  /\ UNCHANGED <<profile, stored, missing, rop, aborted>>

(* Shard i writes the chunk it is sent and answers; after the last answer the
   primary takes the object for recovered. *)
Push(i) ==
  /\ recovery.state = "WRITING"
  /\ i \in recovery.waiting_on_pushes
  /\ stored' = [stored EXCEPT ![i] = Decode(conf, recovery.missing_on, Returned(recovery))[i]]
  /\ LET left == recovery.waiting_on_pushes \ {i}
     IN  IF left # {}
         THEN recovery' = [recovery EXCEPT !.waiting_on_pushes = left] /\ UNCHANGED missing
         ELSE recovery' = None /\ missing' = missing \ recovery.missing_on
  /\ reply' = None
  /\ UNCHANGED <<profile, rop, aborted>>

-----------------------------------------------------------------------------
(* Shards *)

(* The shards whose chunk was pushed in a recovery that is interrupted: they
   have the object, as the next peering finds out. *)
Pushed ==
  IF recovery.state = "WRITING" THEN recovery.missing_on \ recovery.waiting_on_pushes ELSE {}

(* on_change() *)
NewInterval == rop' = None /\ recovery' = None

ShardFails(i) ==
  /\ i \in Available
  /\ FaultAllowed({})
  /\ missing' = (missing \ Pushed) \union {i}
  /\ NewInterval
  /\ reply' = None
  /\ UNCHANGED <<profile, stored, aborted>>

ShardReturns(i) ==
  /\ i \in missing
  /\ missing' = missing \ (Pushed \union {i})
  /\ NewInterval
  /\ reply' = None
  /\ UNCHANGED <<profile, stored, aborted>>

-----------------------------------------------------------------------------

Init ==
  /\ profile \in Profiles
  /\ stored = [i \in Chunks(conf) |-> Encoded(conf, i)]
  /\ missing = {}
  /\ rop = None
  /\ recovery = None
  /\ reply = None
  /\ aborted = FALSE

Next ==
  \/ \E fast, check \in BOOLEAN : StartRead(fast, check)
  \/ \E i \in Chunks(conf), failed \in BOOLEAN : ReadReply(i, failed)
  \/ \E S \in SUBSET missing : StartRecovery(S)
  \/ \E i \in Chunks(conf), failed \in BOOLEAN : RecoveryReply(i, failed)
  \/ \E i \in Chunks(conf) : Push(i)
  \/ \E i \in Chunks(conf) : ShardFails(i)
  \/ \E i \in Chunks(conf) : ShardReturns(i)

Spec == Init /\ [][Next]_vars

-----------------------------------------------------------------------------
(* Properties *)

(* Type correctness.  It includes that a read in progress waits for some shard
   (in_progress is not empty), so none is left hanging, whichever sub reads fail
   and whichever shards are left to ask. *)
TypeOK ==
  /\ profile \in Profiles
  /\ DOMAIN stored = Chunks(conf)
  /\ \A i \in Chunks(conf) : stored[i] \in Contents(conf)
  /\ missing \subseteq Chunks(conf)
  /\ rop = None \/ (rop \in ReadOp /\ rop.in_progress # {})
  /\ recovery = None \/ recovery \in RecoveryOp
  /\ reply.state \in {"none", "answered", "failed"}
  /\ aborted \in BOOLEAN

(* optlrc/README.txt: "The structure of Optimal-LRC allows us to decode a chunk
   using a XOR operation on all other chunk it its local group."  So whatever
   shards fail, also in the middle of a recovery, every chunk that counts as
   available is what was encoded. *)
RecoveredIsRight == \A i \in Available : stored[i] = Encoded(conf, i)

(* In a pool without fast_read, a read that is answered after no sub read
   failed, or under osd_read_ec_check_for_errors, returns the data that was
   written, whatever shards were missing, recovered or failing meanwhile. *)
ReadIsRight ==
  (/\ reply.state = "answered"
   /\ ~reply.fast
   /\ reply.errors = {} \/ reply.check_for_errors) =>
    \A i \in DataChunks(conf) : reply.data[i] = Encoded(conf, i)

(* What ECRecPred lets through, minimum_to_decode() has an answer for: the
   asserts in objects_read_and_reconstruct() and continue_recovery_op(). *)
NoAssertFails == ~aborted

(* ErasureCodeInterface.h: minimum_to_decode "Returns -EIO if there are not
   enough chunk indexes in available to decode want_to_read", and ECBackend.cc
   ignores errors if "enough copies available".  So what a client reads was
   computed from stored chunks. *)
AnsweredIsDecoded ==
  reply.state = "answered" => \A i \in DataChunks(conf) : reply.data[i] # Garbage

=============================================================================
