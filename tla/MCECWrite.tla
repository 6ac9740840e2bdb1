----------------------------- MODULE MCECWrite -----------------------------
(***************************************************************************)
(* Instances of ECWrite: the plans that get_write_plan() makes for writes  *)
(* to two stripes of an object that holds both.                            *)
(***************************************************************************)
EXTENDS ECWrite

Plan(read, write, invalidates) ==
  [to_read |-> read, will_write |-> write, invalidates_cache |-> invalidates]

(* A part of a stripe, all of it, a part of one and all of the next; and all of a
   stripe by a transaction that first clones the object. *)
WritePlans ==
  {Plan({1}, {1}, FALSE), Plan({}, {1}, FALSE), Plan({1}, {1, 2}, FALSE),
   Plan({2}, {2}, FALSE), Plan({}, {1}, TRUE)}

(* The same for an object with a snapshot: the first write after the snapshot
   clones the object and changes a part of a stripe. *)
SnapshotPlans == {Plan({1}, {1}, FALSE), Plan({1}, {1}, TRUE)}
=============================================================================
