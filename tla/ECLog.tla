------------------------------- MODULE ECLog -------------------------------
(***************************************************************************)
(* What an erasure coded placement group promises about its writes: they   *)
(* are ordered in one log, each one is computed from the contents that its *)
(* predecessors left, a client that was told of its write finds it in the  *)
(* log ever after, and only writes that are told may become irrevocable    *)
(* (rolled forward).  ECWrite, the pipeline that keeps this promise with   *)
(* many writes in flight, implements this specification.                   *)
(***************************************************************************)
EXTENDS Integers, Sequences, FiniteSets

CONSTANTS Version,  \* versions of log entries, totally ordered
          Stripe,   \* the stripes of an object
          Empty     \* the contents of a stripe that was never written

VARIABLES hist,     \* the log: entries [v, update], update[x] is the new contents of x
          told,     \* how many entries of it are acknowledged
          kept      \* how many entries of it can no longer be rolled back

logVars == <<hist, told, kept>>

(* What stripe x holds after the entries of h. *)
ContentsAfter(h, x) ==
  LET writers == {i \in DOMAIN h : x \in DOMAIN h[i].update}
  IN  IF writers = {} THEN Empty
      ELSE h[CHOOSE i \in writers : \A j \in writers : j <= i].update[x]

(* A write of version v to the stripes in w; of those in r it replaces only a
   part.  The contents of a stripe are the set of versions it shows. *)
Update(h, v, w, r) ==
  [x \in w |-> {v} \union IF x \in r THEN ContentsAfter(h, x) ELSE {}]

Init ==
  /\ hist = <<>>
  /\ told = 0
  /\ kept = 0

(* A write takes its place in the log and its effect on the contents.  It may
   carry the news that n entries are irrevocable. *)
Write(v, w, r, n) ==
  /\ \A i \in DOMAIN hist : hist[i].v < v
  /\ hist' = Append(hist, [v |-> v, update |-> Update(hist, v, w, r)])
  /\ n \in kept .. told
  /\ kept' = n
  /\ UNCHANGED told

(* Clients are told in the order of the log. *)
Tell ==
  /\ told < Len(hist)
  /\ told' = told + 1
  /\ UNCHANGED <<hist, kept>>

(* Entries that clients were told of become irrevocable. *)
Keep(n) ==
  /\ n \in kept .. told
  /\ kept' = n
  /\ UNCHANGED <<hist, told>>

(* A new interval: what nobody was told of may be lost, the rest stays for good. *)
Interval(n) ==
  /\ n \in told .. Len(hist)
  /\ hist' = SubSeq(hist, 1, n)
  /\ told' = n
  /\ kept' = n

Next ==
  \/ \E v \in Version, w \in SUBSET Stripe, n \in kept .. told :
       \E r \in SUBSET w : Write(v, w, r, n)
  \/ Tell
  \/ \E n \in kept .. told : Keep(n)
  \/ \E n \in told .. Len(hist) : Interval(n)

Spec == Init /\ [][Next]_logVars
=============================================================================
