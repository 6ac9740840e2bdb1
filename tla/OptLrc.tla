------------------------------- MODULE OptLrc -------------------------------
(***************************************************************************)
(* The Optimal-LRC plugin, src/erasure-code/optlrc/ErasureCodeOptLrc.cc,   *)
(* on top of src/erasure-code/ErasureCode.cc: what a stripe is encoded to, *)
(* which chunks are read to get chunks back, and what decoding returns.    *)
(*                                                                         *)
(* The content of a chunk is what it is for every choice of the data: the  *)
(* coefficients in GF(2^8) of the k data chunks, or Garbage if memory that *)
(* was never written went into it.  The profile maps the data chunks to    *)
(* the unit rows of its matrix.  The first argument c is the code.         *)
(*                                                                         *)
(* A definition Op_Variant is a faulty variant of Op, kept to show that    *)
(* the properties notice the fault.                                        *)
(***************************************************************************)
EXTENDS OptLrcConfigs, Integers, FiniteSets, FiniteSetsExt, Bitwise

Garbage == <<>>

Contents(c) == {Garbage} \union [1 .. c.k -> 0 .. 255]

(* galois_region_xor(): the sum of two chunks. *)
Plus(c, a, b) ==
  IF Garbage \in {a, b} THEN Garbage ELSE [d \in 1 .. c.k |-> a[d] ^^ b[d]]

(* encode_prepare(): data chunk d goes where the mapping says. *)
Prepared(c, i) == [d \in 1 .. c.k |-> IF i = DataChunk(c, d) THEN 1 ELSE 0]

(* encode_chunks() computes the other chunks from the rows of the matrix. *)
Encoded(c, i) == IF i \in DataChunks(c) THEN Prepared(c, i) ELSE Row(c, i)

(* The chunks to read, or no answer (-EIO) when two wanted chunks of one group
   are not available.  An unavailable chunk that is not wanted is not looked at. *)
MinimumToDecode(c, want, available) ==
  LET erased == want \ available
      groups == {GroupOf(c, i) : i \in erased}
      local == {i \in available : GroupOf(c, i) \in groups}
  IN  [ok |-> Cardinality(groups) = Cardinality(erased),
       need |-> (local \union want) \intersect available]

DecodeLocal_ShortGroup(c, decoded, erased) ==
  FoldSet(LAMBDA j, sum : Plus(c, decoded[j], sum), [d \in 1 .. c.k |-> 0],
          {j \in Group(c, erased) : j % (c.r + 1) < c.r} \ {erased})

(* optlrc_decode_local(): the sum of the other chunks of the group, whatever
   is in their buffers. *)
DecodeLocal(c, decoded, erased) ==
  FoldSet(LAMBDA j, sum : Plus(c, decoded[j], sum), [d \in 1 .. c.k |-> 0],
          Group(c, erased) \ {erased})

(* decode() of the chunks that were read, with their content: a buffer for every
   chunk, filled for those, and then decode_chunks() for the wanted others. *)
Decode(c, want, chunks) ==
  LET decoded == [i \in Chunks(c) |-> IF i \in DOMAIN chunks THEN chunks[i] ELSE Garbage]
  IN  [i \in want |-> IF i \in DOMAIN chunks THEN decoded[i] ELSE DecodeLocal(c, decoded, i)]

=============================================================================
