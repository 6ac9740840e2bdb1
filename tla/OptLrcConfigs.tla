--------------------------- MODULE OptLrcConfigs ---------------------------
(***************************************************************************)
(* The codes of src/erasure-code/optlrc/ErasureCodeOptLrc_configs.h.  A    *)
(* code (n, k, r) has n chunks, k of them data, in groups of r + 1.  Its   *)
(* generator matrix has one row per chunk, the coefficients of the k data  *)
(* chunks in GF(2^8).  All matrices have one shape: in each group r data   *)
(* chunks (unit rows) and their sum, until the data runs out; from there   *)
(* on the rows are free, and only they are tabulated.                      *)
(***************************************************************************)
EXTENDS Naturals, Sequences

Config(n, k, r, rows) == [n |-> n, k |-> k, r |-> r, rows |-> rows]

optlrc_9_4_2 == Config(9, 4, 2, <<
    << 176, 2, 212, 1 >>,
    << 178, 176, 213, 212 >>,
    << 2, 178, 1, 213 >> >>)

optlrc_10_6_4 == Config(10, 6, 4, <<
    << 112, 153, 7, 224, 220, 11 >>,
    << 227, 123, 248, 41, 146, 78 >>,
    << 147, 226, 255, 201, 79, 68 >> >>)

optlrc_10_6_3 == Config(10, 6, 3, <<
    << 170, 204, 102, 169, 206, 103 >>,
    << 170, 204, 102, 169, 206, 103 >> >>)

optlrc_15_8_4 == Config(15, 8, 4, <<
    << 86, 235, 136, 16, 23, 11, 47, 24 >>,
    << 16, 70, 251, 152, 47, 56, 55, 36 >>,
    << 189, 222, 70, 86, 28, 15, 23, 56 >>,
    << 99, 251, 235, 189, 19, 36, 28, 11 >>,
    << 152, 136, 222, 99, 55, 24, 19, 15 >> >>)

optlrc_15_8_5 == Config(15, 8, 5, <<
    << 232, 80, 103, 155, 148, 128, 27, 165 >>,
    << 68, 242, 180, 56, 205, 77, 186, 106 >>,
    << 172, 162, 211, 163, 89, 204, 160, 206 >>,
    << 48, 138, 106, 4, 93, 3, 197, 126 >>,
    << 52, 12, 126, 43, 72, 214, 101, 194 >>,
    << 4, 134, 20, 47, 21, 213, 160, 188 >> >>)

optlrc_16_12_7 == Config(16, 12, 7, <<
    << 7, 7, 6, 6, 1, 1, 0, 7, 7, 6, 6, 1 >>,
    << 9, 8, 9, 8, 1, 0, 1, 9, 8, 9, 8, 1 >>,
    << 14, 15, 15, 14, 0, 1, 1, 15, 14, 14, 15, 1 >> >>)

optlrc_18_12_3 == Config(18, 12, 3, <<
    << 159, 234, 117, 155, 25, 130, 104, 187, 211, 111, 74, 37 >>,
    << 159, 234, 117, 155, 25, 130, 104, 187, 211, 111, 74, 37 >> >>)

optlrc_18_12_4 == Config(18, 12, 4, <<
    << 205, 54, 32, 181, 62, 38, 66, 53, 228, 75, 17, 158 >>,
    << 231, 86, 150, 62, 46, 214, 195, 155, 16, 22, 30, 102 >>,
    << 42, 96, 182, 139, 16, 240, 129, 174, 244, 93, 15, 248 >> >>)

optlrc_15_10_4 == Config(15, 10, 4, <<
    << 152, 115, 183, 65, 219, 218, 45, 155, 79, 68 >>,
    << 121, 69, 236, 253, 104, 102, 226, 181, 220, 11 >>,
    << 225, 54, 91, 188, 179, 188, 207, 46, 146, 78 >> >>)

optlrc_14_10_4 == Config(14, 10, 4, <<
    << 12, 116, 99, 245, 224, 110, 73, 107, 11, 79 >>,
    << 12, 116, 99, 245, 224, 110, 73, 107, 10, 78 >> >>)

optlrc_12_8_3 == Config(12, 8, 3, <<
    << 170, 204, 102, 169, 206, 103, 3, 2 >>,
    << 170, 204, 102, 169, 206, 103, 2, 3 >> >>)

optlrc_12_8_4 == Config(12, 8, 4, <<
    << 150, 99, 111, 23, 34, 107, 5, 139 >>,
    << 150, 99, 111, 23, 34, 107, 5, 139 >> >>)

optlrc_17_12_4 == Config(17, 12, 4, <<
    << 148, 117, 241, 176, 91, 15, 212, 61, 147, 220, 69, 11 >>,
    << 148, 117, 241, 176, 91, 15, 212, 61, 147, 220, 69, 11 >> >>)

optlrc_14_10_6 == Config(14, 10, 6, <<
    << 213, 208, 18, 5, 199, 194, 230, 231, 231, 1 >>,
    << 143, 64, 79, 207, 192, 15, 85, 84, 85, 1 >>,
    << 90, 144, 93, 202, 7, 205, 178, 178, 179, 1 >> >>)

optlrc_14_10_5 == Config(14, 10, 5, <<
    << 48, 197, 111, 164, 62, 137, 170, 155, 66, 250 >>,
    << 48, 197, 111, 164, 62, 137, 170, 155, 66, 250 >> >>)

optlrc_12_8_5 == Config(12, 8, 5, <<
    << 8, 167, 172, 102, 101, 155, 87, 205 >>,
    << 71, 201, 43, 159, 58, 87, 212, 130 >>,
    << 79, 110, 135, 249, 95, 205, 130, 78 >> >>)

optlrc_17_12_5 == Config(17, 12, 5, <<
    << 101, 94, 86, 187, 214, 9, 169, 44, 23, 155, 50, 80 >>,
    << 220, 46, 166, 1, 85, 163, 141, 40, 168, 174, 85, 102 >>,
    << 185, 112, 240, 186, 131, 170, 36, 4, 191, 53, 102, 55 >> >>)

optlrc_17_12_6 == Config(17, 12, 6, <<
    << 196, 227, 138, 77, 58, 156, 109, 215, 85, 49, 160, 194 >>,
    << 94, 109, 138, 69, 8, 68, 67, 113, 227, 131, 17, 248 >>,
    << 242, 76, 30, 116, 81, 35, 72, 150, 224, 17, 163, 143 >> >>)

optlrc_15_10_5 == Config(15, 10, 5, <<
    << 208, 180, 38, 113, 51, 191, 4, 124, 10, 205 >>,
    << 77, 31, 237, 41, 150, 199, 94, 237, 170, 222 >>,
    << 157, 171, 203, 88, 165, 120, 90, 145, 160, 19 >> >>)

configs == [
  optlrc_9_4_2 |-> optlrc_9_4_2,
  optlrc_10_6_4 |-> optlrc_10_6_4,
  optlrc_10_6_3 |-> optlrc_10_6_3,
  optlrc_15_8_4 |-> optlrc_15_8_4,
  optlrc_15_8_5 |-> optlrc_15_8_5,
  optlrc_16_12_7 |-> optlrc_16_12_7,
  optlrc_18_12_3 |-> optlrc_18_12_3,
  optlrc_18_12_4 |-> optlrc_18_12_4,
  optlrc_15_10_4 |-> optlrc_15_10_4,
  optlrc_14_10_4 |-> optlrc_14_10_4,
  optlrc_12_8_3 |-> optlrc_12_8_3,
  optlrc_12_8_4 |-> optlrc_12_8_4,
  optlrc_17_12_4 |-> optlrc_17_12_4,
  optlrc_14_10_6 |-> optlrc_14_10_6,
  optlrc_14_10_5 |-> optlrc_14_10_5,
  optlrc_12_8_5 |-> optlrc_12_8_5,
  optlrc_17_12_5 |-> optlrc_17_12_5,
  optlrc_17_12_6 |-> optlrc_17_12_6,
  optlrc_15_10_5 |-> optlrc_15_10_5]

Chunks(c) == 0 .. c.n - 1
GroupOf(c, i) == i \div (c.r + 1)
Group(c, i) == {j \in Chunks(c) : GroupOf(c, j) = GroupOf(c, i)}

(* The d-th data chunk, d in 1 .. k, and what chunk i is among them. *)
DataChunk(c, d) == d - 1 + (d - 1) \div c.r
DataChunks(c) == {DataChunk(c, d) : d \in 1 .. c.k}

FirstFree(c) == c.n - Len(c.rows)

(* optlrc_encode[i]: row i of the generator matrix. *)
Row(c, i) ==
  IF i >= FirstFree(c) THEN c.rows[i - FirstFree(c) + 1]
  ELSE [d \in 1 .. c.k |->
          IF \/ i = DataChunk(c, d)
             \/ i \notin DataChunks(c) /\ DataChunk(c, d) \in Group(c, i)
          THEN 1 ELSE 0]

=============================================================================
