------------------------------ MODULE Matrices -------------------------------
(***************************************************************************)
(* The matrices of libambix (matrix.c, adaptor_acn.c, adaptor_fuma.c) and  *)
(* what is done to blocks of samples with them.  A matrix is indexed from  *)
(* 0 as in C; NoMatrix stands for NULL as well.                            *)
(*                                                                         *)
(* Coefficients are integers.  Where the code has irrational weights, an   *)
(* integer of the same sign stands in for each: no two of them are equal   *)
(* unless the weights are.                                                 *)
(***************************************************************************)
EXTENDS AmbixUtil, Sequences, SequencesExt

NoMatrix == [rows |-> 0, cols |-> 0, data |-> <<>>]

MatrixOf(rows, cols, Entry(_, _)) ==
  [rows |-> rows, cols |-> cols,
   data |-> [r \in 0 .. rows - 1 |-> [c \in 0 .. cols - 1 |-> Entry(r, c)]]]

Identity(rows, cols) == MatrixOf(rows, cols, LAMBDA r, c : IF r = c THEN 1 ELSE 0)

(* _ambix_matrix_multiply(); NULL, or dimensions that do not fit, is NULL. *)
multiply(left, right) ==
  IF left.rows = 0 \/ right.rows = 0 \/ left.cols # right.rows THEN NoMatrix
  ELSE MatrixOf(left.rows, right.cols,
         LAMBDA r, c : MapThenSumSet(LAMBDA i : left.data[r][i] * right.data[i][c],
                                     0 .. left.cols - 1))

diag(weights, count) ==
  MatrixOf(count, count, LAMBDA r, c : IF r = c THEN weights[r + 1] ELSE 0)

(* A router puts channel route[i] into channel i.                          *)
router(route, count) ==
  MatrixOf(count, count, LAMBDA r, c : IF route[r + 1] = c THEN 1 ELSE 0)

(* Where the channels of a full set are in SID order: of each order the    *)
(* odd places going up, then the even ones coming down.                    *)
sid2acn(count) ==
  FlattenSeq([o \in 1 .. channels2order(count) + 1 |->
    LET offset == (o - 1) * (o - 1)
    IN [k \in 1 .. 2 * o - 1 |->
          offset + IF k < o THEN 2 * k - 1 ELSE 2 * (2 * o - 1 - k)]])

(* 1/sqrt(2o+1) for each channel of order o.                               *)
n3d2sn3d(count) ==
  FlattenSeq([o \in 1 .. channels2order(count) + 1 |-> [k \in 1 .. 2 * o - 1 |-> o]])

-----------------------------------------------------------------------------
(* Furse-Malham: at most 16 channels, WXYZRSTUVKLMNOPQ or some of them.    *)

FumaOrder == <<0, 2, 3, 1, 8, 6, 4, 5, 7, 15, 13, 11, 9, 10, 12, 14>>
FumaWeights == <<7, -1, 1, -1, 4, -4, 1, -4, 4, -3, 2, -5, 1, -5, 2, -3>>

FumaRows(n) ==
  CASE n = 1 -> 1
    [] n \in {3, 4} -> 4
    [] n \in {5, 6, 9} -> 9
    [] n \in {7, 8, 11, 16} -> 16
    [] OTHER -> 0

(* Which of the 16 a file of n channels has.                               *)
Reducer(n) ==
  CASE n \in {5, 7} -> <<0, 1, 2, 7, 8, 14, 15>>
    [] n \in {6, 8} -> <<0, 1, 2, 3, 7, 8, 14, 15>>
    [] n = 11 -> <<0, 1, 2, 3, 4, 5, 6, 7, 8, 14, 15>>
    [] OTHER -> [k \in 1 .. n |-> k - 1]

Unrouted(n) ==     \* variant: channel FumaOrder[i] goes into channel i
  IF FumaRows(n) = 0 THEN NoMatrix
  ELSE MatrixOf(FumaRows(n), n,
         LAMBDA r, c : IF FumaOrder[r + 1] = Reducer(n)[c + 1]
                       THEN FumaWeights[r + 1] ELSE 0)

(* The product of the weights, the router that puts channel i into channel *)
(* FumaOrder[i], and the reducer, as far as there are rows for.            *)
fuma2ambix(n) ==
  IF FumaRows(n) = 0 THEN NoMatrix
  ELSE MatrixOf(FumaRows(n), n,
         LAMBDA r, c : IF FumaOrder[Reducer(n)[c + 1] + 1] = r
                       THEN FumaWeights[r + 1] ELSE 0)

-----------------------------------------------------------------------------
(* Blocks of samples: so many frames of so many channels, one after the    *)
(* other, indexed from 0.                                                  *)

deinterleaver(source, frames, channels) ==
  [k \in 0 .. frames * channels - 1 |->
     source[(k % frames) * channels + k \div frames]]

interleaver(source, frames, channels) ==
  [k \in 0 .. frames * channels - 1 |->
     source[(k % channels) * frames + k \div channels]]

multiply_float32(m, source, frames) ==
  [k \in 0 .. frames * m.rows - 1 |->
     MapThenSumSet(LAMBDA i : m.data[k % m.rows][i] * source[(k \div m.rows) * m.cols + i],
                   0 .. m.cols - 1)]

(* The part of a block from an index on.                                   *)
From(source, index, size) == [k \in 0 .. size - 1 |-> source[index + k]]
=============================================================================
