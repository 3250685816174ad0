------------------------------ MODULE AmbixUtil ------------------------------
(***************************************************************************)
(* The channel arithmetic of libambix (libambix/src/utils.c): a full       *)
(* periphonic set of order N has (N+1)^2 channels.  The C functions pass   *)
(* the order through uint32_t, so that -1 ("not a full set") comes back    *)
(* into ambix_order2channels() as 0xffffffff, whose successor wraps to 0:  *)
(* over the integers that successor is 0 as well, which is why no modulus  *)
(* appears below.                                                          *)
(***************************************************************************)
EXTENDS Integers

order2channels(order) == (order + 1) * (order + 1)

(* sqrt() is exact on squares and truncated otherwise, so the test the     *)
(* code makes on order1*order1 says whether the count is a square.         *)
channels2order(channels) ==
  IF \E r \in 0 .. channels : r * r = channels
  THEN (CHOOSE r \in 0 .. channels : r * r = channels) - 1
  ELSE -1

is_fullset(channels) == order2channels(channels2order(channels)) = channels

max_u64(a, b) == IF a > b THEN a ELSE b
=============================================================================
