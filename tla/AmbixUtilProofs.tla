--------------------------- MODULE AmbixUtilProofs ---------------------------
(***************************************************************************)
(* Theorems about the channel arithmetic of AmbixUtil, for every number.   *)
(***************************************************************************)
EXTENDS AmbixUtil, TLAPS

(* ambix_is_fullset() goes through the order and back.  It accepts exactly *)
(* the squares, 0 among them: a matrix without rows, which is no matrix at *)
(* all, passes the test that _ambix_check_write() makes.                   *)
THEOREM FullSets ==
  ASSUME NEW c \in Nat
  PROVE  is_fullset(c) <=> \E n \in Nat : n * n = c
<1>1. ASSUME NEW n \in Nat, n * n = c
      PROVE  n \in 0 .. c
  BY <1>1
<1>2. CASE \E r \in 0 .. c : r * r = c
  <2> DEFINE root == CHOOSE r \in 0 .. c : r * r = c
  <2>1. root \in 0 .. c /\ root * root = c
    BY <1>2
  <2>2. channels2order(c) = root - 1
    BY <1>2 DEF channels2order
  <2> HIDE DEF root
  <2>3. order2channels(channels2order(c)) = root * root
    BY <2>1, <2>2 DEF order2channels
  <2> QED
    BY <2>1, <2>3 DEF is_fullset
<1>3. CASE ~ \E r \in 0 .. c : r * r = c
  <2>1. c # 0
    BY <1>3
  <2>2. order2channels(channels2order(c)) = 0
    BY <1>3 DEF order2channels, channels2order
  <2>3. ~ \E n \in Nat : n * n = c
    BY <1>1, <1>3
  <2> QED
    BY <2>1, <2>2, <2>3 DEF is_fullset
<1> QED
  BY <1>2, <1>3

(* ambix_channels2order() undoes ambix_order2channels().                   *)
THEOREM OrderRoundTrip ==
  ASSUME NEW order \in Nat
  PROVE  channels2order(order2channels(order)) = order
<1> DEFINE c == order2channels(order)
           root == CHOOSE r \in 0 .. c : r * r = c
<1>1. c = (order + 1) * (order + 1) /\ c \in Nat /\ order + 1 \in 0 .. c
  BY DEF order2channels
<1> HIDE DEF c
<1>2. \E r \in 0 .. c : r * r = c
  BY <1>1
<1>3. root \in 0 .. c /\ root * root = c
  BY <1>2
<1>4. channels2order(c) = root - 1
  BY <1>2 DEF channels2order
<1> HIDE DEF root
<1>5. root = order + 1
  <2>1. \A a, b \in Nat : a * a = b * b => a = b
    OBVIOUS
  <2> QED
    BY <1>1, <1>3, <2>1
<1> QED
  BY <1>4, <1>5 DEF c
=============================================================================
