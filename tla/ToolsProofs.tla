---------------------------- MODULE ToolsProofs -----------------------------
(***************************************************************************)
(* Theorems about Tools, for all values of its constants: what             *)
(* ambix-interleave writes are the channels of its inputs at their places, *)
(* and what ambix-deinterleave takes apart are the decoded channels, block *)
(* by block and through all buffers, whatever the sizes.                   *)
(***************************************************************************)
EXTENDS Tools, AmbixUtilProofs, NatInduction, FiniteSetTheorems, SequenceTheorems

-----------------------------------------------------------------------------
(* Folds.  What MapThenFoldSet() is for a set S: the value at S of a       *)
(* function g of its subsets.  The step F is a function here: no prover    *)
(* can do anything with an operator that is a parameter.                   *)

IsFold(g, S, base, first, F) ==
  g = [s \in SUBSET S |-> IF s = {} THEN base
                          ELSE F[<<first[s], g[s \ {first[s]}]>>]]

LEMMA Smaller ==
  ASSUME NEW S, IsFiniteSet(S), NEW s \in SUBSET S, NEW x \in s
  PROVE  /\ s \ {x} \in SUBSET S /\ IsFiniteSet(s)
         /\ Cardinality(s) \in Nat \ {0}
         /\ Cardinality(s \ {x}) = Cardinality(s) - 1
<1>1. IsFiniteSet(s)
  BY FS_Subset
<1>2. Cardinality(s \ {x}) = Cardinality(s) - 1 /\ Cardinality(s) \in Nat
  BY <1>1, FS_RemoveElement, FS_CardinalityType
<1>3. Cardinality(s) # 0
  BY <1>1, FS_EmptySet
<1> QED
  BY <1>1, <1>2, <1>3

LEMMA FoldExists ==
  ASSUME NEW S, IsFiniteSet(S), NEW V, NEW base \in V,
         NEW first, \A s \in SUBSET S : s # {} => first[s] \in s,
         NEW F \in [S \X V -> V]
  PROVE  \E g \in [SUBSET S -> V] : IsFold(g, S, base, first, F)
<1> DEFINE Rule(g, s) == IF s = {} THEN base ELSE F[<<first[s], g[s \ {first[s]}]>>]
           By(g, n) == \A s \in SUBSET S : Cardinality(s) <= n => g[s] = Rule(g, s)
           U == {n \in Nat : \E g \in [SUBSET S -> V] : By(g, n)}
<1>1. \A s \in SUBSET S : IsFiniteSet(s) /\ Cardinality(s) \in Nat
  BY FS_Subset, FS_CardinalityType
<1>2. 0 \in U
  <2> DEFINE g == [s \in SUBSET S |-> base]
  <2>1. ASSUME NEW s \in SUBSET S, Cardinality(s) <= 0 PROVE s = {}
    BY <1>1, <2>1, FS_EmptySet
  <2>2. By(g, 0)
    BY <2>1
  <2> QED
    BY <2>2
<1>3. ASSUME NEW n \in Nat, n \in U PROVE n + 1 \in U
  <2>1. PICK g \in [SUBSET S -> V] : By(g, n)
    BY <1>3
  <2> DEFINE h == [s \in SUBSET S |-> Rule(g, s)]
  <2>2. ASSUME NEW s \in SUBSET S, s # {}
        PROVE  first[s] \in S /\ s \ {first[s]} \in SUBSET S
               /\ Cardinality(s \ {first[s]}) = Cardinality(s) - 1
    BY <2>2, Smaller
  <2>3. h \in [SUBSET S -> V]
    BY <2>2
  <2>4. ASSUME NEW s \in SUBSET S, Cardinality(s) <= n PROVE h[s] = g[s]
    BY <2>1, <2>4
  <2>5. ASSUME NEW s \in SUBSET S, Cardinality(s) <= n + 1, s # {}
        PROVE  h[s \ {first[s]}] = g[s \ {first[s]}]
    <3>1. Cardinality(s \ {first[s]}) <= n
      BY <1>1, <2>2, <2>5
    <3> HIDE DEF h
    <3> QED
      BY <2>2, <2>4, <2>5, <3>1
  <2>6. \A s \in SUBSET S : h[s] = Rule(g, s)
    OBVIOUS
  <2>7. By(h, n + 1)
    <3> HIDE DEF h
    <3> QED
      BY <2>5, <2>6
  <2> QED
    <3> HIDE DEF h, By
    <3> QED
      BY <2>3, <2>7
<1>4. Cardinality(S) \in U
  <2> HIDE DEF U
  <2> QED
    BY <1>1, <1>2, <1>3, Induct
<1>5. PICK g \in [SUBSET S -> V] : By(g, Cardinality(S))
  BY <1>4
<1>6. \A s \in SUBSET S : Cardinality(s) <= Cardinality(S)
  BY FS_Subset
<1>7. \A s \in SUBSET S : g[s] = Rule(g, s)
  BY <1>5, <1>6
<1>8. g = [s \in SUBSET S |-> Rule(g, s)]
  <2> HIDE DEF Rule
  <2> QED
    BY <1>7
<1> QED
  BY <1>8 DEF IsFold

-----------------------------------------------------------------------------
(* Sums.  MapThenSumSet() takes any element first; no matter which.        *)

SumBy(w, S) == MapThenSumSet(LAMBDA x : w[x], S)

AnyOf(s) == CHOOSE x \in s : TRUE
Adds(g, S, w) ==
  \A s \in SUBSET S : g[s] = IF s = {} THEN 0 ELSE w[AnyOf(s)] + g[s \ {AnyOf(s)}]

LEMMA AnyIsIn == \A s : s # {} => AnyOf(s) \in s
BY DEF AnyOf

LEMMA SumAdds ==
  ASSUME NEW S, IsFiniteSet(S), NEW w, \A x \in S : w[x] \in Nat
  PROVE  \E g : Adds(g, S, w) /\ SumBy(w, S) = g[S]
<1> DEFINE F == [p \in S \X Nat |-> w[p[1]] + p[2]]
           first == [s \in SUBSET S |-> AnyOf(s)]
           P(g) == g = [s \in SUBSET S |->
                          IF s = {} THEN 0
                          ELSE w[CHOOSE x \in s : TRUE] + g[s \ {CHOOSE x \in s : TRUE}]]
<1>1. PICK g \in [SUBSET S -> Nat] : IsFold(g, S, 0, first, F)
  <2>1. F \in [S \X Nat -> Nat]
    OBVIOUS
  <2>2. \A s \in SUBSET S : s # {} => first[s] \in s
    BY AnyIsIn
  <2> HIDE DEF F, first
  <2> QED
    BY <2>1, <2>2, FoldExists
<1>2. P(g)
  <2>1. ASSUME NEW s \in SUBSET S
        PROVE  g[s] = IF s = {} THEN 0
                      ELSE w[CHOOSE x \in s : TRUE] + g[s \ {CHOOSE x \in s : TRUE}]
    <3>1. CASE s = {}
      BY <1>1, <3>1 DEF IsFold
    <3>2. CASE s # {}
      <4>1. AnyOf(s) \in s /\ s \ {AnyOf(s)} \in SUBSET S
        BY <3>2, AnyIsIn
      <4>2. g[s] = F[<<first[s], g[s \ {first[s]}]>>] /\ first[s] = AnyOf(s)
        <5> HIDE DEF F
        <5> QED
          BY <1>1, <3>2 DEF IsFold
      <4>3. <<AnyOf(s), g[s \ {AnyOf(s)}]>> \in S \X Nat
        BY <4>1
      <4> QED
        BY <3>2, <4>1, <4>2, <4>3 DEF AnyOf
    <3> QED
      BY <3>1, <3>2
  <2>2. g = [s \in SUBSET S |-> g[s]]
    OBVIOUS
  <2> QED
    BY <2>1, <2>2
<1>3. SumBy(w, S) = (CHOOSE h : P(h))[S]
  BY DEF SumBy, MapThenSumSet, MapThenFoldSet
<1>4. P(CHOOSE h : P(h))
  <2> HIDE DEF P
  <2> QED
    BY <1>2
<1>5. \A h : P(h) => Adds(h, S, w)
  BY DEF Adds, AnyOf
<1> QED
  <2> HIDE DEF P
  <2> QED
    BY <1>3, <1>4, <1>5

LEMMA AddsUnique ==
  ASSUME NEW S, IsFiniteSet(S), NEW w, NEW g, NEW h, Adds(g, S, w), Adds(h, S, w)
  PROVE  \A s \in SUBSET S : g[s] = h[s]
<1> DEFINE U == {n \in Nat : \A s \in SUBSET S : Cardinality(s) = n => g[s] = h[s]}
<1>1. \A s \in SUBSET S : IsFiniteSet(s) /\ Cardinality(s) \in Nat
  BY FS_Subset, FS_CardinalityType
<1>2. 0 \in U
  <2>1. ASSUME NEW s \in SUBSET S, Cardinality(s) = 0 PROVE g[s] = h[s]
    <3>1. s = {}
      BY <1>1, <2>1, FS_EmptySet
    <3> QED
      BY <3>1 DEF Adds
  <2> QED
    BY <2>1
<1>3. ASSUME NEW n \in Nat, n \in U PROVE n + 1 \in U
  <2>1. ASSUME NEW s \in SUBSET S, Cardinality(s) = n + 1 PROVE g[s] = h[s]
    <3>1. CASE s = {}
      BY <3>1 DEF Adds
    <3>2. CASE s # {}
      <4>1. s \ {AnyOf(s)} \in SUBSET S /\ Cardinality(s \ {AnyOf(s)}) = Cardinality(s) - 1
        BY <3>2, Smaller, AnyIsIn
      <4>2. Cardinality(s \ {AnyOf(s)}) = n
        BY <2>1, <4>1
      <4>3. g[s \ {AnyOf(s)}] = h[s \ {AnyOf(s)}]
        BY <1>3, <4>1, <4>2
      <4> QED
        BY <3>2, <4>3 DEF Adds
    <3> QED
      BY <3>1, <3>2
  <2> QED
    BY <2>1
<1>4. Nat \subseteq U
  <2> HIDE DEF U
  <2> QED
    BY <1>2, <1>3, Induct
<1> QED
  BY <1>1, <1>4

LEMMA SumRule ==
  ASSUME NEW S, IsFiniteSet(S), NEW w, \A x \in S : w[x] \in Nat
  PROVE  SumBy(w, S) = IF S = {} THEN 0 ELSE w[AnyOf(S)] + SumBy(w, S \ {AnyOf(S)})
<1>1. PICK g : Adds(g, S, w) /\ SumBy(w, S) = g[S]
  BY SumAdds
<1>2. CASE S = {}
  BY <1>1, <1>2 DEF Adds
<1>3. CASE S # {}
  <2> DEFINE s == S \ {AnyOf(S)}
  <2>1. IsFiniteSet(s) /\ s \in SUBSET S
    BY FS_Subset
  <2>2. PICK h : Adds(h, s, w) /\ SumBy(w, s) = h[s]
    BY <2>1, SumAdds
  <2>3. Adds(g, s, w)
    BY <1>1 DEF Adds
  <2>4. g[s] = h[s]
    <3> HIDE DEF s
    <3> QED
      BY <2>1, <2>2, <2>3, AddsUnique
  <2> QED
    BY <1>1, <1>3, <2>2, <2>4 DEF Adds
<1> QED
  BY <1>2, <1>3

LEMMA SumNone == ASSUME NEW w PROVE SumBy(w, {}) = 0
<1>1. IsFiniteSet({})
  BY FS_EmptySet
<1>2. \A x \in {} : w[x] \in Nat
  OBVIOUS
<1> QED
  BY <1>1, <1>2, SumRule

LEMMA SumSplits ==
  ASSUME NEW S, IsFiniteSet(S), NEW w, \A x \in S : w[x] \in Nat
  PROVE  /\ SumBy(w, S) \in Nat
         /\ \A x \in S : SumBy(w, S) = w[x] + SumBy(w, S \ {x})
<1> DEFINE Splits(s) == /\ SumBy(w, s) \in Nat
                        /\ \A x \in s : SumBy(w, s) = w[x] + SumBy(w, s \ {x})
           U == {n \in Nat : \A s \in SUBSET S : Cardinality(s) <= n => Splits(s)}
<1>1. \A s \in SUBSET S : /\ IsFiniteSet(s) /\ Cardinality(s) \in Nat
                          /\ \A x \in s : w[x] \in Nat
  BY FS_Subset, FS_CardinalityType
<1>2. 0 \in U
  <2>1. ASSUME NEW s \in SUBSET S, Cardinality(s) <= 0 PROVE Splits(s)
    <3>1. s = {}
      <4>1. Cardinality(s) = 0
        BY <1>1, <2>1
      <4> QED
        BY <1>1, <4>1, FS_EmptySet
    <3> QED
      BY <3>1, SumNone
  <2> HIDE DEF Splits
  <2> QED
    BY <2>1
<1>3. ASSUME NEW n \in Nat, n \in U PROVE n + 1 \in U
  <2>1. ASSUME NEW s \in SUBSET S, Cardinality(s) <= n + 1, s # {} PROVE Splits(s)
    <3> DEFINE y == AnyOf(s)
               Less1(x) == s \ {x}
    <3>2. y \in s
      BY <2>1, AnyIsIn
    <3>3. \A x \in s : Splits(Less1(x))
      <4> SUFFICES ASSUME NEW x \in s PROVE Splits(Less1(x))
        OBVIOUS
      <4>1. s \ {x} \in SUBSET S /\ Cardinality(s \ {x}) = Cardinality(s) - 1
        BY Smaller
      <4>2. Cardinality(s \ {x}) <= n
        BY <1>1, <2>1, <4>1
      <4> HIDE DEF Splits
      <4> QED
        BY <1>3, <4>1, <4>2
    <3>4. SumBy(w, s) = w[y] + SumBy(w, Less1(y))
      BY <1>1, <2>1, SumRule
    <3>5. SumBy(w, s) \in Nat
      BY <1>1, <3>2, <3>3, <3>4
    <3>6. ASSUME NEW x \in s PROVE SumBy(w, s) = w[x] + SumBy(w, Less1(x))
      <4>1. CASE x = y
        BY <3>4, <4>1
      <4>2. CASE x # y
        <5> DEFINE both == SumBy(w, (s \ {x}) \ {y})
        <5>1. SumBy(w, Less1(y)) = w[x] + SumBy(w, (s \ {y}) \ {x})
          BY <3>2, <3>3, <4>2
        <5>2. SumBy(w, Less1(x)) = w[y] + both
          BY <3>2, <3>3, <4>2
        <5>3. (s \ {y}) \ {x} = (s \ {x}) \ {y}
          OBVIOUS
        <5>4. (s \ {x}) \ {y} \in SUBSET S
          OBVIOUS
        <5>5. both \in Nat
          <6>1. (s \ {x}) \ {y} \in SUBSET S /\ s \ {x} \in SUBSET S /\ y \in s \ {x}
            BY <3>2, <4>2
          <6>2. Cardinality((s \ {x}) \ {y}) <= n
            <7>1. /\ Cardinality(s \ {x}) = Cardinality(s) - 1
                  /\ Cardinality((s \ {x}) \ {y}) = Cardinality(s \ {x}) - 1
              BY <6>1, Smaller
            <7> QED
              BY <1>1, <2>1, <7>1
          <6>3. Splits((s \ {x}) \ {y})
            <7> HIDE DEF Splits
            <7> QED
              BY <1>3, <6>1, <6>2
          <6> QED
            BY <6>3
        <5>6. w[x] \in Nat /\ w[y] \in Nat
          BY <1>1, <3>2
        <5>7. SumBy(w, s) = w[y] + (w[x] + both) /\ SumBy(w, Less1(x)) = w[y] + both
          BY <3>4, <5>1, <5>2, <5>3
        <5> QED
          BY <5>5, <5>6, <5>7
      <4> QED
        BY <4>1, <4>2
    <3> QED
      BY <3>5, <3>6
  <2>2. \A s \in SUBSET S : Cardinality(s) <= n + 1 => Splits(s)
    <3>1. Splits({})
      BY SumNone
    <3> HIDE DEF Splits
    <3> QED
      BY <2>1, <3>1
  <2> HIDE DEF Splits
  <2> QED
    BY <2>2
<1>4. Nat \subseteq U
  <2> HIDE DEF U
  <2> QED
    BY <1>2, <1>3, Induct
<1>5. Splits(S)
  <2> HIDE DEF Splits
  <2> QED
    BY <1>1, <1>4
<1> QED
  BY <1>5

-----------------------------------------------------------------------------
(* Where the channels of the inputs are                                    *)

Widths == [i \in DOMAIN ins |-> ins[i].channels]
Before(i) == SumBy(Widths, 1 .. i - 1)

LEMMA WidthsAdd ==
  ASSUME NEW S \in SUBSET DOMAIN ins
  PROVE  MapThenSumSet(LAMBDA i : ins[i].channels, S) = SumBy(Widths, S)
<1> DEFINE P(g) == g = [s \in SUBSET S |->
                          IF s = {} THEN 0
                          ELSE ins[CHOOSE x \in s : TRUE].channels
                                 + g[s \ {CHOOSE x \in s : TRUE}]]
           Q(g) == g = [s \in SUBSET S |->
                          IF s = {} THEN 0
                          ELSE Widths[CHOOSE x \in s : TRUE]
                                 + g[s \ {CHOOSE x \in s : TRUE}]]
<1>1. ASSUME NEW g PROVE P(g) <=> Q(g)
  <2>1. ASSUME NEW s \in SUBSET S, s # {}
        PROVE  Widths[CHOOSE x \in s : TRUE] = ins[CHOOSE x \in s : TRUE].channels
    <3>1. (CHOOSE x \in s : TRUE) \in DOMAIN ins
      BY <2>1
    <3> QED
      BY <3>1 DEF Widths
  <2> QED
    BY <2>1
<1>2. MapThenSumSet(LAMBDA i : ins[i].channels, S) = (CHOOSE g : P(g))[S]
  BY DEF MapThenSumSet, MapThenFoldSet
<1>3. SumBy(Widths, S) = (CHOOSE g : Q(g))[S]
  BY DEF SumBy, MapThenSumSet, MapThenFoldSet
<1>4. (CHOOSE g : P(g)) = (CHOOSE g : Q(g))
  <2> HIDE DEF P, Q
  <2>1. \A g : P(g) <=> Q(g)
    BY <1>1
  <2> QED
    BY <2>1
<1> QED
  BY <1>2, <1>3, <1>4

LEMMA Inputs ==
  ASSUME args \in Args
  PROVE  /\ Len(ins) \in Nat /\ DOMAIN ins = 1 .. Len(ins) /\ IsFiniteSet(DOMAIN ins)
         /\ \A i \in DOMAIN ins :
              /\ ins[i].channels \in Nat /\ ins[i].frames \in Nat
              /\ ins[i].kept \in Nat /\ ins[i].kept <= ins[i].frames
              /\ i \notin Found => ins[i].channels = 0
         /\ args.blocksize \in Nat \ {0}
         /\ args.order \in Nat \cup {-1}
         /\ args.matrix = NoMatrix \/ (args.matrix.rows \in Nat \ {0} /\ args.matrix.cols \in Nat)
<1>1. args.ins \in UNION {[1 .. n -> Sounds] : n \in 0 .. MaxIns}
  BY DEF Args
<1>2. PICK n \in 0 .. MaxIns : ins \in [1 .. n -> Sounds]
  BY <1>1 DEF ins
<1>3. n \in Nat /\ Len(ins) = n /\ DOMAIN ins = 1 .. n
  BY <1>2, InterleaveAssumption DEF InterleaveAssumption
<1>4. IsFiniteSet(1 .. n)
  BY <1>3, FS_Interval
<1>5. \A i \in DOMAIN ins :
        /\ ins[i].channels \in Nat /\ ins[i].frames \in Nat
        /\ ins[i].kept \in Nat /\ ins[i].kept <= ins[i].frames
        /\ i \notin Found => ins[i].channels = 0
  <2> SUFFICES ASSUME NEW i \in DOMAIN ins
               PROVE  /\ ins[i].channels \in Nat /\ ins[i].frames \in Nat
                      /\ ins[i].kept \in Nat /\ ins[i].kept <= ins[i].frames
                      /\ i \notin Found => ins[i].channels = 0
    OBVIOUS
  <2>1. ins[i] \in Sounds
    BY <1>2, <1>3
  <2>2. ins[i] \in Sound /\ ins[i].kept <= ins[i].frames
        /\ (ins[i].kind = "missing" => ins[i].channels = 0)
    BY <2>1, InterleaveAssumption DEF InterleaveAssumption
  <2> QED
    BY <2>2 DEF Sound, Found
<1>6. args.blocksize \in Nat \ {0} /\ args.order \in Nat \cup {-1}
  BY InterleaveAssumption DEF Args, InterleaveAssumption
<1>7. args.matrix = NoMatrix \/ (args.matrix.rows \in Nat \ {0} /\ args.matrix.cols \in Nat)
  BY InterleaveAssumption DEF Args, InterleaveAssumption
<1> QED
  BY <1>3, <1>4, <1>5, <1>6, <1>7

LEMMA Befores ==
  ASSUME args \in Args
  PROVE  /\ Before(1) = 0 /\ Channels = Before(Len(ins) + 1)
         /\ \A i \in 1 .. Len(ins) + 1 : Before(i) \in Nat
         /\ \A i \in DOMAIN ins : Before(i + 1) = Before(i) + ins[i].channels
<1>1. /\ Len(ins) \in Nat /\ DOMAIN ins = 1 .. Len(ins) /\ IsFiniteSet(DOMAIN ins)
      /\ \A i \in DOMAIN ins : Widths[i] \in Nat /\ Widths[i] = ins[i].channels
  BY Inputs DEF Widths
<1>2. \A S \in SUBSET DOMAIN ins : IsFiniteSet(S) /\ \A i \in S : Widths[i] \in Nat
  BY <1>1, FS_Subset
<1>3. Before(1) = 0
  <2>1. 1 .. 1 - 1 = {}
    OBVIOUS
  <2> QED
    BY <2>1, SumNone DEF Before
<1>4. Channels = Before(Len(ins) + 1)
  <2>1. 1 .. (Len(ins) + 1) - 1 = DOMAIN ins
    BY <1>1
  <2> QED
    BY <2>1, WidthsAdd DEF Before, Channels
<1>5. ASSUME NEW i \in 1 .. Len(ins) + 1 PROVE Before(i) \in Nat
  <2>1. 1 .. i - 1 \in SUBSET DOMAIN ins
    BY <1>1
  <2> QED
    BY <1>2, <2>1, SumSplits DEF Before
<1>6. ASSUME NEW i \in DOMAIN ins PROVE Before(i + 1) = Before(i) + ins[i].channels
  <2>1. /\ 1 .. i \in SUBSET DOMAIN ins /\ i \in 1 .. i /\ (1 .. i) \ {i} = 1 .. i - 1
        /\ 1 .. (i + 1) - 1 = 1 .. i
    BY <1>1
  <2>2. SumBy(Widths, 1 .. i) = Widths[i] + SumBy(Widths, (1 .. i) \ {i})
    BY <1>2, <2>1, SumSplits
  <2>3. Before(i) \in Nat /\ Widths[i] \in Nat /\ ins[i].channels = Widths[i]
    BY <1>1, <1>5
  <2>4. Before(i + 1) = Widths[i] + Before(i)
    BY <2>1, <2>2 DEF Before
  <2> QED
    BY <2>3, <2>4
<1> QED
  BY <1>3, <1>4, <1>5, <1>6

LEMMA BeforeGrows ==
  ASSUME args \in Args, NEW i \in 1 .. Len(ins) + 1, NEW j \in i .. Len(ins) + 1
  PROVE  Before(i) <= Before(j)
<1> DEFINE U == {n \in Nat : i + n <= Len(ins) + 1 => Before(i) <= Before(i + n)}
<1>1. Len(ins) \in Nat /\ DOMAIN ins = 1 .. Len(ins)
      /\ \A m \in DOMAIN ins : ins[m].channels \in Nat
  BY Inputs
<1>2. 0 \in U
  BY <1>1, Befores
<1>3. ASSUME NEW n \in Nat, n \in U PROVE n + 1 \in U
  <2> SUFFICES ASSUME i + (n + 1) <= Len(ins) + 1 PROVE Before(i) <= Before(i + (n + 1))
    OBVIOUS
  <2>1. i + n \in DOMAIN ins /\ i + n \in 1 .. Len(ins) + 1 /\ (i + n) + 1 = i + (n + 1)
    BY <1>1
  <2>2. Before((i + n) + 1) = Before(i + n) + ins[i + n].channels
        /\ Before(i + n) \in Nat /\ Before(i) \in Nat /\ ins[i + n].channels \in Nat
    BY <1>1, <2>1, Befores
  <2>3. Before(i) <= Before(i + n)
    BY <1>1, <1>3, <2>1
  <2> QED
    BY <2>1, <2>2, <2>3
<1>4. Nat \subseteq U
  <2> HIDE DEF U
  <2> QED
    BY <1>2, <1>3, Induct
<1>5. j - i \in Nat /\ i + (j - i) = j /\ j <= Len(ins) + 1
  BY <1>1
<1> QED
  BY <1>4, <1>5

(* Each channel has one source: channel c of an input is number c of those *)
(* behind the channels of the inputs before it.                            *)
LEMMA SourceIs ==
  ASSUME args \in Args, NEW i \in DOMAIN ins, NEW c \in 0 .. ins[i].channels - 1
  PROVE  Source(Before(i) + c) = <<i, c>>
<1>1. /\ Len(ins) \in Nat /\ DOMAIN ins = 1 .. Len(ins)
      /\ \A m \in DOMAIN ins : ins[m].channels \in Nat
  BY Inputs
<1> DEFINE At(s) == Before(i) + c = MapThenSumSet(LAMBDA j : ins[j].channels, 1 .. s[1] - 1) + s[2]
<1>2. ASSUME NEW s \in Sources
      PROVE  /\ s = <<s[1], s[2]>> /\ s[1] \in DOMAIN ins
             /\ s[2] \in 0 .. ins[s[1]].channels - 1
             /\ At(s) <=> Before(i) + c = Before(s[1]) + s[2]
  <2>1. PICK j \in DOMAIN ins : s \in {j} \X (0 .. ins[j].channels - 1)
    BY DEF Sources
  <2>2. s = <<s[1], s[2]>> /\ s[1] = j /\ s[2] \in 0 .. ins[j].channels - 1
    BY <2>1
  <2>3. 1 .. s[1] - 1 \in SUBSET DOMAIN ins
    BY <1>1, <2>2
  <2>4. MapThenSumSet(LAMBDA k : ins[k].channels, 1 .. s[1] - 1) = Before(s[1])
    BY <2>3, WidthsAdd DEF Before
  <2> QED
    BY <2>2, <2>4
<1>3. <<i, c>> \in Sources
  BY DEF Sources
<1>4. At(<<i, c>>)
  <2>1. <<i, c>>[1] = i /\ <<i, c>>[2] = c
    OBVIOUS
  <2> HIDE DEF At
  <2> QED
    BY <1>2, <1>3, <2>1
<1>5. ASSUME NEW s \in Sources, At(s) PROVE s = <<i, c>>
  <2>1. /\ s = <<s[1], s[2]>> /\ s[1] \in DOMAIN ins
        /\ s[2] \in 0 .. ins[s[1]].channels - 1
        /\ Before(i) + c = Before(s[1]) + s[2]
    BY <1>2, <1>5
  <2> DEFINE j == s[1]
  <2>2. Before(i) \in Nat /\ Before(j) \in Nat
        /\ Before(i + 1) = Before(i) + ins[i].channels
        /\ Before(j + 1) = Before(j) + ins[j].channels
    BY <1>1, <2>1, Befores
  <2>3. i < j => Before(i + 1) <= Before(j)
    BY <1>1, <2>1, BeforeGrows
  <2>4. j < i => Before(j + 1) <= Before(i)
    BY <1>1, <2>1, BeforeGrows
  <2>5. i \in Nat /\ j \in Nat /\ ins[i].channels \in Nat /\ ins[j].channels \in Nat
    BY <1>1, <2>1
  <2>6. i = j
    BY <2>1, <2>2, <2>3, <2>4, <2>5
  <2> QED
    BY <2>1, <2>2, <2>6
<1>6. (CHOOSE s \in Sources : At(s)) = <<i, c>>
  <2> HIDE DEF At
  <2> QED
    BY <1>3, <1>4, <1>5
<1> QED
  BY <1>6 DEF Source

LEMMA SourceExists ==
  ASSUME args \in Args, NEW k \in 0 .. Channels - 1
  PROVE  \E i \in DOMAIN ins : \E c \in 0 .. ins[i].channels - 1 : k = Before(i) + c
<1>1. Len(ins) \in Nat /\ DOMAIN ins = 1 .. Len(ins)
      /\ \A m \in DOMAIN ins : ins[m].channels \in Nat
  BY Inputs
<1> DEFINE U == {n \in 1 .. Len(ins) + 1 : k < Before(n)}
<1>2. Channels \in Nat /\ Len(ins) + 1 \in U /\ U \subseteq Nat
  BY <1>1, Befores
<1>3. PICK n \in U : \A m \in U : n <= m
  <2> HIDE DEF U
  <2> QED
    BY <1>2, Least
<1>4. n # 1
  BY <1>2, Befores
<1>5. n - 1 \in DOMAIN ins /\ n - 1 \notin U /\ n - 1 \in 1 .. Len(ins) + 1 /\ (n - 1) + 1 = n
  BY <1>1, <1>3, <1>4
<1>6. Before(n) = Before(n - 1) + ins[n - 1].channels /\ Before(n - 1) \in Nat
      /\ ins[n - 1].channels \in Nat
  BY <1>1, <1>5, Befores
<1>7. k \in Nat /\ k < Before(n) /\ ~ (k < Before(n - 1))
  BY <1>2, <1>3, <1>5
<1>8. k - Before(n - 1) \in 0 .. ins[n - 1].channels - 1 /\ k = Before(n - 1) + (k - Before(n - 1))
  BY <1>6, <1>7
<1> QED
  BY <1>5, <1>8

-----------------------------------------------------------------------------
(* Blocks: a sample of a channel and a frame in the two layouts            *)

LEMMA Product ==
  ASSUME NEW a \in Nat, NEW b \in Nat, NEW m \in Nat, a <= m
  PROVE  a * b \in Nat /\ a * b <= m * b
<1>1. PICK d \in Nat : m = a + d
  <2>1. m - a \in Nat /\ m = a + (m - a)
    OBVIOUS
  <2> QED
    BY <2>1
<1>2. m * b = a * b + d * b /\ a * b \in Nat /\ d * b \in Nat
  BY <1>1
<1> QED
  BY <1>2

LEMMA InBlock ==
  ASSUME NEW m \in Nat, NEW n \in Nat, NEW a \in 0 .. m - 1, NEW b \in 0 .. n - 1
  PROVE  a * n + b \in 0 .. m * n - 1 /\ a * n \in Nat
<1>1. a \in Nat /\ a + 1 \in Nat /\ a + 1 <= m
  OBVIOUS
<1>2. (a + 1) * n <= m * n /\ (a + 1) * n \in Nat /\ a * n \in Nat
  BY <1>1, Product
<1>3. (a + 1) * n = a * n + n
  BY <1>1
<1>4. m * n \in Nat
  OBVIOUS
<1> QED
  BY <1>2, <1>3, <1>4

LEMMA DivMod ==
  ASSUME NEW a \in Nat, NEW n \in Nat, NEW b \in 0 .. n - 1
  PROVE  (a * n + b) \div n = a /\ (a * n + b) % n = b
<1>1. n \in Nat \ {0} /\ a * n \in Nat
  OBVIOUS
<1>2. (a * n + b) \div n = a
  BY <1>1
<1>3. (a * n + b) % n = b
  BY <1>1
<1> QED
  BY <1>2, <1>3

LEMMA Places ==
  ASSUME NEW m \in Nat, NEW n \in Nat, NEW k \in 0 .. m * n - 1
  PROVE  k \div n \in 0 .. m - 1 /\ k % n \in 0 .. n - 1 /\ k = (k \div n) * n + (k % n)
<1>1. m * n \in Nat
  OBVIOUS
<1>2. k \in Nat /\ k < m * n
  BY <1>1
<1>3. n # 0
  BY <1>2
<1>4. k \div n \in Nat /\ k % n \in 0 .. n - 1 /\ k = n * (k \div n) + (k % n)
  <2>1. n \in Nat \ {0} /\ k \in Nat
    BY <1>2, <1>3
  <2>2. k % n \in 0 .. n - 1
    BY <2>1
  <2>3. k \div n \in Nat
    BY <2>1
  <2>4. k = n * (k \div n) + (k % n)
    BY <2>1
  <2> QED
    BY <2>2, <2>3, <2>4
<1> DEFINE q == k \div n
<1>5. q \in Nat /\ n * q \in Nat /\ n * q = q * n /\ n * q < m * n
  BY <1>2, <1>4
<1>6. q < m
  <2> SUFFICES ASSUME m <= q PROVE FALSE
    BY <1>5
  <2>1. m * n <= q * n
    BY <1>5, Product
  <2> QED
    BY <1>1, <1>5, <2>1
<1> QED
  BY <1>4, <1>5, <1>6

LEMMA DeinterleaverAt ==
  ASSUME NEW source, NEW n \in Nat, NEW channels \in Nat,
         NEW c \in 0 .. channels - 1, NEW f \in 0 .. n - 1
  PROVE  deinterleaver(source, n, channels)[c * n + f] = source[f * channels + c]
<1>1. c * n + f \in 0 .. n * channels - 1
  <2>1. c * n + f \in 0 .. channels * n - 1
    BY InBlock
  <2>2. channels * n = n * channels
    OBVIOUS
  <2> QED
    BY <2>1, <2>2
<1>2. (c * n + f) \div n = c /\ (c * n + f) % n = f
  BY DivMod
<1> QED
  BY <1>1, <1>2 DEF deinterleaver

LEMMA InterleaverAt ==
  ASSUME NEW source, NEW n \in Nat, NEW channels \in Nat,
         NEW c \in 0 .. channels - 1, NEW f \in 0 .. n - 1
  PROVE  interleaver(source, n, channels)[f * channels + c] = source[c * n + f]
<1>1. f * channels + c \in 0 .. n * channels - 1
  BY InBlock
<1>2. (f * channels + c) \div channels = f /\ (f * channels + c) % channels = c
  BY DivMod
<1> QED
  BY <1>1, <1>2 DEF interleaver

-----------------------------------------------------------------------------
(* What ambix-interleave puts together                                     *)

LEMMA MaxIs ==
  ASSUME NEW n \in Nat
  PROVE  /\ \A s \in SUBSET (1 .. n) : s # {} => Max(s) \in s
         /\ n > 0 => Max(1 .. n) = n
<1>1. ASSUME NEW s \in SUBSET (1 .. n), s # {} PROVE Max(s) \in s
  <2> DEFINE gaps == {n - x : x \in s}
  <2>1. gaps \subseteq Nat /\ gaps # {}
    <3>1. \A x \in s : n - x \in Nat
      OBVIOUS
    <3> QED
      BY <1>1, <3>1
  <2>2. PICK d \in gaps : \A e \in gaps : d <= e
    <3> HIDE DEF gaps
    <3> QED
      BY <2>1, Least
  <2>3. PICK x \in s : d = n - x
    BY <2>2
  <2>4. \A y \in s : x >= y
    <3> SUFFICES ASSUME NEW y \in s PROVE x >= y
      OBVIOUS
    <3>1. n - x <= n - y /\ x \in Nat /\ y \in Nat
      BY <2>2, <2>3
    <3> QED
      BY <3>1
  <2> QED
    BY <2>4 DEF Max
<1>2. ASSUME n > 0 PROVE Max(1 .. n) = n
  <2>1. n \in 1 .. n /\ \A y \in 1 .. n : n >= y
    BY <1>2
  <2>2. \A x \in 1 .. n : x >= n => x = n
    OBVIOUS
  <2>3. Max(1 .. n) \in 1 .. n /\ \A y \in 1 .. n : Max(1 .. n) >= y
    BY <2>1 DEF Max
  <2> QED
    BY <2>1, <2>2, <2>3
<1> QED
  BY <1>1, <1>2

Samples == UNION {[0 .. m - 1 -> Nat] : m \in Nat}

(* One input more: what the fold in Deinterleaved() does.                  *)
Joined(frames, data, i) ==
  IF i \notin opened THEN data
  ELSE LET offset == Cardinality(DOMAIN data)
           more == deinterleaver(Read(i, frames), frames, ins[i].channels)
       IN [k \in 0 .. offset + frames * ins[i].channels - 1 |->
             IF k < offset THEN data[k] ELSE more[k - offset]]

(* The next frames of an input.                                            *)
NextOf(i, c, f) == sample(i, c, Done + f)
ReadOf(i, w, frames) ==
  [k \in 0 .. frames * w - 1 |-> sample(i, k % w, Done + k \div w)]

LEMMA ReadIs ==
  ASSUME NEW i, NEW w \in Nat, NEW frames \in Nat
  PROVE  /\ \A c \in 0 .. w - 1, f \in 0 .. frames - 1 :
              deinterleaver(ReadOf(i, w, frames), frames, w)[c * frames + f]
                = NextOf(i, c, f)
         /\ \A k \in 0 .. frames * w - 1 :
              \E c \in 0 .. w - 1, f \in 0 .. frames - 1 : k = c * frames + f
<1>1. ASSUME NEW c \in 0 .. w - 1, NEW f \in 0 .. frames - 1
      PROVE  deinterleaver(ReadOf(i, w, frames), frames, w)[c * frames + f]
               = NextOf(i, c, f)
  <2>1. deinterleaver(ReadOf(i, w, frames), frames, w)[c * frames + f] = ReadOf(i, w, frames)[f * w + c]
    BY DeinterleaverAt
  <2>2. f * w + c \in 0 .. frames * w - 1
    BY InBlock
  <2>3. (f * w + c) \div w = f /\ (f * w + c) % w = c
    BY DivMod
  <2>4. ReadOf(i, w, frames)[f * w + c] = sample(i, (f * w + c) % w, Done + (f * w + c) \div w)
    BY <2>2 DEF ReadOf
  <2> QED
    BY <2>1, <2>3, <2>4 DEF NextOf
<1>2. ASSUME NEW k \in 0 .. frames * w - 1
      PROVE  \E c \in 0 .. w - 1, f \in 0 .. frames - 1 : k = c * frames + f
  <2>1. frames * w = w * frames
    OBVIOUS
  <2>2. k \in 0 .. w * frames - 1
    BY <2>1
  <2>3. k \div frames \in 0 .. w - 1 /\ k % frames \in 0 .. frames - 1
        /\ k = (k \div frames) * frames + (k % frames)
    BY <2>2, Places
  <2> QED
    BY <2>3
<1> QED
  BY <1>1, <1>2

HasWidth(i, w) == ins[i].channels = w

LEMMA JoinedIs ==
  ASSUME args \in Args, NEW frames \in Nat, Done \in Nat, NEW i \in opened, i \in DOMAIN ins,
         NEW w \in Nat, HasWidth(i, w), NEW m \in Nat, NEW data \in [0 .. m - 1 -> Nat]
  PROVE  /\ Joined(frames, data, i) \in [0 .. m + frames * w - 1 -> Nat]
         /\ \A k \in 0 .. m - 1 : Joined(frames, data, i)[k] = data[k]
         /\ \A c \in 0 .. w - 1, f \in 0 .. frames - 1, k \in Nat :
              k = m + c * frames + f => Joined(frames, data, i)[k] = NextOf(i, c, f)
<1> DEFINE more == deinterleaver(ReadOf(i, w, frames), frames, w)
<1>1. w \in Nat /\ i \in Nat /\ frames * w \in Nat
  BY Inputs
<1> HIDE DEF more
<1>2. Cardinality(DOMAIN data) = m
  <2>1. DOMAIN data = 0 .. m - 1
    OBVIOUS
  <2>2. Cardinality(0 .. m - 1) = m
    BY FS_Interval
  <2> QED
    BY <2>1, <2>2
<1>3. ASSUME NEW c \in 0 .. w - 1, NEW f \in 0 .. frames - 1
      PROVE  more[c * frames + f] = NextOf(i, c, f)
  BY ReadIs DEF more
<1>4. ASSUME NEW k \in 0 .. frames * w - 1 PROVE more[k] \in Nat
  <2>1. PICK c \in 0 .. w - 1, f \in 0 .. frames - 1 : k = c * frames + f
    BY ReadIs
  <2>2. more[k] = NextOf(i, c, f)
    BY <1>3, <2>1
  <2>3. 100 * i + 10 * c + (Done + f) \in Nat
    BY <1>1
  <2> QED
    BY <2>2, <2>3 DEF sample, NextOf
<1>5. Joined(frames, data, i) = [k \in 0 .. m + frames * w - 1 |->
                                   IF k < m THEN data[k] ELSE more[k - m]]
  <2>1. Read(i, frames) = ReadOf(i, w, frames)
    BY DEF Read, ReadOf, HasWidth
  <2> QED
    BY <1>2, <2>1 DEF Joined, more, HasWidth
<1>6. ASSUME NEW k \in 0 .. m + frames * w - 1
      PROVE  (IF k < m THEN data[k] ELSE more[k - m]) \in Nat
  <2>1. CASE k < m
    <3>1. k \in 0 .. m - 1
      BY <1>1, <2>1
    <3> QED
      BY <2>1, <3>1
  <2>2. CASE ~ (k < m)
    <3>1. k - m \in 0 .. frames * w - 1
      BY <1>1, <2>2
    <3> QED
      BY <1>4, <2>2, <3>1
  <2> QED
    BY <2>1, <2>2
<1>7. ASSUME NEW k \in 0 .. m - 1 PROVE Joined(frames, data, i)[k] = data[k]
  <2>1. k \in 0 .. m + frames * w - 1 /\ k < m
    BY <1>1
  <2> QED
    BY <1>5, <2>1
<1>8. ASSUME NEW c \in 0 .. w - 1, NEW f \in 0 .. frames - 1
      PROVE  \A k \in Nat : k = m + c * frames + f
               => Joined(frames, data, i)[k] = NextOf(i, c, f)
  <2>1. c * frames + f \in 0 .. w * frames - 1 /\ c * frames \in Nat /\ w * frames = frames * w
    BY <1>1, InBlock
  <2> DEFINE p == c * frames + f
  <2>2. m + p \in 0 .. m + frames * w - 1 /\ ~ (m + p < m) /\ (m + p) - m = p
    BY <1>1, <2>1
  <2>3. m + p = m + c * frames + f
    BY <2>1
  <2>4. more[p] = NextOf(i, c, f)
    BY <1>3
  <2> HIDE DEF p
  <2> QED
    BY <1>5, <2>2, <2>3, <2>4
<1> QED
  BY <1>5, <1>6, <1>7, <1>8

(* The buffer after the inputs up to n.                                    *)
UpTo(data, n, frames) ==
  /\ data \in [0 .. frames * Before(n + 1) - 1 -> Nat]
  /\ \A i \in 1 .. n : \A c \in 0 .. ins[i].channels - 1, f \in 0 .. frames - 1 :
       data[(Before(i) + c) * frames + f] = NextOf(i, c, f)

LEMMA Distributes ==
  ASSUME NEW a \in Nat, NEW b \in Nat, NEW n \in Nat
  PROVE  (a + b) * n = n * a + b * n /\ n * (a + b) = n * a + n * b /\ n * a \in Nat
         /\ n * b \in Nat
OBVIOUS

AllOpen == opened = Found

LEMMA UpToGrows ==
  ASSUME args \in Args, AllOpen, NEW frames \in Nat, Done \in Nat,
         NEW n \in Nat, n + 1 \in DOMAIN ins, NEW data, UpTo(data, n, frames)
  PROVE  UpTo(Joined(frames, data, n + 1), n + 1, frames)
<1>1. /\ Before(n + 1) \in Nat /\ ins[n + 1].channels \in Nat
      /\ Before((n + 1) + 1) = Before(n + 1) + ins[n + 1].channels
      /\ n + 1 \notin Found => ins[n + 1].channels = 0
  BY Inputs, Befores
<1>2. PICK b \in Nat, w \in Nat : b = Before(n + 1) /\ w = ins[n + 1].channels
  BY <1>1
<1> DEFINE more == Joined(frames, data, n + 1)
<1>3. frames * Before((n + 1) + 1) = frames * b + frames * w /\ frames * b \in Nat
      /\ frames * w \in Nat
  BY <1>1, <1>2
<1>4. data \in [0 .. frames * b - 1 -> Nat]
  BY <1>2 DEF UpTo
<1>5. ASSUME NEW i \in 1 .. n, NEW c \in 0 .. ins[i].channels - 1, NEW f \in 0 .. frames - 1
      PROVE  /\ (Before(i) + c) * frames + f \in 0 .. frames * b - 1
             /\ data[(Before(i) + c) * frames + f] = NextOf(i, c, f)
  <2>1. /\ Before(i) \in Nat /\ ins[i].channels \in Nat /\ i \in DOMAIN ins
        /\ Before(i + 1) = Before(i) + ins[i].channels
        /\ Before(i + 1) <= b
    <3>1. i \in DOMAIN ins /\ i + 1 \in 1 .. Len(ins) + 1 /\ n + 1 \in i + 1 .. Len(ins) + 1
      BY Inputs
    <3>2. Before(i + 1) <= Before(n + 1)
      BY <3>1, BeforeGrows
    <3>3. /\ Before(i) \in Nat /\ ins[i].channels \in Nat
          /\ Before(i + 1) = Before(i) + ins[i].channels
      BY <3>1, Inputs, Befores
    <3> QED
      BY <1>2, <3>1, <3>2, <3>3
  <2>2. Before(i) + c \in 0 .. b - 1
    BY <2>1, <1>2
  <2>3. (Before(i) + c) * frames + f \in 0 .. b * frames - 1
    BY <2>2, InBlock
  <2>4. b * frames = frames * b
    OBVIOUS
  <2>5. data[(Before(i) + c) * frames + f] = NextOf(i, c, f)
    BY DEF UpTo
  <2> QED
    BY <2>3, <2>4, <2>5
<1>6. CASE n + 1 \notin opened
  <2>1. more = data /\ w = 0
    BY <1>1, <1>2, <1>6 DEF Joined, AllOpen
  <2>2. more \in [0 .. frames * Before((n + 1) + 1) - 1 -> Nat]
    <3>1. frames * w = 0
      BY <2>1
    <3> QED
      BY <1>3, <1>4, <2>1, <3>1
  <2>3. ASSUME NEW i \in 1 .. n + 1, NEW c \in 0 .. ins[i].channels - 1,
               NEW f \in 0 .. frames - 1
        PROVE  more[(Before(i) + c) * frames + f] = NextOf(i, c, f)
    <3>1. i # n + 1
      <4>1. \A v : v = 0 => c \notin 0 .. v - 1 \/ v # ins[i].channels
        OBVIOUS
      <4> QED
        BY <1>2, <2>1, <4>1
    <3>2. i \in 1 .. n
      BY <3>1
    <3> QED
      BY <1>5, <2>1, <3>2
  <2> QED
    BY <2>2, <2>3 DEF UpTo
<1>7. CASE n + 1 \in opened
  <2>6. PICK m \in Nat : m = frames * b
    BY <1>3
  <2>1. m \in Nat /\ data \in [0 .. m - 1 -> Nat] /\ HasWidth(n + 1, w)
    BY <1>2, <1>3, <1>4, <2>6 DEF HasWidth
  <2> HIDE DEF more
  <2>5. PICK j \in opened : j = n + 1
    BY <1>7
  <2>2. /\ Joined(frames, data, n + 1) \in [0 .. m + frames * w - 1 -> Nat]
        /\ \A k \in 0 .. m - 1 : Joined(frames, data, n + 1)[k] = data[k]
        /\ \A c \in 0 .. w - 1, f \in 0 .. frames - 1, k \in Nat :
             k = m + c * frames + f
               => Joined(frames, data, n + 1)[k] = NextOf(n + 1, c, f)
    <3>1. j \in DOMAIN ins /\ HasWidth(j, w)
      BY <2>1, <2>5
    <3>5. data \in [0 .. m - 1 -> Nat]
      BY <2>1
    <3>2. Joined(frames, data, j) \in [0 .. m + frames * w - 1 -> Nat]
      BY <3>1, <3>5, JoinedIs, Zenon
    <3>4. ASSUME NEW k \in 0 .. m - 1 PROVE Joined(frames, data, j)[k] = data[k]
      BY <3>1, <3>5, JoinedIs
    <3>3. ASSUME NEW c \in 0 .. w - 1, NEW f \in 0 .. frames - 1, NEW k \in Nat,
                 k = m + c * frames + f
          PROVE  Joined(frames, data, j)[k] = NextOf(j, c, f)
      BY <2>1, <3>1, <3>3, JoinedIs
    <3> QED
      BY <2>5, <3>2, <3>3, <3>4
  <2>3. more \in [0 .. frames * Before((n + 1) + 1) - 1 -> Nat]
    BY <1>3, <2>2, <2>6 DEF more
  <2>4. ASSUME NEW i \in 1 .. n + 1, NEW c \in 0 .. ins[i].channels - 1,
               NEW f \in 0 .. frames - 1
        PROVE  more[(Before(i) + c) * frames + f] = NextOf(i, c, f)
    <3>1. CASE i = n + 1
      <4>1. c \in 0 .. w - 1 /\ c \in Nat /\ c * frames \in Nat
        BY <1>2, <3>1
      <4>2. (b + c) * frames = m + c * frames
        BY <2>6, <4>1, Distributes
      <4>3. PICK k \in Nat : k = m + c * frames + f
        <5>1. f \in Nat /\ c * frames + f \in Nat
          BY <4>1
        <5> QED
          BY <2>1, <4>1, <5>1
      <4>4. (b + c) * frames + f = k
        BY <4>2, <4>3
      <4>5. more[k] = NextOf(i, c, f)
        BY <2>2, <3>1, <4>1, <4>3 DEF more
      <4> QED
        BY <1>2, <3>1, <4>4, <4>5
    <3>2. CASE i # n + 1
      <4>1. i \in 1 .. n
        BY <3>2
      <4>2. (Before(i) + c) * frames + f \in 0 .. m - 1
            /\ data[(Before(i) + c) * frames + f] = NextOf(i, c, f)
        BY <1>5, <2>6, <4>1
      <4> QED
        BY <2>2, <4>2 DEF more
    <3> QED
      BY <3>1, <3>2
  <2> QED
    BY <2>3, <2>4 DEF UpTo, more
<1> QED
  BY <1>6, <1>7

(* The fold takes the inputs in their order.                               *)
LEMMA DeinterleavedIs ==
  ASSUME args \in Args, AllOpen, NEW frames \in Nat, Done \in Nat
  PROVE  UpTo(Deinterleaved(frames), Len(ins), frames)
<1> DEFINE S == DOMAIN ins
           none == [k \in {} |-> 0]
           last == [s \in SUBSET S |-> Max(s)]
           F == [p \in S \X Samples |-> Joined(frames, p[2], p[1])]
           Joins(g) == \A s \in SUBSET S :
             g[s] = IF s = {} THEN none ELSE Joined(frames, g[s \ {Max(s)}], Max(s))
<1>1. Len(ins) \in Nat /\ S = 1 .. Len(ins) /\ IsFiniteSet(S)
  BY Inputs
<1>2. \A s \in SUBSET S : s # {} => Max(s) \in s
  BY <1>1, MaxIs
<1>3. none \in Samples
  <2>1. none \in [0 .. 0 - 1 -> Nat]
    OBVIOUS
  <2> QED
    BY <2>1 DEF Samples
<1>4. ASSUME NEW i \in S, NEW data \in Samples PROVE Joined(frames, data, i) \in Samples
  <2>1. PICK m \in Nat : data \in [0 .. m - 1 -> Nat]
    BY DEF Samples
  <2>2. CASE i \in opened
    <3>1. PICK w \in Nat : HasWidth(i, w)
      BY Inputs DEF HasWidth
    <3>2. Joined(frames, data, i) \in [0 .. m + frames * w - 1 -> Nat]
      BY <2>1, <2>2, <3>1, JoinedIs
    <3>3. PICK l \in Nat : l = m + frames * w
      OBVIOUS
    <3>4. Joined(frames, data, i) \in [0 .. l - 1 -> Nat]
      BY <3>2, <3>3
    <3> QED
      BY <3>4 DEF Samples
  <2>3. CASE i \notin opened
    BY <2>3 DEF Joined
  <2> QED
    BY <2>2, <2>3
<1>5. PICK g \in [SUBSET S -> Samples] : IsFold(g, S, none, last, F)
  <2>1. F \in [S \X Samples -> Samples]
    <3>1. \A p \in S \X Samples : p[1] \in S /\ p[2] \in Samples
      OBVIOUS
    <3>2. ASSUME NEW p \in S \X Samples PROVE Joined(frames, p[2], p[1]) \in Samples
      BY <1>4, <3>1
    <3> HIDE DEF S
    <3> QED
      BY <3>2
  <2>2. \A s \in SUBSET S : s # {} => last[s] \in s
    BY <1>2
  <2> HIDE DEF S, none, last, F
  <2> QED
    BY <1>1, <1>3, <2>1, <2>2, FoldExists
<1>6. ASSUME NEW s \in SUBSET S
      PROVE  g[s] = IF s = {} THEN none ELSE Joined(frames, g[s \ {Max(s)}], Max(s))
  <2>1. CASE s = {}
    <3> HIDE DEF none, F
    <3> QED
      BY <1>5, <2>1 DEF IsFold
  <2>2. CASE s # {}
    <3>1. Max(s) \in s /\ s \ {Max(s)} \in SUBSET S
      BY <1>2, <2>2
    <3>2. g[s] = F[<<Max(s), g[s \ {Max(s)}]>>]
      <4> HIDE DEF none, F
      <4> QED
        BY <1>5, <2>2 DEF IsFold
    <3>3. Max(s) \in S /\ g[s \ {Max(s)}] \in Samples
      BY <1>5, <3>1
    <3> QED
      BY <2>2, <3>2, <3>3
  <2> QED
    BY <2>1, <2>2
<1> DEFINE P(h) == h = [s \in SUBSET S |->
             IF s = {} THEN none ELSE Joined(frames, h[s \ {Max(s)}], Max(s))]
<1>7. P(g)
  <2>1. g = [s \in SUBSET S |-> g[s]]
    BY <1>5
  <2> HIDE DEF none
  <2> QED
    BY <1>6, <2>1
<1> DEFINE seq == [i \in DOMAIN ins |-> i]
           P0(h) == h = [s \in SUBSET DOMAIN seq |->
             IF s = {} THEN none ELSE Joined(frames, h[s \ {Max(s)}], seq[Max(s)])]
<1>8. Deinterleaved(frames) = (CHOOSE h : P0(h))[DOMAIN seq]
  BY Zenon DEF Deinterleaved, FoldLeft, MapThenFoldSet, Joined
<1>9. DOMAIN seq = S
  OBVIOUS
<1>10. ASSUME NEW h PROVE P0(h) <=> P(h)
  <2>1. ASSUME NEW s \in SUBSET S, s # {} PROVE seq[Max(s)] = Max(s)
    BY <1>2, <2>1
  <2> HIDE DEF none
  <2> QED
    BY <1>9, <2>1
<1>11. PICK h : P(h) /\ Deinterleaved(frames) = h[S]
  <2> DEFINE h == CHOOSE x : P0(x)
  <2>1. P0(h)
    <3> HIDE DEF P0, P
    <3> QED
      BY <1>7, <1>10
  <2>2. P(h)
    <3> HIDE DEF P0, P, h
    <3> QED
      BY <2>1, <1>10
  <2>3. Deinterleaved(frames) = h[S]
    BY <1>8, <1>9
  <2> HIDE DEF P, h
  <2> QED
    BY <2>2, <2>3
<1>12. /\ h[{}] = none
       /\ \A s \in SUBSET S : s # {} => h[s] = Joined(frames, h[s \ {Max(s)}], Max(s))
  <2> HIDE DEF none
  <2> QED
    BY <1>11
<1> DEFINE U == {n \in Nat : n <= Len(ins) => UpTo(h[1 .. n], n, frames)}
<1>13. 0 \in U
  <2>1. 1 .. 0 = {} /\ Before(0 + 1) = 0
    BY Befores
  <2>2. frames * 0 - 1 = -1 /\ none \in [0 .. -1 -> Nat]
    OBVIOUS
  <2>3. UpTo(none, 0, frames)
    <3> HIDE DEF none
    <3> QED
      BY <2>1, <2>2 DEF UpTo
  <2> HIDE DEF none
  <2> QED
    BY <1>12, <2>1, <2>3
<1>14. ASSUME NEW n \in Nat, n \in U PROVE n + 1 \in U
  <2> SUFFICES ASSUME n + 1 <= Len(ins) PROVE UpTo(h[1 .. n + 1], n + 1, frames)
    OBVIOUS
  <2>1. UpTo(h[1 .. n], n, frames) /\ n + 1 \in DOMAIN ins
    BY <1>1, <1>14
  <2>2. UpTo(Joined(frames, h[1 .. n], n + 1), n + 1, frames)
    BY <2>1, UpToGrows
  <2>3. /\ 1 .. n + 1 \in SUBSET S /\ 1 .. n + 1 # {}
        /\ Max(1 .. n + 1) = n + 1 /\ (1 .. n + 1) \ {n + 1} = 1 .. n
    <3>1. Max(1 .. n + 1) = n + 1
      <4>1. n + 1 \in Nat /\ n + 1 > 0
        OBVIOUS
      <4> QED
        BY <4>1, MaxIs
    <3>2. 1 .. n + 1 \in SUBSET S /\ 1 .. n + 1 # {} /\ (1 .. n + 1) \ {n + 1} = 1 .. n
      <4>1. n + 1 \in 1 .. n + 1 /\ (1 .. n + 1) \ {n + 1} = 1 .. n
        OBVIOUS
      <4>2. 1 .. n + 1 \subseteq 1 .. Len(ins)
        BY <1>1
      <4> QED
        BY <1>1, <4>1, <4>2
    <3> QED
      BY <3>1, <3>2
  <2>4. h[1 .. n + 1] = Joined(frames, h[1 .. n], n + 1)
    <3> HIDE DEF S
    <3> QED
      BY <1>12, <2>3
  <2> QED
    BY <2>2, <2>4
<1>15. Len(ins) \in U
  <2> HIDE DEF U
  <2> QED
    BY <1>1, <1>13, <1>14, Induct
<1> QED
  BY <1>1, <1>11, <1>15

(* The parts of a frame, and the whole that is written.                    *)
Divided(a, e) == info.ambichannels = a /\ info.extrachannels = e /\ Channels = a + e

MergedOf(data, a, e, frames) ==
  [f \in 1 .. frames |->
     [c \in 0 .. a + e - 1 |->
        IF c < a
        THEN interleaver(From(data, 0, frames * a), frames, a)[(f - 1) * a + c]
        ELSE interleaver(From(data, frames * a, frames * e), frames, e)[(f - 1) * e + c - a]]]

LEMMA MergedAt ==
  ASSUME NEW data, NEW a \in Nat, NEW e \in Nat, NEW frames \in Nat,
         NEW f \in 1 .. frames, NEW c \in 0 .. a + e - 1
  PROVE  MergedOf(data, a, e, frames)[f][c] = data[c * frames + (f - 1)]
<1>1. f - 1 \in 0 .. frames - 1
  OBVIOUS
<1>2. CASE c < a
  <2>1. c \in 0 .. a - 1
    BY <1>2
  <2>2. interleaver(From(data, 0, frames * a), frames, a)[(f - 1) * a + c]
          = From(data, 0, frames * a)[c * frames + (f - 1)]
    <3>1. PICK g \in 0 .. frames - 1, d \in 0 .. a - 1 : g = f - 1 /\ d = c
      BY <1>1, <2>1
    <3>2. interleaver(From(data, 0, frames * a), frames, a)[g * a + d]
            = From(data, 0, frames * a)[d * frames + g]
      BY InterleaverAt
    <3> QED
      BY <3>1, <3>2
  <2>3. c * frames + (f - 1) \in 0 .. a * frames - 1 /\ a * frames = frames * a
    <3>1. c * frames + (f - 1) \in 0 .. a * frames - 1
      BY <1>1, <2>1, InBlock
    <3> QED
      BY <3>1
  <2>4. From(data, 0, frames * a)[c * frames + (f - 1)] = data[0 + (c * frames + (f - 1))]
    BY <2>3 DEF From
  <2>5. 0 + (c * frames + (f - 1)) = c * frames + (f - 1)
    BY <2>3
  <2> QED
    BY <1>2, <2>2, <2>4, <2>5 DEF MergedOf
<1>3. CASE ~ (c < a)
  <2> DEFINE d == c - a
  <2>1. d \in 0 .. e - 1 /\ c = a + d
    BY <1>3
  <2>2. interleaver(From(data, frames * a, frames * e), frames, e)[(f - 1) * e + d]
          = From(data, frames * a, frames * e)[d * frames + (f - 1)]
    <3> HIDE DEF d
    <3> QED
      BY <1>1, <2>1, InterleaverAt
  <2>3. d * frames + (f - 1) \in 0 .. e * frames - 1 /\ e * frames = frames * e
    <3>1. d * frames + (f - 1) \in 0 .. e * frames - 1
      <4> HIDE DEF d
      <4> QED
        BY <1>1, <2>1, InBlock
    <3> QED
      BY <3>1
  <2>4. From(data, frames * a, frames * e)[d * frames + (f - 1)]
          = data[frames * a + (d * frames + (f - 1))]
    <3> HIDE DEF d
    <3> QED
      BY <2>3 DEF From
  <2>5. frames * a + (d * frames + (f - 1)) = c * frames + (f - 1)
    <3> HIDE DEF d
    <3>1. d \in Nat /\ (a + d) * frames = frames * a + d * frames
      BY <2>1, Distributes
    <3>2. frames * a \in Nat /\ d * frames \in Nat /\ f - 1 \in Int
      BY <3>1
    <3> QED
      BY <2>1, <3>1, <3>2
  <2>6. (f - 1) * e + c - a = (f - 1) * e + d
    <3>1. (f - 1) * e \in Int
      OBVIOUS
    <3> QED
      BY <3>1
  <2>7. MergedOf(data, a, e, frames)[f][c]
          = interleaver(From(data, frames * a, frames * e), frames, e)[(f - 1) * e + c - a]
    BY <1>3 DEF MergedOf
  <2> QED
    BY <2>2, <2>4, <2>5, <2>6, <2>7
<1> QED
  BY <1>2, <1>3

LEMMA BlockIs ==
  ASSUME args \in Args, AllOpen, NEW frames \in Nat, Done \in Nat,
         NEW a \in Nat, NEW e \in Nat, Divided(a, e)
  PROVE  /\ DOMAIN Block(frames) = 1 .. frames
         /\ \A f \in 1 .. frames : Block(frames)[f] = Frame(Done + f)
<1> DEFINE data == Deinterleaved(frames)
<1>1. Block(frames) = MergedOf(data, a, e, frames)
  BY DEF Block, Merged, MergedOf, Divided
<1>2. UpTo(data, Len(ins), frames)
  BY DeinterleavedIs
<1> HIDE DEF data
<1>3. ASSUME NEW f \in 1 .. frames, NEW c \in 0 .. Channels - 1, c \in 0 .. a + e - 1
      PROVE  Block(frames)[f][c] = sample(Source(c)[1], Source(c)[2], (Done + f) - 1)
  <2>0. PICK i \in DOMAIN ins : \E d \in 0 .. ins[i].channels - 1 : c = Before(i) + d
    BY <1>3, SourceExists
  <2>1. PICK d \in 0 .. ins[i].channels - 1 : c = Before(i) + d
    BY <2>0
  <2>2. Source(c)[1] = i /\ Source(c)[2] = d
    <3>1. Source(Before(i) + d) = <<i, d>>
      BY <2>1, SourceIs
    <3> QED
      BY <2>1, <3>1
  <2>3. i \in 1 .. Len(ins) /\ f - 1 \in 0 .. frames - 1
    BY Inputs
  <2>4. data[(Before(i) + d) * frames + (f - 1)] = NextOf(i, d, f - 1)
    BY <1>2, <2>3 DEF UpTo
  <2>5. NextOf(i, d, f - 1) = sample(i, d, (Done + f) - 1)
    <3>1. Done + (f - 1) = (Done + f) - 1
      OBVIOUS
    <3> QED
      BY <3>1 DEF NextOf
  <2>6. MergedOf(data, a, e, frames)[f][c] = data[c * frames + (f - 1)]
    BY <1>3, MergedAt
  <2> QED
    BY <1>1, <2>1, <2>2, <2>4, <2>5, <2>6
<1>4. ASSUME NEW f \in 1 .. frames PROVE Block(frames)[f] = Frame(Done + f)
  <2>1. 0 .. Channels - 1 = 0 .. a + e - 1
    BY DEF Divided
  <2>2. Block(frames)[f] = [c \in 0 .. a + e - 1 |-> Block(frames)[f][c]]
    BY <1>1 DEF MergedOf
  <2>3. Block(frames)[f] = [c \in 0 .. Channels - 1 |->
                              sample(Source(c)[1], Source(c)[2], (Done + f) - 1)]
    BY <1>3, <2>1, <2>2
  <2> QED
    BY <2>3 DEF Frame
<1> QED
  BY <1>1, <1>4 DEF MergedOf

(* The length that is announced is a number.                               *)
Shorter(frames, i) ==
  IF frames = 0 \/ frames > ins[i].frames THEN ins[i].frames ELSE frames

LEMMA FramesIs == args \in Args => Frames \in Nat
<1> SUFFICES ASSUME args \in Args PROVE Frames \in Nat
  OBVIOUS
<1> DEFINE S == DOMAIN ins
           last == [s \in SUBSET S |-> Max(s)]
           F == [p \in S \X Nat |-> Shorter(p[2], p[1])]
           P(h) == h = [s \in SUBSET S |->
                          IF s = {} THEN 0 ELSE Shorter(h[s \ {Max(s)}], Max(s))]
<1>1. Len(ins) \in Nat /\ S = 1 .. Len(ins) /\ IsFiniteSet(S)
  BY Inputs
<1>2. \A s \in SUBSET S : s # {} => Max(s) \in s
  BY <1>1, MaxIs
<1>3. \A i \in S, n \in Nat : Shorter(n, i) \in Nat
  BY Inputs DEF Shorter
<1>4. PICK g \in [SUBSET S -> Nat] : IsFold(g, S, 0, last, F)
  <2>1. F \in [S \X Nat -> Nat]
    BY <1>3
  <2>2. \A s \in SUBSET S : s # {} => last[s] \in s
    BY <1>2
  <2> HIDE DEF S, last, F
  <2> QED
    BY <1>1, <2>1, <2>2, FoldExists
<1>5. P(g)
  <2>1. ASSUME NEW s \in SUBSET S, s # {}
        PROVE  g[s] = Shorter(g[s \ {Max(s)}], Max(s))
    <3>1. Max(s) \in s /\ s \ {Max(s)} \in SUBSET S
      BY <1>2, <2>1
    <3>2. g[s] = F[<<Max(s), g[s \ {Max(s)}]>>]
      <4> HIDE DEF F
      <4> QED
        BY <1>4, <2>1 DEF IsFold
    <3>3. Max(s) \in S /\ g[s \ {Max(s)}] \in Nat
      BY <1>4, <3>1
    <3> QED
      BY <3>2, <3>3
  <2>2. ASSUME NEW s \in SUBSET S, s = {} PROVE g[s] = 0
    <3> HIDE DEF F
    <3> QED
      BY <1>4, <2>2 DEF IsFold
  <2>3. g = [s \in SUBSET S |-> g[s]]
    BY <1>4
  <2> QED
    BY <2>1, <2>2, <2>3
<1>6. Frames = (CHOOSE h : P(h))[S]
  BY Zenon DEF Frames, FoldLeft, MapThenFoldSet, Shorter
<1>7. PICK h : P(h) /\ Frames = h[S]
  <2> HIDE DEF P
  <2> QED
    BY <1>5, <1>6
<1>8. /\ h[{}] = 0
      /\ \A s \in SUBSET S : s # {} => h[s] = Shorter(h[s \ {Max(s)}], Max(s))
  BY <1>7
<1> DEFINE U == {n \in Nat : n <= Len(ins) => h[1 .. n] \in Nat}
<1>9. 0 \in U
  <2>1. 1 .. 0 = {}
    OBVIOUS
  <2> QED
    BY <1>8, <2>1
<1>10. ASSUME NEW n \in Nat, n \in U PROVE n + 1 \in U
  <2> SUFFICES ASSUME n + 1 <= Len(ins) PROVE h[1 .. n + 1] \in Nat
    OBVIOUS
  <2>1. h[1 .. n] \in Nat /\ n + 1 \in S
    BY <1>1, <1>10
  <2>2. Max(1 .. n + 1) = n + 1
    <3>1. n + 1 \in Nat /\ n + 1 > 0
      OBVIOUS
    <3> QED
      BY <3>1, MaxIs
  <2>3. n + 1 \in 1 .. n + 1 /\ (1 .. n + 1) \ {n + 1} = 1 .. n
    OBVIOUS
  <2>4. 1 .. n + 1 \in SUBSET S
    BY <1>1
  <2>5. h[1 .. n + 1] = Shorter(h[1 .. n], n + 1)
    <3> HIDE DEF S
    <3> QED
      BY <1>8, <2>2, <2>3, <2>4
  <2> QED
    BY <1>3, <2>1, <2>5
<1>11. Len(ins) \in U
  <2> HIDE DEF U
  <2> QED
    BY <1>1, <1>9, <1>10, Induct
<1> QED
  BY <1>1, <1>7, <1>11

-----------------------------------------------------------------------------
(* Matrices                                                                *)

LEMMA FullSetsAre ==
  /\ \A n \in Nat : is_fullset(order2channels(n)) /\ order2channels(n) \in Nat \ {0}
<1> SUFFICES ASSUME NEW n \in Nat
             PROVE  is_fullset(order2channels(n)) /\ order2channels(n) \in Nat \ {0}
  OBVIOUS
<1>1. order2channels(n) = (n + 1) * (n + 1)
  BY DEF order2channels
<1>2. PICK m \in Nat : m = n + 1 /\ m > 0
  OBVIOUS
<1>3. m * m \in Nat
  OBVIOUS
<1>4. is_fullset(m * m)
  BY <1>3, FullSets
<1>5. m * m # 0
  BY <1>2
<1> QED
  BY <1>1, <1>2, <1>3, <1>4, <1>5

(* What is known of a matrix: it has so many columns, and unless it is none*)
(* it has a row.                                                           *)
Proper(m) == m.cols \in Nat /\ (m = NoMatrix \/ m.rows \in Nat \ {0})

LEMMA ProperFuma == \A n \in Nat : Proper(fuma2ambix(n))
<1> SUFFICES ASSUME NEW n \in Nat PROVE Proper(fuma2ambix(n))
  OBVIOUS
<1>1. CASE FumaRows(n) = 0
  BY <1>1 DEF fuma2ambix, NoMatrix, Proper
<1>2. CASE FumaRows(n) # 0
  <2>1. FumaRows(n) \in Nat
    BY DEF FumaRows
  <2>2. fuma2ambix(n).rows = FumaRows(n) /\ fuma2ambix(n).cols = n
    BY <1>2 DEF fuma2ambix, MatrixOf
  <2> QED
    BY <1>2, <2>1, <2>2 DEF Proper
<1> QED
  BY <1>1, <1>2

LEMMA Multiplied ==
  ASSUME NEW l, NEW r
  PROVE  multiply(l, r) = NoMatrix
         \/ (l.rows # 0 /\ multiply(l, r).rows = l.rows /\ multiply(l, r).cols = r.cols)
BY DEF multiply, MatrixOf

LEMMA ProperPredefined == \A type, n : n \in Nat => Proper(Predefined(type, n))
<1> SUFFICES ASSUME NEW type, NEW n \in Nat PROVE Proper(Predefined(type, n))
  OBVIOUS
<1>1. CASE type = "fuma"
  BY <1>1, ProperFuma DEF Predefined
<1>2. CASE type # "fuma"
  <2> DEFINE left0 == Rout(type, n)
             right0 == Norm(type, n)
  <2>1. Predefined(type, n) = multiply(left0, right0)
    BY <1>2 DEF Predefined
  <2>2. left0.rows \in Nat
    BY DEF Rout, NoMatrix, router, Identity, MatrixOf
  <2>3. right0.cols \in Nat
    BY DEF Norm, NoMatrix, diag, Identity, MatrixOf
  <2> HIDE DEF left0, right0
  <2>4. multiply(left0, right0) = NoMatrix
        \/ (left0.rows # 0 /\ multiply(left0, right0).rows = left0.rows
              /\ multiply(left0, right0).cols = right0.cols)
    BY Multiplied
  <2> QED
    BY <2>1, <2>2, <2>3, <2>4 DEF NoMatrix, Proper
<1> QED
  BY <1>1, <1>2

-----------------------------------------------------------------------------
(* The invariant of ambix-interleave                                       *)

NothingYet ==
  /\ opened = {} /\ info = NoInfo /\ left = 0 /\ outfile = NoFile
  /\ outhandle = FALSE /\ exit = -1

BFormatFile == SingleAmb /\ Channels = 4

(* How the output is to be divided, and by what matrix.                    *)
Meant ==
  /\ info # NoInfo
  /\ Extended => /\ matrix.rows \in Nat \ {0} /\ matrix.cols = info.ambichannels
                 /\ BFormatFile => matrix = fuma2ambix(4)
  /\ ~ Extended => /\ info.extrachannels = 0 /\ is_fullset(info.ambichannels)
                   /\ ~ BFormatFile

(* The file says that to whoever reads it.                                 *)
FileSays ==
  /\ outfile.channels = info.ambichannels + info.extrachannels
  /\ D!AdaptorOf(outfile).cols = info.ambichannels
  /\ is_fullset(D!AdaptorOf(outfile).rows)
  /\ BFormatFile => D!AdaptorOf(outfile) = fuma2ambix(4)

(* What is in the file is in its place.                                    *)
Placed ==
  info # NoInfo =>
    /\ Divided(info.ambichannels, info.extrachannels)
    /\ outfile.frames \in Seq({Frame(f) : f \in Nat})
    /\ \A f \in DOMAIN outfile.frames : outfile.frames[f] = Frame(f)

Complete ==
  /\ info # NoInfo
  /\ Len(outfile.frames) = info.frames
  /\ \A i \in Found : Len(outfile.frames) <= ins[i].frames
  /\ FileSays

ToolTypes ==
  /\ args \in Args
  /\ step \in {"cmdline", "open input", "open output", "copy", "closed", "crashed"}
  /\ opened \subseteq DOMAIN ins
  /\ info.ambichannels \in Nat /\ info.extrachannels \in Nat /\ info.frames \in Nat
  /\ left \in 0 .. info.frames
  /\ exit \in {-1, 0, 1, 64, 65, 66, 73}
  /\ outhandle \in BOOLEAN

FileTypes ==
  /\ outfile.channels \in Nat
  /\ outfile.matrix.rows \in Nat /\ outfile.matrix.cols \in Nat
  /\ Len(outfile.frames) \in Nat /\ DOMAIN outfile.frames = 1 .. Len(outfile.frames)

FirstInv ==
  /\ ToolTypes /\ FileTypes
  /\ step = "cmdline" => NothingYet
  /\ step = "open input" => NothingYet /\ matrix = args.matrix
  /\ step = "open output" => outfile = NoFile
  /\ step \in {"open output", "copy"} => AllOpen /\ exit = -1 /\ Meant
  /\ Placed
  /\ step = "copy" /\ outhandle =>
       /\ Len(outfile.frames) = Done /\ DOMAIN outfile = DOMAIN NoFile
       /\ ~ Unwritable => FileSays
  /\ exit = 1 => Complete

-----------------------------------------------------------------------------
(* The invariant of ambix-deinterleave                                     *)

(* What channel c of the outputs is made of.                               *)
DecodedOf(m, c) == {Decoded(m, c - 1, outfile.frames[f]) : f \in DOMAIN outfile.frames}

Divides ==
  LET m == D!AdaptorOf(outfile)
  IN \A c \in DOMAIN outs :
       /\ outs[c] \in Seq(DecodedOf(m, c))
       /\ \A f \in DOMAIN outs[c] :
            f \in DOMAIN outfile.frames
              /\ outs[c][f] = Decoded(m, c - 1, outfile.frames[f])

Dividing ==
  /\ outputs = 1 .. D!NumOuts /\ DOMAIN outs = 1 .. D!NumOuts
  /\ \A c \in DOMAIN outs : Len(outs[c]) = Len(outfile.frames) - rest

SecondInv ==
  /\ apart \in {"open input", "open output", "copy", "closed"}
  /\ code \in {-1, 0, 1}
  /\ blocksize \in Nat \ {0}
  /\ parts.ambichannels \in Nat /\ parts.extrachannels \in Nat
  /\ rest \in 0 .. Len(outfile.frames)
  /\ ~ Ended => apart = "open input"
  /\ apart \in {"open input", "open output"} => rest = 0 /\ outs = <<>>
  /\ apart \in {"open output", "copy"} =>
       parts = D!InfoOf(outfile) /\ decoder = D!AdaptorOf(outfile)
  /\ apart = "copy" => Dividing
  /\ apart \in {"copy", "closed"} => Divides
  /\ apart = "closed" <=> code # -1
  /\ code = 1 => \A c \in DOMAIN outs : Len(outs[c]) = Len(outfile.frames)

-----------------------------------------------------------------------------
LEMMA ArgsExist == (CHOOSE a \in Args : TRUE) \in Args
<1>1. PICK b \in Blocksizes, o \in Orders : TRUE
  BY InterleaveAssumption DEF InterleaveAssumption
<1>2. <<>> \in UNION {[1 .. n -> Sounds] : n \in 0 .. MaxIns}
  <2>1. 0 \in 0 .. MaxIns
    BY InterleaveAssumption DEF InterleaveAssumption
  <2>2. <<>> \in [1 .. 0 -> Sounds]
    OBVIOUS
  <2> QED
    BY <2>1, <2>2
<1>3. [ins |-> <<>>, order |-> o, matrix |-> NoMatrix, type |-> "none",
       blocksize |-> b, output |-> TRUE] \in Args
  BY <1>1, <1>2 DEF Args, Types
<1> QED
  BY <1>3

LEMMA FirstStarts == First => FirstInv
<1> SUFFICES ASSUME First PROVE FirstInv
  OBVIOUS
<1>1. args \in Args
  BY ArgsExist DEF First, Init, NotRun
<1>2. info = NoInfo /\ opened = {} /\ left = 0 /\ outhandle = FALSE /\ exit = -1
      /\ step \in {"cmdline", "closed"} /\ (step = "cmdline" => outfile = NoFile)
  BY DEF First, Init, NotRun
<1>3. ToolTypes
  <2>1. info.ambichannels = 0 /\ info.extrachannels = 0 /\ info.frames = 0
    BY <1>2 DEF NoInfo
  <2>2. left \in 0 .. info.frames
    BY <1>2, <2>1
  <2>3. info.ambichannels \in Nat /\ info.extrachannels \in Nat /\ info.frames \in Nat
    BY <2>1
  <2>4. step \in {"cmdline", "open input", "open output", "copy", "closed", "crashed"}
    BY <1>2
  <2>5. opened \subseteq DOMAIN ins /\ outhandle \in BOOLEAN
        /\ exit \in {-1, 0, 1, 64, 65, 66, 73}
    BY <1>2
  <2> QED
    BY <1>1, <2>2, <2>3, <2>4, <2>5 DEF ToolTypes
<1>4. FileTypes
  <2>1. CASE outfile = NoFile
    BY <2>1 DEF FileTypes, NoFile, NoMatrix
  <2>2. CASE outfile \in Foreign
    <3>1. outfile.channels \in Nat /\ outfile.matrix.rows \in Nat /\ outfile.matrix.cols \in Nat
          /\ outfile.frames \in Seq([0 .. outfile.channels - 1 -> Int])
      BY <2>2, ToolsAssumption DEF ToolsAssumption
    <3>2. Len(outfile.frames) \in Nat /\ DOMAIN outfile.frames = 1 .. Len(outfile.frames)
      BY <3>1
    <3> QED
      BY <3>1, <3>2 DEF FileTypes
  <2> QED
    BY <2>1, <2>2 DEF First, Init, NotRun
<1>5. exit # 1
  BY <1>2
<1>6. Placed
  BY <1>2 DEF Placed
<1> QED
  BY <1>2, <1>3, <1>4, <1>5, <1>6 DEF FirstInv, NothingYet

(* What is derived from the command line does not change.                  *)
LEMMA ArgsFixed ==
  args' = args =>
    /\ ins' = ins /\ Found' = Found /\ Channels' = Channels /\ SingleAmb' = SingleAmb
    /\ BFormatFile' = BFormatFile
    /\ \A f : Frame(f)' = Frame(f)
<1> SUFFICES ASSUME args' = args
             PROVE  /\ ins' = ins /\ Found' = Found /\ Channels' = Channels
                    /\ SingleAmb' = SingleAmb /\ BFormatFile' = BFormatFile
                    /\ \A f : Frame(f)' = Frame(f)
  OBVIOUS
<1>1. ins' = ins
  BY DEF ins
<1>2. Found' = Found /\ SingleAmb' = SingleAmb
  BY <1>1 DEF Found, SingleAmb
<1>3. Channels' = Channels /\ Sources' = Sources
  BY <1>1 DEF Channels, Sources, MapThenSumSet, MapThenFoldSet
<1>4. \A k : Source(k)' = Source(k)
  BY <1>1, <1>3 DEF Source, MapThenSumSet, MapThenFoldSet
<1>5. \A f : Frame(f)' = Frame(f)
  BY <1>3, <1>4 DEF Frame
<1> QED
  BY <1>1, <1>2, <1>3, <1>5 DEF BFormatFile

LEMMA AdaptorProper == args \in Args /\ matrix = args.matrix => Proper(Adaptor)
<1> SUFFICES ASSUME args \in Args, matrix = args.matrix PROVE Proper(Adaptor)
  OBVIOUS
<1>1. Channels \in Nat
  BY Befores, Inputs
<1>2. Proper(matrix)
  BY Inputs DEF Proper, NoMatrix
<1>3. CASE args.type # "none"
  BY <1>1, <1>3, ProperPredefined DEF Adaptor
<1>4. CASE args.type = "none" /\ SingleAmb
  BY <1>1, <1>4, ProperFuma DEF Adaptor
<1>5. CASE args.type = "none" /\ ~ SingleAmb
  BY <1>2, <1>5 DEF Adaptor
<1> QED
  BY <1>3, <1>4, <1>5

-----------------------------------------------------------------------------
(* ambix-interleave keeps its invariant, function by function              *)

LEMMA KeptByCmdline == FirstInv /\ ai_cmdline => FirstInv'
<1> SUFFICES ASSUME FirstInv, ai_cmdline PROVE FirstInv'
  OBVIOUS
<1>1. /\ ToolTypes /\ FileTypes /\ NothingYet /\ step = "cmdline"
      /\ UNCHANGED <<args, info, left, outfile>>
  BY DEF FirstInv, ai_cmdline
<1>2. \/ step' = "closed" /\ exit' = Fault(args) /\ Fault(args) # 0
           /\ opened' = {} /\ outhandle' = FALSE
      \/ step' = "open input" /\ matrix' = args.matrix
           /\ UNCHANGED <<opened, outhandle, exit>>
  BY <1>1 DEF ai_cmdline, Closes
<1>3. Fault(args) \in {0, 64, 65, 66, 73}
  BY DEF Fault
<1>4. ins' = ins
  BY <1>1, ArgsFixed
<1>5. exit' \in {-1, 64, 65, 66, 73} /\ opened' = {} /\ outhandle' = FALSE
  BY <1>1, <1>2, <1>3 DEF NothingYet
<1>6. ToolTypes'
  <2>1. step' \in {"cmdline", "open input", "open output", "copy", "closed", "crashed"}
    BY <1>2
  <2>2. exit' \in {-1, 0, 1, 64, 65, 66, 73} /\ outhandle' \in BOOLEAN
        /\ (opened \subseteq DOMAIN ins)'
    BY <1>5
  <2>3. args \in Args /\ info.ambichannels \in Nat /\ info.extrachannels \in Nat
        /\ info.frames \in Nat /\ left \in 0 .. info.frames
    BY <1>1 DEF ToolTypes
  <2> QED
    BY <1>1, <2>1, <2>2, <2>3 DEF ToolTypes
<1>7. FileTypes'
  BY <1>1 DEF FileTypes
<1>8. Placed' /\ exit' # 1
  <2>1. info' = NoInfo
    BY <1>1 DEF NothingYet
  <2> QED
    BY <1>5, <2>1 DEF Placed
<1>9. step' = "open input" => NothingYet' /\ matrix' = args'.matrix
  BY <1>1, <1>2 DEF NothingYet
<1>10. step' \in {"open input", "closed"}
  BY <1>2
<1> QED
  BY <1>6, <1>7, <1>8, <1>9, <1>10 DEF FirstInv

LEMMA ChannelsIs == args \in Args => Channels \in Nat
<1> SUFFICES ASSUME args \in Args PROVE Channels \in Nat
  OBVIOUS
<1>1. Len(ins) + 1 \in 1 .. Len(ins) + 1
  BY Inputs
<1> QED
  BY <1>1, Befores

LEMMA FumaOfFour == fuma2ambix(4).rows = 4 /\ fuma2ambix(4).cols = 4
<1>1. FumaRows(4) = 4
  <2>1. 4 \in {3, 4} /\ 4 # 1
    OBVIOUS
  <2> QED
    BY <2>1 DEF FumaRows
<1> QED
  BY <1>1 DEF fuma2ambix, MatrixOf

(* What is refused, and what not.                                          *)
Accepted == args \in Args /\ matrix = args.matrix /\ ~ Refused /\ ai_open_input

LEMMA Described ==
  ASSUME Accepted
  PROVE  /\ Meant' /\ Divided(info.ambichannels, info.extrachannels)'
         /\ info'.ambichannels \in Nat /\ info'.extrachannels \in Nat
         /\ info'.frames \in Nat
<1> DEFINE order == Given(args.order)
<1>0. args \in Args /\ args' = args
  BY DEF Accepted, ai_open_input
<1>1. Channels \in Nat \ {0} /\ Frames \in Nat
  <2>1. Channels \in Nat /\ Frames \in Nat
    BY <1>0, ChannelsIs, FramesIs
  <2>2. ~ (Channels < 1)
    BY DEF Accepted, Refused, NoOutput
  <2> QED
    BY <2>1, <2>2
<1>2. Proper(Adaptor)
  BY AdaptorProper DEF Accepted
<1>3. order \in Nat /\ (order # 0 => is_fullset(order))
  <2>1. CASE args.order < 0
    BY <2>1 DEF Given
  <2>2. CASE ~ (args.order < 0)
    <3>1. args.order \in Nat
      <4>1. args.order \in Nat \cup {-1}
        BY <1>0, Inputs
      <4> QED
        BY <2>2, <4>1
    <3> QED
      BY <2>2, <3>1, FullSetsAre DEF Given
  <2> QED
    BY <2>1, <2>2
<1> HIDE DEF order
<1>4. args' = args /\ Channels' = Channels /\ BFormatFile' = BFormatFile
  BY <1>0, ArgsFixed
<1>5. BFormatFile => Adaptor = fuma2ambix(4) /\ fuma2ambix(4) # NoMatrix
  <2> SUFFICES ASSUME BFormatFile PROVE Adaptor = fuma2ambix(4) /\ fuma2ambix(4) # NoMatrix
    OBVIOUS
  <2>1. args.type = "none" /\ SingleAmb /\ Channels = 4
    BY DEF BFormatFile, Accepted, Refused, MatrixClash
  <2>3. fuma2ambix(4) # NoMatrix
    BY FumaOfFour DEF NoMatrix
  <2> QED
    BY <2>1, <2>3 DEF Adaptor
<1>6. CASE Adaptor # NoMatrix
  <2>1. info' = Format("EXTENDED", Adaptor.cols, Channels - Adaptor.cols) /\ matrix' = Adaptor
    BY <1>6 DEF Accepted, ai_open_input
  <2>2. Adaptor.cols \in Nat /\ Adaptor.rows \in Nat \ {0} /\ Adaptor.cols <= Channels
    <3>1. Adaptor.cols \in Nat /\ Adaptor.rows \in Nat \ {0}
      BY <1>2, <1>6 DEF Proper
    <3>2. ~ (Channels < Adaptor.cols)
      BY <1>6 DEF Accepted, Refused, TooFewForMatrix
    <3> QED
      BY <1>1, <3>1, <3>2
  <2>3. info'.fileformat = "EXTENDED" /\ info'.ambichannels = Adaptor.cols
        /\ info'.extrachannels = Channels - Adaptor.cols /\ info'.frames = Frames
    BY <2>1 DEF Format
  <2>4. Meant'
    <3>1. info' # NoInfo
      BY <2>3 DEF NoInfo
    <3> QED
      BY <1>4, <1>5, <2>1, <2>2, <2>3, <3>1 DEF Meant, Extended
  <2>5. Channels = Adaptor.cols + (Channels - Adaptor.cols) /\ Channels - Adaptor.cols \in Nat
    BY <1>1, <2>2
  <2> QED
    BY <1>1, <1>4, <2>2, <2>3, <2>4, <2>5 DEF Divided
<1>7. CASE Adaptor = NoMatrix /\ order > 0 /\ order < Channels
  <2>1. info' = Format("EXTENDED", order, Channels - order) /\ matrix' = Identity(order, order)
    BY <1>7 DEF Accepted, ai_open_input, order
  <2>2. matrix'.rows = order /\ matrix'.cols = order
    BY <2>1 DEF Identity, MatrixOf
  <2>3. info'.fileformat = "EXTENDED" /\ info'.ambichannels = order
        /\ info'.extrachannels = Channels - order /\ info'.frames = Frames
    BY <2>1 DEF Format
  <2>4. Meant'
    <3>1. info' # NoInfo
      BY <2>3 DEF NoInfo
    <3>2. ~ BFormatFile'
      BY <1>4, <1>5, <1>7
    <3> QED
      BY <1>3, <1>7, <2>2, <2>3, <3>1, <3>2 DEF Meant, Extended
  <2>5. Channels = order + (Channels - order) /\ Channels - order \in Nat
    BY <1>1, <1>3, <1>7
  <2> QED
    BY <1>1, <1>3, <1>4, <2>3, <2>4, <2>5 DEF Divided
<1>8. CASE Adaptor = NoMatrix /\ ~ (order > 0 /\ order < Channels)
  <2>1. info' = Format("BASIC", Channels, 0)
    BY <1>8 DEF Accepted, ai_open_input, order
  <2>2. info'.fileformat = "BASIC" /\ info'.ambichannels = Channels
        /\ info'.extrachannels = 0 /\ info'.frames = Frames
    BY <2>1 DEF Format
  <2>3. is_fullset(Channels)
    <3>1. ~ TooFewForOrder /\ ~ NoFullSet
      BY DEF Accepted, Refused
    <3>2. ~ (Channels < order) /\ (order = 0 => is_fullset(Channels))
      BY <1>8, <3>1 DEF TooFewForOrder, NoFullSet, order
    <3>3. CASE order = 0
      BY <3>2, <3>3
    <3>4. CASE order # 0
      <4>1. order = Channels
        BY <1>1, <1>3, <1>8, <3>2, <3>4
      <4> QED
        BY <1>3, <3>4, <4>1
    <3> QED
      BY <3>3, <3>4
  <2>4. Meant'
    <3>1. info' # NoInfo
      BY <2>2 DEF NoInfo
    <3>2. ~ BFormatFile'
      BY <1>4, <1>5, <1>8
    <3> QED
      BY <2>2, <2>3, <3>1, <3>2 DEF Meant, Extended
  <2>5. Channels = Channels + 0
    BY <1>1
  <2> QED
    BY <1>1, <1>4, <2>2, <2>4, <2>5 DEF Divided
<1> QED
  BY <1>6, <1>7, <1>8

LEMMA KeptByOpenInput == FirstInv /\ ai_open_input => FirstInv'
<1> SUFFICES ASSUME FirstInv, ai_open_input PROVE FirstInv'
  OBVIOUS
<1>1. /\ ToolTypes /\ FileTypes /\ NothingYet /\ step = "open input" /\ matrix = args.matrix
      /\ UNCHANGED <<args, left, outfile>>
  BY DEF FirstInv, ai_open_input
<1>2. ins' = ins /\ Found' = Found /\ FileTypes'
  BY <1>1, ArgsFixed DEF FileTypes
<1>3. CASE Refused
  <2>1. step' = "closed" /\ exit' = 0 /\ opened' = {} /\ outhandle' = FALSE /\ info' = info
    BY <1>3 DEF ai_open_input, Fails, Closes
  <2>2. ToolTypes'
    BY <1>1, <1>2, <2>1 DEF ToolTypes
  <2>3. Placed'
    BY <1>1, <2>1 DEF Placed, NothingYet
  <2>4. exit' # 1
    BY <2>1
  <2>5. step' \notin {"cmdline", "open input", "open output", "copy"}
    BY <2>1
  <2> QED
    BY <1>2, <2>2, <2>3, <2>4, <2>5 DEF FirstInv
<1>4. CASE ~ Refused
  <2>1. step' = "open output" /\ opened' = Found /\ UNCHANGED <<outhandle, exit>>
    BY <1>4 DEF ai_open_input
  <2>2. /\ Meant' /\ Divided(info.ambichannels, info.extrachannels)'
        /\ info'.ambichannels \in Nat /\ info'.extrachannels \in Nat /\ info'.frames \in Nat
    BY <1>1, <1>4, Described DEF ToolTypes, Accepted
  <2>3. left' = 0 /\ exit' = -1 /\ outfile' = NoFile /\ AllOpen'
    BY <1>1, <1>2, <2>1 DEF NothingYet, AllOpen
  <2>4. ToolTypes'
    <3>1. (left \in 0 .. info.frames)'
      BY <2>2, <2>3
    <3>2. (opened \subseteq DOMAIN ins)'
      BY <1>2, <2>1 DEF Found
    <3> QED
      BY <1>1, <2>1, <2>2, <3>1, <3>2 DEF ToolTypes
  <2>5. Placed'
    <3>1. outfile'.frames = <<>>
      BY <2>3 DEF NoFile
    <3> QED
      BY <2>2, <3>1 DEF Placed
  <2>6. exit' # 1
    BY <2>3
  <2>7. step' \notin {"cmdline", "open input", "copy"}
    BY <2>1
  <2> QED
    BY <1>2, <2>2, <2>3, <2>4, <2>5, <2>6, <2>7 DEF FirstInv
<1> QED
  BY <1>3, <1>4

(* ambix-deinterleave has the matrices of ambix-interleave.                *)
LEMMA SameMatrices ==
  /\ D!NoMatrix = NoMatrix
  /\ \A c : D!is_fullset(c) <=> is_fullset(c)
  /\ \A n, m : D!Identity(n, m) = Identity(n, m)
  /\ \A n : D!fuma2ambix(n) = fuma2ambix(n)
<1>1. D!NoMatrix = NoMatrix
  BY DEF D!NoMatrix, NoMatrix
<1>2. ASSUME NEW c PROVE D!is_fullset(c) <=> is_fullset(c)
  BY DEF D!is_fullset, is_fullset, D!order2channels, order2channels,
         D!channels2order, channels2order
<1>3. ASSUME NEW n, NEW m PROVE D!Identity(n, m) = Identity(n, m)
  BY DEF D!Identity, Identity, D!MatrixOf, MatrixOf
<1>4. ASSUME NEW n PROVE D!fuma2ambix(n) = fuma2ambix(n)
  <2>1. D!FumaRows(n) = FumaRows(n) /\ D!Reducer(n) = Reducer(n)
        /\ D!FumaOrder = FumaOrder /\ D!FumaWeights = FumaWeights
    BY Zenon DEF D!FumaRows, FumaRows, D!Reducer, Reducer, D!FumaOrder, FumaOrder,
          D!FumaWeights, FumaWeights
  <2> QED
    BY <1>1, <2>1 DEF D!fuma2ambix, fuma2ambix, D!MatrixOf, MatrixOf
<1> QED
  BY <1>1, <1>2, <1>3, <1>4

LEMMA AdaptorIs ==
  ASSUME NEW file, file.kind = "caf"
  PROVE  D!AdaptorOf(file)
           = IF D!Restores(file.matrix, file.channels) THEN file.matrix
             ELSE IF ~ D!Parses(file.matrix) /\ is_fullset(file.channels)
                  THEN Identity(file.channels, file.channels) ELSE NoMatrix
<1>1. file.kind # "amb"
  OBVIOUS
<1>2. CASE D!Restores(file.matrix, file.channels)
  <2>1. D!Parses(file.matrix)
    BY <1>2 DEF D!Restores
  <2> QED
    BY <1>1, <1>2, <2>1, SameMatrices DEF D!AdaptorOf
<1>3. CASE ~ D!Restores(file.matrix, file.channels)
           /\ ~ D!Parses(file.matrix) /\ is_fullset(file.channels)
  BY <1>1, <1>3, SameMatrices DEF D!AdaptorOf
<1>4. CASE ~ D!Restores(file.matrix, file.channels)
           /\ ~ (~ D!Parses(file.matrix) /\ is_fullset(file.channels))
  BY <1>1, <1>4, SameMatrices DEF D!AdaptorOf
<1> QED
  BY <1>2, <1>3, <1>4

LEMMA SaysIt ==
  ASSUME Meant, FirstInv, ~ (Extended /\ ~ is_fullset(matrix.rows)), ~ Unwritable,
         outfile' = [kind |-> "caf", frames |-> <<>>,
                     channels |-> info.ambichannels + info.extrachannels,
                     matrix |-> IF Extended /\ is_fullset(matrix.rows)
                                THEN matrix ELSE NoMatrix],
         UNCHANGED <<args, info>>
  PROVE  FileSays'
<1> DEFINE file == [kind |-> "caf", frames |-> <<>>,
                    channels |-> info.ambichannels + info.extrachannels,
                    matrix |-> IF Extended /\ is_fullset(matrix.rows)
                               THEN matrix ELSE NoMatrix]
<1>1. info.ambichannels \in Nat /\ info.extrachannels \in Nat
  BY DEF FirstInv, ToolTypes
<1>2. /\ file.channels = info.ambichannels + info.extrachannels /\ file.kind = "caf"
      /\ file.matrix = IF Extended /\ is_fullset(matrix.rows) THEN matrix ELSE NoMatrix
  OBVIOUS
<1> HIDE DEF file
<1>3. /\ D!AdaptorOf(file).cols = info.ambichannels
      /\ is_fullset(D!AdaptorOf(file).rows)
      /\ BFormatFile => D!AdaptorOf(file) = fuma2ambix(4)
  <2>1. CASE Extended
    <3>1. file.matrix = matrix /\ is_fullset(matrix.rows)
      BY <1>2, <2>1
    <3>2. /\ matrix.rows > 0 /\ matrix.cols > 0 /\ matrix.cols = info.ambichannels
          /\ matrix.cols <= file.channels
      <4>1. matrix.rows \in Nat \ {0} /\ matrix.cols = info.ambichannels
        BY <2>1 DEF Meant
      <4>2. info.ambichannels # 0
        BY <2>1 DEF Unwritable
      <4> QED
        BY <1>1, <1>2, <4>1, <4>2
    <3>3. D!AdaptorOf(file) = matrix
      <4>1. D!Restores(file.matrix, file.channels)
        BY <3>1, <3>2, SameMatrices DEF D!Restores, D!Parses
      <4> QED
        BY <1>2, <3>1, <4>1, AdaptorIs
    <3> QED
      BY <2>1, <3>1, <3>3 DEF Meant
  <2>2. CASE ~ Extended
    <3>1. file.matrix = NoMatrix
      BY <1>2, <2>2
    <3>2. info.extrachannels = 0 /\ is_fullset(info.ambichannels) /\ ~ BFormatFile
      BY <2>2 DEF Meant
    <3>3. file.channels = info.ambichannels
      BY <1>1, <1>2, <3>2
    <3>4. ~ D!Restores(NoMatrix, file.channels) /\ ~ D!Parses(NoMatrix)
      BY DEF NoMatrix, D!Restores, D!Parses
    <3>5. D!AdaptorOf(file) = Identity(file.channels, file.channels)
      BY <1>2, <3>1, <3>2, <3>3, <3>4, AdaptorIs
    <3>6. Identity(file.channels, file.channels).rows = file.channels
          /\ Identity(file.channels, file.channels).cols = file.channels
      BY DEF Identity, MatrixOf
    <3> QED
      BY <3>2, <3>3, <3>5, <3>6
  <2> QED
    BY <2>1, <2>2
<1>4. outfile' = file
  BY DEF file
<1>5. BFormatFile' = BFormatFile /\ info' = info
  BY ArgsFixed
<1> QED
  BY <1>2, <1>3, <1>4, <1>5 DEF FileSays

LEMMA KeptByOpenOutput ==
  ASSUME FirstInv, NEW ok \in BOOLEAN, ai_open_output(ok)
  PROVE  FirstInv'
<1>1. /\ ToolTypes /\ FileTypes /\ outfile = NoFile /\ Meant /\ AllOpen /\ Placed
      /\ args' = args /\ info' = info
  BY DEF FirstInv, ai_open_output
<1>0. /\ info.ambichannels \in Nat /\ info.extrachannels \in Nat /\ info.frames \in Nat
      /\ left' = info.frames /\ info' = info
  BY DEF FirstInv, ToolTypes, ai_open_output
<1>2. exit = -1
  BY DEF FirstInv, ai_open_output
<1>3. /\ ins' = ins /\ Found' = Found /\ BFormatFile' = BFormatFile /\ Channels' = Channels
  BY <1>1, ArgsFixed
<1>4. outfile'.frames = <<>> /\ FileTypes'
  <2>1. info.ambichannels + info.extrachannels \in Nat
    BY <1>0
  <2>2. CASE ~ ok
    BY <1>1, <2>2 DEF ai_open_output, FileTypes, NoFile
  <2>3. CASE ok
    <3>1. PICK m : m = IF Extended /\ is_fullset(matrix.rows) THEN matrix ELSE NoMatrix
      OBVIOUS
    <3>2. m.rows \in Nat /\ m.cols \in Nat
      <4>1. Extended => matrix.rows \in Nat /\ matrix.cols \in Nat
        BY <1>1 DEF Meant, ToolTypes
      <4> QED
        BY <3>1, <4>1 DEF NoMatrix
    <3>3. outfile' = [kind |-> "caf", frames |-> <<>>,
                      channels |-> info.ambichannels + info.extrachannels, matrix |-> m]
      BY <2>3, <3>1 DEF ai_open_output
    <3> QED
      BY <2>1, <3>2, <3>3 DEF FileTypes
  <2> QED
    BY <2>2, <2>3
<1>5. Placed'
  <2>1. Divided(info.ambichannels, info.extrachannels)
    BY <1>1 DEF Placed, Meant
  <2>2. Divided(info.ambichannels, info.extrachannels)'
    BY <1>1, <1>3, <2>1 DEF Divided
  <2> QED
    BY <1>4, <2>2 DEF Placed
<1>6. /\ step' \in {"copy", "closed", "crashed"} /\ opened' \in {{}, opened}
      /\ outhandle' \in BOOLEAN
      /\ step' = "copy" => /\ UNCHANGED <<opened, matrix>>
                           /\ ok => ~ (Extended /\ ~ is_fullset(matrix.rows))
                           /\ outhandle' = ok
  <2>1. CASE Extended /\ ~ ok
    BY <1>1, <2>1 DEF ai_open_output, Crashes, ToolTypes
  <2>2. CASE Extended /\ ok /\ ~ is_fullset(matrix.rows)
    BY <2>2 DEF ai_open_output, Fails, Closes
  <2>3. CASE ~ (Extended /\ ~ ok) /\ ~ (Extended /\ ok /\ ~ is_fullset(matrix.rows))
    BY <2>3 DEF ai_open_output
  <2> QED
    BY <2>1, <2>2, <2>3
<1>7. exit' \in {-1, 0} /\ (step' = "copy" => exit' = -1)
  <2>1. CASE Extended /\ ~ ok
    BY <1>2, <2>1 DEF ai_open_output, Crashes
  <2>2. CASE Extended /\ ok /\ ~ is_fullset(matrix.rows)
    <3>1. step' = "closed" /\ exit' = 0
      BY <2>2 DEF ai_open_output, Fails, Closes
    <3> QED
      BY <3>1
  <2>3. CASE ~ (Extended /\ ~ ok) /\ ~ (Extended /\ ok /\ ~ is_fullset(matrix.rows))
    BY <1>2, <2>3 DEF ai_open_output
  <2> QED
    BY <2>1, <2>2, <2>3
<1>8. ToolTypes'
  <2>1. (left \in 0 .. info.frames)'
    <3>1. left' = info.frames /\ info'.frames = info.frames
      BY <1>0
    <3> QED
      BY <1>0, <3>1
  <2>2. (opened \subseteq DOMAIN ins)'
    BY <1>1, <1>3, <1>6 DEF ToolTypes
  <2>3. exit' \in {-1, 0, 1, 64, 65, 66, 73}
    BY <1>7
  <2> QED
    BY <1>1, <1>6, <2>1, <2>2, <2>3 DEF ToolTypes
<1>9. step' = "copy" => AllOpen' /\ Meant'
  BY <1>1, <1>3, <1>6 DEF AllOpen, Meant, Extended
<1>10. step' = "copy" /\ outhandle'
         => /\ Len(outfile'.frames) = Done' /\ DOMAIN outfile' = DOMAIN NoFile
            /\ ~ Unwritable' => FileSays'
  <2> SUFFICES ASSUME step' = "copy", outhandle'
               PROVE  /\ Len(outfile'.frames) = Done' /\ DOMAIN outfile' = DOMAIN NoFile
                      /\ ~ Unwritable' => FileSays'
    OBVIOUS
  <2>1. outfile' = [kind |-> "caf", frames |-> <<>>,
                    channels |-> info.ambichannels + info.extrachannels,
                    matrix |-> IF Extended /\ is_fullset(matrix.rows)
                               THEN matrix ELSE NoMatrix]
    BY <1>6 DEF ai_open_output
  <2>2. ~ Unwritable' => FileSays'
    <3>1. Unwritable' <=> Unwritable
      BY <1>1 DEF Unwritable, Extended
    <3> QED
      BY <1>1, <1>6, <2>1, <3>1, SaysIt
  <2>3. Len(outfile'.frames) = 0 /\ DOMAIN outfile' = DOMAIN NoFile
    BY <2>1 DEF NoFile
  <2>4. Done' = 0
    <3>1. Done' = info.frames - info.frames
      BY <1>0 DEF Done
    <3>2. info.frames - info.frames = 0
      BY <1>0
    <3> QED
      BY <3>1, <3>2
  <2> QED
    BY <2>2, <2>3, <2>4
<1>11. exit' # 1 /\ step' \notin {"cmdline", "open input", "open output"}
  <2>1. exit' # 1
    BY <1>7
  <2> QED
    BY <1>6, <2>1
<1>12. step' = "copy" => exit' = -1
  BY <1>7
<1> QED
  BY <1>4, <1>5, <1>8, <1>9, <1>10, <1>11, <1>12 DEF FirstInv

LEMMA Appended ==
  ASSUME NEW V, NEW s \in Seq(V), NEW n \in Nat, NEW b, DOMAIN b = 1 .. n,
         b = [f \in 1 .. n |-> b[f]],
         \A f \in 1 .. n : b[f] \in V, NEW w \in 0 .. n
  PROVE  /\ s \o SubSeq(b, 1, w) \in Seq(V)
         /\ Len(s \o SubSeq(b, 1, w)) = Len(s) + w
         /\ \A f \in 1 .. Len(s) : (s \o SubSeq(b, 1, w))[f] = s[f]
         /\ \A f \in Len(s) + 1 .. Len(s) + w : (s \o SubSeq(b, 1, w))[f] = b[f - Len(s)]
<1>1. b \in Seq(V) /\ Len(b) = n
  <2>1. b \in [1 .. n -> V]
    OBVIOUS
  <2> QED
    BY <2>1
<1>2. SubSeq(b, 1, w) \in Seq(V) /\ Len(SubSeq(b, 1, w)) = w
      /\ \A f \in 1 .. w : SubSeq(b, 1, w)[f] = b[f]
  <2>1. w \in Nat /\ w <= n
    OBVIOUS
  <2>2. SubSeq(b, 1, w) = [f \in 1 .. w |-> b[f]]
    BY <1>1, <2>1
  <2>3. [f \in 1 .. w |-> b[f]] \in [1 .. w -> V]
    BY <2>1
  <2> QED
    BY <2>1, <2>2, <2>3
<1>3. PICK c \in Seq(V) : c = SubSeq(b, 1, w)
  BY <1>2
<1>4. Len(s) \in Nat /\ Len(c) = w /\ \A f \in 1 .. w : c[f] = b[f]
  BY <1>2, <1>3
<1>5. /\ s \o c \in Seq(V) /\ Len(s \o c) = Len(s) + w
      /\ \A f \in 1 .. Len(s) : (s \o c)[f] = s[f]
      /\ \A f \in Len(s) + 1 .. Len(s) + w : (s \o c)[f] = c[f - Len(s)]
  BY <1>4
<1>6. ASSUME NEW f \in Len(s) + 1 .. Len(s) + w PROVE c[f - Len(s)] = b[f - Len(s)]
  <2>1. f - Len(s) \in 1 .. w
    BY <1>4
  <2> QED
    BY <1>4, <2>1
<1> QED
  BY <1>3, <1>5, <1>6

LEMMA BlockFramesAre ==
  ASSUME ToolTypes
  PROVE  /\ BlockFrames(left) \in Nat /\ BlockFrames(left) <= left
         /\ BlockFrames(left) <= args.blocksize
         /\ left <= args.blocksize => BlockFrames(left) = left
         /\ left \in Nat /\ left <= info.frames /\ info.frames \in Nat
         /\ Done \in Nat /\ Done + left = info.frames
<1>1. left \in Nat /\ left <= info.frames /\ info.frames \in Nat
      /\ args.blocksize \in Nat \ {0}
  <2>1. args.blocksize \in Nat \ {0}
    BY Inputs DEF ToolTypes
  <2>2. left \in 0 .. info.frames /\ info.frames \in Nat
    BY DEF ToolTypes
  <2> QED
    BY <2>1, <2>2
<1>2. Done \in Nat /\ Done + left = info.frames
  BY <1>1 DEF Done
<1>3. CASE left > args.blocksize
  BY <1>1, <1>2, <1>3 DEF BlockFrames
<1>4. CASE ~ (left > args.blocksize)
  BY <1>1, <1>2, <1>4 DEF BlockFrames
<1> QED
  BY <1>3, <1>4

Wrote(written) ==
  outfile' = [outfile EXCEPT !.frames = @ \o SubSeq(Block(BlockFrames(left)), 1, written)]

LEMMA KeptByWriting ==
  ASSUME FirstInv, step = "copy", outhandle, ~ Unwritable,
         NEW written \in 0 .. BlockFrames(left),
         Wrote(written), args' = args, info' = info
  PROVE  /\ FileTypes' /\ Placed' /\ FileSays' /\ DOMAIN outfile' = DOMAIN NoFile
         /\ Len(outfile'.frames) = Done + written
<1> DEFINE V == {Frame(f) : f \in Nat}
           n == BlockFrames(left)
           b == Block(n)
           s == outfile.frames
<1>1. /\ ToolTypes /\ FileTypes /\ AllOpen /\ Meant /\ Placed
      /\ FileSays /\ DOMAIN outfile = DOMAIN NoFile /\ Len(s) = Done
  BY DEF FirstInv
<1>2. n \in Nat /\ Done \in Nat
  BY <1>1, BlockFramesAre
<1>3. args \in Args /\ info.ambichannels \in Nat /\ info.extrachannels \in Nat
  BY <1>1 DEF ToolTypes
<1>4. Divided(info.ambichannels, info.extrachannels) /\ s \in Seq(V)
      /\ \A f \in DOMAIN s : s[f] = Frame(f)
  BY <1>1 DEF Placed, Meant
<1>5. DOMAIN b = 1 .. n /\ b = [f \in 1 .. n |-> b[f]]
      /\ \A f \in 1 .. n : b[f] = Frame(Done + f)
  <2>1. PICK a \in Nat, e \in Nat : a = info.ambichannels /\ e = info.extrachannels
    BY <1>3
  <2>2. Divided(a, e)
    BY <1>4, <2>1
  <2>3. DOMAIN b = 1 .. n /\ \A f \in 1 .. n : b[f] = Frame(Done + f)
    BY <1>1, <1>2, <1>3, <2>2, BlockIs
  <2>4. b = [f \in DOMAIN b |-> b[f]]
    BY DEF Block, Merged
  <2> QED
    BY <2>3, <2>4
<1>6. \A f \in 1 .. n : b[f] \in V
  <2>1. \A f \in 1 .. n : Done + f \in Nat
    BY <1>2
  <2> QED
    BY <1>5, <2>1
<1> DEFINE t == s \o SubSeq(b, 1, written)
<1>7. /\ t \in Seq(V) /\ Len(t) = Len(s) + written
      /\ \A f \in 1 .. Len(s) : t[f] = s[f]
      /\ \A f \in Len(s) + 1 .. Len(s) + written : t[f] = b[f - Len(s)]
  <2> HIDE DEF V, b, s
  <2>1. written \in 0 .. n
    OBVIOUS
  <2> HIDE DEF n
  <2>2. PICK V1, s1, n1, b1 : V1 = V /\ s1 = s /\ n1 = n /\ b1 = b
    OBVIOUS
  <2>3. /\ s1 \in Seq(V1) /\ n1 \in Nat /\ DOMAIN b1 = 1 .. n1
        /\ b1 = [f \in 1 .. n1 |-> b1[f]] /\ \A f \in 1 .. n1 : b1[f] \in V1
        /\ written \in 0 .. n1
    BY <1>2, <1>4, <1>5, <1>6, <2>1, <2>2
  <2>4. /\ s1 \o SubSeq(b1, 1, written) \in Seq(V1)
        /\ Len(s1 \o SubSeq(b1, 1, written)) = Len(s1) + written
        /\ \A f \in 1 .. Len(s1) : (s1 \o SubSeq(b1, 1, written))[f] = s1[f]
        /\ \A f \in Len(s1) + 1 .. Len(s1) + written :
             (s1 \o SubSeq(b1, 1, written))[f] = b1[f - Len(s1)]
    BY <2>3, Appended
  <2> QED
    BY <2>2, <2>4
<1>8. outfile'.frames = t /\ outfile'.kind = outfile.kind
      /\ outfile'.channels = outfile.channels /\ outfile'.matrix = outfile.matrix
      /\ DOMAIN outfile' = DOMAIN NoFile
  <2>1. outfile' = [outfile EXCEPT !.frames = t]
    BY DEF Wrote
  <2>2. "frames" \in DOMAIN outfile /\ "kind" \in DOMAIN outfile
        /\ "channels" \in DOMAIN outfile /\ "matrix" \in DOMAIN outfile
    BY <1>1 DEF NoFile
  <2> HIDE DEF t
  <2> QED
    BY <1>1, <2>1, <2>2
<1>9. Frame(1)' = Frame(1) /\ \A f : Frame(f)' = Frame(f)
  BY ArgsFixed
<1>10. ASSUME NEW f \in 1 .. Done + written PROVE t[f] = Frame(f)
  <2>1. CASE f <= Len(s)
    <3>1. f \in 1 .. Len(s)
      BY <1>1, <1>2, <2>1
    <3>2. f \in DOMAIN s
      BY <1>4, <3>1
    <3> HIDE DEF t
    <3> QED
      BY <1>4, <1>7, <3>1, <3>2
  <2>2. CASE ~ (f <= Len(s))
    <3>1. f \in Len(s) + 1 .. Len(s) + written /\ f - Done \in 1 .. n
          /\ Done + (f - Done) = f
      BY <1>1, <1>2, <2>2
    <3>2. t[f] = b[f - Done]
      <4> HIDE DEF t, b
      <4> QED
        BY <1>1, <1>7, <3>1
    <3>3. b[f - Done] = Frame(Done + (f - Done))
      <4> HIDE DEF b
      <4> QED
        BY <1>5, <3>1
    <3> QED
      BY <3>1, <3>2, <3>3
  <2> QED
    BY <2>1, <2>2
<1>11. Len(t) = Done + written /\ DOMAIN t = 1 .. Done + written /\ Done + written \in Nat
  <2> HIDE DEF t, V
  <2> QED
    BY <1>1, <1>2, <1>7
<1> HIDE DEF t, V, b, s, n
<1>12. FileTypes'
  BY <1>1, <1>8, <1>11 DEF FileTypes
<1>13. Placed'
  <2>1. Channels' = Channels /\ V' = V
    <3>1. Channels' = Channels
      BY ArgsFixed
    <3>2. V' = V
      BY <1>9 DEF V
    <3> QED
      BY <3>1, <3>2
  <2>2. Divided(info.ambichannels, info.extrachannels)'
    BY <1>4, <2>1 DEF Divided
  <2>3. \A f \in DOMAIN outfile'.frames : outfile'.frames[f] = Frame(f)'
    BY <1>8, <1>9, <1>10, <1>11
  <2>4. (outfile.frames \in Seq({Frame(f) : f \in Nat}))'
    BY <1>7, <1>8, <2>1 DEF V
  <2> QED
    BY <2>2, <2>3, <2>4 DEF Placed
<1>14. FileSays'
  <2>1. BFormatFile' = BFormatFile
    BY ArgsFixed
  <2>2. D!AdaptorOf(outfile') = D!AdaptorOf(outfile)
    BY <1>8 DEF D!AdaptorOf
  <2> QED
    BY <1>1, <1>8, <2>1, <2>2 DEF FileSays
<1> QED
  BY <1>8, <1>11, <1>12, <1>13, <1>14

LEMMA KeptByCopyBlock ==
  ASSUME FirstInv, NEW written \in 0 .. args.blocksize, ai_copy_block(written)
  PROVE  FirstInv'
<1> DEFINE frames == BlockFrames(left)
           full == written = frames
<1>1. /\ ToolTypes /\ FileTypes /\ AllOpen /\ Meant /\ Placed
      /\ args' = args /\ info' = info
  BY DEF FirstInv, ai_copy_block
<1>2. step = "copy"
  BY DEF ai_copy_block
<1>3. exit = -1
  BY <1>2 DEF FirstInv
<1>5. /\ frames \in Nat /\ frames <= left /\ (left <= args.blocksize => frames = left)
      /\ left \in Nat /\ left <= info.frames /\ info.frames \in Nat
      /\ Done \in Nat /\ Done + left = info.frames
  BY <1>1, BlockFramesAre
<1>6. written \in 0 .. frames
  <2>1. written <= frames /\ written \in Nat
    <3>1. args.blocksize \in Nat
      BY <1>1, Inputs DEF ToolTypes
    <3> QED
      BY <3>1 DEF ai_copy_block
  <2> QED
    BY <1>5, <2>1
<1> HIDE DEF frames
<1>7. ins' = ins /\ Found' = Found /\ BFormatFile' = BFormatFile /\ Channels' = Channels
      /\ \A f : Frame(f)' = Frame(f)
  BY <1>1, ArgsFixed
<1>8. CASE Short(frames) \/ ~ outhandle \/ Unwritable
  <2>1. /\ left' = left /\ outfile' \in {outfile, NoFile}
        /\ step' \in {"closed", "crashed"} /\ opened' \in {{}, opened}
        /\ outhandle' \in BOOLEAN
    BY <1>1, <1>8 DEF ai_copy_block, Fails, Closes, Crashes, ToolTypes, frames
  <2>2. exit' \in {-1, 0}
    <3>1. CASE Short(frames) /\ ~ Unwritable
      <4>1. exit' = 0
        BY <1>8, <3>1 DEF ai_copy_block, Fails, Closes, frames
      <4> QED
        BY <4>1
    <3>2. CASE ~ (Short(frames) /\ ~ Unwritable)
      BY <1>3, <1>8, <3>2 DEF ai_copy_block, Crashes, frames
    <3> QED
      BY <3>1, <3>2
  <2>3. exit' # 1 /\ exit' \in {-1, 0, 1, 64, 65, 66, 73}
    BY <2>2
  <2>4. step' \notin {"cmdline", "open input", "open output", "copy"}
    BY <2>1
  <2>5. ToolTypes'
    <3>1. (left \in 0 .. info.frames)'
      BY <1>1, <2>1 DEF ToolTypes
    <3>2. (opened \subseteq DOMAIN ins)'
      BY <1>1, <1>7, <2>1 DEF ToolTypes
    <3> QED
      BY <1>1, <2>1, <2>3, <3>1, <3>2 DEF ToolTypes
  <2>6. FileTypes' /\ Placed'
    <3>1. FileTypes'
      BY <1>1, <2>1 DEF FileTypes, NoFile, NoMatrix
    <3>2. Divided(info.ambichannels, info.extrachannels)'
            <=> Divided(info.ambichannels, info.extrachannels)
      BY <1>1, <1>7 DEF Divided
    <3>3. {Frame(f) : f \in Nat}' = {Frame(f) : f \in Nat}
      BY <1>7
    <3>4. NoFile.frames = <<>> /\ <<>> \in Seq({Frame(f) : f \in Nat})
      BY DEF NoFile
    <3>5. CASE outfile' = outfile
      BY <1>1, <1>7, <3>1, <3>2, <3>3, <3>5 DEF Placed
    <3>6. CASE outfile' = NoFile
      <4>1. outfile'.frames = <<>> /\ DOMAIN outfile'.frames = {}
        BY <3>4, <3>6
      <4>2. outfile'.frames \in Seq({Frame(f) : f \in Nat})
        BY <3>4, <4>1
      <4> QED
        BY <1>1, <1>7, <3>1, <3>2, <3>3, <4>1, <4>2 DEF Placed
    <3> QED
      BY <2>1, <3>5, <3>6
  <2> QED
    BY <2>3, <2>4, <2>5, <2>6 DEF FirstInv
<1>9. CASE ~ Short(frames) /\ outhandle /\ ~ Unwritable
  <2>1. Wrote(written) /\ left' = IF full THEN left - frames ELSE left
    BY <1>9 DEF ai_copy_block, Wrote, frames
  <2>2. /\ FileTypes' /\ Placed' /\ FileSays' /\ DOMAIN outfile' = DOMAIN NoFile
        /\ Len(outfile'.frames) = Done + written
    <3>1. written \in 0 .. BlockFrames(left)
      BY <1>6 DEF frames
    <3> QED
      BY <1>1, <1>2, <1>9, <2>1, <3>1, KeptByWriting
  <2>3. left' \in 0 .. info.frames /\ Done' \in Nat
        /\ (full => Done' = Done + written /\ (left <= args.blocksize => Done + written = info.frames))
    <3>1. info'.frames = info.frames
      BY <1>1
    <3>2. CASE full
      <4>1. left' = left - written /\ written = frames
        BY <2>1, <3>2
      <4>2. Done' = info.frames - left' /\ Done = info.frames - left
        BY <3>1 DEF Done
      <4>3. PICK l \in Nat, l1 \in Int, N \in Nat, d \in Nat, d1 \in Int :
              l = left /\ l1 = left' /\ N = info.frames /\ d = Done /\ d1 = Done'
        <5>1. left' \in Int
          BY <1>5, <4>1
        <5>2. Done' \in Int
          BY <1>5, <4>2, <5>1
        <5> QED
          BY <1>5, <5>1, <5>2
      <4>4. l1 = l - written /\ written = frames /\ d1 = N - l1 /\ d = N - l
            /\ frames \in Nat /\ frames <= l /\ (l <= args.blocksize => frames = l)
            /\ l <= N
        BY <1>5, <4>1, <4>2, <4>3
      <4>5. l1 \in 0 .. N /\ d1 \in Nat /\ d1 = d + written
            /\ (l <= args.blocksize => d + written = N)
        BY <4>4, <4>3
      <4> QED
        BY <4>3, <4>5
    <3>3. CASE ~ full
      <4>1. left' = left
        BY <2>1, <3>3
      <4>2. Done' = Done
        BY <3>1, <4>1 DEF Done
      <4> QED
        BY <1>5, <3>3, <4>1, <4>2
    <3> QED
      BY <3>2, <3>3
  <2>4. CASE ~ full
    <3>1. step' = "closed" /\ opened' = {} /\ outhandle' = FALSE
      BY <1>9, <2>4 DEF ai_copy_block, Fails, Closes, frames
    <3>2. exit' = 0
      BY <1>9, <2>4 DEF ai_copy_block, Fails, Closes, frames
    <3>3. exit' # 1 /\ exit' \in {-1, 0, 1, 64, 65, 66, 73}
      BY <3>2
    <3>4. ToolTypes'
      <4>1. (left \in 0 .. info.frames)'
        BY <1>1, <2>3
      <4>2. (opened \subseteq DOMAIN ins)' /\ outhandle' \in BOOLEAN
        BY <3>1
      <4>3. step' \in {"cmdline", "open input", "open output", "copy", "closed", "crashed"}
        BY <3>1
      <4> QED
        BY <1>1, <3>3, <4>1, <4>2, <4>3 DEF ToolTypes
    <3>5. step' \notin {"cmdline", "open input", "open output", "copy"}
      BY <3>1
    <3> QED
      BY <2>2, <3>3, <3>4, <3>5 DEF FirstInv
  <2>5. CASE full /\ left <= args.blocksize
    <3>1. step' = "closed" /\ opened' = {} /\ outhandle' = FALSE
      BY <1>9, <2>5 DEF ai_copy_block, Closes, frames
    <3>2. exit' \in {-1, 0, 1, 64, 65, 66, 73}
      <4>1. exit' = 1
        BY <1>9, <2>5 DEF ai_copy_block, Closes, frames
      <4> QED
        BY <4>1
    <3>3. ToolTypes'
      <4>1. (left \in 0 .. info.frames)'
        BY <1>1, <2>3
      <4>2. (opened \subseteq DOMAIN ins)' /\ outhandle' \in BOOLEAN
        BY <3>1
      <4>3. step' \in {"cmdline", "open input", "open output", "copy", "closed", "crashed"}
        BY <3>1
      <4> QED
        BY <1>1, <3>2, <4>1, <4>2, <4>3 DEF ToolTypes
    <3>4. Complete'
      <4>1. Len(outfile'.frames) = info.frames
        BY <2>2, <2>3, <2>5
      <4>2. ASSUME NEW i \in Found PROVE info.frames <= ins[i].frames
        <5>1. i \in DOMAIN ins
          BY DEF Found
        <5>2. ~ (ins[i].kept < Done + frames)
          BY <1>1, <1>9 DEF Short, AllOpen
        <5>3. Done + frames = info.frames
          BY <1>5, <2>5
        <5>4. ins[i].kept <= ins[i].frames /\ ins[i].kept \in Nat /\ ins[i].frames \in Nat
          BY <1>1, <5>1, Inputs DEF ToolTypes
        <5>5. PICK k \in Nat, m \in Nat, N \in Nat :
                k = ins[i].kept /\ m = ins[i].frames /\ N = info.frames
          BY <1>5, <5>4
        <5>6. ~ (k < N) /\ k <= m
          BY <5>2, <5>3, <5>4, <5>5
        <5>7. N <= m
          BY <5>6, <5>5
        <5> QED
          BY <5>5, <5>7
      <4>3. \A i \in Found' : Len(outfile'.frames) <= ins'[i].frames
        BY <1>7, <4>1, <4>2
      <4>4. info' # NoInfo
        BY <1>1 DEF Meant
      <4> QED
        BY <1>1, <2>2, <4>1, <4>3, <4>4 DEF Complete
    <3>5. step' \notin {"cmdline", "open input", "open output", "copy"}
      BY <3>1
    <3> QED
      BY <2>2, <3>3, <3>4, <3>5 DEF FirstInv
  <2>6. CASE full /\ ~ (left <= args.blocksize)
    <3>1. UNCHANGED <<step, opened, outhandle, matrix>>
      BY <1>9, <2>6 DEF ai_copy_block, frames
    <3>2. exit' = exit
      BY <1>9, <2>6 DEF ai_copy_block, frames
    <3>3. exit' # 1 /\ exit' = -1 /\ exit' \in {-1, 0, 1, 64, 65, 66, 73}
      BY <1>3, <3>2
    <3>4. ToolTypes'
      <4>1. (left \in 0 .. info.frames)'
        BY <1>1, <2>3
      <4>2. (opened \subseteq DOMAIN ins)' /\ outhandle' \in BOOLEAN
        BY <1>1, <1>7, <3>1 DEF ToolTypes
      <4>3. step' \in {"cmdline", "open input", "open output", "copy", "closed", "crashed"}
        BY <1>2, <3>1
      <4> QED
        BY <1>1, <3>3, <4>1, <4>2, <4>3 DEF ToolTypes
    <3>5. AllOpen' /\ Meant'
      BY <1>1, <1>7, <3>1 DEF AllOpen, Meant, Extended
    <3>6. step' \notin {"cmdline", "open input", "open output"}
      BY <1>2, <3>1
    <3>7. Len(outfile'.frames) = Done'
      BY <2>2, <2>3, <2>6
    <3> QED
      BY <2>2, <3>3, <3>4, <3>5, <3>6, <3>7 DEF FirstInv
  <2> QED
    BY <2>4, <2>5, <2>6
<1> QED
  BY <1>8, <1>9

LEMMA FirstKept == FirstInv /\ UNCHANGED vars => FirstInv'
<1> SUFFICES ASSUME FirstInv, UNCHANGED vars PROVE FirstInv'
  OBVIOUS
<1>1. UNCHANGED <<args, step, opened, info, matrix, left, outhandle, outfile, exit>>
  BY DEF vars
<1>2. ins' = ins /\ Found' = Found /\ BFormatFile' = BFormatFile /\ Channels' = Channels
      /\ \A f : Frame(f)' = Frame(f)
  BY <1>1, ArgsFixed
<1>3. {Frame(f) : f \in Nat}' = {Frame(f) : f \in Nat}
  BY <1>2
<1>4. (ToolTypes <=> ToolTypes') /\ (FileTypes <=> FileTypes')
  BY <1>1, <1>2 DEF ToolTypes, FileTypes
<1>5. (Meant <=> Meant') /\ (AllOpen <=> AllOpen') /\ Done' = Done
      /\ (NothingYet <=> NothingYet') /\ (Unwritable <=> Unwritable')
  BY <1>1, <1>2 DEF Meant, Extended, AllOpen, Done, NothingYet, Unwritable
<1>6. FileSays <=> FileSays'
  BY <1>1, <1>2 DEF FileSays
<1>7. Placed <=> Placed'
  BY <1>1, <1>2, <1>3 DEF Placed, Divided
<1>8. Complete <=> Complete'
  BY <1>1, <1>2, <1>6 DEF Complete
<1> QED
  BY <1>1, <1>4, <1>5, <1>6, <1>7, <1>8 DEF FirstInv

LEMMA FirstHolds == Spec => []FirstInv
<1>1. First => FirstInv
  BY FirstStarts
<1>2. FirstInv /\ [Steps]_allvars => FirstInv'
  <2> SUFFICES ASSUME FirstInv, [Steps]_allvars PROVE FirstInv'
    OBVIOUS
  <2>1. CASE ai_cmdline
    BY <2>1, KeptByCmdline
  <2>2. CASE ai_open_input
    BY <2>2, KeptByOpenInput
  <2>3. ASSUME NEW ok \in BOOLEAN, ai_open_output(ok) PROVE FirstInv'
    BY <2>3, KeptByOpenOutput
  <2>4. ASSUME NEW written \in 0 .. args.blocksize, ai_copy_block(written) PROVE FirstInv'
    BY <2>4, KeptByCopyBlock
  <2>5. CASE UNCHANGED vars
    BY <2>5, FirstKept
  <2> QED
    BY <2>1, <2>2, <2>3, <2>4, <2>5
       DEF Steps, Interleaving, Deinterleaving, Next, allvars
<1> QED
  BY <1>1, <1>2, PTL DEF Spec

(* Whatever became of it, what ambix-interleave has written are the        *)
(* channels of its inputs at their places (ai_copy_block()), however many  *)
(* inputs of whatever width and length there are and whatever the blocks;  *)
(* and it returns 1 only when nothing is missing of the shortest.          *)
THEOREM ToolsWriteInPlace == Spec => []WrittenInPlace
<1>1. FirstInv => WrittenInPlace
  <2> SUFFICES ASSUME FirstInv, info # NoInfo
               PROVE  /\ \A f \in DOMAIN outfile.frames : outfile.frames[f] = Frame(f)
                      /\ Interleaved => \A i \in Found : Len(outfile.frames) <= ins[i].frames
                      /\ Interleaved => Len(outfile.frames) = info.frames
    BY DEF WrittenInPlace
  <2>1. \A f \in DOMAIN outfile.frames : outfile.frames[f] = Frame(f)
    BY DEF FirstInv, Placed
  <2>2. Interleaved => Complete
    BY DEF FirstInv, Interleaved
  <2> QED
    BY <2>1, <2>2 DEF Complete
<1> QED
  BY <1>1, FirstHolds, PTL

-----------------------------------------------------------------------------
(* What ambix-deinterleave takes out of a block                            *)

HasShape(m, rows, cols) == m.rows = rows /\ m.cols = cols
PlaceIn(source, w, d, g) == source[g * w + d]
HasFrame(source, f, cols, frame) == \A i \in 0 .. cols - 1 : source[f * cols + i] = frame[i]

LEMMA CookedAt ==
  ASSUME NEW m, NEW source, NEW frame, NEW rows \in Nat, NEW cols \in Nat,
         NEW frames \in Nat, NEW f \in 0 .. frames - 1, NEW c \in 0 .. rows - 1,
         HasShape(m, rows, cols), HasFrame(source, f, cols, frame)
  PROVE  PlaceIn(D!multiply_float32(m, source, frames), rows, c, f) = Decoded(m, c, frame)
<1> DEFINE k == f * rows + c
           S == 0 .. cols - 1
           PV(g, s) ==
             IF s = {} THEN 0
             ELSE m.data[k % m.rows][CHOOSE x \in s : TRUE]
                    * source[(k \div m.rows) * m.cols + (CHOOSE x \in s : TRUE)]
                    + g[s \ {CHOOSE x \in s : TRUE}]
           QV(g, s) ==
             IF s = {} THEN 0
             ELSE m.data[c][CHOOSE x \in s : TRUE] * frame[CHOOSE x \in s : TRUE]
                    + g[s \ {CHOOSE x \in s : TRUE}]
           P(g) == g = [s \in SUBSET S |-> PV(g, s)]
           Q(g) == g = [s \in SUBSET S |-> QV(g, s)]
<1>1. k \in 0 .. frames * rows - 1 /\ k \div rows = f /\ k % rows = c
  <2>1. f \in Nat
    OBVIOUS
  <2>2. f * rows + c \in 0 .. frames * rows - 1
    BY InBlock
  <2>3. (f * rows + c) \div rows = f /\ (f * rows + c) % rows = c
    BY <2>1, DivMod
  <2> QED
    BY <2>2, <2>3
<1>2. ASSUME NEW g PROVE P(g) <=> Q(g)
  <2>1. ASSUME NEW s \in SUBSET S, s # {}
        PROVE  /\ m.data[k % m.rows][CHOOSE x \in s : TRUE]
                    = m.data[c][CHOOSE x \in s : TRUE]
               /\ source[(k \div m.rows) * m.cols + (CHOOSE x \in s : TRUE)]
                    = frame[CHOOSE x \in s : TRUE]
    <3>1. (CHOOSE x \in s : TRUE) \in 0 .. cols - 1
      BY <2>1
    <3>2. k % m.rows = c /\ k \div m.rows = f /\ m.cols = cols
      BY <1>1 DEF HasShape
    <3> HIDE DEF k
    <3> QED
      BY <3>1, <3>2 DEF HasFrame
  <2>2. ASSUME NEW s \in SUBSET S PROVE PV(g, s) = QV(g, s)
    <3>1. CASE s = {}
      BY <3>1
    <3>2. CASE s # {}
      <4> HIDE DEF k
      <4> QED
        BY <2>1, <3>2
    <3> QED
      BY <3>1, <3>2
  <2> HIDE DEF PV, QV
  <2> QED
    BY <2>2
<1>3. (CHOOSE g : P(g)) = (CHOOSE g : Q(g))
  <2> HIDE DEF P, Q
  <2>1. \A g : P(g) <=> Q(g)
    BY <1>2
  <2> QED
    BY <2>1
<1>4. D!multiply_float32(m, source, frames)[k] = (CHOOSE g : P(g))[S]
  <2>1. k \in 0 .. frames * m.rows - 1
    BY <1>1 DEF HasShape
  <2> HIDE DEF k
  <2> QED
    BY <2>1 DEF HasShape, D!multiply_float32, D!MapThenSumSet, D!MapThenFoldSet
<1>5. Decoded(m, c, frame) = (CHOOSE g : Q(g))[S]
  <2>1. c < m.rows
    BY DEF HasShape
  <2> QED
    BY <2>1 DEF HasShape, Decoded, MapThenSumSet, MapThenFoldSet
<1> QED
  <2> HIDE DEF P, Q
  <2> QED
    BY <1>3, <1>4, <1>5 DEF PlaceIn

LEMMA SameBlocks ==
  \A source, n, channels : D!deinterleaver(source, n, channels) = deinterleaver(source, n, channels)
BY DEF D!deinterleaver, deinterleaver

Shaped(rows, cols, extra) ==
  /\ HasShape(decoder, rows, cols)
  /\ parts.ambichannels = cols /\ parts.extrachannels = extra

ReadUpTo(from) == Len(outfile.frames) - rest = from

SampleAt(from, first, i, g) == outfile.frames[from + (g + 1)][first + i]

LEMMA SplitAt ==
  ASSUME NEW from \in Nat, ReadUpTo(from), NEW first, NEW w \in Nat, NEW n \in Nat,
         NEW g \in 0 .. n - 1, NEW i \in 0 .. w - 1
  PROVE  PlaceIn(D!Split(n, first, w), w, i, g) = SampleAt(from, first, i, g)
<1>1. g * w + i \in 0 .. n * w - 1
  BY InBlock
<1>2. (g * w + i) \div w = g /\ (g * w + i) % w = i
  <2>1. g \in Nat
    OBVIOUS
  <2> QED
    BY <2>1, DivMod
<1>3. PICK k \in 0 .. n * w - 1 : k = g * w + i
  BY <1>1
<1>4. D!Split(n, first, w)[k] = outfile.frames[from + 1 + k \div w][first + (k % w)]
  BY DEF D!Split, ReadUpTo
<1>5. from + 1 + g = from + (g + 1)
  OBVIOUS
<1>6. k \div w = g /\ k % w = i
  BY <1>2, <1>3
<1> QED
  BY <1>3, <1>4, <1>5, <1>6 DEF PlaceIn, SampleAt

(* The parts of a block that are deinterleaved.                            *)
TakenFrom(source, n, w, d, g) == deinterleaver(source, n, w)[d * n + g]

LEMMA Takes ==
  ASSUME NEW source, NEW n \in Nat, NEW w \in Nat, NEW d \in 0 .. w - 1, NEW g \in 0 .. n - 1
  PROVE  TakenFrom(source, n, w, d, g) = PlaceIn(source, w, d, g)
BY DeinterleaverAt DEF TakenFrom, PlaceIn

LEMMA SplitHasFrame ==
  ASSUME NEW from \in Nat, ReadUpTo(from), NEW w \in Nat, NEW n \in Nat, NEW g \in 0 .. n - 1
  PROVE  HasFrame(D!Split(n, 0, w), g, w, outfile.frames[from + (g + 1)])
<1>1. ASSUME NEW first, first = 0, NEW i \in 0 .. w - 1
      PROVE  D!Split(n, first, w)[g * w + i] = outfile.frames[from + (g + 1)][i]
  <2>1. PlaceIn(D!Split(n, first, w), w, i, g) = SampleAt(from, first, i, g)
    BY SplitAt
  <2>2. first + i = i
    BY <1>1
  <2> QED
    BY <2>1, <2>2 DEF PlaceIn, SampleAt
<1> QED
  BY <1>1 DEF HasFrame

LEMMA CookedPart ==
  ASSUME NEW from \in Nat, ReadUpTo(from), NEW rows \in Nat, NEW cols \in Nat,
         HasShape(decoder, rows, cols), NEW n \in Nat,
         NEW g \in 0 .. n - 1, NEW d \in 0 .. rows - 1
  PROVE  TakenFrom(D!multiply_float32(decoder, D!Split(n, 0, cols), n), n, rows, d, g)
           = Decoded(decoder, d, outfile.frames[from + (g + 1)])
<1>1. PICK m, raw, frame : /\ m = decoder /\ raw = D!Split(n, 0, cols)
                           /\ frame = outfile.frames[from + (g + 1)]
  OBVIOUS
<1>2. HasShape(m, rows, cols) /\ HasFrame(raw, g, cols, frame)
  BY <1>1, SplitHasFrame
<1>3. PlaceIn(D!multiply_float32(m, raw, n), rows, d, g) = Decoded(m, d, frame)
  BY <1>2, CookedAt
<1>4. PICK cooked : cooked = D!multiply_float32(m, raw, n)
  OBVIOUS
<1>5. TakenFrom(cooked, n, rows, d, g) = PlaceIn(cooked, rows, d, g)
  BY Takes
<1> QED
  BY <1>1, <1>3, <1>4, <1>5

LEMMA ExtraPart ==
  ASSUME NEW from \in Nat, ReadUpTo(from), NEW first, NEW w \in Nat, NEW n \in Nat,
         NEW g \in 0 .. n - 1, NEW d \in 0 .. w - 1
  PROVE  TakenFrom(D!Split(n, first, w), n, w, d, g)
           = SampleAt(from, first, d, g)
<1>1. PICK data : data = D!Split(n, first, w)
  OBVIOUS
<1>2. TakenFrom(data, n, w, d, g) = PlaceIn(data, w, d, g)
  BY Takes
<1>3. PlaceIn(D!Split(n, first, w), w, d, g) = SampleAt(from, first, d, g)
  BY SplitAt
<1> QED
  BY <1>1, <1>2, <1>3

LEMMA ChannelAt ==
  ASSUME NEW source, NEW n \in Nat, NEW w, NEW c \in Nat, NEW f \in 1 .. n
  PROVE  /\ DOMAIN D!Channel(D!deinterleaver(source, n, w), c, n) = 1 .. n
         /\ D!Channel(D!deinterleaver(source, n, w), c, n)[f]
              = TakenFrom(source, n, w, c, f - 1)
<1>1. c * n \in Nat
  OBVIOUS
<1>2. c * n + f - 1 = c * n + (f - 1)
  BY <1>1
<1> QED
  BY <1>2, SameBlocks DEF D!Channel, TakenFrom

LEMMA DividedAt ==
  ASSUME NEW rows \in Nat, NEW cols \in Nat, NEW extra \in Nat, Shaped(rows, cols, extra),
         NEW from \in Nat, ReadUpTo(from), NEW n \in Nat,
         NEW c \in 1 .. rows + extra, NEW f \in 1 .. n
  PROVE  /\ DOMAIN D!Block(n)[c] = 1 .. n
         /\ D!Block(n)[c][f] = Decoded(decoder, c - 1, outfile.frames[from + f])
<1>1. HasShape(decoder, rows, cols) /\ c \in 1 .. D!NumOuts
  BY DEF Shaped, HasShape, D!NumOuts
<1>2. f - 1 \in 0 .. n - 1 /\ (f - 1) + 1 = f
  OBVIOUS
<1>3. CASE c <= rows
  <2>1. PICK d \in 0 .. rows - 1 : d = c - 1
    <3>1. c - 1 \in 0 .. rows - 1
      BY <1>3
    <3> QED
      BY <3>1
  <2>2. D!Block(n)[c] = D!Channel(D!deinterleaver(
          D!multiply_float32(decoder, D!Split(n, 0, cols), n), n, rows), d, n)
    BY <1>1, <1>3, <2>1 DEF Shaped, HasShape, D!Block, D!Cooked, D!RawData
  <2>3. PICK g \in 0 .. n - 1 : g = f - 1 /\ g + 1 = f
    BY <1>2
  <2>4. TakenFrom(D!multiply_float32(decoder, D!Split(n, 0, cols), n), n, rows, d, g)
          = Decoded(decoder, d, outfile.frames[from + (g + 1)])
    BY <1>1, CookedPart
  <2>5. PICK source : source = D!multiply_float32(decoder, D!Split(n, 0, cols), n)
    OBVIOUS
  <2>6. /\ DOMAIN D!Channel(D!deinterleaver(source, n, rows), d, n) = 1 .. n
        /\ D!Channel(D!deinterleaver(source, n, rows), d, n)[f]
             = TakenFrom(source, n, rows, d, f - 1)
    <3>1. d \in Nat
      OBVIOUS
    <3> QED
      BY <3>1, ChannelAt
  <2> QED
    BY <2>1, <2>2, <2>3, <2>4, <2>5, <2>6
<1>4. CASE ~ (c <= rows)
  <2>1. PICK d \in 0 .. extra - 1 : d = c - 1 - rows /\ c - 1 = rows + d
    <3>1. c - 1 - rows \in 0 .. extra - 1 /\ c - 1 = rows + (c - 1 - rows)
      BY <1>4
    <3> QED
      BY <3>1
  <2>2. D!Block(n)[c] = D!Channel(D!deinterleaver(D!Split(n, cols, extra), n, extra), d, n)
    BY <1>1, <1>4, <2>1 DEF Shaped, HasShape, D!Block, D!ExtraData
  <2>3. PICK g \in 0 .. n - 1 : g = f - 1 /\ g + 1 = f
    BY <1>2
  <2>4. TakenFrom(D!Split(n, cols, extra), n, extra, d, g) = SampleAt(from, cols, d, g)
    BY ExtraPart
  <2>5. PICK source : source = D!Split(n, cols, extra)
    OBVIOUS
  <2>6. /\ DOMAIN D!Channel(D!deinterleaver(source, n, extra), d, n) = 1 .. n
        /\ D!Channel(D!deinterleaver(source, n, extra), d, n)[f]
             = TakenFrom(source, n, extra, d, f - 1)
    <3>1. d \in Nat
      OBVIOUS
    <3> QED
      BY <3>1, ChannelAt
  <2>7. Decoded(decoder, c - 1, outfile.frames[from + f])
          = outfile.frames[from + f][cols + d]
    <3>1. ~ (c - 1 < rows) /\ cols + (c - 1) - rows = cols + d
      BY <2>1
    <3> QED
      BY <1>1, <3>1 DEF Decoded, HasShape
  <2> QED
    BY <2>2, <2>3, <2>4, <2>5, <2>6, <2>7 DEF SampleAt
<1> QED
  BY <1>3, <1>4

LEMMA DividedDomain ==
  ASSUME NEW n \in Nat, NEW c \in 1 .. D!NumOuts
  PROVE  D!Block(n)[c] = [f \in 1 .. n |-> D!Block(n)[c][f]]
BY DEF D!Block, D!Channel

LEMMA AdaptorTypes ==
  ASSUME FileTypes
  PROVE  /\ D!AdaptorOf(outfile).rows \in Nat /\ D!AdaptorOf(outfile).cols \in Nat
         /\ D!AdaptorOf(outfile).cols <= outfile.channels
         /\ outfile.channels # 0 /\ D!AdaptorOf(outfile).cols = 0 =>
              D!AdaptorOf(outfile) = NoMatrix
<1>1. outfile.channels \in Nat /\ outfile.matrix.rows \in Nat /\ outfile.matrix.cols \in Nat
  BY DEF FileTypes
<1>2. PICK n \in Nat : n = outfile.channels
  BY <1>1
<1>3. fuma2ambix(n).rows \in Nat
      /\ (fuma2ambix(n).cols = n \/ (fuma2ambix(n) = NoMatrix /\ fuma2ambix(n).cols = 0))
  <2>1. CASE FumaRows(n) = 0
    BY <2>1 DEF fuma2ambix, NoMatrix
  <2>2. CASE FumaRows(n) # 0
    <3>1. FumaRows(n) \in Nat
      BY DEF FumaRows
    <3> QED
      BY <2>2, <3>1 DEF fuma2ambix, MatrixOf
  <2> QED
    BY <2>1, <2>2
<1>4. Identity(n, n).rows = n /\ Identity(n, n).cols = n
  BY DEF Identity, MatrixOf
<1>5. \/ D!AdaptorOf(outfile) = fuma2ambix(n)
      \/ /\ D!AdaptorOf(outfile) = outfile.matrix
         /\ outfile.matrix.cols <= n /\ outfile.matrix.cols > 0
      \/ D!AdaptorOf(outfile) = Identity(n, n)
      \/ D!AdaptorOf(outfile) = NoMatrix
  <2>1. CASE outfile.kind = "caf"
    <3>1. D!Restores(outfile.matrix, outfile.channels) =>
            outfile.matrix.cols <= n /\ outfile.matrix.cols > 0
      BY <1>2 DEF D!Restores, D!Parses
    <3> QED
      BY <1>2, <2>1, <3>1, AdaptorIs
  <2>2. CASE outfile.kind # "caf"
    BY <1>2, <2>2, SameMatrices DEF D!AdaptorOf
  <2> QED
    BY <2>1, <2>2
<1>6. NoMatrix.rows = 0 /\ NoMatrix.cols = 0
  BY DEF NoMatrix
<1>7. CASE D!AdaptorOf(outfile) = fuma2ambix(n)
  BY <1>2, <1>3, <1>7
<1>8. CASE /\ D!AdaptorOf(outfile) = outfile.matrix
           /\ outfile.matrix.cols <= n /\ outfile.matrix.cols > 0
  BY <1>1, <1>2, <1>8
<1>9. CASE D!AdaptorOf(outfile) = Identity(n, n)
  BY <1>2, <1>4, <1>9
<1>10. CASE D!AdaptorOf(outfile) = NoMatrix
  BY <1>2, <1>6, <1>10
<1> QED
  BY <1>5, <1>7, <1>8, <1>9, <1>10

-----------------------------------------------------------------------------
(* ambix-deinterleave keeps its invariant                                  *)

LEMMA SecondStarts == First => SecondInv
<1> SUFFICES ASSUME First PROVE SecondInv
  OBVIOUS
<1>1. FileTypes /\ Len(outfile.frames) \in Nat
  BY FirstStarts DEF FirstInv, FileTypes
<1>2. /\ blocksize \in Blocksizes /\ apart = "open input" /\ parts = D!NoInfo
      /\ outs = <<>>
  BY DEF First, D!Init
<1>3. rest = 0 /\ code = -1
  BY DEF First, D!Init
<1>4. blocksize \in Nat \ {0} /\ code \in {-1, 0, 1} /\ rest \in 0 .. Len(outfile.frames)
      /\ code # 1
  <2>1. blocksize \in Nat \ {0}
    BY <1>2, InterleaveAssumption DEF InterleaveAssumption
  <2>2. code \in {-1, 0, 1} /\ code # 1
    BY <1>3
  <2>3. rest \in 0 .. Len(outfile.frames)
    BY <1>1, <1>3
  <2> QED
    BY <2>1, <2>2, <2>3
<1>5. parts.ambichannels \in Nat /\ parts.extrachannels \in Nat
  BY <1>2 DEF D!NoInfo
<1> QED
  BY <1>2, <1>3, <1>4, <1>5 DEF SecondInv

LEMMA SecondWaits ==
  ASSUME SecondInv, FirstInv', Interleaving
  PROVE  SecondInv'
<1>1. UNCHANGED <<blocksize, apart, inhandle, parts, decoder, rest, outputs, outs, code>>
  BY DEF Interleaving, second
<1>2. ~ Ended
  <2>1. step \in {"cmdline", "open input", "open output", "copy"}
    BY DEF Interleaving, Next, ai_cmdline, ai_open_input, ai_open_output, ai_copy_block
  <2> QED
    BY <2>1 DEF Ended
<1>3. apart = "open input" /\ outs = <<>>
  BY <1>2 DEF SecondInv
<1>4. rest = 0 /\ code \in {-1, 0, 1} /\ ~ (code # -1)
  BY <1>3 DEF SecondInv
<1>5. (rest \in 0 .. Len(outfile.frames))' /\ code' # 1 /\ code' \in {-1, 0, 1} /\ code' = -1
  <2>1. Len(outfile'.frames) \in Nat
    BY DEF FirstInv, FileTypes
  <2> QED
    BY <1>1, <1>4, <2>1
<1>6. (blocksize \in Nat \ {0})' /\ (parts.ambichannels \in Nat /\ parts.extrachannels \in Nat)'
  BY <1>1 DEF SecondInv
<1>7. apart' = "open input" /\ outs' = <<>> /\ rest' = 0
  BY <1>1, <1>3, <1>4
<1> QED
  BY <1>5, <1>6, <1>7 DEF SecondInv

LEMMA SecondKept ==
  ASSUME SecondInv, UNCHANGED allvars
  PROVE  SecondInv'
<1>1. UNCHANGED <<blocksize, apart, inhandle, parts, decoder, rest, outputs, outs, code>>
      /\ outfile' = outfile /\ step' = step
  BY DEF allvars, second, vars
<1>2. Ended' = Ended /\ D!NumOuts' = D!NumOuts
  BY <1>1 DEF Ended, D!NumOuts
<1>3. Dividing' <=> Dividing
  BY <1>1, <1>2 DEF Dividing
<1>4. Divides' <=> Divides
  BY <1>1 DEF Divides, DecodedOf
<1> QED
  BY <1>1, <1>2, <1>3, <1>4 DEF SecondInv

(* What every step of ambix-deinterleave has in common.                    *)
Going ==
  /\ SecondInv /\ FirstInv /\ Ended
  /\ UNCHANGED vars /\ blocksize' = blocksize

LEMMA GoingIs ==
  ASSUME Going
  PROVE  /\ outfile' = outfile /\ Ended' /\ blocksize' \in Nat \ {0}
         /\ FileTypes /\ Len(outfile.frames) \in Nat
         /\ DOMAIN outfile.frames = 1 .. Len(outfile.frames)
         /\ \A m, c : DecodedOf(m, c)' = DecodedOf(m, c)
<1>1. outfile' = outfile /\ step' = step
  BY DEF Going, vars
<1> QED
  BY <1>1 DEF Going, Ended, SecondInv, FirstInv, FileTypes, DecodedOf

LEMMA DividingOpensInput == Going /\ D!ai_open_input => SecondInv'
<1> SUFFICES ASSUME Going, D!ai_open_input PROVE SecondInv'
  OBVIOUS
<1>1. /\ outfile' = outfile /\ Ended' /\ blocksize' \in Nat \ {0}
      /\ FileTypes /\ Len(outfile.frames) \in Nat
  BY GoingIs
<1>2. apart = "open input" /\ outs' = outs /\ rest' = rest /\ outs = <<>>
  BY DEF D!ai_open_input, Going, SecondInv
<1>3. rest = 0 /\ code = -1
  <2>1. rest = 0
    BY <1>2 DEF Going, SecondInv
  <2>2. ~ (code # -1)
    BY <1>2 DEF Going, SecondInv
  <2> QED
    BY <2>1, <2>2
<1>4. (rest \in 0 .. Len(outfile.frames))' /\ rest' = 0
  <2>1. rest' = 0
    BY <1>2, <1>3
  <2> QED
    BY <1>1, <2>1
<1>5. Divides' /\ \A c \in DOMAIN outs' : Len(outs'[c]) = Len(outfile'.frames)
  <2>1. DOMAIN outs' = {}
    <3>1. outs' = <<>>
      BY <1>2
    <3>2. DOMAIN <<>> = {}
      OBVIOUS
    <3> QED
      BY <3>1, <3>2
  <2> QED
    BY <2>1 DEF Divides
<1>6. CASE outfile.kind = "missing" \/ outfile.channels = 0
  <2>1. apart' = "closed" /\ parts' = parts
    BY <1>6 DEF D!ai_open_input, D!Fails, D!Closes
  <2>2. code' = 0
    BY <1>6 DEF D!ai_open_input, D!Fails, D!Closes
  <2>3. code' \in {-1, 0, 1} /\ code' # -1
    BY <2>2
  <2>4. parts'.ambichannels \in Nat /\ parts'.extrachannels \in Nat
    BY <2>1 DEF Going, SecondInv
  <2> QED
    BY <1>1, <1>4, <1>5, <2>1, <2>3, <2>4 DEF SecondInv
<1>7. CASE ~ (outfile.kind = "missing" \/ outfile.channels = 0)
  <2>1. /\ apart' = "open output"
        /\ parts' = D!InfoOf(outfile) /\ decoder' = D!AdaptorOf(outfile)
    <3>1. /\ apart' = "open output" /\ parts' = D!InfoOf(outfile)
          /\ decoder' = IF D!InfoOf(outfile).ambichannels > 0 THEN D!AdaptorOf(outfile)
                        ELSE D!NoMatrix
      BY <1>7 DEF D!ai_open_input
    <3>2. D!InfoOf(outfile).ambichannels = D!AdaptorOf(outfile).cols
      BY DEF D!InfoOf
    <3>3. D!AdaptorOf(outfile).cols \in Nat
          /\ (D!AdaptorOf(outfile).cols = 0 => D!AdaptorOf(outfile) = NoMatrix)
      BY <1>1, <1>7, AdaptorTypes
    <3>4. CASE D!AdaptorOf(outfile).cols > 0
      BY <3>1, <3>2, <3>4
    <3>5. CASE ~ (D!AdaptorOf(outfile).cols > 0)
      <4>1. D!AdaptorOf(outfile).cols = 0
        BY <3>3, <3>5
      <4> QED
        BY <3>1, <3>2, <3>3, <3>5, <4>1, SameMatrices
    <3> QED
      BY <3>1, <3>4, <3>5
  <2>2. code' = code
    BY <1>7 DEF D!ai_open_input
  <2>3. code' \in {-1, 0, 1} /\ ~ (code' # -1) /\ code' # 1
    BY <1>3, <2>2
  <2>4. parts'.ambichannels \in Nat /\ parts'.extrachannels \in Nat
    <3>1. parts'.ambichannels = D!AdaptorOf(outfile).cols
          /\ parts'.extrachannels = outfile.channels - D!AdaptorOf(outfile).cols
      BY <2>1 DEF D!InfoOf
    <3>2. PICK a \in Nat, n \in Nat : a = D!AdaptorOf(outfile).cols /\ n = outfile.channels
      BY <1>1, AdaptorTypes DEF FileTypes
    <3>3. a <= n
      BY <1>1, <3>2, AdaptorTypes
    <3> QED
      BY <3>1, <3>2, <3>3
  <2>5. parts' = D!InfoOf(outfile') /\ decoder' = D!AdaptorOf(outfile')
    BY <1>1, <2>1
  <2> QED
    BY <1>1, <1>2, <1>4, <1>5, <2>1, <2>3, <2>4, <2>5 DEF SecondInv
<1> QED
  BY <1>6, <1>7

LEMMA DividingOpensOutput ==
  ASSUME Going, NEW created \in 0 .. D!NumOuts, D!ai_open_output(created)
  PROVE  SecondInv'
<1>1. /\ outfile' = outfile /\ Ended' /\ blocksize' \in Nat \ {0}
      /\ FileTypes /\ Len(outfile.frames) \in Nat
  BY GoingIs
<1>2. apart = "open output" /\ parts' = parts
  BY DEF D!ai_open_output
<1>3. outs' = [c \in 1 .. created |-> <<>>]
  BY DEF D!ai_open_output
<1>4. parts = D!InfoOf(outfile) /\ decoder = D!AdaptorOf(outfile)
      /\ parts.ambichannels \in Nat /\ parts.extrachannels \in Nat
  BY <1>2 DEF Going, SecondInv
<1>5. rest = 0 /\ code = -1
  <2>1. rest = 0
    BY <1>2 DEF Going, SecondInv
  <2>2. ~ (code # -1)
    BY <1>2 DEF Going, SecondInv
  <2> QED
    BY <2>1, <2>2
<1>6. Divides'
  <2>1. \A c \in DOMAIN outs' : outs'[c] = <<>>
    BY <1>3
  <2>2. DOMAIN <<>> = {} /\ \A S : <<>> \in Seq(S)
    OBVIOUS
  <2> QED
    BY <2>1, <2>2 DEF Divides
<1>7. CASE created < D!NumOuts
  <2>1. apart' = "closed" /\ rest' = rest
    BY <1>7 DEF D!ai_open_output, D!Fails, D!Closes
  <2>2. code' = 0
    BY <1>7 DEF D!ai_open_output, D!Fails, D!Closes
  <2>3. code' \in {-1, 0, 1} /\ code' # -1 /\ code' # 1
    BY <2>2
  <2>4. (rest \in 0 .. Len(outfile.frames))'
    BY <1>1, <1>5, <2>1
  <2> QED
    BY <1>1, <1>2, <1>4, <1>6, <2>1, <2>3, <2>4 DEF SecondInv
<1>8. CASE ~ (created < D!NumOuts)
  <2>1. apart' = "copy" /\ decoder' = decoder /\ outputs' = 1 .. created
    BY <1>8 DEF D!ai_open_output
  <2>2. code' = code
    BY <1>8 DEF D!ai_open_output
  <2>3. code' \in {-1, 0, 1} /\ ~ (code' # -1) /\ code' # 1
    BY <1>5, <2>2
  <2>4. rest' = Len(outfile.frames)
    BY <1>8 DEF D!ai_open_output
  <2>5. (rest \in 0 .. Len(outfile.frames))'
    BY <1>1, <2>4
  <2>6. Dividing'
    <3>1. created = D!NumOuts
      <4>1. D!NumOuts \in Nat
        <5>1. D!AdaptorOf(outfile).rows \in Nat
          BY <1>1, AdaptorTypes
        <5> QED
          BY <1>4, <5>1 DEF D!NumOuts
      <4> QED
        BY <1>8, <4>1
    <3>2. D!NumOuts' = D!NumOuts
      BY <1>2, <2>1 DEF D!NumOuts
    <3>3. \A c \in DOMAIN outs' : Len(outs'[c]) = 0
      BY <1>3
    <3>4. Len(outfile'.frames) - rest' = 0
      BY <1>1, <2>4
    <3> QED
      BY <1>3, <2>1, <3>1, <3>2, <3>3, <3>4 DEF Dividing
  <2>7. parts' = D!InfoOf(outfile') /\ decoder' = D!AdaptorOf(outfile')
    BY <1>1, <1>2, <1>4, <2>1
  <2> QED
    BY <1>1, <1>2, <1>4, <1>6, <2>1, <2>3, <2>5, <2>6, <2>7 DEF SecondInv
<1> QED
  BY <1>7, <1>8

LEMMA DividingFails == Going /\ D!ReadFails => SecondInv'
<1> SUFFICES ASSUME Going, D!ReadFails PROVE SecondInv'
  OBVIOUS
<1>1. /\ outfile' = outfile /\ Ended' /\ blocksize' \in Nat \ {0}
      /\ \A m, c : DecodedOf(m, c)' = DecodedOf(m, c)
  BY GoingIs
<1>2. apart = "copy" /\ apart' = "closed" /\ UNCHANGED <<parts, outs, rest>>
  BY DEF D!ReadFails, D!Fails, D!Closes
<1>3. code' = 0
  BY DEF D!ReadFails, D!Fails, D!Closes
<1>4. code' \in {-1, 0, 1} /\ code' # -1 /\ code' # 1
  BY <1>3
<1>5. Divides /\ rest \in 0 .. Len(outfile.frames)
      /\ parts.ambichannels \in Nat /\ parts.extrachannels \in Nat
  BY <1>2 DEF Going, SecondInv
<1>6. Divides'
  BY <1>1, <1>2, <1>5 DEF Divides
<1> QED
  BY <1>1, <1>2, <1>4, <1>5, <1>6 DEF SecondInv

LEMMA Lengthened ==
  ASSUME NEW V, NEW s \in Seq(V), NEW n \in Nat, NEW b, b = [f \in 1 .. n |-> b[f]],
         \A f \in 1 .. n : b[f] \in V
  PROVE  /\ s \o b \in Seq(V) /\ Len(s \o b) = Len(s) + n
         /\ \A f \in 1 .. Len(s) : (s \o b)[f] = s[f]
         /\ \A f \in Len(s) + 1 .. Len(s) + n : (s \o b)[f] = b[f - Len(s)]
<1>1. b \in [1 .. n -> V]
  OBVIOUS
<1>2. PICK c \in Seq(V) : c = b /\ Len(c) = n
  BY <1>1
<1>3. /\ s \o c \in Seq(V) /\ Len(s \o c) = Len(s) + n
      /\ \A f \in 1 .. Len(s) : (s \o c)[f] = s[f]
      /\ \A f \in Len(s) + 1 .. Len(s) + n : (s \o c)[f] = c[f - Len(s)]
  BY <1>2
<1> QED
  BY <1>2, <1>3

(* An output with the channel of so many frames.                           *)
Holds(s, c, upto) ==
  /\ s \in Seq(DecodedOf(decoder, c)) /\ Len(s) = upto
  /\ \A f \in 1 .. upto : s[f] = Decoded(decoder, c - 1, outfile.frames[f])

LEMMA HoldsMore ==
  ASSUME FileTypes, NEW rows \in Nat, NEW cols \in Nat, NEW extra \in Nat,
         Shaped(rows, cols, extra), NEW from \in Nat, ReadUpTo(from), NEW n \in Nat,
         from + n <= Len(outfile.frames), NEW c \in 1 .. rows + extra, NEW s, Holds(s, c, from)
  PROVE  Holds(s \o D!Block(n)[c], c, from + n)
<1>1. Len(outfile.frames) \in Nat /\ DOMAIN outfile.frames = 1 .. Len(outfile.frames)
  BY DEF FileTypes
<1>2. PICK V, b : V = DecodedOf(decoder, c) /\ b = D!Block(n)[c]
  OBVIOUS
<1>3. b = [f \in 1 .. n |-> b[f]]
  <2>1. c \in 1 .. D!NumOuts
    BY DEF Shaped, HasShape, D!NumOuts
  <2> QED
    BY <1>2, <2>1, DividedDomain
<1>4. \A f \in 1 .. n : b[f] = Decoded(decoder, c - 1, outfile.frames[from + f])
  <2>1. ASSUME NEW f \in 1 .. n
        PROVE  D!Block(n)[c][f] = Decoded(decoder, c - 1, outfile.frames[from + f])
    BY DividedAt
  <2> QED
    BY <1>2, <2>1
<1>5. \A f \in 1 .. n : b[f] \in V
  <2>1. \A f \in 1 .. n : from + f \in DOMAIN outfile.frames
    <3>1. ASSUME NEW N \in Nat, from + n <= N, NEW f \in 1 .. n PROVE from + f \in 1 .. N
      BY <3>1
    <3> QED
      BY <1>1, <3>1
  <2> QED
    BY <1>2, <1>4, <2>1 DEF DecodedOf
<1>6. s \in Seq(V) /\ Len(s) = from
  BY <1>2 DEF Holds
<1>7. PICK r \in Seq(V) : r = s /\ Len(r) = from
  BY <1>6
<1>8. /\ r \o b \in Seq(V) /\ Len(r \o b) = from + n
      /\ \A f \in 1 .. from : (r \o b)[f] = r[f]
      /\ \A f \in from + 1 .. from + n : (r \o b)[f] = b[f - from]
  <2>1. /\ r \o b \in Seq(V) /\ Len(r \o b) = Len(r) + n
        /\ \A f \in 1 .. Len(r) : (r \o b)[f] = r[f]
        /\ \A f \in Len(r) + 1 .. Len(r) + n : (r \o b)[f] = b[f - Len(r)]
    BY <1>3, <1>5, Lengthened
  <2> QED
    BY <1>7, <2>1
<1>9. ASSUME NEW f \in 1 .. from + n
      PROVE  (r \o b)[f] = Decoded(decoder, c - 1, outfile.frames[f])
  <2>1. CASE f <= from
    <3>1. f \in 1 .. from
      BY <2>1
    <3>2. r[f] = Decoded(decoder, c - 1, outfile.frames[f])
      BY <1>7, <3>1 DEF Holds
    <3> QED
      BY <1>8, <3>1, <3>2
  <2>2. CASE ~ (f <= from)
    <3>1. f - from \in 1 .. n /\ from + (f - from) = f /\ f \in from + 1 .. from + n
      BY <2>2
    <3> QED
      BY <1>4, <1>8, <3>1
  <2> QED
    BY <2>1, <2>2
<1> QED
  BY <1>2, <1>7, <1>8, <1>9 DEF Holds

LEMMA DividingFrames ==
  ASSUME SecondInv, FileTypes
  PROVE  /\ D!BlockFrames(rest) \in Nat /\ D!BlockFrames(rest) <= rest
         /\ D!BlockFrames(rest) <= blocksize
         /\ rest <= blocksize => D!BlockFrames(rest) = rest
         /\ rest \in Nat /\ rest <= Len(outfile.frames)
<1>1. rest \in Nat /\ rest <= Len(outfile.frames) /\ blocksize \in Nat \ {0}
  <2>1. rest \in 0 .. Len(outfile.frames) /\ Len(outfile.frames) \in Nat
    BY DEF SecondInv, FileTypes
  <2>2. blocksize \in Nat \ {0}
    BY DEF SecondInv
  <2> QED
    BY <2>1, <2>2
<1>2. CASE rest > blocksize
  BY <1>1, <1>2 DEF D!BlockFrames
<1>3. CASE ~ (rest > blocksize)
  BY <1>1, <1>3 DEF D!BlockFrames
<1> QED
  BY <1>2, <1>3

LEMMA DividingCopies ==
  ASSUME Going, NEW served \in 0 .. D!NumOuts, D!ai_copy_block(served)
  PROVE  SecondInv'
<1> DEFINE full == served = D!NumOuts
<1>1. /\ outfile' = outfile /\ Ended' /\ blocksize' \in Nat \ {0}
      /\ FileTypes /\ Len(outfile.frames) \in Nat
      /\ DOMAIN outfile.frames = 1 .. Len(outfile.frames)
      /\ \A m, c : DecodedOf(m, c)' = DecodedOf(m, c)
  BY GoingIs
<1>2. apart = "copy" /\ parts' = parts
  BY DEF D!ai_copy_block
<1>3. /\ parts = D!InfoOf(outfile) /\ decoder = D!AdaptorOf(outfile)
      /\ parts.ambichannels \in Nat /\ parts.extrachannels \in Nat
      /\ Divides /\ Dividing
  BY <1>2 DEF Going, SecondInv
<1>4. code = -1
  <2>1. ~ (code # -1)
    BY <1>2 DEF Going, SecondInv
  <2> QED
    BY <2>1
<1>5. PICK rows \in Nat, cols \in Nat, extra \in Nat : Shaped(rows, cols, extra)
  <2>1. decoder.rows \in Nat /\ decoder.cols \in Nat /\ parts.ambichannels = decoder.cols
    BY <1>1, <1>3, AdaptorTypes DEF D!InfoOf
  <2> QED
    BY <1>3, <2>1 DEF Shaped, HasShape
<1>6. D!NumOuts = rows + extra
  BY <1>5 DEF D!NumOuts, Shaped, HasShape
<1>7. PICK n \in Nat : n = D!BlockFrames(rest)
  BY <1>1, DividingFrames DEF Going
<1>8. PICK from \in Nat, r \in Nat, N \in Nat :
        /\ r = rest /\ N = Len(outfile.frames) /\ from = N - r /\ ReadUpTo(from)
        /\ n <= r /\ r <= N /\ (r <= blocksize => n = r)
  <2>1. rest \in Nat /\ rest <= Len(outfile.frames) /\ n <= rest
        /\ (rest <= blocksize => n = rest)
    BY <1>1, <1>7, DividingFrames DEF Going
  <2>2. Len(outfile.frames) - rest \in Nat
    BY <1>1, <2>1
  <2> QED
    BY <1>1, <2>1, <2>2 DEF ReadUpTo
<1>9. ASSUME NEW c \in 1 .. rows + extra PROVE Holds(outs[c], c, from)
  <2>1. c \in DOMAIN outs /\ Len(outs[c]) = from
    BY <1>3, <1>6, <1>8 DEF Dividing
  <2>2. /\ outs[c] \in Seq(DecodedOf(decoder, c))
        /\ \A f \in DOMAIN outs[c] : outs[c][f] = Decoded(decoder, c - 1, outfile.frames[f])
    BY <1>3, <2>1 DEF Divides
  <2>3. DOMAIN outs[c] = 1 .. from
    BY <2>1, <2>2
  <2> QED
    BY <2>1, <2>2, <2>3 DEF Holds
<1>10. ASSUME NEW c \in 1 .. rows + extra
       PROVE  Holds(outs[c] \o D!Block(n)[c], c, from + n)
  <2>1. from + n <= Len(outfile.frames)
    <3>1. from + n <= N
      BY <1>8
    <3> QED
      BY <1>8, <3>1
  <2>2. PICK s : s = outs[c] /\ Holds(s, c, from)
    BY <1>9
  <2>3. Holds(s \o D!Block(n)[c], c, from + n)
    BY <1>1, <1>5, <1>8, <2>1, <2>2, HoldsMore
  <2> QED
    BY <2>2, <2>3
<1>11. /\ DOMAIN outs' = 1 .. rows + extra
       /\ \A c \in 1 .. rows + extra :
            outs'[c] = IF c <= served THEN outs[c] \o D!Block(n)[c] ELSE outs[c]
  <2>1. DOMAIN outs = 1 .. rows + extra
    BY <1>3, <1>6 DEF Dividing
  <2>2. outs' = [c \in DOMAIN outs |-> IF c <= served THEN outs[c] \o D!Block(n)[c]
                                       ELSE outs[c]]
    BY <1>7 DEF D!ai_copy_block
  <2> QED
    BY <2>1, <2>2
<1>12. ASSUME NEW c \in 1 .. rows + extra
       PROVE  \/ c <= served /\ Holds(outs'[c], c, from + n)
              \/ ~ (c <= served) /\ Holds(outs'[c], c, from)
  BY <1>9, <1>10, <1>11
<1>13. Divides'
  <2>1. ASSUME NEW c \in DOMAIN outs'
        PROVE  /\ outs'[c] \in Seq(DecodedOf(decoder, c))
               /\ \A f \in DOMAIN outs'[c] :
                    f \in DOMAIN outfile.frames
                      /\ outs'[c][f] = Decoded(decoder, c - 1, outfile.frames[f])
    <3>1. c \in 1 .. rows + extra
      BY <1>11
    <3>2. PICK l \in 0 .. N : Holds(outs'[c], c, l)
      <4>1. from \in 0 .. N /\ from + n \in 0 .. N
        BY <1>8
      <4> QED
        BY <1>12, <3>1, <4>1
    <3>3. outs'[c] \in Seq(DecodedOf(decoder, c)) /\ DOMAIN outs'[c] = 1 .. l
      BY <3>2 DEF Holds
    <3>4. \A f \in 1 .. l : f \in 1 .. N
      OBVIOUS
    <3> QED
      BY <1>1, <1>8, <3>2, <3>3, <3>4 DEF Holds
  <2>2. D!AdaptorOf(outfile') = decoder
    BY <1>1, <1>3
  <2> QED
    BY <1>1, <2>1, <2>2 DEF Divides
<1>14. full => \A c \in DOMAIN outs' : Len(outs'[c]) = from + n
  <2> SUFFICES ASSUME full, NEW c \in DOMAIN outs' PROVE Len(outs'[c]) = from + n
    OBVIOUS
  <2>1. c \in 1 .. rows + extra /\ c <= served
    BY <1>6, <1>11
  <2>2. Holds(outs'[c], c, from + n)
    BY <1>12, <2>1
  <2> QED
    BY <2>2 DEF Holds
<1>15. rest' = (IF full THEN rest - n ELSE rest) /\ (rest \in 0 .. Len(outfile.frames))'
  <2>1. rest' = IF full THEN rest - n ELSE rest
    BY <1>7 DEF D!ai_copy_block
  <2>2. rest' \in 0 .. N
    <3>1. r - n \in 0 .. N /\ r \in 0 .. N
      BY <1>8
    <3> QED
      BY <1>8, <2>1, <3>1
  <2> QED
    BY <1>1, <1>8, <2>1, <2>2
<1>16. (parts.ambichannels \in Nat /\ parts.extrachannels \in Nat)'
  BY <1>2, <1>3
<1>17. CASE ~ full
  <2>1. apart' = "closed"
    BY <1>17 DEF D!ai_copy_block, D!Fails, D!Closes
  <2>2. code' = 0
    BY <1>17 DEF D!ai_copy_block, D!Fails, D!Closes
  <2>3. code' \in {-1, 0, 1} /\ code' # -1 /\ code' # 1
    BY <2>2
  <2> QED
    BY <1>1, <1>13, <1>15, <1>16, <2>1, <2>3 DEF SecondInv
<1>18. CASE full /\ rest <= blocksize
  <2>1. apart' = "closed"
    BY <1>18 DEF D!ai_copy_block, D!Closes
  <2>2. code' = 1
    BY <1>18 DEF D!ai_copy_block, D!Closes
  <2>3. code' \in {-1, 0, 1} /\ code' # -1
    BY <2>2
  <2>4. from + n = Len(outfile.frames)
    <3>1. n = r
      BY <1>8, <1>18
    <3>2. from + n = N
      BY <1>8, <3>1
    <3> QED
      BY <1>8, <3>2
  <2>5. \A c \in DOMAIN outs' : Len(outs'[c]) = Len(outfile'.frames)
    BY <1>1, <1>14, <1>18, <2>4
  <2> QED
    BY <1>1, <1>13, <1>15, <1>16, <2>1, <2>3, <2>5 DEF SecondInv
<1>19. CASE full /\ ~ (rest <= blocksize)
  <2>1. apart' = apart /\ decoder' = decoder /\ outputs' = outputs
    BY <1>19 DEF D!ai_copy_block
  <2>2. code' = code
    BY <1>19 DEF D!ai_copy_block
  <2>3. code' \in {-1, 0, 1} /\ ~ (code' # -1) /\ code' # 1
    BY <1>4, <2>2
  <2>4. Dividing'
    <3>1. D!NumOuts' = D!NumOuts
      BY <1>2, <2>1 DEF D!NumOuts
    <3>2. outputs' = 1 .. D!NumOuts
      BY <1>3, <2>1 DEF Dividing
    <3>3. Len(outfile'.frames) - rest' = from + n
      <4>1. rest' = r - n
        BY <1>8, <1>15, <1>19
      <4>2. N - (r - n) = from + n
        BY <1>8
      <4> QED
        BY <1>1, <1>8, <4>1, <4>2
    <3> QED
      BY <1>6, <1>11, <1>14, <1>19, <3>1, <3>2, <3>3 DEF Dividing
  <2>5. parts' = D!InfoOf(outfile') /\ decoder' = D!AdaptorOf(outfile')
    BY <1>1, <1>2, <1>3, <2>1
  <2> QED
    BY <1>1, <1>2, <1>13, <1>15, <1>16, <2>1, <2>3, <2>4, <2>5 DEF SecondInv
<1> QED
  BY <1>17, <1>18, <1>19

LEMMA SecondHolds == Spec => [](FirstInv /\ SecondInv)
<1>1. First => SecondInv
  BY SecondStarts
<1>2. SecondInv /\ FirstInv /\ FirstInv' /\ [Steps]_allvars => SecondInv'
  <2> SUFFICES ASSUME SecondInv, FirstInv, FirstInv', [Steps]_allvars PROVE SecondInv'
    OBVIOUS
  <2>1. CASE Interleaving
    BY <2>1, SecondWaits
  <2>2. CASE Deinterleaving
    <3>1. Ended /\ D!Next /\ UNCHANGED vars
      BY <2>2 DEF Deinterleaving
    <3>2. Going
      <4>1. blocksize' = blocksize
        BY <3>1 DEF D!Next, D!ai_open_input, D!ai_open_output, D!ai_copy_block, D!ReadFails
      <4> QED
        BY <3>1, <4>1 DEF Going
    <3>3. CASE D!ai_open_input
      BY <3>2, <3>3, DividingOpensInput
    <3>4. ASSUME NEW created \in 0 .. D!NumOuts, D!ai_open_output(created) PROVE SecondInv'
      BY <3>2, <3>4, DividingOpensOutput
    <3>5. ASSUME NEW served \in 0 .. D!NumOuts, D!ai_copy_block(served) PROVE SecondInv'
      BY <3>2, <3>5, DividingCopies
    <3>6. CASE D!ReadFails
      BY <3>2, <3>6, DividingFails
    <3> QED
      BY <3>1, <3>3, <3>4, <3>5, <3>6 DEF D!Next
  <2>3. CASE UNCHANGED allvars
    BY <2>3, SecondKept
  <2> QED
    BY <2>1, <2>2, <2>3 DEF Steps
<1> QED
  BY <1>1, <1>2, FirstHolds, PTL DEF Spec

-----------------------------------------------------------------------------
(* Variables have values of their types: so do the length and the division *)
(* of the output that ai_open_input() works out, and no program counts     *)
(* below 0 frames.                                                         *)
THEOREM ToolsTypes == Spec => []TypeOK
<1>1. FirstInv /\ SecondInv => TypeOK
  <2> SUFFICES ASSUME FirstInv, SecondInv PROVE TypeOK
    OBVIOUS
  <2>1. ToolTypes
    BY DEF FirstInv
  <2> QED
    BY <2>1 DEF TypeOK, ToolTypes, SecondInv
<1> QED
  BY <1>1, SecondHolds, PTL

(* Each output has the decoded channel it stands for, frame by frame, and  *)
(* all of it when the program returns 1: no block is left out, repeated or *)
(* out of its place, whatever the blocks, the matrix and the file.         *)
THEOREM ToolsSplitInPlace == Spec => []SplitInPlace
<1>1. FirstInv /\ SecondInv => SplitInPlace
  <2> SUFFICES ASSUME SecondInv, apart \in {"copy", "closed"}, NEW c \in DOMAIN outs
               PROVE  LET m == D!AdaptorOf(outfile)
                      IN /\ \A f \in DOMAIN outs[c] :
                              outs[c][f] = Decoded(m, c - 1, outfile.frames[f])
                         /\ code = 1 => Len(outs[c]) = Len(outfile.frames)
    BY DEF SplitInPlace
  <2>1. \A f \in DOMAIN outs[c] :
          outs[c][f] = Decoded(D!AdaptorOf(outfile), c - 1, outfile.frames[f])
    BY DEF SecondInv, Divides
  <2>2. code = 1 => Len(outs[c]) = Len(outfile.frames)
    BY DEF SecondInv
  <2> QED
    BY <2>1, <2>2
<1> QED
  BY <1>1, SecondHolds, PTL

(* The matrix for four channels of an .amb file.                           *)
LEMMA FumaOfFourIs ==
  ASSUME NEW r \in 0 .. 3, NEW c \in 0 .. 3
  PROVE  fuma2ambix(4).data[r][c] = BFormat[r + 1][c + 1]
<1>1. FumaRows(4) = 4
  <2>1. 4 \in {3, 4} /\ 4 # 1
    OBVIOUS
  <2> QED
    BY <2>1 DEF FumaRows
<1>2. Reducer(4) = [k \in 1 .. 4 |-> k - 1]
  <2>1. 4 \notin {5, 7} /\ 4 \notin {6, 8} /\ 4 # 11
    OBVIOUS
  <2> QED
    BY <2>1 DEF Reducer
<1>3. fuma2ambix(4).data[r][c]
        = IF FumaOrder[Reducer(4)[c + 1] + 1] = r THEN FumaWeights[r + 1] ELSE 0
  BY <1>1 DEF fuma2ambix, MatrixOf
<1>4. Reducer(4)[c + 1] + 1 = c + 1
  <2>1. c + 1 \in 1 .. 4 /\ (c + 1) - 1 = c
    OBVIOUS
  <2> QED
    BY <1>2, <2>1
<1>5. fuma2ambix(4).data[r][c] = IF FumaOrder[c + 1] = r THEN FumaWeights[r + 1] ELSE 0
  BY <1>3, <1>4
<1>6. /\ FumaOrder[1] = 0 /\ FumaOrder[2] = 2 /\ FumaOrder[3] = 3 /\ FumaOrder[4] = 1
      /\ FumaWeights[1] = 7 /\ FumaWeights[2] = -1 /\ FumaWeights[3] = 1
      /\ FumaWeights[4] = -1
  BY DEF FumaOrder, FumaWeights
<1>7. (r = 0 \/ r = 1 \/ r = 2 \/ r = 3) /\ (c = 0 \/ c = 1 \/ c = 2 \/ c = 3)
  OBVIOUS
<1>8. /\ BFormat[1] = <<7, 0, 0, 0>> /\ BFormat[2] = <<0, 0, 0, -1>>
      /\ BFormat[3] = <<0, 1, 0, 0>> /\ BFormat[4] = <<0, 0, -1, 0>>
  BY DEF BFormat
<1>9. CASE r = 0
  BY <1>5, <1>6, <1>7, <1>8, <1>9
<1>10. CASE r = 1
  BY <1>5, <1>6, <1>7, <1>8, <1>10
<1>11. CASE r = 2
  BY <1>5, <1>6, <1>7, <1>8, <1>11
<1>12. CASE r = 3
  BY <1>5, <1>6, <1>7, <1>8, <1>12
<1> QED
  BY <1>7, <1>9, <1>10, <1>11, <1>12

LEMMA RestOfASum ==
  ASSUME NEW a \in Nat, NEW b \in Nat
  PROVE  (a + b) - a = b
  OBVIOUS

LEMMA SumIsNat ==
  ASSUME NEW a \in Nat, NEW b \in Nat
  PROVE  a + b \in Nat
  OBVIOUS

LEMMA CountUpTo ==
  ASSUME NEW k \in Nat
  PROVE  Cardinality(1 .. k) = k
  BY FS_Interval

(* A file that ai_copy() has finished is divided by ambix_open() as it was *)
(* by ai_open_input(), its matrix restores a full set, and for an .amb file*)
(* of four channels it is the documented one.                              *)
THEOREM ToolsReadBack == Spec => []ReadsBack
<1>1. FirstInv /\ SecondInv => ReadsBack
  <2> SUFFICES ASSUME FirstInv, SecondInv, Interleaved, apart # "open input", code = -1
               PROVE  /\ parts.ambichannels = info.ambichannels
                      /\ parts.extrachannels = info.extrachannels
                      /\ is_fullset(decoder.rows)
                      /\ SingleAmb /\ Channels = 4 =>
                           \A r, c \in 0 .. 3 : decoder.data[r][c] = BFormat[r + 1][c + 1]
    BY DEF ReadsBack
  <2>1. FileSays
    BY DEF FirstInv, Complete, Interleaved
  <2>2. parts = D!InfoOf(outfile) /\ decoder = D!AdaptorOf(outfile)
    <3>1. apart \in {"open output", "copy"}
      BY DEF SecondInv
    <3> QED
      BY <3>1 DEF SecondInv
  <2>3. info.ambichannels \in Nat /\ info.extrachannels \in Nat
    BY DEF FirstInv, ToolTypes
  <2>4. parts.ambichannels = info.ambichannels
        /\ parts.extrachannels = (info.ambichannels + info.extrachannels) - info.ambichannels
    BY <2>1, <2>2 DEF FileSays, D!InfoOf
  <2>5. (info.ambichannels + info.extrachannels) - info.ambichannels = info.extrachannels
    BY <2>3, RestOfASum, Zenon
  <2>6. is_fullset(decoder.rows) /\ (BFormatFile => decoder = fuma2ambix(4))
    BY <2>1, <2>2 DEF FileSays
  <2>7. BFormatFile => \A r, c \in 0 .. 3 : decoder.data[r][c] = BFormat[r + 1][c + 1]
    <3> SUFFICES ASSUME BFormatFile, NEW r \in 0 .. 3, NEW c \in 0 .. 3
                 PROVE  decoder.data[r][c] = BFormat[r + 1][c + 1]
      OBVIOUS
    <3>1. fuma2ambix(4).data[r][c] = BFormat[r + 1][c + 1]
      BY FumaOfFourIs
    <3> QED
      BY <2>6, <3>1
  <2> QED
    BY <2>4, <2>5, <2>6, <2>7 DEF BFormatFile
<1> QED
  BY <1>1, SecondHolds, PTL

LEMMA SumGrows ==
  ASSUME NEW T, IsFiniteSet(T), NEW w, \A x \in T : w[x] \in Nat, NEW S \in SUBSET T
  PROVE  SumBy(w, S) <= SumBy(w, T)
<1> DEFINE U == {n \in Nat : \A t \in SUBSET T : Cardinality(t) = n
                               => \A s \in SUBSET t : SumBy(w, s) <= SumBy(w, t)}
<1>1. \A t \in SUBSET T : IsFiniteSet(t) /\ Cardinality(t) \in Nat /\ SumBy(w, t) \in Nat
  <2>1. \A t \in SUBSET T : IsFiniteSet(t) /\ Cardinality(t) \in Nat
                            /\ \A x \in t : w[x] \in Nat
    BY FS_Subset, FS_CardinalityType
  <2> QED
    BY <2>1, SumSplits
<1>2. 0 \in U
  <2>1. ASSUME NEW t \in SUBSET T, Cardinality(t) = 0, NEW s \in SUBSET t
        PROVE  SumBy(w, s) <= SumBy(w, t)
    <3>1. s = t
      BY <1>1, <2>1, FS_EmptySet
    <3> QED
      BY <1>1, <3>1
  <2> QED
    BY <2>1
<1>3. ASSUME NEW n \in Nat, n \in U PROVE n + 1 \in U
  <2>1. ASSUME NEW t \in SUBSET T, Cardinality(t) = n + 1, NEW s \in SUBSET t
        PROVE  SumBy(w, s) <= SumBy(w, t)
    <3>1. CASE s = t
      BY <1>1, <3>1
    <3>2. CASE s # t
      <4>1. PICK x \in t : x \notin s
        BY <3>2
      <4>2. t \ {x} \in SUBSET T /\ s \in SUBSET (t \ {x})
        BY <4>1
      <4>3. Cardinality(t \ {x}) = n
        <5>1. Cardinality(t \ {x}) = Cardinality(t) - 1
          BY Smaller
        <5> QED
          BY <2>1, <5>1
      <4>4. SumBy(w, s) <= SumBy(w, t \ {x})
        BY <1>3, <4>2, <4>3
      <4>5. SumBy(w, t) = w[x] + SumBy(w, t \ {x})
        <5>1. IsFiniteSet(t) /\ \A y \in t : w[y] \in Nat
          BY <1>1
        <5> QED
          BY <5>1, SumSplits
      <4>6. SumBy(w, s) \in Nat /\ SumBy(w, t \ {x}) \in Nat /\ w[x] \in Nat
        <5>1. s \in SUBSET T
          OBVIOUS
        <5> QED
          BY <1>1, <4>2, <5>1
      <4> QED
        BY <4>4, <4>5, <4>6
    <3> QED
      BY <3>1, <3>2
  <2> QED
    BY <2>1
<1>4. Cardinality(T) \in U
  <2> HIDE DEF U
  <2> QED
    BY <1>1, <1>2, <1>3, Induct
<1> QED
  BY <1>4

(* Blocks fit into the buffers that ai_copy() of each program allocates.   *)
THEOREM ToolsBlocksFit == Spec => []BlocksFit
<1>1. FirstInv /\ step = "copy" =>
        MapThenSumSet(LAMBDA i : ins[i].channels, opened) * BlockFrames(left)
          <= (info.ambichannels + info.extrachannels) * args.blocksize
  <2> SUFFICES ASSUME FirstInv, step = "copy"
               PROVE  MapThenSumSet(LAMBDA i : ins[i].channels, opened) * BlockFrames(left)
                        <= (info.ambichannels + info.extrachannels) * args.blocksize
    OBVIOUS
  <2>1. ToolTypes /\ opened = Found /\ Divided(info.ambichannels, info.extrachannels)
    BY DEF FirstInv, AllOpen, Meant, Placed
  <2>2. args \in Args
    BY <2>1 DEF ToolTypes
  <2>3. MapThenSumSet(LAMBDA i : ins[i].channels, opened) = SumBy(Widths, opened)
        /\ Channels = SumBy(Widths, DOMAIN ins) /\ opened \in SUBSET DOMAIN ins
    <3>1. opened \in SUBSET DOMAIN ins
      BY <2>1 DEF ToolTypes
    <3> QED
      BY <3>1, WidthsAdd DEF Channels
  <2>4. IsFiniteSet(DOMAIN ins) /\ \A i \in DOMAIN ins : Widths[i] \in Nat
    BY <2>2, Inputs DEF Widths
  <2>5. SumBy(Widths, opened) <= SumBy(Widths, DOMAIN ins)
    BY <2>3, <2>4, SumGrows
  <2>6. SumBy(Widths, opened) \in Nat
    <3>1. IsFiniteSet(opened) /\ \A i \in opened : Widths[i] \in Nat
      BY <2>3, <2>4, FS_Subset
    <3> QED
      BY <3>1, SumSplits
  <2>7. Channels \in Nat /\ args.blocksize \in Nat
    BY <2>2, ChannelsIs, Inputs
  <2>8. PICK a \in Nat, C \in Nat, b \in Nat, B \in Nat :
          /\ a = SumBy(Widths, opened) /\ C = Channels
          /\ b = BlockFrames(left) /\ B = args.blocksize
    BY <2>1, <2>6, <2>7, BlockFramesAre
  <2>9. a <= C /\ b <= B
    BY <2>1, <2>3, <2>5, <2>8, BlockFramesAre
  <2>10. a * b <= C * B
    <3>1. a * b <= C * b /\ a * b \in Nat
      BY <2>9, Product
    <3>2. b * C <= B * C /\ b * C \in Nat
      BY <2>9, Product
    <3>3. b * C = C * b /\ B * C = C * B /\ B * C \in Nat
      OBVIOUS
    <3> QED
      BY <3>1, <3>2, <3>3
  <2>11. C = info.ambichannels + info.extrachannels
    BY <2>1, <2>8 DEF Divided
  <2> QED
    BY <2>3, <2>8, <2>10, <2>11
<1>2. FirstInv /\ SecondInv /\ apart = "copy" =>
        /\ decoder.cols = parts.ambichannels
        /\ decoder.rows = Cardinality(outputs) - parts.extrachannels
        /\ D!BlockFrames(rest) <= blocksize
  <2> SUFFICES ASSUME FirstInv, SecondInv, apart = "copy"
               PROVE  /\ decoder.cols = parts.ambichannels
                      /\ decoder.rows = Cardinality(outputs) - parts.extrachannels
                      /\ D!BlockFrames(rest) <= blocksize
    OBVIOUS
  <2>1. /\ parts = D!InfoOf(outfile) /\ decoder = D!AdaptorOf(outfile) /\ Dividing
        /\ parts.extrachannels \in Nat /\ FileTypes
    BY DEF SecondInv, FirstInv
  <2>2. decoder.cols = parts.ambichannels
    BY <2>1 DEF D!InfoOf
  <2>3. PICK rows \in Nat, extra \in Nat : rows = decoder.rows /\ extra = parts.extrachannels
    BY <2>1, AdaptorTypes
  <2>4. Cardinality(1 .. rows + extra) = rows + extra
    <3>1. rows + extra \in Nat
      BY SumIsNat
    <3> QED
      BY <3>1, CountUpTo, Zenon
  <2>5. Cardinality(outputs) = rows + extra
    BY <2>1, <2>3, <2>4 DEF Dividing, D!NumOuts
  <2>6. rows = (rows + extra) - extra
    OBVIOUS
  <2>7. D!BlockFrames(rest) <= blocksize
    BY <2>1, DividingFrames
  <2> QED
    BY <2>2, <2>3, <2>5, <2>6, <2>7
<1>3. FirstInv /\ SecondInv => BlocksFit
  BY <1>1, <1>2 DEF BlocksFit
<1> QED
  BY <1>3, SecondHolds, PTL
=============================================================================
