--------------------------- MODULE JackPlayProofs ---------------------------
(***************************************************************************)
(* Theorems about JackPlay, for all values of its constants: pokes suffice *)
(* to keep the disk thread going; every variable keeps its type; what is   *)
(* put out is what was read, frame by frame and in order, through ring and *)
(* converter; and at the end no more than these hold is missing.           *)
(***************************************************************************)
EXTENDS JackPlay, SequenceTheorems, NatInduction, TLAPS

(* Bytes in the pipe are counted; the rest is the property itself.         *)
PokeInv == pipe \in Nat /\ NoPokeLost

LEMMA PokeInit == Init => PokeInv
BY DEF Init, PokeInv, NoPokeLost

LEMMA DiskKeepsPokes == PokeInv /\ disk_proc => PokeInv'
<1> SUFFICES ASSUME PokeInv, disk_proc PROVE PokeInv'
  OBVIOUS
<1> USE DEF PokeInv, NoPokeLost, NoSpace, Space, seeking, jack, options, outside
<1>1. CASE LoopTest
  BY <1>1 DEF LoopTest
<1>2. CASE SeekFile \/ ResetSeek
  BY <1>2 DEF SeekFile, ResetSeek
<1>3. CASE Check
  BY <1>3 DEF Check
<1>4. CASE TakePoke
  BY <1>4 DEF TakePoke
<1>5. CASE SpaceFound
  BY <1>5 DEF SpaceFound
<1>6. CASE Load
  BY <1>6 DEF Load
<1>7. CASE LoadSilence \/ Finish
  BY <1>7 DEF LoadSilence, Finish
<1> QED
  BY <1>1, <1>2, <1>3, <1>4, <1>5, <1>6, <1>7 DEF disk_proc

LEMMA CallbackKeepsPokes == PokeInv /\ signal_proc => PokeInv'
<1> SUFFICES ASSUME PokeInv, signal_proc PROVE PokeInv'
  OBVIOUS
<1> USE DEF PokeInv, NoPokeLost, NoSpace, Space, seeking, disc, jack, options, outside
<1>1. ASSUME NEW n \in Periods, Play(n) PROVE PokeInv'
  BY <1>1 DEF Play
<1>2. ASSUME NEW n \in Periods, src_callback_read(n) PROVE PokeInv'
  BY <1>2 DEF src_callback_read
<1>3. CASE read_input_from_rb
  BY <1>3 DEF read_input_from_rb
<1>4. CASE Converted
  BY <1>4 DEF Converted
<1>5. CASE Poke
  BY <1>5 DEF Poke
<1>6. CASE Exit
  BY <1>6 DEF Exit
<1> QED
  BY <1>1, <1>2, <1>3, <1>4, <1>5, <1>6
     DEF signal_proc, Callback, ConverterFails, EndIfStopped, PeriodTooLarge

LEMMA PokeStep == PokeInv /\ [Next]_vars => PokeInv'
<1> SUFFICES ASSUME PokeInv, [Next]_vars PROVE PokeInv'
  OBVIOUS
<1> USE DEF PokeInv, NoPokeLost, NoSpace, Space, seeking, disc, jack, options, outside
<1>1. ASSUME NEW p \in Seeks, sync_handler(p) PROVE PokeInv'
  BY <1>1 DEF sync_handler
<1>2. CASE Transport \/ Signal \/ Close
  BY <1>2 DEF Transport, Signal, Close
<1>3. CASE UNCHANGED vars
  BY <1>3 DEF vars
<1> QED
  BY <1>1, <1>2, <1>3, DiskKeepsPokes, CallbackKeepsPokes DEF Next

(* The disk thread of the player never sleeps over space it could fill,    *)
(* with and without a sample rate converter, whatever the sizes are and    *)
(* however pokes pile up in the pipe.                                      *)
THEOREM PokesSuffice == Spec => []NoPokeLost
<1>1. PokeInv => NoPokeLost
  BY DEF PokeInv
<1> QED
  BY <1>1, PokeInit, PokeStep, PTL DEF Spec

-----------------------------------------------------------------------------
(* The frames of a sequence that are none of silence                       *)

KeptBy(kept, s) ==
  kept = [n \in 0 .. Len(s) |->
            IF n = 0 THEN <<>>
            ELSE IF s[n] > 0 THEN Append(kept[n - 1], s[n]) ELSE kept[n - 1]]

LEMMA KeptExists ==
  ASSUME NEW T, T \subseteq Nat, NEW s \in Seq(T)
  PROVE  \E kept : KeptBy(kept, s)
<1> DEFINE By(g, n) == \A m \in 0 .. n :
             g[m] = IF m = 0 THEN <<>>
                    ELSE IF s[m] > 0 THEN Append(g[m - 1], s[m]) ELSE g[m - 1]
           U == {n \in Nat : \E g : g = [m \in 0 .. n |-> g[m]] /\ By(g, n)}
<1>1. 0 \in U
  <2> DEFINE g == [m \in 0 .. 0 |-> <<>>]
  <2>1. g = [m \in 0 .. 0 |-> g[m]] /\ By(g, 0)
    OBVIOUS
  <2> QED
    BY <2>1
<1>2. ASSUME NEW n \in Nat, n \in U PROVE n + 1 \in U
  <2>1. PICK g : g = [m \in 0 .. n |-> g[m]] /\ By(g, n)
    BY <1>2
  <2> DEFINE last == IF s[n + 1] > 0 THEN Append(g[n], s[n + 1]) ELSE g[n]
             h == [m \in 0 .. n + 1 |-> IF m = n + 1 THEN last ELSE g[m]]
  <2>2. h = [m \in 0 .. n + 1 |-> h[m]]
    OBVIOUS
  <2>3. h[n + 1] = last /\ \A m \in 0 .. n : h[m] = g[m]
    OBVIOUS
  <2> HIDE DEF h
  <2>4. ASSUME NEW m \in 0 .. n + 1
        PROVE  h[m] = IF m = 0 THEN <<>>
                      ELSE IF s[m] > 0 THEN Append(h[m - 1], s[m]) ELSE h[m - 1]
    <3>1. CASE m = n + 1
      <4>1. m # 0 /\ m - 1 = n /\ n \in 0 .. n
        BY <3>1
      <4> QED
        BY <2>3, <3>1, <4>1
    <3>2. CASE m # n + 1
      <4>1. m \in 0 .. n /\ (m # 0 => m - 1 \in 0 .. n)
        BY <3>2
      <4> QED
        BY <2>1, <2>3, <4>1
    <3> QED
      BY <3>1, <3>2
  <2>5. By(h, n + 1)
    BY <2>4
  <2> QED
    BY <2>2, <2>5
<1>3. Nat \subseteq U
  <2> HIDE DEF U
  <2> QED
    BY <1>1, <1>2, Induct
<1>4. PICK g : g = [m \in 0 .. Len(s) |-> g[m]] /\ By(g, Len(s))
  <2>1. Len(s) \in U
    BY <1>3, LenProperties
  <2> QED
    BY <2>1
<1>5. KeptBy(g, s)
  BY <1>4 DEF KeptBy
<1> QED
  BY <1>5

(* How OfFile() goes through a sequence, in as many steps as it is long.   *)
Selection(kept, s, T) ==
  /\ OfFile(s) = kept[Len(s)] /\ kept[0] = <<>>
  /\ \A n \in 0 .. Len(s) : kept[n] \in Seq(T)
  /\ \A n \in 1 .. Len(s) :
       kept[n] = IF s[n] > 0 THEN Append(kept[n - 1], s[n]) ELSE kept[n - 1]

LEMMA Selects ==
  ASSUME NEW T, T \subseteq Nat, NEW s \in Seq(T)
  PROVE  \E kept : Selection(kept, s, T)
<1> DEFINE kept == CHOOSE k : KeptBy(k, s)
<1>1. OfFile(s) = kept[Len(s)]
  BY DEF OfFile, KeptBy
<1>2. KeptBy(kept, s)
  BY KeptExists
<1> HIDE DEF kept
<1>3. Len(s) \in Nat /\ \A n \in 1 .. Len(s) : s[n] \in T
  BY LenProperties
<1>4. \A n \in 0 .. Len(s) :
        kept[n] = IF n = 0 THEN <<>>
                  ELSE IF s[n] > 0 THEN Append(kept[n - 1], s[n]) ELSE kept[n - 1]
  BY <1>2 DEF KeptBy
<1>5. \A n \in 1 .. Len(s) :
        kept[n] = IF s[n] > 0 THEN Append(kept[n - 1], s[n]) ELSE kept[n - 1]
  BY <1>3, <1>4
<1>6. kept[0] = <<>>
  BY <1>3, <1>4
<1> DEFINE U == {n \in Nat : n <= Len(s) => kept[n] \in Seq(T)}
<1>7. 0 \in U
  BY <1>6, EmptySeq
<1>8. ASSUME NEW n \in Nat, n \in U PROVE n + 1 \in U
  <2> SUFFICES ASSUME n + 1 <= Len(s) PROVE kept[n + 1] \in Seq(T)
    OBVIOUS
  <2>1. kept[n] \in Seq(T) /\ n + 1 \in 1 .. Len(s) /\ (n + 1) - 1 = n
    BY <1>3, <1>8
  <2>2. s[n + 1] \in T
    BY <1>3, <2>1
  <2>3. Append(kept[n], s[n + 1]) \in Seq(T)
    BY <2>1, <2>2
  <2> QED
    BY <1>5, <2>1, <2>3
<1>9. Nat \subseteq U
  <2> HIDE DEF U
  <2> QED
    BY <1>7, <1>8, Induct
<1>10. \A n \in 0 .. Len(s) : kept[n] \in Seq(T)
  BY <1>3, <1>9
<1> QED
  BY <1>1, <1>5, <1>6, <1>10 DEF Selection

LEMMA OfFileType ==
  ASSUME NEW T, T \subseteq Nat, NEW s \in Seq(T)
  PROVE  OfFile(s) \in Seq(T) /\ Len(OfFile(s)) \in Nat /\ Len(OfFile(s)) <= Len(s)
<1>1. PICK kept : Selection(kept, s, T)
  BY Selects
<1>2. Len(s) \in Nat /\ \A n \in 1 .. Len(s) : s[n] \in T
  BY LenProperties
<1> DEFINE U == {n \in Nat : n <= Len(s) => Len(kept[n]) <= n}
<1>3. 0 \in U
  BY <1>1, EmptySeq DEF Selection
<1>4. ASSUME NEW n \in Nat, n \in U PROVE n + 1 \in U
  <2> SUFFICES ASSUME n + 1 <= Len(s) PROVE Len(kept[n + 1]) <= n + 1
    OBVIOUS
  <2>1. /\ n \in 0 .. Len(s) /\ n + 1 \in 1 .. Len(s) /\ (n + 1) - 1 = n
        /\ Len(kept[n]) <= n
    BY <1>2, <1>4
  <2>2. /\ kept[n] \in Seq(T) /\ s[n + 1] \in T
        /\ kept[n + 1] = IF s[n + 1] > 0 THEN Append(kept[n], s[n + 1]) ELSE kept[n]
    BY <1>1, <1>2, <2>1 DEF Selection
  <2>3. Len(kept[n]) \in Nat /\ Len(Append(kept[n], s[n + 1])) = Len(kept[n]) + 1
    BY <2>2, AppendProperties, LenProperties
  <2> QED
    BY <2>1, <2>2, <2>3
<1>5. Nat \subseteq U
  <2> HIDE DEF U
  <2> QED
    BY <1>3, <1>4, Induct
<1>6. Len(kept[Len(s)]) <= Len(s) /\ kept[Len(s)] \in Seq(T)
  BY <1>1, <1>2, <1>5 DEF Selection
<1> QED
  BY <1>1, <1>6, LenProperties DEF Selection

(* Nothing is left out of what the file gave ...                           *)
LEMMA OfFileAll ==
  ASSUME NEW T, T \subseteq Nat \ {0}, NEW s \in Seq(T)
  PROVE  OfFile(s) = s
<1>1. PICK kept : Selection(kept, s, T)
  BY Selects
<1>2. Len(s) \in Nat /\ \A n \in 1 .. Len(s) : s[n] \in T /\ s[n] > 0
  <2>1. Len(s) \in Nat /\ \A n \in 1 .. Len(s) : s[n] \in T
    BY LenProperties
  <2>2. ASSUME NEW n \in 1 .. Len(s) PROVE s[n] > 0
    <3>1. s[n] \in Nat \ {0}
      BY <2>1
    <3> QED
      BY <3>1
  <2> QED
    BY <2>1, <2>2
<1> DEFINE U == {n \in Nat : n <= Len(s) =>
                   Len(kept[n]) = n /\ \A i \in 1 .. n : kept[n][i] = s[i]}
<1>3. 0 \in U
  BY <1>1, EmptySeq DEF Selection
<1>4. ASSUME NEW n \in Nat, n \in U PROVE n + 1 \in U
  <2> SUFFICES ASSUME n + 1 <= Len(s)
               PROVE  /\ Len(kept[n + 1]) = n + 1
                      /\ \A i \in 1 .. n + 1 : kept[n + 1][i] = s[i]
    OBVIOUS
  <2>1. /\ n \in 0 .. Len(s) /\ n + 1 \in 1 .. Len(s) /\ (n + 1) - 1 = n
        /\ Len(kept[n]) = n /\ \A i \in 1 .. n : kept[n][i] = s[i]
    BY <1>2, <1>4
  <2>2. /\ kept[n] \in Seq(T) /\ s[n + 1] \in T
        /\ kept[n + 1] = Append(kept[n], s[n + 1])
    BY <1>1, <1>2, <2>1 DEF Selection
  <2>3. /\ Len(kept[n + 1]) = n + 1
        /\ kept[n + 1][n + 1] = s[n + 1]
        /\ \A i \in 1 .. n : kept[n + 1][i] = kept[n][i]
    BY <2>1, <2>2, AppendProperties
  <2> QED
    BY <2>1, <2>3
<1>5. Nat \subseteq U
  <2> HIDE DEF U
  <2> QED
    BY <1>3, <1>4, Induct
<1>6. /\ Len(kept[Len(s)]) = Len(s) /\ kept[Len(s)] \in Seq(T)
      /\ \A i \in 1 .. Len(s) : kept[Len(s)][i] = s[i]
  <2>1. Len(s) \in U /\ Len(s) \in 0 .. Len(s)
    BY <1>2, <1>5
  <2> QED
    BY <1>1, <2>1 DEF Selection
<1> QED
  BY <1>1, <1>6, SeqEqual DEF Selection

(* ... and all of silence.                                                 *)
LEMMA OfFileNone ==
  ASSUME NEW s \in Seq({0})
  PROVE  OfFile(s) = <<>>
<1>1. PICK kept : Selection(kept, s, {0})
  BY Selects
<1>2. Len(s) \in Nat /\ \A n \in 1 .. Len(s) : s[n] = 0
  BY LenProperties
<1> DEFINE U == {n \in Nat : n <= Len(s) => kept[n] = <<>>}
<1>3. 0 \in U
  BY <1>1 DEF Selection
<1>4. ASSUME NEW n \in Nat, n \in U PROVE n + 1 \in U
  <2> SUFFICES ASSUME n + 1 <= Len(s) PROVE kept[n + 1] = <<>>
    OBVIOUS
  <2>1. n + 1 \in 1 .. Len(s) /\ (n + 1) - 1 = n /\ kept[n] = <<>>
    BY <1>2, <1>4
  <2> QED
    BY <1>1, <1>2, <2>1 DEF Selection
<1>5. Nat \subseteq U
  <2> HIDE DEF U
  <2> QED
    BY <1>3, <1>4, Induct
<1> QED
  BY <1>1, <1>2, <1>5 DEF Selection

(* What is left of two sequences in a row is what is left of each.         *)
LEMMA OfFileConcat ==
  ASSUME NEW T, T \subseteq Nat, NEW s \in Seq(T), NEW t \in Seq(T)
  PROVE  OfFile(s \o t) = OfFile(s) \o OfFile(t)
<1> DEFINE st == s \o t
<1>1. /\ st \in Seq(T) /\ Len(st) = Len(s) + Len(t)
      /\ \A i \in 1 .. Len(s) + Len(t) :
           st[i] = IF i <= Len(s) THEN s[i] ELSE t[i - Len(s)]
  BY ConcatProperties
<1> HIDE DEF st
<1>2. PICK f : Selection(f, s, T)
  BY Selects
<1>3. PICK g : Selection(g, t, T)
  BY Selects
<1>4. PICK h : Selection(h, st, T)
  BY <1>1, Selects
<1>5. /\ Len(s) \in Nat /\ Len(t) \in Nat
      /\ \A n \in 1 .. Len(s) : s[n] \in T
      /\ \A n \in 1 .. Len(t) : t[n] \in T
  BY LenProperties
<1>a. PICK a \in Nat, b \in Nat : a = Len(s) /\ b = Len(t) /\ a + b = Len(st)
  BY <1>1, <1>5
<1>6. \A n \in Nat : n <= a => h[n] = f[n]
  <2> DEFINE U == {n \in Nat : n <= a => h[n] = f[n]}
  <2>1. 0 \in U
    BY <1>2, <1>4, <1>a DEF Selection
  <2>2. ASSUME NEW n \in Nat, n \in U PROVE n + 1 \in U
    <3> SUFFICES ASSUME n + 1 <= a PROVE h[n + 1] = f[n + 1]
      OBVIOUS
    <3>1. /\ n + 1 \in 1 .. a /\ n + 1 \in 1 .. a + b /\ (n + 1) - 1 = n
          /\ h[n] = f[n] /\ n + 1 \in 1 .. a + b
      BY <1>a, <2>2
    <3>2. st[n + 1] = s[n + 1]
      BY <1>1, <1>a, <3>1
    <3> QED
      BY <1>2, <1>4, <1>a, <3>1, <3>2 DEF Selection
  <2>3. Nat \subseteq U
    <3> HIDE DEF U
    <3> QED
      BY <2>1, <2>2, Induct
  <2> QED
    BY <2>3
<1> DEFINE c == [n \in 0 .. b |-> f[a] \o g[n]]
<1>b. f[a] \in Seq(T) /\ g[0] = <<>> /\ \A n \in 0 .. b : g[n] \in Seq(T)
  BY <1>2, <1>3, <1>a DEF Selection
<1>c. c[0] = f[a] /\ c[b] = f[a] \o g[b]
  <2>0. 0 \in 0 .. b /\ b \in 0 .. b
    BY <1>a
  <2>1. c[0] = f[a] \o <<>> /\ c[b] = f[a] \o g[b]
    BY <1>b, <2>0, Zenon
  <2> QED
    BY <1>b, <2>1, ConcatEmptySeq
<1>d. ASSUME NEW n \in Nat, n + 1 <= b
      PROVE  c[n + 1] = IF t[n + 1] > 0 THEN Append(c[n], t[n + 1]) ELSE c[n]
  <2>1. n \in 0 .. b /\ n + 1 \in 0 .. b /\ n + 1 \in 1 .. b /\ (n + 1) - 1 = n
    BY <1>a, <1>d
  <2>2. g[n + 1] = IF t[n + 1] > 0 THEN Append(g[n], t[n + 1]) ELSE g[n]
    BY <1>3, <1>a, <2>1 DEF Selection
  <2>3. t[n + 1] \in T /\ g[n] \in Seq(T)
    BY <1>5, <1>a, <1>b, <2>1
  <2>4. Append(f[a] \o g[n], t[n + 1]) = f[a] \o Append(g[n], t[n + 1])
    <3> HIDE DEF c
    <3>1. PICK u \in Seq(T), v \in Seq(T), e \in T : u = f[a] /\ v = g[n] /\ e = t[n + 1]
      BY <1>b, <2>3
    <3>2. u \in Seq(T) /\ v \in Seq(T) /\ e \in T
      BY <3>1
    <3>3. Append(u \o v, e) = u \o Append(v, e)
      <4>1. u \o v \in Seq(T) /\ <<e>> \in Seq(T)
        BY <3>2
      <4>2. Append(u \o v, e) = (u \o v) \o <<e>>
        BY <3>2, <4>1, AppendIsConcat
      <4>3. Append(v, e) = v \o <<e>>
        BY <3>2, AppendIsConcat
      <4>4. u \o (v \o <<e>>) = (u \o v) \o <<e>>
        BY <3>2, <4>1, ConcatAssociative
      <4> QED
        BY <4>2, <4>3, <4>4, Zenon
    <3> QED
      BY <3>1, <3>3, Zenon
  <2>5. c[n] = f[a] \o g[n] /\ c[n + 1] = f[a] \o g[n + 1]
    BY <2>1, Zenon
  <2>6. CASE t[n + 1] > 0
    BY <2>2, <2>4, <2>5, <2>6, Zenon
  <2>7. CASE ~ (t[n + 1] > 0)
    BY <2>2, <2>5, <2>7, Zenon
  <2> HIDE DEF c
  <2> QED
    BY <2>6, <2>7, Zenon
<1> HIDE DEF c
<1>7. \A n \in Nat : n <= b => h[a + n] = c[n]
  <2> DEFINE U == {n \in Nat : n <= b => h[a + n] = c[n]}
  <2>1. 0 \in U
    BY <1>a, <1>c, <1>6
  <2>2. ASSUME NEW n \in Nat, n \in U PROVE n + 1 \in U
    <3> SUFFICES ASSUME n + 1 <= b PROVE h[a + (n + 1)] = c[n + 1]
      BY <1>a
    <3>1. /\ n + 1 \in 1 .. b
          /\ a + (n + 1) \in 1 .. a + b /\ (a + (n + 1)) - 1 = a + n
          /\ (a + (n + 1)) - a = n + 1 /\ ~ (a + (n + 1) <= a)
          /\ h[a + n] = c[n]
      BY <1>a, <2>2
    <3>2. st[a + (n + 1)] = t[n + 1]
      BY <1>1, <1>a, <3>1
    <3>3. h[a + (n + 1)] = IF t[n + 1] > 0 THEN Append(c[n], t[n + 1]) ELSE c[n]
      BY <1>4, <1>a, <3>1, <3>2 DEF Selection
    <3> QED
      BY <1>d, <3>3
  <2>3. Nat \subseteq U
    <3> HIDE DEF U
    <3> QED
      BY <2>1, <2>2, Induct
  <2> QED
    BY <2>3
<1>8. h[a + b] = f[a] \o g[b]
  <2>1. h[a + b] = c[b]
    BY <1>a, <1>7
  <2> QED
    BY <1>c, <2>1, Zenon
<1>9. OfFile(st) = OfFile(s) \o OfFile(t)
  BY <1>2, <1>3, <1>4, <1>a, <1>8 DEF Selection
<1> QED
  BY <1>9 DEF st

-----------------------------------------------------------------------------
(* The frames the converter makes of a sequence                            *)

Stretch(r, s) == [i \in 1 .. r * Len(s) |-> s[1 + (i - 1) \div r]]

LEMMA Division ==
  ASSUME NEW a \in Nat, NEW r \in Nat, r > 0
  PROVE  /\ a \div r \in Nat /\ a % r \in 0 .. r - 1
         /\ a = r * (a \div r) + (a % r)
OBVIOUS

(* A quotient is what it is by its remainder.                              *)
LEMMA Unique ==
  ASSUME NEW r \in Nat, NEW q \in Nat, NEW p \in Nat, NEW x \in 0 .. r - 1,
         NEW y \in 0 .. r - 1, r * q + x = r * p + y
  PROVE  q = p
<1>1. ASSUME NEW u \in Nat, NEW v \in Nat, u < v PROVE r * v >= r * u + r
  <2>1. PICK d \in Nat : v = u + 1 + d
    <3>1. v - u - 1 \in Nat /\ v = u + 1 + (v - u - 1)
      BY <1>1
    <3> QED
      BY <3>1
  <2>2. r * d \in Nat /\ r * v = r * u + r + r * d
    BY <2>1
  <2> QED
    BY <2>2
<1>2. r * q \in Nat /\ r * p \in Nat
  OBVIOUS
<1>3. CASE q < p
  <2>1. r * p >= r * q + r
    BY <1>1, <1>3
  <2> QED
    BY <1>2, <2>1
<1>4. CASE p < q
  <2>1. r * q >= r * p + r
    BY <1>1, <1>4
  <2> QED
    BY <1>2, <2>1
<1> QED
  BY <1>3, <1>4

LEMMA Below ==
  ASSUME NEW r \in Nat, NEW l \in Nat, NEW i \in 1 .. r * l
  PROVE  1 + (i - 1) \div r \in 1 .. l
<1>1. r > 0 /\ i - 1 \in Nat /\ r * l \in Nat
  <2>1. r = 0 => r * l = 0
    OBVIOUS
  <2> QED
    BY <2>1
<1>2. PICK q \in Nat, x \in 0 .. r - 1 : q = (i - 1) \div r /\ i - 1 = r * q + x
  BY <1>1, Division
<1>3. q < l
  <2> SUFFICES ASSUME q >= l PROVE FALSE
    BY <1>2
  <2>1. PICK d \in Nat : q = l + d
    <3>1. q - l \in Nat /\ q = l + (q - l)
      BY <1>2
    <3> QED
      BY <3>1
  <2>2. r * q = r * l + r * d /\ r * d \in Nat
    BY <2>1
  <2> QED
    BY <1>1, <1>2, <2>2
<1> QED
  BY <1>2, <1>3

LEMMA Beyond ==
  ASSUME NEW r \in Nat, r > 0, NEW l \in Nat, NEW j \in Nat
  PROVE  (r * l + j) \div r = l + j \div r
<1>1. PICK q \in Nat, x \in 0 .. r - 1 : q = j \div r /\ j = r * q + x
  BY Division
<1>2. r * l + j \in Nat
  OBVIOUS
<1>3. PICK p \in Nat, y \in 0 .. r - 1 : p = (r * l + j) \div r /\ r * l + j = r * p + y
  BY <1>2, Division
<1>4. r * (l + q) = r * l + r * q
  BY <1>1
<1>5. r * (l + q) + x = r * p + y
  BY <1>1, <1>3, <1>4
<1>6. l + q = p
  BY <1>1, <1>3, <1>5, Unique
<1> QED
  BY <1>1, <1>3, <1>6

LEMMA StretchType ==
  ASSUME NEW T, NEW s \in Seq(T), NEW r \in Nat
  PROVE  /\ Stretch(r, s) \in Seq(T) /\ Len(Stretch(r, s)) = r * Len(s)
         /\ \A i \in 1 .. r * Len(s) : Stretch(r, s)[i] = s[1 + (i - 1) \div r]
<1>1. PICK l \in Nat : l = Len(s)
  BY LenProperties
<1>2. r * l \in Nat
  BY <1>1
<1>3. ASSUME NEW i \in 1 .. r * l PROVE s[1 + (i - 1) \div r] \in T
  <2>1. PICK k \in 1 .. l : k = 1 + (i - 1) \div r
    BY Below
  <2> QED
    BY <1>1, <2>1, ElementOfSeq
<1>4. Stretch(r, s) \in [1 .. r * l -> T]
  BY <1>1, <1>3 DEF Stretch
<1>5. Stretch(r, s) \in Seq(T) /\ Len(Stretch(r, s)) = r * l
  <2> HIDE DEF Stretch
  <2> QED
    BY <1>2, <1>4, SeqDef
<1> QED
  BY <1>1, <1>5 DEF Stretch

(* Without conversion a frame is a frame.                                  *)
LEMMA StretchOne ==
  ASSUME NEW T, NEW s \in Seq(T)
  PROVE  Stretch(1, s) = s
<1>1. PICK l \in Nat : l = Len(s)
  BY LenProperties
<1>2. 1 * l = l /\ \A i \in 1 .. l : 1 + (i - 1) \div 1 = i
  OBVIOUS
<1>3. /\ Stretch(1, s) \in Seq(T) /\ Len(Stretch(1, s)) = 1 * Len(s)
      /\ \A i \in 1 .. 1 * Len(s) : Stretch(1, s)[i] = s[1 + (i - 1) \div 1]
  BY StretchType
<1>4. /\ Len(Stretch(1, s)) = l
      /\ \A i \in 1 .. l : Stretch(1, s)[i] = s[i]
  BY <1>1, <1>2, <1>3
<1> QED
  BY <1>1, <1>3, <1>4, SeqEqual

LEMMA StretchConcat ==
  ASSUME NEW T, NEW s \in Seq(T), NEW t \in Seq(T), NEW r \in Nat
  PROVE  Stretch(r, s \o t) = Stretch(r, s) \o Stretch(r, t)
<1> DEFINE st == s \o t
<1>1. /\ st \in Seq(T) /\ Len(st) = Len(s) + Len(t)
      /\ \A i \in 1 .. Len(s) + Len(t) :
           st[i] = IF i <= Len(s) THEN s[i] ELSE t[i - Len(s)]
  BY ConcatProperties
<1> HIDE DEF st
<1>2. PICK a \in Nat, b \in Nat : a = Len(s) /\ b = Len(t) /\ a + b = Len(st)
  BY <1>1, LenProperties
<1> DEFINE x == Stretch(r, s)
           y == Stretch(r, t)
           z == Stretch(r, st)
           xy == x \o y
<1>3. PICK m \in Nat, n \in Nat : m = r * a /\ n = r * b /\ m + n = r * (a + b)
  <2>1. r * a \in Nat /\ r * b \in Nat /\ r * (a + b) = r * a + r * b
    BY <1>2
  <2> QED
    BY <2>1
<1>4. x \in Seq(T) /\ Len(x) = m /\ \A i \in 1 .. m : x[i] = s[1 + (i - 1) \div r]
  BY <1>2, <1>3, StretchType
<1>5. y \in Seq(T) /\ Len(y) = n /\ \A i \in 1 .. n : y[i] = t[1 + (i - 1) \div r]
  BY <1>2, <1>3, StretchType
<1>6. z \in Seq(T) /\ Len(z) = m + n
      /\ \A i \in 1 .. m + n : z[i] = st[1 + (i - 1) \div r]
  <2>1. r * Len(st) = m + n
    BY <1>2, <1>3
  <2>2. z \in Seq(T) /\ Len(z) = r * Len(st)
        /\ \A i \in 1 .. r * Len(st) : z[i] = st[1 + (i - 1) \div r]
    BY <1>1, StretchType
  <2> HIDE DEF z
  <2> QED
    BY <2>1, <2>2
<1> HIDE DEF x, y, z
<1>7. /\ xy \in Seq(T) /\ Len(xy) = m + n
      /\ \A i \in 1 .. m + n : xy[i] = IF i <= m THEN x[i] ELSE y[i - m]
  BY <1>4, <1>5, ConcatProperties
<1> HIDE DEF xy
<1>8. ASSUME NEW i \in 1 .. m + n PROVE z[i] = xy[i]
  <2>1. CASE i <= m
    <3>1. i \in 1 .. m /\ i \in 1 .. r * a
      BY <1>3, <2>1
    <3>2. PICK k \in 1 .. a : k = 1 + (i - 1) \div r
      BY <1>2, <3>1, Below
    <3>3. k \in 1 .. Len(s) + Len(t) /\ k <= Len(s)
      BY <1>2, <3>2
    <3>4. st[k] = s[k]
      BY <1>1, <3>3
    <3> QED
      BY <1>4, <1>6, <1>7, <2>1, <3>1, <3>2, <3>4
  <2>2. CASE i > m
    <3>1. i - m \in 1 .. n /\ i - m \in 1 .. r * b /\ (i - m) - 1 \in Nat
          /\ i - 1 = m + ((i - m) - 1) /\ r > 0
      <4>1. i - m \in 1 .. n /\ (i - m) - 1 \in Nat /\ i - 1 = m + ((i - m) - 1)
        BY <1>3, <2>2
      <4>2. r = 0 => n = 0
        BY <1>3, <1>2
      <4> QED
        BY <1>3, <4>1, <4>2
    <3>2. PICK k \in 1 .. b : k = 1 + ((i - m) - 1) \div r
      BY <1>2, <3>1, Below
    <3>3. (i - 1) \div r = a + ((i - m) - 1) \div r
      <4>1. PICK j \in Nat : j = (i - m) - 1
        BY <3>1
      <4>2. (r * a + j) \div r = a + j \div r
        BY <3>1, Beyond
      <4> QED
        BY <1>3, <3>1, <4>1, <4>2
    <3>4. ((i - m) - 1) \div r \in Nat
      BY <3>1, Division
    <3>5. 1 + (i - 1) \div r = a + k
      BY <1>2, <3>2, <3>3, <3>4
    <3>6. a + k \in 1 .. Len(s) + Len(t) /\ ~ (a + k <= Len(s)) /\ (a + k) - Len(s) = k
      BY <1>2, <3>2
    <3>7. st[a + k] = t[k]
      BY <1>1, <3>6
    <3>8. z[i] = t[k]
      BY <1>6, <3>5, <3>7
    <3>9. y[i - m] = t[k]
      BY <1>5, <3>1, <3>2
    <3> QED
      <4>1. ~ (i <= m)
        BY <1>3, <2>2
      <4>2. xy[i] = y[i - m]
        BY <1>7, <4>1
      <4> QED
        BY <3>8, <3>9, <4>2
  <2> QED
    BY <1>3, <2>1, <2>2
<1>9. z = xy
  BY <1>6, <1>7, <1>8, SeqEqual
<1> QED
  BY <1>9 DEF x, y, z, st, xy


-----------------------------------------------------------------------------
(* The invariant                                                           *)

LEMMA Constants ==
  /\ FileFrames \in Nat /\ BufferFrames \in Nat /\ BufferFrames > 0
  /\ RingFrames \in Nat /\ MinimalFrames \in Nat /\ RequestFrames \in Nat
  /\ Ratios \subseteq Nat /\ Seeks \subseteq Nat /\ Periods \subseteq Nat \ {0}
  /\ PipeBytes \in Nat /\ MaxSeeks \in Nat
BY JackPlayAssumption DEF JackPlayAssumption

OfTheFile == 1 .. FileFrames

Chosen ==
  /\ o \in Options /\ src_ratio \in Ratios \cup {1}
  /\ ~ Converts => src_ratio = 1

Asked ==
  /\ seek_request \in Seeks \cup {-1} /\ wanted \in Seeks \cup {-1}
  /\ asked \in 0 .. MaxSeeks

Where ==
  /\ disk \in {"top", "seeks", "has sought", "checks", "polls", "reads", "done"}
  /\ callback \in {"idle", "converting", "poking"}
  /\ pipe \in 0 .. PipeBytes
  /\ rolling \in BOOLEAN /\ signalled \in BOOLEAN
  /\ program \in {"running", "failed", "closed"}

(* What the disk thread reads fits into the ring, which others only empty, *)
(* and it ends at the end of the file unless it was told to.               *)
Reading ==
  /\ position \in Frames /\ nframes \in 0 .. BufferFrames
  /\ disk = "reads" => Len(rb) + nframes <= RingFrames
  /\ MinimalFrames > 0 /\ disk = "reads" => nframes >= 1
  /\ MinimalFrames > 0 /\ disk = "done" /\ ~ signalled => position = FileFrames

Buffers ==
  /\ rb \in Seq(Frames) /\ Len(rb) <= RingFrames
  /\ src \in Seq(Frames) /\ Len(src) <= BufferFrames + src_ratio * RequestFrames
  /\ period \in {0} \cup Periods /\ period <= BufferFrames
  /\ callback = "converting" => Converts
  /\ ~ Converts => src = <<>>
  /\ loaded \in Seq(OfTheFile) /\ played \in Seq(Frames)

(* No frame of the file is lost on its way, and none comes twice: what has *)
(* been put out, what the converter has and what is in the ring, silence   *)
(* left out, is what has been read.                                        *)
Cat(s, t) == s \o t

Conserved ==
  Stretched(loaded) = Cat(played, Cat(OfFile(src), OfFile(Stretched(rb))))

PlayInv == Chosen /\ Asked /\ Where /\ Reading /\ Buffers /\ Conserved

LEMMA StretchedIs == \A s : Stretched(s) = Stretch(src_ratio, s)
BY DEF Stretched, Stretch

LEMMA Ratio == Chosen => src_ratio \in Nat
BY Constants DEF Chosen

LEMMA FrameSets == OfTheFile \subseteq Frames /\ Frames \subseteq Nat /\ 0 \in Frames
                   /\ OfTheFile \subseteq Nat \ {0}
BY Constants DEF OfTheFile, Frames

LEMMA PlayInit == Init => PlayInv
<1> SUFFICES ASSUME Init PROVE PlayInv
  OBVIOUS
<1>1. Chosen
  BY DEF Init, Chosen, Converts
<1>2. src_ratio \in Nat
  BY <1>1, Ratio
<1>3. Asked
  BY Constants DEF Init, Asked, Place
<1>4. Where
  <2>1. 0 \in 0 .. PipeBytes
    BY Constants
  <2>2. rolling \in BOOLEAN
    BY Zenon DEF Init, Aware
  <2> QED
    BY <2>1, <2>2 DEF Init, Where
<1>5. Reading
  BY Constants DEF Init, Reading, Frames
<1>6. Buffers
  <2>1. src_ratio * RequestFrames \in Nat /\ BufferFrames \in Nat /\ RingFrames \in Nat
    BY <1>2, Constants
  <2> QED
    BY <2>1, EmptySeq DEF Init, Buffers
<1>7. Conserved
  <2>1. Stretched(<<>>) = <<>>
    <3>1. src_ratio * 0 = 0 /\ Len(<<>>) = 0
      BY <1>2
    <3> QED
      BY <3>1 DEF Stretched
  <2>2. OfFile(<<>>) = <<>>
    BY OfFileNone, EmptySeq
  <2>3. <<>> = <<>> \o (<<>> \o <<>>)
    OBVIOUS
  <2> QED
    BY <2>1, <2>2, <2>3, Zenon DEF Init, Conserved, Cat
<1> QED
  BY <1>1, <1>3, <1>4, <1>5, <1>6, <1>7 DEF PlayInv

-----------------------------------------------------------------------------
(* The steps                                                               *)

(* Most steps move no frame.                                               *)
LEMMA QuietKeeps ==
  ASSUME Chosen, Buffers, Conserved, UNCHANGED <<options, rb, loaded, played, src>>,
         period' = period, callback' = "converting" => callback = "converting"
  PROVE  Chosen' /\ Buffers' /\ Conserved'
<1>1. UNCHANGED <<o, src_ratio, rb, loaded, played, src, period>>
  BY DEF options
<1> QED
  BY <1>1 DEF Chosen, Buffers, Conserved, Converts, Stretched

LEMMA DiskMoves ==
  ASSUME PlayInv, LoopTest \/ SeekFile \/ ResetSeek \/ Check \/ TakePoke \/ SpaceFound \/ Finish
  PROVE  PlayInv'
<1>0. Chosen /\ Asked /\ Where /\ Reading /\ Buffers /\ Conserved
  BY DEF PlayInv
<1>1. UNCHANGED <<options, rb, loaded, jack, outside>>
  <2>1. CASE LoopTest
    BY <2>1 DEF LoopTest
  <2>2. CASE SeekFile \/ ResetSeek
    BY <2>2 DEF SeekFile, ResetSeek
  <2>3. CASE Check \/ TakePoke \/ SpaceFound \/ Finish
    BY <2>3 DEF Check, TakePoke, SpaceFound, Finish
  <2> QED
    BY <2>1, <2>2, <2>3
<1>2. Chosen' /\ Buffers' /\ Conserved'
  BY <1>0, <1>1, QuietKeeps DEF jack
<1>3. Len(rb) \in Nat /\ rb' = rb /\ signalled' = signalled
  BY <1>0, <1>1 DEF Buffers, outside
<1>4. callback' = callback /\ rolling' = rolling /\ program' = program
  BY <1>1 DEF jack, outside
<1> USE DEF Asked, Where, Reading, seeking
<1>5. CASE LoopTest
  <2>1. /\ UNCHANGED <<seek_request, wanted, asked, pipe, position, nframes>>
        /\ disk' \in {"done", "seeks", "checks"}
        /\ disk' = "done" => signalled
    BY <1>5 DEF LoopTest
  <2> QED
    BY <1>0, <1>2, <1>3, <1>4, <2>1 DEF PlayInv
<1>6. CASE SeekFile
  <2>1. /\ UNCHANGED <<seek_request, asked, pipe, nframes>> /\ disk' = "has sought"
        /\ \/ UNCHANGED <<position, wanted>>
           \/ /\ position' = seek_request /\ seek_request # -1 /\ seek_request <= FileFrames
              /\ wanted' \in {wanted, -1}
    BY <1>6 DEF SeekFile, Place
  <2>2. position' \in Frames /\ wanted' \in Seeks \cup {-1}
    <3>1. seek_request \in Seeks /\ seek_request <= FileFrames => seek_request \in Frames
      BY Constants DEF Frames
    <3> QED
      BY <1>0, <2>1, <3>1
  <2> QED
    BY <1>0, <1>2, <1>3, <1>4, <2>1, <2>2 DEF PlayInv
<1>7. CASE ResetSeek
  <2>1. /\ UNCHANGED <<wanted, asked, pipe, position, nframes>>
        /\ seek_request' = -1 /\ disk' = "checks"
    BY <1>7 DEF ResetSeek
  <2> QED
    BY <1>0, <1>2, <1>3, <1>4, <2>1 DEF PlayInv
<1>8. CASE Check \/ TakePoke
  <2>1. /\ UNCHANGED <<seek_request, wanted, asked, position, nframes>>
        /\ disk' \in {"polls", "checks"} /\ pipe' \in 0 .. PipeBytes
    <3>1. CASE Check
      BY <1>0, <3>1 DEF Check
    <3>2. CASE TakePoke
      BY <1>0, <3>2, Constants DEF TakePoke
    <3> QED
      BY <1>8, <3>1, <3>2
  <2> QED
    BY <1>0, <1>2, <1>3, <1>4, <2>1 DEF PlayInv
<1>9. CASE SpaceFound
  <2>1. /\ UNCHANGED <<seek_request, wanted, asked, pipe, position>>
        /\ disk' = "reads" /\ nframes' = Writable /\ ~ NoSpace
    BY <1>9 DEF SpaceFound
  <2>2. /\ nframes' \in 0 .. BufferFrames /\ Len(rb) + nframes' <= RingFrames
        /\ MinimalFrames > 0 => nframes' >= 1
    BY <1>3, <2>1, Constants DEF Writable, AtMost, NoSpace, Space
  <2> QED
    BY <1>0, <1>2, <1>3, <1>4, <2>1, <2>2 DEF PlayInv
<1>10. CASE Finish
  <2>1. /\ UNCHANGED <<seek_request, wanted, asked, pipe, position, nframes>>
        /\ disk' = "done" /\ disk = "reads" /\ Readable = 0
    BY <1>10 DEF Finish, EndOfFile
  <2>2. MinimalFrames > 0 => position = FileFrames
    BY <1>0, <2>1, Constants DEF Readable, AtMost, Frames
  <2> QED
    BY <1>0, <1>2, <1>3, <1>4, <2>1, <2>2 DEF PlayInv
<1> QED
  BY <1>5, <1>6, <1>7, <1>8, <1>9, <1>10

(* Frames in a row.                                                        *)
LEMMA CatType ==
  ASSUME NEW T, NEW s \in Seq(T), NEW t \in Seq(T)
  PROVE  Cat(s, t) \in Seq(T) /\ Len(Cat(s, t)) = Len(s) + Len(t)
BY ConcatProperties DEF Cat

LEMMA CatCat ==
  ASSUME NEW s \in Seq(Frames), NEW t \in Seq(Frames), NEW u \in Seq(Frames)
  PROVE  Cat(Cat(s, t), u) = Cat(s, Cat(t, u))
BY ConcatAssociative DEF Cat

LEMMA CatEmpty ==
  ASSUME NEW s \in Seq(Frames)
  PROVE  Cat(s, <<>>) = s /\ Cat(<<>>, s) = s
BY ConcatEmptySeq DEF Cat

(* A sequence is its first n elements and the rest.                        *)
LEMMA Split ==
  ASSUME NEW T, NEW s \in Seq(T), NEW n \in 0 .. Len(s)
  PROVE  /\ SubSeq(s, 1, n) \in Seq(T) /\ SubSeq(s, n + 1, Len(s)) \in Seq(T)
         /\ Len(SubSeq(s, 1, n)) = n
         /\ Len(SubSeq(s, n + 1, Len(s))) = Len(s) - n
         /\ Cat(SubSeq(s, 1, n), SubSeq(s, n + 1, Len(s))) = s
<1>1. PICK l \in Nat : l = Len(s)
  BY LenProperties
<1>2. \A i \in 1 .. l : s[i] \in T
  BY <1>1, ElementOfSeq
<1>3. /\ SubSeq(s, 1, n) \in Seq(T) /\ Len(SubSeq(s, 1, n)) = n
  <2>1. \A i \in 1 .. n : s[i] \in T
    BY <1>1, <1>2
  <2>2. /\ SubSeq(s, 1, n) \in Seq(T)
        /\ Len(SubSeq(s, 1, n)) = IF 1 <= n THEN n - 1 + 1 ELSE 0
    BY <2>1, SubSeqProperties
  <2> QED
    BY <2>2
<1>4. /\ SubSeq(s, n + 1, l) \in Seq(T) /\ Len(SubSeq(s, n + 1, l)) = l - n
  <2>1. \A i \in n + 1 .. l : s[i] \in T
    BY <1>1, <1>2
  <2>2. /\ SubSeq(s, n + 1, l) \in Seq(T)
        /\ Len(SubSeq(s, n + 1, l)) = IF n + 1 <= l THEN l - (n + 1) + 1 ELSE 0
    BY <2>1, SubSeqProperties
  <2> QED
    BY <1>1, <2>2
<1>5. SubSeq(s, 1, n) \o SubSeq(s, n + 1, l) = s
  <2>1. 1 \in 1 .. l + 1 /\ n \in 1 - 1 .. l /\ l \in n .. l
    BY <1>1
  <2>2. SubSeq(s, 1, n) \o SubSeq(s, n + 1, l) = SubSeq(s, 1, l)
    BY <1>1, <2>1, ConcatAdjacentSubSeq
  <2> QED
    BY <1>1, <2>2, SubSeqFull
<1> QED
  BY <1>1, <1>3, <1>4, <1>5 DEF Cat

LEMMA SilenceIs ==
  ASSUME NEW n \in Nat
  PROVE  /\ Silence(n) \in Seq({0}) /\ Silence(n) \in Seq(Frames) /\ Len(Silence(n)) = n
<1>1. Silence(n) \in [1 .. n -> {0}]
  BY DEF Silence
<1>2. Silence(n) \in [1 .. n -> Frames]
  BY FrameSets DEF Silence
<1> QED
  BY <1>1, <1>2, SeqDef

(* What a sequence comes to behind the converter.                          *)
LEMMA Heard ==
  ASSUME NEW r \in Nat, NEW s \in Seq(Frames)
  PROVE  /\ Stretch(r, s) \in Seq(Frames) /\ OfFile(s) \in Seq(Frames)
         /\ OfFile(Stretch(r, s)) \in Seq(Frames)
<1>1. Stretch(r, s) \in Seq(Frames)
  BY StretchType
<1> QED
  BY <1>1, FrameSets, OfFileType

LEMMA HeardConcat ==
  ASSUME NEW r \in Nat, NEW s \in Seq(Frames), NEW t \in Seq(Frames)
  PROVE  /\ Stretch(r, Cat(s, t)) = Cat(Stretch(r, s), Stretch(r, t))
         /\ OfFile(Cat(s, t)) = Cat(OfFile(s), OfFile(t))
         /\ OfFile(Stretch(r, Cat(s, t))) = Cat(OfFile(Stretch(r, s)), OfFile(Stretch(r, t)))
<1>1. \A x, y \in Seq(Frames) : OfFile(Cat(x, y)) = Cat(OfFile(x), OfFile(y))
  BY FrameSets, OfFileConcat DEF Cat
<1>2. Stretch(r, Cat(s, t)) = Cat(Stretch(r, s), Stretch(r, t))
  BY StretchConcat DEF Cat
<1>3. Stretch(r, s) \in Seq(Frames) /\ Stretch(r, t) \in Seq(Frames)
  BY StretchType
<1> QED
  BY <1>1, <1>2, <1>3

LEMMA HeardSilence ==
  ASSUME NEW r \in Nat, NEW n \in Nat
  PROVE  OfFile(Stretch(r, Silence(n))) = <<>>
<1>1. Stretch(r, Silence(n)) \in Seq({0})
  BY SilenceIs, StretchType
<1> QED
  BY <1>1, OfFileNone

LEMMA HeardAll ==
  ASSUME NEW r \in Nat, NEW s \in Seq(OfTheFile)
  PROVE  OfFile(Stretch(r, s)) = Stretch(r, s)
<1>1. Stretch(r, s) \in Seq(OfTheFile)
  BY StretchType
<1> QED
  BY <1>1, FrameSets, OfFileAll

LEMMA LoadKeeps ==
  ASSUME PlayInv, Load
  PROVE  PlayInv'
<1>0. Chosen /\ Asked /\ Where /\ Reading /\ Buffers /\ Conserved
  BY DEF PlayInv
<1>1. PICK r \in Nat : r = src_ratio
  BY <1>0, Ratio
<1>2. /\ UNCHANGED <<o, src_ratio, seek_request, wanted, asked, pipe, nframes, src, callback,
                     period, played, rolling, signalled, program>>
      /\ disk = "reads" /\ disk' = "top" /\ ~ (Readable = 0)
      /\ position' = position + Readable
      /\ rb' = rb \o [i \in 1 .. Readable |-> position + i]
      /\ loaded' = loaded \o [i \in 1 .. Readable |-> position + i]
  BY DEF Load, EndOfFile, options, seeking, jack, outside
<1>3. /\ position \in Nat /\ position <= FileFrames /\ nframes \in Nat
      /\ Len(rb) + nframes <= RingFrames /\ FileFrames \in Nat
  BY <1>0, <1>2, Constants DEF Reading, Frames
<1>4. PICK n \in 1 .. nframes : n = Readable /\ position + n <= FileFrames
  <2>1. PICK a \in Nat : a = FileFrames - position
    BY <1>3
  <2>2. Readable = IF nframes < a THEN nframes ELSE a
    BY <2>1 DEF Readable, AtMost
  <2>3. Readable \in 1 .. nframes /\ position + Readable <= FileFrames
    BY <1>2, <1>3, <2>1, <2>2
  <2> QED
    BY <2>3
<1> DEFINE block == [i \in 1 .. n |-> position + i]
<1>5. block \in Seq(OfTheFile) /\ block \in Seq(Frames) /\ Len(block) = n
  <2>1. \A i \in 1 .. n : position + i \in OfTheFile
    BY <1>3, <1>4 DEF OfTheFile
  <2>2. block \in [1 .. n -> OfTheFile] /\ block \in [1 .. n -> Frames]
    BY <2>1, FrameSets
  <2>3. n \in Nat
    BY <1>4
  <2> QED
    BY <2>2, <2>3, SeqDef
<1>6. rb' = Cat(rb, block) /\ loaded' = Cat(loaded, block)
  BY <1>2, <1>4 DEF Cat
<1> HIDE DEF block
<1>7. rb \in Seq(Frames) /\ loaded \in Seq(OfTheFile) /\ src \in Seq(Frames)
      /\ played \in Seq(Frames) /\ loaded \in Seq(Frames)
  BY <1>0, FrameSets, SeqMonotonic DEF Buffers
<1>8. /\ rb' \in Seq(Frames) /\ Len(rb') = Len(rb) + n /\ loaded' \in Seq(OfTheFile)
  BY <1>5, <1>6, <1>7, CatType
<1>9. Buffers'
  <2>1. Len(rb') <= RingFrames
    <3>1. Len(rb) \in Nat
      BY <1>7, LenProperties
    <3> QED
      BY <1>3, <1>4, <1>8, <3>1, Constants
  <2> QED
    BY <1>0, <1>2, <1>8, <2>1 DEF Buffers, Converts
<1>10. Conserved'
  <2> DEFINE u == OfFile(src)
             v == OfFile(Stretch(r, rb))
             b == Stretch(r, block)
  <2>1. u \in Seq(Frames) /\ v \in Seq(Frames) /\ b \in Seq(Frames)
    BY <1>5, <1>7, Heard
  <2>2. Stretch(r, loaded) = Cat(played, Cat(u, v))
    BY <1>0, <1>1, StretchedIs DEF Conserved
  <2>3. Stretch(r, Cat(loaded, block)) = Cat(Stretch(r, loaded), b)
    BY <1>5, <1>7, HeardConcat
  <2>4. OfFile(Stretch(r, Cat(rb, block))) = Cat(v, b)
    BY <1>5, <1>7, HeardConcat, HeardAll
  <2> HIDE DEF u, v, b
  <2>5. Cat(Cat(played, Cat(u, v)), b) = Cat(played, Cat(u, Cat(v, b)))
    <3>1. Cat(u, v) \in Seq(Frames)
      BY <2>1, CatType
    <3> QED
      BY <1>7, <2>1, <3>1, CatCat
  <2>6. Stretch(r, loaded') = Cat(played, Cat(u, OfFile(Stretch(r, rb'))))
    BY <1>6, <2>2, <2>3, <2>4, <2>5
  <2>7. Stretch(r, loaded') = Stretched(loaded)' /\ Stretch(r, rb') = Stretched(rb)'
    BY <1>1, <1>2 DEF Stretch, Stretched
  <2> QED
    BY <1>2, <2>6, <2>7 DEF Conserved, u
<1>11. Reading'
  BY <1>0, <1>2, <1>3, <1>4 DEF Reading, Frames
<1>12. Chosen' /\ Asked' /\ Where'
  BY <1>0, <1>2 DEF Chosen, Converts, Asked, Where
<1> QED
  BY <1>9, <1>10, <1>11, <1>12 DEF PlayInv

LEMMA LoadSilenceKeeps ==
  ASSUME PlayInv, LoadSilence
  PROVE  PlayInv'
<1>0. Chosen /\ Asked /\ Where /\ Reading /\ Buffers /\ Conserved
  BY DEF PlayInv
<1>1. PICK r \in Nat : r = src_ratio
  BY <1>0, Ratio
<1>2. /\ UNCHANGED <<o, src_ratio, seek_request, wanted, asked, pipe, position, nframes, src,
                     callback, period, loaded, played, rolling, signalled, program>>
      /\ disk = "reads" /\ disk' = "top"
      /\ rb' = rb \o Silence(nframes)
  BY DEF LoadSilence, options, seeking, jack, outside
<1>3. nframes \in Nat /\ Len(rb) + nframes <= RingFrames
  BY <1>0, <1>2, Constants DEF Reading
<1>4. rb \in Seq(Frames) /\ Silence(nframes) \in Seq(Frames) /\ Len(Silence(nframes)) = nframes
  BY <1>0, <1>3, SilenceIs DEF Buffers
<1>5. rb' \in Seq(Frames) /\ Len(rb') = Len(rb) + nframes
  BY <1>2, <1>4, CatType DEF Cat
<1>6. Buffers'
  BY <1>0, <1>2, <1>3, <1>5 DEF Buffers, Converts
<1>7. Conserved'
  <2>1. rb' = Cat(rb, Silence(nframes))
    BY <1>2 DEF Cat
  <2>2. OfFile(Stretch(r, rb')) = Cat(OfFile(Stretch(r, rb)), OfFile(Stretch(r, Silence(nframes))))
    BY <1>4, <2>1, HeardConcat
  <2>3. OfFile(Stretch(r, rb)) \in Seq(Frames)
    BY <1>4, Heard
  <2>4. OfFile(Stretch(r, Silence(nframes))) = <<>>
    BY <1>3, HeardSilence
  <2>5. OfFile(Stretch(r, rb')) = OfFile(Stretch(r, rb))
    BY <2>2, <2>3, <2>4, CatEmpty
  <2>6. Stretch(r, rb') = Stretched(rb)' /\ Stretch(r, rb) = Stretched(rb)
        /\ Stretched(loaded)' = Stretched(loaded)
    BY <1>1, <1>2 DEF Stretch, Stretched
  <2> QED
    BY <1>0, <1>2, <2>5, <2>6 DEF Conserved
<1>8. Reading'
  BY <1>0, <1>2 DEF Reading
<1>9. Chosen' /\ Asked' /\ Where'
  BY <1>0, <1>2 DEF Chosen, Converts, Asked, Where
<1> QED
  BY <1>6, <1>7, <1>8, <1>9 DEF PlayInv

(* The frames of a period leave the ring as they are ...                   *)
LEMMA PlayKeeps ==
  ASSUME PlayInv, NEW n \in Periods, Play(n)
  PROVE  PlayInv'
<1>0. Chosen /\ Asked /\ Where /\ Reading /\ Buffers /\ Conserved
  BY DEF PlayInv
<1> DEFINE err == AtMost(n, Len(rb))
           h == SubSeq(rb, 1, err)
           t == SubSeq(rb, err + 1, Len(rb))
<1>1. /\ UNCHANGED <<o, src_ratio, seek_request, wanted, asked, pipe, position, nframes, disk,
                     loaded, src, period, rolling, signalled, program>>
      /\ ~ Converts /\ callback' = "poking"
      /\ rb' = t /\ played' = Cat(played, OfFile(h))
  BY DEF Play, PutOut, options, seeking, disc, outside, Cat
<1>2. /\ src_ratio = 1 /\ src = <<>> /\ rb \in Seq(Frames) /\ played \in Seq(Frames)
      /\ Len(rb) \in Nat /\ n \in Nat
  BY <1>0, <1>1, LenProperties, Constants DEF Chosen, Buffers
<1>3. err \in 0 .. Len(rb)
  BY <1>2 DEF AtMost
<1> HIDE DEF err
<1>4. /\ h \in Seq(Frames) /\ t \in Seq(Frames) /\ Len(t) = Len(rb) - err /\ Cat(h, t) = rb
  BY <1>2, <1>3, Split
<1> HIDE DEF h, t
<1>5. OfFile(h) \in Seq(Frames) /\ OfFile(t) \in Seq(Frames)
  BY <1>4, Heard
<1>6. Cat(played, OfFile(h)) \in Seq(Frames)
  BY <1>2, <1>5, CatType
<1>7. Len(rb') \in Nat /\ Len(rb') <= Len(rb)
  BY <1>1, <1>2, <1>3, <1>4
<1>8. Buffers'
  <2>1. Len(rb') <= RingFrames
    BY <1>0, <1>2, <1>7, Constants DEF Buffers
  <2> QED
    BY <1>0, <1>1, <1>4, <1>6, <2>1 DEF Buffers, Converts
<1>9. Conserved'
  <2>1. Stretch(1, rb) = rb /\ Stretch(1, t) = t
    BY <1>2, <1>4, StretchOne
  <2>2. Stretched(loaded) = Cat(played, Cat(OfFile(src), OfFile(rb)))
    BY <1>0, <1>2, <2>1, StretchedIs DEF Conserved
  <2>3. OfFile(<<>>) = <<>>
    BY OfFileNone, EmptySeq
  <2>4. OfFile(rb) = Cat(OfFile(h), OfFile(t))
    BY <1>4, HeardConcat
  <2>5. Cat(<<>>, Cat(OfFile(h), OfFile(t))) = Cat(OfFile(h), OfFile(t))
        /\ Cat(<<>>, OfFile(t)) = OfFile(t)
    BY <1>5, CatType, CatEmpty
  <2>6. Stretched(loaded) = Cat(Cat(played, OfFile(h)), Cat(<<>>, OfFile(t)))
    BY <1>2, <1>5, <2>2, <2>3, <2>4, <2>5, CatCat
  <2>7. Stretched(loaded)' = Stretched(loaded) /\ Stretched(rb)' = Stretch(1, rb')
    BY <1>1, <1>2 DEF Stretched, Stretch
  <2>8. Stretched(rb)' = t /\ OfFile(src)' = <<>>
    BY <1>1, <1>2, <2>1, <2>3, <2>7
  <2> QED
    BY <1>1, <2>6, <2>7, <2>8 DEF Conserved
<1>10. Reading'
  BY <1>0, <1>1, <1>2, <1>7, Constants DEF Reading
<1>11. Chosen' /\ Asked' /\ Where'
  BY <1>0, <1>1 DEF Chosen, Converts, Asked, Where
<1> QED
  BY <1>8, <1>9, <1>10, <1>11 DEF PlayInv

(* ... or go to the converter, which gets silence if there are none, ...   *)
LEMMA ReadInputKeeps ==
  ASSUME PlayInv, read_input_from_rb
  PROVE  PlayInv'
<1>0. Chosen /\ Asked /\ Where /\ Reading /\ Buffers /\ Conserved
  BY DEF PlayInv
<1>1. PICK r \in Nat : r = src_ratio
  BY <1>0, Ratio
<1> DEFINE err == AtMost(RequestFrames, Len(rb))
           h == SubSeq(rb, 1, err)
           t == SubSeq(rb, err + 1, Len(rb))
           x == IF err = 0 THEN Silence(RequestFrames) ELSE h
<1>2. /\ UNCHANGED <<o, src_ratio, seek_request, wanted, asked, pipe, position, nframes, disk,
                     callback, period, loaded, played, rolling, signalled, program>>
      /\ callback = "converting" /\ Len(src) < period
      /\ rb' = t /\ src' = Cat(src, Stretched(x))
  BY DEF read_input_from_rb, options, seeking, disc, outside, Cat
<1>3. /\ rb \in Seq(Frames) /\ played \in Seq(Frames) /\ src \in Seq(Frames)
      /\ Len(rb) \in Nat /\ RequestFrames \in Nat
  BY <1>0, LenProperties, Constants DEF Buffers
<1>4. err \in 0 .. Len(rb) /\ err <= RequestFrames
  BY <1>3 DEF AtMost
<1> HIDE DEF err
<1>5. /\ h \in Seq(Frames) /\ t \in Seq(Frames) /\ Len(h) = err /\ Len(t) = Len(rb) - err
      /\ Cat(h, t) = rb
  BY <1>3, <1>4, Split
<1> HIDE DEF h, t
<1>6. PICK m \in 0 .. RequestFrames : x \in Seq(Frames) /\ Len(x) = m
  <2>1. CASE err = 0
    <3>1. x \in Seq(Frames) /\ Len(x) = RequestFrames
      BY <1>3, <2>1, SilenceIs
    <3>2. RequestFrames \in 0 .. RequestFrames
      BY <1>3
    <3> QED
      BY <3>1, <3>2
  <2>2. CASE err # 0
    <3>1. x \in Seq(Frames) /\ Len(x) = err
      BY <1>5, <2>2
    <3>2. err \in 0 .. RequestFrames
      BY <1>3, <1>4
    <3> QED
      BY <3>1, <3>2
  <2> QED
    BY <2>1, <2>2
<1>7. OfFile(Stretch(r, x)) = OfFile(Stretch(r, h))
  <2>1. CASE err = 0
    <3>1. h = <<>> /\ h \in Seq({0})
      BY <1>5, <2>1, EmptySeq
    <3>2. Stretch(r, h) \in Seq({0})
      BY <3>1, StretchType
    <3>3. OfFile(Stretch(r, h)) = <<>>
      BY <3>2, OfFileNone
    <3>4. OfFile(Stretch(r, Silence(RequestFrames))) = <<>>
      BY <1>3, HeardSilence
    <3> QED
      BY <2>1, <3>3, <3>4
  <2>2. CASE err # 0
    BY <2>2
  <2> QED
    BY <2>1, <2>2
<1> HIDE DEF x
<1>8. src' = Cat(src, Stretch(r, x))
  BY <1>1, <1>2, StretchedIs
<1>9. /\ Stretch(r, x) \in Seq(Frames) /\ Len(Stretch(r, x)) = r * m
      /\ Stretch(r, h) \in Seq(Frames) /\ Stretch(r, t) \in Seq(Frames)
  BY <1>5, <1>6, StretchType
<1>10. src' \in Seq(Frames) /\ Len(src') = Len(src) + r * m
  BY <1>3, <1>8, <1>9, CatType
<1>11. Len(rb') \in Nat /\ Len(rb') <= Len(rb)
  BY <1>2, <1>3, <1>4, <1>5
<1>12. Buffers'
  <2>1. Len(rb') <= RingFrames
    BY <1>0, <1>3, <1>11, Constants DEF Buffers
  <2>2. /\ Len(src) \in Nat /\ Len(src) < period /\ period <= BufferFrames /\ period \in Nat
        /\ BufferFrames \in Nat
    BY <1>0, <1>2, <1>3, LenProperties, Constants DEF Buffers
  <2>3. r * m <= r * RequestFrames /\ r * m \in Nat /\ r * RequestFrames \in Nat
    <3>1. PICK d \in Nat : RequestFrames = m + d
      <4>1. RequestFrames - m \in Nat /\ RequestFrames = m + (RequestFrames - m)
        BY <1>3, <1>6
      <4> QED
        BY <4>1
    <3>2. r * RequestFrames = r * m + r * d /\ r * d \in Nat /\ r * m \in Nat
      BY <1>6, <3>1
    <3> QED
      BY <3>2
  <2>4. Len(src') <= BufferFrames + r * RequestFrames
    BY <1>10, <2>2, <2>3
  <2>5. Converts
    BY <1>0, <1>2 DEF Buffers
  <2> QED
    BY <1>0, <1>1, <1>2, <1>5, <1>10, <2>1, <2>4, <2>5 DEF Buffers, Converts
<1>13. Conserved'
  <2> DEFINE u == OfFile(src)
             v == OfFile(Stretch(r, h))
             w == OfFile(Stretch(r, t))
  <2>1. u \in Seq(Frames) /\ v \in Seq(Frames) /\ w \in Seq(Frames)
    BY <1>3, <1>5, Heard
  <2>2. Stretch(r, loaded) = Cat(played, Cat(u, OfFile(Stretch(r, rb))))
    BY <1>0, <1>1, StretchedIs DEF Conserved
  <2>3. OfFile(Stretch(r, rb)) = Cat(v, w)
    BY <1>5, HeardConcat
  <2>4. OfFile(src') = Cat(u, v)
    BY <1>3, <1>7, <1>8, <1>9, HeardConcat
  <2> HIDE DEF u, v
  <2>5. Cat(u, Cat(v, w)) = Cat(Cat(u, v), w)
    BY <2>1, CatCat
  <2>6. Stretch(r, loaded) = Cat(played, Cat(OfFile(src'), w))
    BY <2>2, <2>3, <2>4, <2>5
  <2>7. Stretched(loaded)' = Stretch(r, loaded) /\ Stretched(rb)' = Stretch(r, t)
    BY <1>1, <1>2 DEF Stretched, Stretch
  <2> QED
    BY <1>2, <2>6, <2>7 DEF Conserved
<1>14. Reading'
  BY <1>0, <1>2, <1>3, <1>11, Constants DEF Reading
<1>15. Chosen' /\ Asked' /\ Where'
  BY <1>0, <1>2 DEF Chosen, Converts, Asked, Where
<1> QED
  BY <1>12, <1>13, <1>14, <1>15 DEF PlayInv

(* ... and from it a period at a time.                                     *)
LEMMA ConvertedKeeps ==
  ASSUME PlayInv, Converted
  PROVE  PlayInv'
<1>0. Chosen /\ Asked /\ Where /\ Reading /\ Buffers /\ Conserved
  BY DEF PlayInv
<1>1. PICK r \in Nat : r = src_ratio
  BY <1>0, Ratio
<1> DEFINE h == SubSeq(src, 1, period)
           t == SubSeq(src, period + 1, Len(src))
<1>2. /\ UNCHANGED <<o, src_ratio, seek_request, wanted, asked, pipe, position, nframes, disk,
                     loaded, rb, rolling, signalled, program>>
      /\ callback = "converting" /\ callback' = "poking" /\ Len(src) >= period /\ period' = 0
      /\ src' = t /\ played' = Cat(played, OfFile(h))
  BY DEF Converted, PutOut, options, seeking, disc, outside, Cat
<1>3. /\ rb \in Seq(Frames) /\ played \in Seq(Frames) /\ src \in Seq(Frames)
      /\ Len(src) \in Nat /\ period \in Nat
  BY <1>0, LenProperties, Constants DEF Buffers
<1>4. period \in 0 .. Len(src)
  BY <1>2, <1>3
<1>5. /\ h \in Seq(Frames) /\ t \in Seq(Frames) /\ Len(t) = Len(src) - period
      /\ Cat(h, t) = src
  BY <1>3, <1>4, Split
<1> HIDE DEF h, t
<1>6. /\ OfFile(h) \in Seq(Frames) /\ OfFile(t) \in Seq(Frames)
      /\ OfFile(Stretch(r, rb)) \in Seq(Frames)
  BY <1>3, <1>5, Heard
<1>7. Cat(played, OfFile(h)) \in Seq(Frames)
  BY <1>3, <1>6, CatType
<1>8. Buffers'
  <2>1. r * RequestFrames \in Nat /\ BufferFrames \in Nat
    BY Constants
  <2>2. Len(t) <= BufferFrames + src_ratio * RequestFrames
    BY <1>0, <1>1, <1>3, <1>4, <1>5, <2>1 DEF Buffers
  <2>3. Converts
    BY <1>0, <1>2 DEF Buffers
  <2>4. 0 <= BufferFrames
    BY <2>1
  <2> QED
    BY <1>0, <1>2, <1>5, <1>7, <2>2, <2>3, <2>4 DEF Buffers, Converts
<1>9. Conserved'
  <2> DEFINE v == OfFile(Stretch(r, rb))
  <2>1. Stretch(r, loaded) = Cat(played, Cat(OfFile(src), v))
    BY <1>0, <1>1, StretchedIs DEF Conserved
  <2>2. OfFile(src) = Cat(OfFile(h), OfFile(t))
    BY <1>5, HeardConcat
  <2> HIDE DEF v
  <2>3. Cat(played, Cat(Cat(OfFile(h), OfFile(t)), v)) = Cat(Cat(played, OfFile(h)), Cat(OfFile(t), v))
    <3>1. Cat(OfFile(t), v) \in Seq(Frames)
      BY <1>6, CatType DEF v
    <3> QED
      BY <1>3, <1>6, <3>1, CatCat DEF v
  <2>4. Stretch(r, loaded) = Cat(Cat(played, OfFile(h)), Cat(OfFile(t), v))
    BY <2>1, <2>2, <2>3
  <2>5. Stretched(loaded)' = Stretch(r, loaded) /\ Stretched(rb)' = Stretch(r, rb)
    BY <1>1, <1>2 DEF Stretched, Stretch
  <2> QED
    BY <1>2, <2>4, <2>5 DEF Conserved, v
<1>10. Reading'
  BY <1>0, <1>2 DEF Reading
<1>11. Chosen' /\ Asked' /\ Where'
  BY <1>0, <1>2 DEF Chosen, Converts, Asked, Where
<1> QED
  BY <1>8, <1>9, <1>10, <1>11 DEF PlayInv

LEMMA RestKeeps ==
  ASSUME PlayInv,
         \/ \E n \in Periods : src_callback_read(n)
         \/ Exit \/ Poke \/ \E p \in Seeks : sync_handler(p)
         \/ Transport \/ Signal \/ Close
  PROVE  PlayInv'
<1>0. Chosen /\ Asked /\ Where /\ Reading /\ Buffers /\ Conserved
  BY DEF PlayInv
<1> USE DEF options, seeking, disc, jack, outside
<1>1. ASSUME UNCHANGED <<o, src_ratio, rb, src, period, loaded, played, callback>>
      PROVE  Chosen' /\ Buffers' /\ Conserved'
  BY <1>0, <1>1, QuietKeeps
<1>2. ASSUME NEW n \in Periods, src_callback_read(n) PROVE PlayInv'
  <2>1. /\ UNCHANGED <<o, src_ratio, seek_request, wanted, asked, rb, pipe, position, nframes,
                       disk, loaded, src, played, rolling, signalled, program>>
        /\ Converts /\ n <= BufferFrames /\ callback' = "converting" /\ period' = n
    BY <1>2 DEF src_callback_read
  <2>2. Chosen' /\ Asked' /\ Where' /\ Reading'
    BY <1>0, <2>1 DEF Chosen, Converts, Asked, Where, Reading
  <2>3. Buffers' /\ Conserved'
    BY <1>0, <2>1 DEF Buffers, Converts, Conserved, Stretched
  <2> QED
    BY <2>2, <2>3 DEF PlayInv
<1>3. CASE Exit
  <2>1. /\ UNCHANGED <<o, src_ratio, seek_request, wanted, asked, rb, pipe, position, nframes,
                       disk, loaded, src, callback, period, played, rolling, signalled>>
        /\ program' = "failed"
    BY <1>3 DEF Exit
  <2> QED
    BY <1>0, <1>1, <2>1 DEF PlayInv, Asked, Where, Reading
<1>4. CASE Poke
  <2>1. /\ UNCHANGED <<o, src_ratio, seek_request, wanted, asked, rb, position, nframes,
                       disk, loaded, src, period, played, rolling, signalled, program>>
        /\ callback' = "idle" /\ pipe < PipeBytes /\ pipe' = pipe + 1
    BY <1>4 DEF Poke
  <2>2. pipe' \in 0 .. PipeBytes
    <3>1. pipe \in 0 .. PipeBytes
      BY <1>0 DEF Where
    <3> QED
      BY <2>1, <3>1, Constants
  <2>3. Chosen' /\ Buffers' /\ Conserved'
    BY <1>0, <2>1, QuietKeeps
  <2> QED
    BY <1>0, <2>1, <2>2, <2>3 DEF PlayInv, Asked, Where, Reading
<1>5. ASSUME NEW p \in Seeks, sync_handler(p) PROVE PlayInv'
  <2>1. /\ UNCHANGED <<o, src_ratio, rb, pipe, position, nframes, disk, loaded, src, callback,
                       period, played, rolling, signalled, program>>
        /\ seek_request' = p /\ wanted' = Place(p) /\ asked' = asked + 1 /\ asked < MaxSeeks
    BY <1>5 DEF sync_handler
  <2>2. asked' \in 0 .. MaxSeeks
    BY <1>0, <2>1, Constants DEF Asked
  <2> QED
    BY <1>0, <1>1, <2>1, <2>2 DEF PlayInv, Asked, Where, Reading, Place
<1>6. CASE Transport \/ Signal \/ Close
  <2>1. /\ UNCHANGED <<o, src_ratio, seek_request, wanted, asked, rb, pipe, position, nframes,
                       disk, loaded, src, callback, period, played>>
        /\ rolling' \in BOOLEAN /\ signalled' \in {signalled, TRUE}
        /\ program' \in {program, "closed"}
    <3>1. CASE Transport
      BY <1>0, <3>1 DEF Transport, Where
    <3>2. CASE Signal
      BY <1>0, <3>2 DEF Signal, Where
    <3>3. CASE Close
      BY <1>0, <3>3 DEF Close, Where
    <3> QED
      BY <1>6, <3>1, <3>2, <3>3
  <2>2. Chosen' /\ Buffers' /\ Conserved'
    BY <1>1, <2>1
  <2>3. Asked' /\ Where'
    BY <1>0, <2>1 DEF Asked, Where
  <2>4. Reading'
    <3>1. ~ signalled' => ~ signalled
      BY <2>1
    <3> QED
      BY <1>0, <2>1, <3>1 DEF Reading
  <2> QED
    BY <2>2, <2>3, <2>4 DEF PlayInv
<1> QED
  BY <1>2, <1>3, <1>4, <1>5, <1>6

LEMMA PlayStep == PlayInv /\ [Next]_vars => PlayInv'
<1> SUFFICES ASSUME PlayInv, [Next]_vars PROVE PlayInv'
  OBVIOUS
<1>1. CASE disk_proc
  BY <1>1, DiskMoves, LoadKeeps, LoadSilenceKeeps DEF disk_proc
<1>2. CASE signal_proc
  BY <1>2, PlayKeeps, ReadInputKeeps, ConvertedKeeps, RestKeeps
     DEF signal_proc, Callback, ConverterFails, EndIfStopped, PeriodTooLarge
<1>3. CASE (\E p \in Seeks : sync_handler(p)) \/ Transport \/ Signal \/ Close
  BY <1>3, RestKeeps
<1>4. CASE UNCHANGED vars
  <2>1. Chosen' /\ Buffers' /\ Conserved'
    BY <1>4, QuietKeeps DEF PlayInv, vars, options, disc, jack
  <2>2. UNCHANGED <<seek_request, wanted, asked, rb, pipe, position, nframes, disk,
                    callback, rolling, signalled, program>>
    BY <1>4 DEF vars, seeking, disc, jack, outside
  <2>3. Asked' /\ Where'
    BY <2>2 DEF PlayInv, Asked, Where
  <2>4. Reading'
    BY <2>2 DEF PlayInv, Reading
  <2> QED
    BY <2>1, <2>3, <2>4 DEF PlayInv
<1> QED
  BY <1>1, <1>2, <1>3, <1>4 DEF Next

LEMMA AlwaysPlayInv == Spec => []PlayInv
BY PlayInit, PlayStep, PTL DEF Spec

-----------------------------------------------------------------------------
(* The properties                                                          *)

(* What the options must be for the following, and what main() does not    *)
(* look at: a request fits into the buffer of the converter (-q), and the  *)
(* disk thread waits for some space (-m).                                  *)
RequestFits == RequestFrames <= BufferFrames
WaitsForSpace == MinimalFrames > 0

(* Every variable keeps its type, and neither the ring nor the buffers     *)
(* take more than they hold; that of the converter, if a request fits.     *)
THEOREM Types == ASSUME RequestFits PROVE Spec => []TypeOK
<1>1. PlayInv => TypeOK
  <2> SUFFICES ASSUME PlayInv PROVE TypeOK
    OBVIOUS
  <2>1. loaded \in Seq(Frames)
    BY FrameSets, SeqMonotonic DEF PlayInv, Buffers
  <2>2. Fetched <= BufferFrames
    <3>1. Len(rb) \in Nat /\ RequestFrames \in Nat /\ BufferFrames \in Nat
      BY Constants, LenProperties DEF PlayInv, Buffers
    <3> QED
      BY <3>1 DEF Fetched, AtMost, RequestFits
  <2> QED
    BY <2>1, <2>2 DEF PlayInv, Chosen, Asked, Where, Reading, Buffers, TypeOK
<1> QED
  BY <1>1, AlwaysPlayInv, PTL

-----------------------------------------------------------------------------
(* The queue                                                               *)

(* What has been put out are the first of the frames that were read, and   *)
(* the rest of them are in the ring and the converter.                     *)
Begun ==
  /\ played \in Seq(Frames) /\ Len(played) \in Nat /\ Len(Stretched(loaded)) \in Nat
  /\ Len(Stretched(loaded)) = src_ratio * Len(loaded)
  /\ Len(played) <= Len(Stretched(loaded))
  /\ Len(Stretched(loaded)) - Len(played) <= Holds /\ Holds \in Nat
  /\ \A i \in 1 .. Len(played) : played[i] = Stretched(loaded)[i]

LEMMA HasBegun == PlayInv => Begun
<1> SUFFICES ASSUME PlayInv PROVE Begun
  OBVIOUS
<1>0. Chosen /\ Buffers /\ Conserved
  BY DEF PlayInv
<1>1. PICK r \in Nat : r = src_ratio
  BY <1>0, Ratio
<1>2. /\ rb \in Seq(Frames) /\ src \in Seq(Frames) /\ played \in Seq(Frames)
      /\ loaded \in Seq(OfTheFile)
      /\ Len(rb) <= RingFrames /\ Len(src) <= BufferFrames + r * RequestFrames
  BY <1>0, <1>1 DEF Buffers
<1>3. PICK all : all = Stretched(loaded)
  OBVIOUS
<1>4. all \in Seq(OfTheFile) /\ Len(all) = r * Len(loaded)
  BY <1>1, <1>2, <1>3, StretchType, StretchedIs
<1>5. PICK u : u = OfFile(src)
  OBVIOUS
<1>6. PICK v : v = OfFile(Stretched(rb))
  OBVIOUS
<1>7. u \in Seq(Frames) /\ Len(u) <= Len(src)
  BY <1>2, <1>5, FrameSets, OfFileType
<1>8. v \in Seq(Frames) /\ Len(v) <= r * Len(rb)
  <2>1. Stretched(rb) \in Seq(Frames) /\ Len(Stretched(rb)) = r * Len(rb)
    BY <1>1, <1>2, StretchType, StretchedIs
  <2> QED
    BY <1>6, <2>1, FrameSets, OfFileType
<1>9. PICK uv : uv = Cat(u, v)
  OBVIOUS
<1>10. uv \in Seq(Frames) /\ Len(uv) = Len(u) + Len(v)
  BY <1>7, <1>8, <1>9, CatType
<1>11. all = Cat(played, uv)
  BY <1>0, <1>3, <1>5, <1>6, <1>9 DEF Conserved
<1>12. /\ Len(all) = Len(played) + Len(uv)
       /\ \A i \in 1 .. Len(played) : all[i] = played[i]
  <2>1. /\ Len(played \o uv) = Len(played) + Len(uv)
        /\ \A i \in 1 .. Len(played) + Len(uv) :
             (played \o uv)[i] = IF i <= Len(played) THEN played[i] ELSE uv[i - Len(played)]
    BY <1>2, <1>10, ConcatProperties
  <2>2. Len(played) \in Nat /\ Len(uv) \in Nat
    BY <1>2, <1>10, LenProperties
  <2> QED
    BY <1>11, <2>1, <2>2 DEF Cat
<1>13. PICK a \in Nat, b \in Nat, c \in Nat, d \in Nat, e \in Nat, p \in Nat :
         a = Len(rb) /\ b = Len(src) /\ c = Len(u) /\ d = Len(v) /\ e = Len(all)
         /\ p = Len(played)
  BY <1>2, <1>4, <1>7, <1>8, LenProperties
<1>14. r * a <= r * RingFrames
  <2>1. PICK k \in Nat : RingFrames = a + k
    <3>1. RingFrames - a \in Nat /\ RingFrames = a + (RingFrames - a)
      BY <1>2, <1>13, Constants
    <3> QED
      BY <3>1
  <2>2. r * RingFrames = r * a + r * k /\ r * k \in Nat /\ r * a \in Nat
    BY <2>1
  <2> QED
    BY <2>2
<1>15. p <= e /\ e - p <= Holds /\ Holds \in Nat
  <2>1. e = p + (c + d) /\ c <= b /\ d <= r * a /\ b <= BufferFrames + r * RequestFrames
    BY <1>2, <1>7, <1>8, <1>10, <1>12, <1>13
  <2>2. Holds = r * RingFrames + r * RequestFrames + BufferFrames
    BY <1>1, Constants DEF Holds
  <2>3. r * a \in Nat /\ r * RingFrames \in Nat /\ r * RequestFrames \in Nat /\ BufferFrames \in Nat
    BY Constants
  <2> QED
    BY <1>14, <2>1, <2>2, <2>3
<1> QED
  BY <1>1, <1>2, <1>3, <1>4, <1>12, <1>13, <1>15 DEF Begun

Counted == Numbered = [i \in 1 .. Len(played) |-> i]

LEMMA CountsFrames == Begun => Counted
<1> SUFFICES ASSUME Begun PROVE Counted
  OBVIOUS
<1> DEFINE all == Stretched(loaded)
<1>1. DOMAIN played = 1 .. Len(played)
  BY LenProperties DEF Begun
<1>2. ASSUME NEW i \in 1 .. Len(played) PROVE i <= Len(all) /\ played[i] = all[i]
  BY DEF Begun
<1> HIDE DEF all
<1>3. Numbered = [i \in 1 .. Len(played) |-> IF i <= Len(all) /\ played[i] = all[i] THEN i ELSE 0]
  BY <1>1 DEF Numbered, all
<1> QED
  BY <1>2, <1>3 DEF Counted

LEMMA NumbersLength ==
  ASSUME NEW n \in Nat
  PROVE  [i \in 1 .. n |-> i] \in Seq(Nat) /\ Len([i \in 1 .. n |-> i]) = n
OBVIOUS

LEMMA MoreIsPut ==
  ASSUME Begun, Counted, Begun', Counted', UNCHANGED <<src_ratio, played>>,
         Len(Stretched(loaded)) <= Len(Stretched(loaded))'
  PROVE  [Fifo!Next]_(Fifo!vars)
<1>1. PICK p \in Nat, m \in Nat, n \in Nat :
        p = Len(played) /\ m = Len(Stretched(loaded)) /\ n = Len(Stretched(loaded))'
  BY DEF Begun
<1>2. p <= m /\ m <= n /\ n - p <= Holds /\ Holds' = Holds /\ Len(played)' = p
  <2>1. Len(played)' = p
    BY <1>1
  <2>2. Holds' = Holds
    BY DEF Holds
  <2> QED
    BY <1>1, <2>1, <2>2 DEF Begun
<1>3. Numbered' = Numbered /\ Len(Numbered) = p
  BY <1>1, <1>2, NumbersLength DEF Counted
<1>4. CASE n = m
  BY <1>1, <1>3, <1>4 DEF Fifo!vars
<1>5. CASE n > m
  <2>1. PICK h \in Nat : h = Holds /\ n - p <= h
    BY <1>2 DEF Begun
  <2>2. n - m \in 1 .. Holds /\ n = m + (n - m) /\ n - p <= Holds
    BY <1>2, <1>5, <2>1
  <2>3. Fifo!Put
    BY <1>1, <1>3, <2>2 DEF Fifo!Put
  <2> QED
    BY <2>3 DEF Fifo!Next
<1> QED
  BY <1>2, <1>4, <1>5

LEMMA MoreIsGot ==
  ASSUME Begun, Counted, Begun', Counted',
         Len(Stretched(loaded))' = Len(Stretched(loaded)), Len(played) <= Len(played)'
  PROVE  [Fifo!Next]_(Fifo!vars)
<1>1. PICK p \in Nat, q \in Nat, m \in Nat :
        p = Len(played) /\ q = Len(played)' /\ m = Len(Stretched(loaded))
  BY DEF Begun
<1>2. p <= q /\ q <= m
  BY <1>1 DEF Begun
<1>3. /\ Numbered = [i \in 1 .. p |-> i] /\ Numbered' = [i \in 1 .. q |-> i]
      /\ Len(Numbered) = p
  BY <1>1, NumbersLength DEF Counted
<1>4. CASE q = p
  BY <1>1, <1>3, <1>4 DEF Fifo!vars
<1>5. CASE q > p
  <2>1. q - p \in 1 .. m - p /\ q = p + (q - p)
    BY <1>2, <1>5
  <2>2. PICK n \in Nat : n = q - p /\ q = p + n
    BY <2>1
  <2>3. [i \in 1 .. p + n |-> i] = [i \in 1 .. p |-> i] \o [i \in 1 .. n |-> p + i]
    OBVIOUS
  <2>4. Numbered' = Numbered \o [i \in 1 .. n |-> Len(Numbered) + i]
    BY <1>3, <2>2, <2>3
  <2>5. n \in 1 .. Len(Stretched(loaded)) - Len(Numbered)
    BY <1>1, <1>3, <2>1, <2>2
  <2>6. Fifo!Get
    BY <1>1, <2>4, <2>5 DEF Fifo!Get
  <2> QED
    BY <2>6 DEF Fifo!Next
<1> QED
  BY <1>2, <1>4, <1>5

LEMMA QueueInit == Init => Fifo!Init
<1> SUFFICES ASSUME Init PROVE Fifo!Init
  OBVIOUS
<1>1. loaded = <<>> /\ played = <<>>
  BY DEF Init
<1>2. src_ratio \in Nat
  BY PlayInit, Ratio DEF PlayInv
<1>3. Len(Stretched(loaded)) = 0
  <2>1. src_ratio * 0 = 0 /\ <<>> \in Seq({0}) /\ Len(<<>>) = 0
    BY <1>2
  <2> QED
    BY <1>1, <1>2, <2>1, StretchType, StretchedIs
<1>4. Numbered = <<>>
  BY <1>1 DEF Numbered
<1> QED
  BY <1>3, <1>4 DEF Fifo!Init

(* Only the disk thread puts in, and only the callback takes out.          *)
LEMMA QueueMoves ==
  ASSUME PlayInv, [Next]_vars
  PROVE  /\ src_ratio' = src_ratio
         /\ \/ /\ played' = played
               /\ loaded' = loaded \/ (Len(loaded) <= Len(loaded)' /\ loaded' \in Seq(Nat))
            \/ loaded' = loaded /\ Len(played) <= Len(played)'
<1> USE DEF options, seeking, disc, jack, outside
<1>1. loaded \in Seq(Nat) /\ played \in Seq(Frames) /\ rb \in Seq(Frames) /\ src \in Seq(Frames)
  BY FrameSets, SeqMonotonic DEF PlayInv, Buffers
<1>2. CASE Load
  <2> DEFINE block == [i \in 1 .. Readable |-> position + i]
  <2>1. /\ UNCHANGED <<src_ratio, played>> /\ loaded' = loaded \o block
    BY <1>2 DEF Load
  <2>2. position \in Nat /\ Readable \in Nat
    BY Constants DEF PlayInv, Reading, Readable, AtMost, Frames
  <2>3. block \in Seq(Nat)
    BY <2>2
  <2> HIDE DEF block
  <2>4. loaded' \in Seq(Nat) /\ Len(loaded)' = Len(loaded) + Len(block)
    BY <1>1, <2>1, <2>3, ConcatProperties
  <2> QED
    BY <1>1, <2>1, <2>3, <2>4, LenProperties
<1>3. ASSUME NEW s \in Seq(Frames), PutOut(s)
      PROVE  Len(played) <= Len(played)'
  <2>1. PICK k \in Seq(Frames) : k = OfFile(s)
    BY FrameSets, OfFileType
  <2>2. Len(played') = Len(played) + Len(k)
    BY <1>1, <1>3, <2>1, ConcatProperties DEF PutOut
  <2> QED
    BY <1>1, <2>2, LenProperties
<1>4. ASSUME NEW n \in Periods, Play(n)
      PROVE  UNCHANGED <<src_ratio, loaded>> /\ Len(played) <= Len(played)'
  <2>1. Len(rb) \in Nat /\ n \in Nat
    BY <1>1, LenProperties, Constants
  <2>2. AtMost(n, Len(rb)) \in 0 .. Len(rb)
    BY <2>1 DEF AtMost
  <2>3. SubSeq(rb, 1, AtMost(n, Len(rb))) \in Seq(Frames)
    BY <1>1, <2>2, Split
  <2> QED
    BY <1>3, <1>4, <2>3 DEF Play
<1>5. CASE Converted
  <2>1. Len(src) >= period /\ PutOut(SubSeq(src, 1, period)) /\ UNCHANGED <<src_ratio, loaded>>
    BY <1>5 DEF Converted
  <2>2. period \in Nat
    BY Constants DEF PlayInv, Buffers
  <2>3. period \in 0 .. Len(src)
    BY <1>1, <2>1, <2>2, LenProperties
  <2>4. SubSeq(src, 1, period) \in Seq(Frames)
    BY <1>1, <2>3, Split
  <2> QED
    BY <1>3, <2>1, <2>4
<1>6. CASE LoopTest \/ SeekFile \/ ResetSeek \/ Check \/ TakePoke
  <2>1. CASE LoopTest
    BY <2>1 DEF LoopTest
  <2>2. CASE SeekFile
    <3>1. UNCHANGED <<src_ratio, loaded, played>>
      BY <2>2 DEF SeekFile
    <3> QED
      BY <3>1
  <2>3. CASE ResetSeek \/ Check \/ TakePoke
    <3>1. UNCHANGED <<src_ratio, loaded, played>>
      BY <2>3 DEF ResetSeek, Check, TakePoke
    <3> QED
      BY <3>1
  <2> QED
    BY <1>6, <2>1, <2>2, <2>3
<1>7. CASE SpaceFound \/ LoadSilence \/ Finish
  BY <1>7 DEF SpaceFound, LoadSilence, Finish
<1>8. ASSUME NEW n \in Periods, src_callback_read(n) PROVE UNCHANGED <<src_ratio, loaded, played>>
  BY <1>8 DEF src_callback_read
<1>9. CASE Exit \/ read_input_from_rb \/ Poke
  BY <1>9 DEF Exit, read_input_from_rb, Poke
<1>10. ASSUME NEW p \in Seeks, sync_handler(p) PROVE UNCHANGED <<src_ratio, loaded, played>>
  BY <1>10 DEF sync_handler
<1>11. CASE Transport \/ Signal \/ Close
  BY <1>11 DEF Transport, Signal, Close
<1>12. CASE UNCHANGED vars
  BY <1>12 DEF vars
<1> QED
  BY <1>2, <1>4, <1>5, <1>6, <1>7, <1>8, <1>9, <1>10, <1>11, <1>12
     DEF Next, disk_proc, signal_proc, Callback, ConverterFails, EndIfStopped, PeriodTooLarge

LEMMA QueueStep ==
  ASSUME PlayInv, Begun, Counted, Begun', Counted', [Next]_vars
  PROVE  [Fifo!Next]_(Fifo!vars)
<1>1. src_ratio' = src_ratio
  BY QueueMoves
<1>2. CASE played' = played /\ loaded' = loaded
  <2>1. Len(Stretched(loaded))' = Len(Stretched(loaded))
    BY <1>1, <1>2 DEF Stretched
  <2>2. Len(played)' = Len(played)
    BY <1>2
  <2> QED
    BY <2>1, <2>2, MoreIsGot DEF Begun
<1>3. CASE played' = played /\ Len(loaded) <= Len(loaded)' /\ loaded' \in Seq(Nat)
  <2>1. PICK a \in Nat, b \in Nat, r \in Nat :
          a = Len(loaded) /\ b = Len(loaded)' /\ r = src_ratio
    BY <1>3, LenProperties, Ratio DEF PlayInv, Buffers
  <2>2. r * a <= r * b
    <3>1. PICK k \in Nat : b = a + k
      <4>1. b - a \in Nat /\ b = a + (b - a)
        BY <1>3, <2>1
      <4> QED
        BY <4>1
    <3>2. r * b = r * a + r * k /\ r * k \in Nat /\ r * a \in Nat
      BY <3>1
    <3> QED
      BY <3>2
  <2>3. Len(Stretched(loaded)) = r * a /\ Len(Stretched(loaded))' = r * b
    BY <1>1, <2>1 DEF Begun
  <2> QED
    BY <1>1, <1>3, <2>2, <2>3, MoreIsPut
<1>4. CASE loaded' = loaded /\ Len(played) <= Len(played)'
  <2>1. Len(Stretched(loaded))' = Len(Stretched(loaded))
    BY <1>1, <1>4 DEF Stretched
  <2> QED
    BY <1>4, <2>1, MoreIsGot
<1> QED
  BY <1>2, <1>3, <1>4, QueueMoves

(* Ring and converter together are a queue: what comes out of the player   *)
(* is what was read, frame by frame and in order, with none lost, none     *)
(* twice and none made up, however reads, periods, pokes, seeks and stops  *)
(* interleave; and never more is on its way than both hold.                *)
THEOREM PlayerIsQueue == Spec => ImplementsFifo
<1>1. PlayInv /\ PlayInv' /\ [Next]_vars => [Fifo!Next]_(Fifo!vars)
  <2>1. PlayInv => Begun /\ Counted
    BY HasBegun, CountsFrames
  <2>2. (PlayInv => Begun /\ Counted)'
    BY <2>1, PTL
  <2> QED
    BY <2>1, <2>2, QueueStep
<1> QED
  BY <1>1, QueueInit, AlwaysPlayInv, PTL DEF Spec, ImplementsFifo, Fifo!Spec

(* A player nobody interrupts that closes the file has read it to its end, *)
(* and all it has read has been put out but for what ring and converter    *)
(* hold; if the disk thread waits for any space at all (-m).               *)
THEOREM AllButARing == ASSUME WaitsForSpace PROVE Spec => PlaysAllButARing
<1>1. PlayInv /\ Close /\ ~ signalled =>
        position = FileFrames /\ src_ratio * Len(loaded) - Len(played) <= Holds
  BY HasBegun DEF PlayInv, Reading, Close, Begun, WaitsForSpace
<1> QED
  BY <1>1, AlwaysPlayInv, PTL DEF Spec, PlaysAllButARing
=============================================================================
