---------------------------- MODULE ConfigProofs ----------------------------
(***************************************************************************)
(* Proofs about a project's configuration and about what is made of it:    *)
(* refreshes of upstream-commit pins (Pins), loading, selecting components *)
(* and asking the catalog (Project, Catalog), the synthetic history and    *)
(* the comparison of revisions (History); for any components, files,       *)
(* groups, repository sets and commits.                                    *)
(***************************************************************************)
EXTENDS Project, Pins, History, FiniteSetTheorems, TLAPS

-----------------------------------------------------------------------------
(* Numbers and sequences: a set of numbers has a least one, which gives    *)
(* induction, and with it what FlattenSeq returns.                         *)

LEMMA LessThanIsWellFounded == IsWellFoundedOn({ss \in Nat \X Nat : ss[1] < ss[2]}, Nat)
BY NatLessThanWellFounded DEF OpToRel

LEMMA LeastNumber ==
  ASSUME NEW S \in SUBSET Nat, S # {}
  PROVE  \E i \in S : \A j \in S : i <= j
<1> DEFINE R == {ss \in Nat \X Nat : ss[1] < ss[2]}
<1>1. PICK i \in S : \A j \in S : ~(<<j, i>> \in R)
  <2>1. IsWellFoundedOn(R, Nat) BY LessThanIsWellFounded
  <2> HIDE DEF R
  <2> QED BY <2>1, WFMin
<1>2. ASSUME NEW j \in S PROVE i <= j
  <2>1. i \in Nat /\ j \in Nat /\ <<j, i>> \in Nat \X Nat OBVIOUS
  <2>2. ~(j < i) BY <1>1, <2>1
  <2> QED BY <2>1, <2>2
<1> QED BY <1>2

\* Induction, for a set of numbers.
LEMMA Induction ==
  ASSUME NEW S, 0 \in S, \A n \in Nat : n \in S => n + 1 \in S
  PROVE  Nat \subseteq S
<1> SUFFICES ASSUME Nat \ S # {} PROVE FALSE OBVIOUS
<1>1. PICK i \in Nat \ S : \A j \in Nat \ S : i <= j BY LeastNumber
<1>2. i # 0 OBVIOUS
<1>3. i - 1 \in Nat /\ ~(i <= i - 1) BY <1>2
<1>4. i - 1 \in S BY <1>1, <1>3
<1>5. (i - 1) + 1 = i BY <1>3
<1> QED BY <1>3, <1>4, <1>5

\* The recursive function of FlattenSeq exists.
Flattens(ss, n, f) == f = [i \in 1..n |-> IF i = 1 THEN ss[i] ELSE f[i-1] \o ss[i]]

LEMMA FlattenExists == ASSUME NEW ss PROVE \A n \in Nat : \E f : Flattens(ss, n, f)
<1> DEFINE S == {n \in Nat : \E f : Flattens(ss, n, f)}
<1>1. 0 \in S
  <2>1. Flattens(ss, 0, [i \in 1..0 |-> 0]) BY DEF Flattens
  <2> QED BY <2>1
<1>2. ASSUME NEW n \in Nat, n \in S PROVE n + 1 \in S
  <2>1. PICK f : Flattens(ss, n, f) BY <1>2
  <2> DEFINE g == [i \in 1..n+1 |-> IF i <= n THEN f[i] ELSE IF i = 1 THEN ss[i] ELSE f[i-1] \o ss[i]]
             h == [i \in 1..n+1 |-> IF i = 1 THEN ss[i] ELSE g[i-1] \o ss[i]]
  <2>2. ASSUME NEW i \in 1..n+1 PROVE g[i] = h[i]
    <3>1. CASE i <= n
      <4>1. i \in 1..n BY <3>1
      <4>2. f[i] = IF i = 1 THEN ss[i] ELSE f[i-1] \o ss[i] BY <2>1, <4>1 DEF Flattens
      <4>3. i # 1 => i - 1 \in 1..n+1 /\ i - 1 <= n BY <4>1
      <4> QED BY <3>1, <4>2, <4>3
    <3>2. CASE i = n + 1
      <4>1. i # 1 => i - 1 \in 1..n+1 /\ i - 1 <= n BY <3>2
      <4>2. ~(i <= n) BY <3>2
      <4> QED BY <4>1, <4>2
    <3> QED BY <3>1, <3>2
  <2>3. g = h BY <2>2
  <2>4. Flattens(ss, n + 1, g) BY <2>3 DEF Flattens
  <2> QED BY <2>4
<1>3. Nat \subseteq S
  <2> HIDE DEF S
  <2> QED BY <1>1, <1>2, Induction
<1> QED BY <1>3

LEMMA FlattenIs ==
  ASSUME NEW ss, Len(ss) \in Nat, Len(ss) # 0
  PROVE  \E f : Flattens(ss, Len(ss), f) /\ FlattenSeq(ss) = f[Len(ss)]
<1>1. \E f : Flattens(ss, Len(ss), f) BY SMTT(40), FlattenExists
<1> DEFINE f == CHOOSE f : f = [i \in 1..Len(ss) |-> IF i = 1 THEN ss[i] ELSE f[i-1] \o ss[i]]
<1>2. Flattens(ss, Len(ss), f) BY <1>1 DEF Flattens
<1>3. FlattenSeq(ss) = f[Len(ss)] BY DEF FlattenSeq
<1> QED BY <1>2, <1>3

LEMMA FlattenType == ASSUME NEW S, NEW ss \in Seq(Seq(S)) PROVE FlattenSeq(ss) \in Seq(S)
<1>1. CASE Len(ss) = 0 BY <1>1 DEF FlattenSeq
<1>2. CASE Len(ss) # 0
  <2>1. PICK f : Flattens(ss, Len(ss), f) /\ FlattenSeq(ss) = f[Len(ss)] BY <1>2, FlattenIs
  <2> DEFINE T == {n \in Nat : n \in 1..Len(ss) => f[n] \in Seq(S)}
  <2>2. 0 \in T OBVIOUS
  <2>3. ASSUME NEW n \in Nat, n \in T PROVE n + 1 \in T
    <3>1. SUFFICES ASSUME n + 1 \in 1..Len(ss) PROVE f[n + 1] \in Seq(S) OBVIOUS
    <3>2. \A i \in 1..Len(ss) : f[i] = IF i = 1 THEN ss[i] ELSE f[i-1] \o ss[i] BY <2>1 DEF Flattens
    <3>3. f[n + 1] = IF n = 0 THEN ss[n + 1] ELSE f[n] \o ss[n + 1]
      <4>1. n + 1 - 1 = n /\ (n + 1 = 1 <=> n = 0) OBVIOUS
      <4> QED BY <3>1, <3>2, <4>1
    <3>4. ss[n + 1] \in Seq(S) BY <3>1
    <3>5. n # 0 => f[n] \in Seq(S) BY <2>3, <3>1
    <3> QED BY <3>3, <3>4, <3>5
  <2>4. Nat \subseteq T
    <3> HIDE DEF T
    <3> QED BY <2>2, <2>3, Induction
  <2>5. Len(ss) \in T /\ Len(ss) \in 1..Len(ss) BY <1>2, <2>4
  <2> QED BY <2>1, <2>5
<1> QED BY <1>1, <1>2
-----------------------------------------------------------------------------
(* What is picked of a sequence by places.                                 *)

Picks(s, S, n, f) == f = [i \in 0..n |-> IF i = 0 THEN <<>>
                                           ELSE IF i \in S THEN Append(f[i - 1], s[i]) ELSE f[i - 1]]

\* The recursive function of Picked exists.
LEMMA PicksExists == ASSUME NEW s, NEW S PROVE \A n \in Nat : \E f : Picks(s, S, n, f)
<1> DEFINE N == {n \in Nat : \E f : Picks(s, S, n, f)}
<1>1. 0 \in N
  <2> DEFINE f == [i \in 0..0 |-> <<>>]
             h == [i \in 0..0 |-> IF i = 0 THEN <<>> ELSE IF i \in S THEN Append(f[i - 1], s[i]) ELSE f[i - 1]]
  <2>1. f = h
    <3>1. \A i \in 0..0 : i = 0 OBVIOUS
    <3> QED BY <3>1
  <2>2. Picks(s, S, 0, f) BY <2>1 DEF Picks
  <2> QED BY <2>2
<1>2. ASSUME NEW n \in Nat, n \in N PROVE n + 1 \in N
  <2>1. PICK f : Picks(s, S, n, f) BY <1>2
  <2> DEFINE g == [i \in 0..n+1 |-> IF i <= n THEN f[i] ELSE IF i \in S THEN Append(f[n], s[i]) ELSE f[n]]
             h == [i \in 0..n+1 |-> IF i = 0 THEN <<>> ELSE IF i \in S THEN Append(g[i - 1], s[i]) ELSE g[i - 1]]
  <2>2. ASSUME NEW i \in 0..n+1 PROVE g[i] = h[i]
    <3>1. CASE i <= n
      <4>1. i \in 0..n BY <3>1
      <4>2. f[i] = IF i = 0 THEN <<>> ELSE IF i \in S THEN Append(f[i - 1], s[i]) ELSE f[i - 1]
        BY <2>1, <4>1 DEF Picks
      <4>3. i # 0 => i - 1 \in 0..n+1 /\ i - 1 <= n BY <4>1
      <4>4. i # 0 => g[i - 1] = f[i - 1] BY <4>3
      <4>5. g[i] = f[i] BY <3>1
      <4> QED BY <4>2, <4>4, <4>5
    <3>2. CASE i = n + 1
      <4>1. i - 1 \in 0..n+1 /\ i - 1 <= n /\ i - 1 = n /\ i # 0 BY <3>2
      <4>2. ~(i <= n) BY <3>2
      <4>3. g[i - 1] = f[n] BY <4>1
      <4> QED BY <4>1, <4>2, <4>3
    <3> QED BY <3>1, <3>2
  <2>3. g = h BY <2>2
  <2>4. Picks(s, S, n + 1, g) BY <2>3 DEF Picks
  <2> QED BY <2>4
<1>3. Nat \subseteq N
  <2> HIDE DEF N
  <2> QED BY <1>1, <1>2, Induction
<1> QED BY <1>3

LEMMA PickedIs ==
  ASSUME NEW s, NEW S, Len(s) \in Nat
  PROVE  /\ Picked(s, S)[0] = <<>>
         /\ \A i \in 1..Len(s) :
              Picked(s, S)[i] = IF i \in S THEN Append(Picked(s, S)[i - 1], s[i]) ELSE Picked(s, S)[i - 1]
<1>1. \E f : Picks(s, S, Len(s), f) BY SMTT(40), PicksExists
<1> DEFINE f == CHOOSE f : f = [i \in 0..Len(s) |-> IF i = 0 THEN <<>>
                                           ELSE IF i \in S THEN Append(f[i - 1], s[i]) ELSE f[i - 1]]
<1>2. Picks(s, S, Len(s), f) BY <1>1 DEF Picks
<1>3. Picked(s, S) = f BY DEF Picked
<1> HIDE DEF f
<1>4. f[0] = <<>> BY <1>2 DEF Picks
<1>5. ASSUME NEW i \in 1..Len(s) PROVE f[i] = IF i \in S THEN Append(f[i - 1], s[i]) ELSE f[i - 1]
  <2>1. i \in 0..Len(s) /\ i # 0 OBVIOUS
  <2>2. f[i] = IF i = 0 THEN <<>> ELSE IF i \in S THEN Append(f[i - 1], s[i]) ELSE f[i - 1]
    BY <1>2, <2>1 DEF Picks
  <2> QED BY <2>1, <2>2
<1> QED BY <1>3, <1>4, <1>5

\* What holds of nothing, and of one more element, holds of all.
LEMMA AlongSequence ==
  ASSUME NEW T, NEW n \in Nat, 0 \in T, \A i \in 1..n : i - 1 \in T => i \in T
  PROVE  0..n \subseteq T
<1> DEFINE R == {i \in Nat : i <= n => i \in T}
<1>1. 0 \in R OBVIOUS
<1>2. ASSUME NEW i \in Nat, i \in R PROVE i + 1 \in R
  <2>1. SUFFICES ASSUME i + 1 <= n PROVE i + 1 \in T OBVIOUS
  <2>2. i + 1 \in 1..n /\ (i + 1) - 1 = i /\ i <= n BY <2>1
  <2> QED BY <1>2, <2>2
<1>3. Nat \subseteq R
  <2> HIDE DEF R
  <2> QED BY <1>1, <1>2, Induction
<1> QED BY <1>3

LEMMA PickedType ==
  ASSUME NEW T, NEW s \in Seq(T), NEW S
  PROVE  \A i \in 0..Len(s) : Picked(s, S)[i] \in Seq(T) /\ Len(Picked(s, S)[i]) <= i
<1> DEFINE N == {i \in 0..Len(s) : Picked(s, S)[i] \in Seq(T) /\ Len(Picked(s, S)[i]) <= i}
<1>1. 0 \in N
  <2>1. Picked(s, S)[0] = <<>> /\ Len(s) \in Nat BY PickedIs
  <2>2. <<>> \in Seq(T) /\ Len(<<>>) <= 0 OBVIOUS
  <2>3. Picked(s, S)[0] \in Seq(T) /\ Len(Picked(s, S)[0]) <= 0 BY <2>1, <2>2, Zenon
  <2>4. 0 \in 0..Len(s) BY <2>1
  <2> QED BY <2>3, <2>4
<1>2. ASSUME NEW i \in 1..Len(s), i - 1 \in N PROVE i \in N
  <2>1. s[i] \in T /\ Picked(s, S)[i - 1] \in Seq(T) /\ Len(Picked(s, S)[i - 1]) <= i - 1 BY <1>2
  <2>2. Append(Picked(s, S)[i - 1], s[i]) \in Seq(T) /\ Len(Append(Picked(s, S)[i - 1], s[i])) <= i BY <2>1
  <2>3. Picked(s, S)[i] = Append(Picked(s, S)[i - 1], s[i]) \/ Picked(s, S)[i] = Picked(s, S)[i - 1]
    <3>1. Len(s) \in Nat OBVIOUS
    <3>2. Picked(s, S)[i] = IF i \in S THEN Append(Picked(s, S)[i - 1], s[i]) ELSE Picked(s, S)[i - 1]
      BY <3>1, PickedIs
    <3> QED BY <3>2, Zenon
  <2>4. Picked(s, S)[i] \in Seq(T) /\ Len(Picked(s, S)[i]) <= i
    <3>1. CASE Picked(s, S)[i] = Append(Picked(s, S)[i - 1], s[i]) BY <2>2, <3>1
    <3>2. CASE Picked(s, S)[i] = Picked(s, S)[i - 1]
      <4>1. Len(Picked(s, S)[i - 1]) \in Nat BY <2>1
      <4> QED BY <2>1, <3>2, <4>1
    <3> QED BY <2>3, <3>1, <3>2
  <2> QED BY <2>4
<1>3. 0..Len(s) \subseteq N
  <2> HIDE DEF N
  <2>1. Len(s) \in Nat OBVIOUS
  <2> QED BY <1>1, <1>2, <2>1, AlongSequence
<1> QED BY <1>3

LEMMA PickType == ASSUME NEW T, NEW s \in Seq(T), NEW S PROVE Pick(s, S) \in Seq(T) /\ Len(Pick(s, S)) <= Len(s)
BY PickedType DEF Pick

\* Only the elements up to there, and which of their places are picked, matter.
LEMMA PickedSame ==
  ASSUME NEW T, NEW s \in Seq(T), NEW t \in Seq(T), NEW S, NEW R, NEW n \in Nat, n <= Len(s), n <= Len(t),
         \A i \in 1..n : s[i] = t[i] /\ (i \in S <=> i \in R)
  PROVE  Picked(s, S)[n] = Picked(t, R)[n]
<1> DEFINE N == {i \in 0..n : Picked(s, S)[i] = Picked(t, R)[i]}
<1>1. 0 \in N BY PickedIs
<1>2. ASSUME NEW i \in 1..n, i - 1 \in N PROVE i \in N
  <2>1. i \in 1..Len(s) /\ i \in 1..Len(t) OBVIOUS
  <2>2. Picked(s, S)[i] = IF i \in S THEN Append(Picked(s, S)[i - 1], s[i]) ELSE Picked(s, S)[i - 1] BY <2>1, PickedIs
  <2>3. Picked(t, R)[i] = IF i \in R THEN Append(Picked(t, R)[i - 1], t[i]) ELSE Picked(t, R)[i - 1] BY <2>1, PickedIs
  <2> QED BY <1>2, <2>2, <2>3
<1>3. 0..n \subseteq N
  <2> HIDE DEF N
  <2> QED BY <1>1, <1>2, AlongSequence
<1> QED BY <1>3

LEMMA PickBegin ==
  ASSUME NEW T, NEW s \in Seq(T), NEW t \in Seq(T), NEW S, NEW R, Len(s) <= Len(t),
         \A i \in 1..Len(s) : s[i] = t[i] /\ (i \in S <=> i \in R)
  PROVE  Pick(s, S) = Picked(t, R)[Len(s)]
<1> DEFINE n == Len(s)
<1>1. n \in Nat /\ n <= Len(s) /\ n <= Len(t) OBVIOUS
<1>2. ASSUME NEW i \in 1..n PROVE s[i] = t[i] /\ (i \in S <=> i \in R) OBVIOUS
<1>3. s \in Seq(T) /\ t \in Seq(T) OBVIOUS
<1> HIDE DEF n
<1>4. Picked(s, S)[n] = Picked(t, R)[n] BY ONLY <1>1, <1>2, <1>3, PickedSame
<1> QED BY <1>4 DEF Pick, n

LEMMA PickSame ==
  ASSUME NEW T, NEW s \in Seq(T), NEW S, NEW R, \A i \in 1..Len(s) : i \in S <=> i \in R
  PROVE  Pick(s, S) = Pick(s, R)
BY PickedSame DEF Pick

LEMMA PickAppend ==
  ASSUME NEW T, NEW s \in Seq(T), NEW x \in T, NEW S
  PROVE  Pick(Append(s, x), S) = IF Len(s) + 1 \in S THEN Append(Pick(s, S), x) ELSE Pick(s, S)
<1> DEFINE t == Append(s, x)
<1>1. t \in Seq(T) /\ Len(t) = Len(s) + 1 /\ t[Len(s) + 1] = x /\ \A i \in 1..Len(s) : t[i] = s[i] OBVIOUS
<1> HIDE DEF t
<1>2. Picked(t, S)[Len(s)] = Picked(s, S)[Len(s)] BY <1>1, PickedSame
<1>3. Picked(t, S)[Len(s) + 1] = IF Len(s) + 1 \in S THEN Append(Picked(t, S)[Len(s)], x) ELSE Picked(t, S)[Len(s)]
  <2>1. Len(s) + 1 \in 1..Len(t) /\ (Len(s) + 1) - 1 = Len(s) BY <1>1
  <2> QED BY <1>1, <2>1, PickedIs
<1> QED BY <1>1, <1>2, <1>3 DEF t, Pick

LEMMA PickNone ==
  ASSUME NEW T, NEW s \in Seq(T), NEW S, \A i \in 1..Len(s) : i \notin S
  PROVE  Pick(s, S) = <<>>
<1> DEFINE N == {i \in 0..Len(s) : Picked(s, S)[i] = <<>>}
<1>1. 0 \in N BY PickedIs
<1>2. ASSUME NEW i \in 1..Len(s), i - 1 \in N PROVE i \in N BY <1>2, PickedIs
<1>3. 0..Len(s) \subseteq N
  <2> HIDE DEF N
  <2>1. Len(s) \in Nat OBVIOUS
  <2> QED BY <1>1, <1>2, <2>1, AlongSequence
<1> QED BY <1>3 DEF Pick

\* Earlier picks are the beginning of later ones.
LEMMA PickedPrefix ==
  ASSUME NEW T, NEW s \in Seq(T), NEW S, NEW n \in 0..Len(s)
  PROVE  /\ Len(Picked(s, S)[n]) <= Len(Pick(s, S))
         /\ Picked(s, S)[n] = SubSeq(Pick(s, S), 1, Len(Picked(s, S)[n]))
<1> DEFINE P == Picked(s, S)
           N == {d \in 0..Len(s) - n : /\ Len(P[n]) <= Len(P[n + d])
                                       /\ \A k \in 1..Len(P[n]) : P[n][k] = P[n + d][k]}
<1>1. 0 \in N BY PickedType
<1>2. ASSUME NEW d \in 1..Len(s) - n, d - 1 \in N PROVE d \in N
  <2>1. n + d \in 1..Len(s) /\ n + d \in 0..Len(s) /\ (n + d) - 1 = n + (d - 1) /\ n + (d - 1) \in 0..Len(s) OBVIOUS
  <2>2. P[n + d] = IF n + d \in S THEN Append(P[n + (d - 1)], s[n + d]) ELSE P[n + (d - 1)] BY <2>1, PickedIs
  <2>3. P[n + (d - 1)] \in Seq(T) /\ P[n] \in Seq(T) /\ s[n + d] \in T BY <2>1, PickedType
  <2>4. Len(P[n]) <= Len(P[n + (d - 1)]) /\ \A k \in 1..Len(P[n]) : P[n][k] = P[n + (d - 1)][k] BY <1>2
  <2> HIDE DEF P
  <2>5. Len(P[n]) <= Len(P[n + d]) /\ \A k \in 1..Len(P[n]) : P[n][k] = P[n + d][k] BY <2>2, <2>3, <2>4
  <2> QED BY <2>5
<1>3. 0..Len(s) - n \subseteq N
  <2> HIDE DEF N
  <2>1. Len(s) - n \in Nat OBVIOUS
  <2> QED BY <1>1, <1>2, <2>1, AlongSequence
<1>4. n + (Len(s) - n) = Len(s) /\ Len(s) - n \in N
  <2> HIDE DEF N
  <2>1. Len(s) \in Nat OBVIOUS
  <2>2. Len(s) - n \in 0..Len(s) - n BY <2>1
  <2> QED BY <1>3, <2>1, <2>2
<1>5. P[n] \in Seq(T) /\ P[Len(s)] \in Seq(T) BY PickedType
<1>6. Len(P[n]) <= Len(P[Len(s)]) /\ \A k \in 1..Len(P[n]) : P[n][k] = P[Len(s)][k] BY <1>4
<1> HIDE DEF P
<1>7. P[n] = SubSeq(P[Len(s)], 1, Len(P[n])) BY <1>5, <1>6
<1> QED BY <1>6, <1>7 DEF Pick, P

\* What is picked of an increasing sequence increases, and was picked.
LEMMA PickIncreasing ==
  ASSUME NEW s \in Seq(Nat), NEW S, \A i, j \in 1..Len(s) : i < j => s[i] < s[j]
  PROVE  /\ \A i, j \in 1..Len(Pick(s, S)) : i < j => Pick(s, S)[i] < Pick(s, S)[j]
         /\ \A i \in 1..Len(Pick(s, S)) : \E j \in 1..Len(s) : j \in S /\ Pick(s, S)[i] = s[j]
<1> DEFINE P == Picked(s, S)
           N == {n \in 0..Len(s) : /\ \A i, j \in 1..Len(P[n]) : i < j => P[n][i] < P[n][j]
                                   /\ \A i \in 1..Len(P[n]) : \E j \in 1..n : j \in S /\ P[n][i] = s[j]}
<1>1. 0 \in N BY PickedIs
<1>2. ASSUME NEW n \in 1..Len(s), n - 1 \in N PROVE n \in N
  <2>1. P[n] = IF n \in S THEN Append(P[n - 1], s[n]) ELSE P[n - 1] BY PickedIs
  <2>2. n - 1 \in 0..Len(s) /\ P[n - 1] \in Seq(Nat) /\ s[n] \in Nat BY PickedType
  <2>3. /\ \A i, j \in 1..Len(P[n - 1]) : i < j => P[n - 1][i] < P[n - 1][j]
        /\ \A i \in 1..Len(P[n - 1]) : \E j \in 1..n - 1 : j \in S /\ P[n - 1][i] = s[j]
    BY <1>2
  <2> HIDE DEF P
  <2>4. \A i \in 1..Len(P[n - 1]) : P[n - 1][i] < s[n]
    <3> SUFFICES ASSUME NEW i \in 1..Len(P[n - 1]) PROVE P[n - 1][i] < s[n] OBVIOUS
    <3>1. PICK j \in 1..n - 1 : P[n - 1][i] = s[j] BY <2>3
    <3>2. j \in 1..Len(s) /\ j < n BY <3>1
    <3> QED BY <3>1, <3>2
  <2>5. CASE n \in S
    <3> DEFINE q == P[n - 1]
    <3>1. P[n] = Append(q, s[n]) /\ q \in Seq(Nat) BY <2>1, <2>2, <2>5
    <3>2. Len(P[n]) = Len(q) + 1 /\ P[n][Len(q) + 1] = s[n] /\ \A i \in 1..Len(q) : P[n][i] = q[i] BY <2>2, <3>1
    <3> HIDE DEF q
    <3>3. Len(q) \in Nat BY <3>1
    <3>4. ASSUME NEW i \in 1..Len(P[n]), NEW j \in 1..Len(P[n]), i < j PROVE P[n][i] < P[n][j]
      <4>1. i \in 1..Len(q) BY <3>2, <3>3, <3>4
      <4>2. CASE j = Len(q) + 1 BY <2>4, <3>2, <4>1, <4>2 DEF q
      <4>3. CASE j \in 1..Len(q) BY <2>3, <3>2, <3>4, <4>1, <4>3 DEF q
      <4> QED BY <3>2, <3>3, <4>2, <4>3
    <3>5. ASSUME NEW i \in 1..Len(P[n]) PROVE \E j \in 1..n : j \in S /\ P[n][i] = s[j]
      <4>1. CASE i = Len(q) + 1 BY <2>5, <3>2, <4>1
      <4>2. CASE i \in 1..Len(q)
        <5>1. PICK j \in 1..n - 1 : j \in S /\ q[i] = s[j] BY <2>3, <4>2 DEF q
        <5>2. j \in 1..n BY <5>1
        <5> QED BY <3>2, <4>2, <5>1, <5>2
      <4> QED BY <3>2, <3>3, <4>1, <4>2
    <3> QED BY <3>4, <3>5
  <2>6. CASE n \notin S
    <3>1. P[n] = P[n - 1] BY <2>1, <2>6
    <3>2. ASSUME NEW i \in 1..Len(P[n]) PROVE \E j \in 1..n : j \in S /\ P[n][i] = s[j]
      <4>1. PICK j \in 1..n - 1 : j \in S /\ P[n - 1][i] = s[j] BY <2>3, <3>1
      <4>2. j \in 1..n BY <4>1
      <4> QED BY <3>1, <4>1, <4>2
    <3>3. \A i, j \in 1..Len(P[n]) : i < j => P[n][i] < P[n][j] BY <2>3, <3>1
    <3> QED BY <3>2, <3>3
  <2> QED BY <2>5, <2>6
<1>3. 0..Len(s) \subseteq N
  <2> HIDE DEF N
  <2>1. Len(s) \in Nat OBVIOUS
  <2> QED BY <1>1, <1>2, <2>1, AlongSequence
<1> QED BY <1>3 DEF Pick

\* One sequence more is joined at the end.
LEMMA FlattenMore ==
  ASSUME NEW S, NEW n \in Nat, NEW ss \in [1..n+1 -> Seq(S)]
  PROVE  /\ FlattenSeq([i \in 1..n |-> ss[i]]) \in Seq(S)
         /\ FlattenSeq(ss) = FlattenSeq([i \in 1..n |-> ss[i]]) \o ss[n + 1]
<1> DEFINE tt == [i \in 1..n |-> ss[i]]
<1>1. /\ ss \in Seq(Seq(S)) /\ Len(ss) = n + 1 /\ \A i \in 1..n+1 : ss[i] \in Seq(S)
      /\ tt \in Seq(Seq(S)) /\ Len(tt) = n /\ \A i \in 1..n : tt[i] = ss[i]
  OBVIOUS
<1>0. n = 0 => tt = <<>> OBVIOUS
<1> HIDE DEF tt
<1>2. FlattenSeq(tt) \in Seq(S) BY <1>1, FlattenType
<1>3. PICK f : Flattens(ss, n + 1, f) /\ FlattenSeq(ss) = f[n + 1]
  <2>1. Len(ss) \in Nat /\ Len(ss) # 0 BY <1>1
  <2> QED BY <1>1, <2>1, FlattenIs
<1>4. \A i \in 1..n+1 : f[i] = IF i = 1 THEN ss[i] ELSE f[i-1] \o ss[i] BY <1>3 DEF Flattens
<1>5. CASE n = 0
  <2>1. f[1] = ss[1] BY <1>4, <1>5
  <2>2. FlattenSeq(tt) = <<>> BY <1>0, <1>1, <1>5 DEF FlattenSeq
  <2>3. <<>> \o ss[1] = ss[1] BY <1>1, <1>5
  <2> QED BY <1>2, <1>3, <1>5, <2>1, <2>2, <2>3 DEF tt
<1>6. CASE n # 0
  <2>1. PICK g : Flattens(tt, n, g) /\ FlattenSeq(tt) = g[n] BY <1>1, <1>6, FlattenIs
  <2>2. \A i \in 1..n : g[i] = IF i = 1 THEN tt[i] ELSE g[i-1] \o tt[i] BY <2>1 DEF Flattens
  <2> DEFINE N == {i \in 0..n : i # 0 => g[i] = f[i]}
  <2>3. 0 \in N OBVIOUS
  <2>4. ASSUME NEW i \in 1..n, i - 1 \in N PROVE i \in N
    <3>1. i \in 1..n+1 /\ (i # 1 => i - 1 # 0) OBVIOUS
    <3>2. i # 1 => g[i - 1] = f[i - 1] BY <2>4, <3>1
    <3>3. g[i] = f[i] BY <1>1, <1>4, <2>2, <3>1, <3>2
    <3> QED BY <3>3
  <2>5. n \in N
    <3> HIDE DEF N
    <3>1. 0..n \subseteq N BY <2>3, <2>4, AlongSequence
    <3> QED BY <3>1
  <2>6. f[n + 1] = f[n] \o ss[n + 1]
    <3>1. n + 1 \in 1..n+1 /\ n + 1 # 1 /\ (n + 1) - 1 = n BY <1>6
    <3> QED BY <1>4, <3>1
  <2> QED BY <1>2, <1>3, <1>6, <2>1, <2>5, <2>6 DEF tt
<1> QED BY <1>5, <1>6

-----------------------------------------------------------------------------
(* Refreshes of upstream-commit pins, for any number of runs.  A run works *)
(* on what it found when it started: AtStart compares with that, Answers   *)
(* says what the workers made of it, and Saved what the files hold by now. *)

WasSeen(c) == kind[c] # "gone" \/ refresh.before[c] \in Tips
WasType(c) == IF kind[c] # "gone" THEN kind[c]
              ELSE IF refresh.before[c] \in Tips THEN default ELSE "none"
PinAnswer(c) == IF refresh.before[c] = "empty" THEN "error"
             ELSE IF refresh.before[c] = tip[c] THEN "same" ELSE tip[c]

AtStart ==
  /\ refresh.end = "none"
  /\ refresh.all => refresh.sel = {c \in Components : WasSeen(c)}
  /\ \A c \in Components \ refresh.sel : refresh.result[c] = "none"
  /\ \A c \in refresh.sel :
       /\ WasSeen(c)
       /\ WasType(c) # "upstream" =>
            refresh.result[c] = IF refresh.before[c] # NoPin THEN "remove" ELSE "none"

Answers ==
  \A c \in refresh.sel : WasType(c) = "upstream" =>
     \/ refresh.pc = "resolve" /\ c \in refresh.todo /\ refresh.result[c] = "none"
     \/ c \notin refresh.todo /\ refresh.result[c] = "skipped" /\ refresh.cancelled /\ refresh.pc = "resolve"
     \/ (refresh.pc = "resolve" => c \notin refresh.todo) /\ refresh.result[c] \in {PinAnswer(c), "error"}

Saved ==
  /\ refresh.pc = "resolve" =>
       /\ pins = refresh.before
       /\ refresh.todo \subseteq {c \in refresh.sel : WasType(c) = "upstream"}
  /\ refresh.pc = "save" =>
       /\ refresh.todo \subseteq ToWrite
       /\ refresh.check => refresh.todo = {}
       /\ \A c \in Components :
            pins[c] = IF ~refresh.check /\ c \in ToWrite \ refresh.todo
                      THEN Written(c) ELSE refresh.before[c]

InRun == refresh.pc # "idle" => AtStart /\ Answers /\ Saved

PinsInv == PinsTypeOK /\ InRun /\ RefreshIsExact /\ OthersUntouched

LEMMA PinsInitHolds == PinsInit => PinsInv
  <1> SUFFICES ASSUME PinsInit PROVE PinsInv
    OBVIOUS
  <1> USE PinsAssumption
  <1>1. refresh \in Refreshes
    BY DEF PinsInit, Idle, NoResult, Refreshes, Results, Contents
  <1>2. PinsTypeOK
    BY <1>1 DEF PinsInit, PinsTypeOK, Contents
  <1>3. InRun /\ RefreshIsExact
    BY DEF PinsInit, Idle, InRun, RefreshIsExact
  <1>4. OthersUntouched
    BY DEF PinsInit, Idle, NoResult, OthersUntouched, Unresolved
  <1> QED
    BY <1>2, <1>3, <1>4 DEF PinsInv

-----------------------------------------------------------------------------
(* What the steps do to the record of the run, field by field              *)

LEMMA RunTypes == ASSUME PinsTypeOK
                  PROVE  /\ refresh.n \in Nat /\ refresh.pc \in {"idle", "resolve", "save"}
                         /\ refresh.sel \subseteq Components /\ refresh.todo \subseteq Components
                         /\ refresh.result \in [Components -> Results]
                         /\ refresh.before \in [Components -> Contents]
  BY DEF PinsTypeOK, Refreshes

(* A run that ends, however, keeps what it found out. *)
LEMMA FinishFields == ASSUME PinsTypeOK, NEW end \in {"ok", "error", "cancelled", "killed"},
                             refresh' = Finish(end)
                      PROVE  /\ refresh' \in Refreshes /\ refresh'.pc = "idle" /\ refresh'.end = end
                             /\ UNCHANGED <<refresh.n, refresh.all, refresh.check, refresh.sel,
                                            refresh.result, refresh.before>>
  BY DEF PinsTypeOK, Refreshes, Finish

(* A step to "idle" that is not a success is harmless as long as the pins  *)
(* of the components it must not touch are those from before.              *)
LEMMA Ended == ASSUME PinsInv, refresh.pc # "idle", NEW end \in {"error", "cancelled", "killed"},
                      Set(Finish(end)), pins' \in [Components -> Contents],
                      refresh.check \/ end = "cancelled" => pins' = refresh.before,
                      \A c \in Unresolved : pins'[c] = refresh.before[c]
               PROVE  PinsInv'
  <1>1. /\ refresh' \in Refreshes /\ refresh'.pc = "idle" /\ refresh'.end = end
        /\ UNCHANGED <<refresh.n, refresh.all, refresh.check, refresh.sel,
                       refresh.result, refresh.before>>
    BY FinishFields DEF PinsInv, Set
  <1>2. PinsTypeOK'
    BY <1>1 DEF PinsInv, PinsTypeOK, Set
  <1>3. InRun' /\ RefreshIsExact'
    BY <1>1 DEF InRun, RefreshIsExact
  <1>4. Unresolved' = Unresolved
    BY <1>1 DEF Unresolved
  <1>5. OthersUntouched'
    BY <1>1, <1>4 DEF OthersUntouched
  <1> QED
    BY <1>2, <1>3, <1>5 DEF PinsInv

(* While a run goes on only the pins matter that it has not written. *)
LEMMA Unwritten == ASSUME PinsInv, refresh.pc # "idle", NEW c \in Components,
                          c \notin ToWrite \/ refresh.check \/ c \in refresh.todo
                   PROVE  pins[c] = refresh.before[c]
  BY RunTypes DEF PinsInv, InRun, Saved

LEMMA FailedIsNotWritten == PinsTypeOK => Unresolved \cap ToWrite = {}
  BY PinsAssumption DEF Unresolved, ToWrite, Removed

-----------------------------------------------------------------------------
(* The steps                                                               *)

LEMMA StartKeeps == ASSUME PinsInv, NEW all \in BOOLEAN, NEW check \in BOOLEAN,
                           NEW sel \in SUBSET Components, StartRefresh(all, check, sel)
                    PROVE  PinsInv'
  <1> DEFINE asks == {c \in sel : Type(c) = "upstream"}
  <1>1. refresh' = [n |-> refresh.n + 1, pc |-> "resolve", all |-> all, check |-> check, sel |-> sel,
                    cancelled |-> FALSE, result |-> Inspected(sel), todo |-> asks, end |-> "none",
                    before |-> pins]
    BY DEF StartRefresh, Set, Idle
  <1>2. UNCHANGED <<default, kind, tip, nenv, pins>> /\ (all => sel = Resolved) /\ sel \subseteq Resolved
    BY DEF StartRefresh, Set
  <1>3. Inspected(sel) \in [Components -> Results]
    BY DEF Inspected, NoResult, Results
  <1>4. refresh' \in Refreshes /\ PinsTypeOK'
    BY <1>1, <1>2, <1>3, RunTypes DEF PinsInv, PinsTypeOK, Refreshes
  <1>5. \A c \in Components : (WasType(c))' = Type(c) /\ ((WasSeen(c))' <=> c \in Resolved)
    BY <1>1, <1>2 DEF WasType, WasSeen, Type, Resolved, PinsInv, PinsTypeOK
  <1>6. AtStart'
    BY <1>1, <1>2, <1>5 DEF AtStart, Inspected, NoResult, Resolved
  <1>7. Answers' /\ Saved'
    BY <1>1, <1>2, <1>5 DEF Answers, Saved, Inspected, NoResult
  <1>8. InRun' /\ RefreshIsExact'
    BY <1>1, <1>6, <1>7 DEF InRun, RefreshIsExact
  <1>9. OthersUntouched'
    BY <1>1, <1>2 DEF OthersUntouched
  <1> QED
    BY <1>4, <1>8, <1>9 DEF PinsInv

(* A worker answers. *)
LEMMA ResolveKeeps == ASSUME PinsInv, NEW c \in Components, Resolve(c) PROVE PinsInv'
  <1>1. PICK r \in {Compared(c, tip[c]), "error"} \cup (IF refresh.cancelled THEN {"skipped"} ELSE {}) :
          refresh' = [refresh EXCEPT !.todo = @ \ {c}, !.result[c] = r]
    BY DEF Resolve, Set
  <1>2. r \in Results /\ c \in refresh.todo /\ refresh.pc = "resolve"
    BY DEF Resolve, Compared, PinsInv, PinsTypeOK, Results
  <1>3. /\ refresh' \in Refreshes
        /\ UNCHANGED <<refresh.n, refresh.pc, refresh.all, refresh.check, refresh.sel,
                       refresh.cancelled, refresh.end, refresh.before>>
        /\ refresh'.todo = refresh.todo \ {c}
        /\ \A d \in Components : refresh'.result[d] = IF d = c THEN r ELSE refresh.result[d]
    BY <1>1, <1>2 DEF PinsInv, PinsTypeOK, Refreshes
  <1>4. UNCHANGED <<default, kind, tip, nenv, pins>>
    BY DEF Resolve, Set
  <1>5. AtStart /\ Answers /\ Saved
    BY <1>2 DEF PinsInv, InRun
  <1>6. c \in refresh.sel /\ WasType(c) = "upstream" /\ pins = refresh.before
    BY <1>2, <1>5 DEF Saved
  <1>7. \A d \in Components : /\ (WasType(d))' = WasType(d) /\ ((WasSeen(d))' <=> WasSeen(d))
                             /\ (PinAnswer(d))' = PinAnswer(d)
    BY <1>3, <1>4 DEF WasType, WasSeen, PinAnswer
  <1>8. Compared(c, tip[c]) = PinAnswer(c)
    <2>1. tip[c] \in Tips /\ "empty" \notin Tips
      BY PinsAssumption DEF PinsInv, PinsTypeOK
    <2> QED
      BY <1>6, <2>1 DEF Compared, PinAnswer
  <1>9. AtStart'
    BY <1>3, <1>5, <1>6, <1>7, RunTypes DEF AtStart, PinsInv
  <1>10. Answers'
    BY <1>1, <1>2, <1>3, <1>5, <1>7, <1>8, RunTypes DEF Answers, PinsInv
  <1>11. Saved'
    BY <1>2, <1>3, <1>4, <1>5, <1>7, RunTypes DEF Saved, PinsInv
  <1>12. PinsTypeOK' /\ RefreshIsExact'
    BY <1>2, <1>3, <1>4 DEF PinsInv, PinsTypeOK, RefreshIsExact
  <1>13. OthersUntouched'
    BY <1>2, <1>3, <1>4, <1>5, <1>6 DEF OthersUntouched, AtStart
  <1> QED
    BY <1>9, <1>10, <1>11, <1>12, <1>13 DEF PinsInv, InRun

(* The map has ended. *)
LEMMA SaveStartKeeps == ASSUME PinsInv, Resolved2Save PROVE PinsInv'
  <1>1. AtStart /\ Answers /\ Saved /\ refresh.pc = "resolve" /\ refresh.todo = {} /\ UNCHANGED pins
    BY DEF Resolved2Save, PinsInv, InRun
  <1>2. pins = refresh.before /\ pins \in [Components -> Contents]
    BY <1>1 DEF Saved, PinsInv, PinsTypeOK
  <1>3. CASE Set(Finish("cancelled"))
    BY <1>1, <1>2, <1>3, Ended DEF Unresolved
  <1>4. CASE ~refresh.cancelled /\ Set([refresh EXCEPT !.pc = "save", !.todo = IF refresh.check THEN {} ELSE ToWrite])
    <2>1. /\ refresh' \in Refreshes /\ refresh'.pc = "save"
          /\ UNCHANGED <<refresh.n, refresh.all, refresh.check, refresh.sel, refresh.result,
                         refresh.cancelled, refresh.end, refresh.before>>
          /\ refresh'.todo = IF refresh.check THEN {} ELSE ToWrite
      BY <1>4, RunTypes DEF PinsInv, PinsTypeOK, Refreshes, Set, ToWrite, Removed
    <2>2. UNCHANGED <<default, kind, tip, nenv>>
      BY <1>4 DEF Set
    <2>3. /\ ToWrite' = ToWrite /\ Unresolved' = Unresolved
          /\ \A d \in Components : /\ (WasType(d))' = WasType(d) /\ ((WasSeen(d))' <=> WasSeen(d))
                                  /\ (PinAnswer(d))' = PinAnswer(d)
      BY <2>1, <2>2 DEF ToWrite, Removed, Unresolved, WasType, WasSeen, PinAnswer
    <2>4. AtStart' /\ Answers'
      BY <1>1, <1>4, <2>1, <2>3, RunTypes DEF AtStart, Answers, PinsInv
    <2>5. Saved'
      BY <1>1, <1>2, <2>1, <2>3 DEF Saved
    <2>6. PinsTypeOK' /\ RefreshIsExact' /\ OthersUntouched'
      BY <1>1, <1>2, <2>1, <2>2, <2>3 DEF PinsInv, PinsTypeOK, RefreshIsExact, OthersUntouched, AtStart
    <2> QED
      BY SMTT(30), <2>4, <2>5, <2>6 DEF PinsInv, InRun
  <1> QED
    BY <1>3, <1>4 DEF Resolved2Save

(* One pin is written, or its write fails. *)
LEMMA SaveOneKeeps == ASSUME PinsInv, NEW c \in Components, SaveOne(c) PROVE PinsInv'
  <1>1. AtStart /\ Answers /\ Saved /\ refresh.pc = "save" /\ c \in refresh.todo
    BY DEF SaveOne, PinsInv, InRun
  <1>2. c \in ToWrite /\ c \notin Unresolved /\ ~refresh.check
    BY <1>1, FailedIsNotWritten DEF Saved, PinsInv
  <1>3. Written(c) \in Contents
    BY <1>2 DEF Written, ToWrite, Contents
  <1>4. CASE Set([refresh EXCEPT !.todo = @ \ {c}]) /\ pins' = [pins EXCEPT ![c] = Written(c)]
    <2>1. /\ refresh' \in Refreshes /\ refresh'.todo = refresh.todo \ {c}
          /\ UNCHANGED <<refresh.n, refresh.pc, refresh.all, refresh.check, refresh.sel, refresh.result,
                         refresh.cancelled, refresh.end, refresh.before>>
      BY <1>4 DEF PinsInv, PinsTypeOK, Refreshes, Set
    <2>2. UNCHANGED <<default, kind, tip, nenv>>
      BY <1>4 DEF Set
    <2>3. /\ ToWrite' = ToWrite /\ Unresolved' = Unresolved
          /\ \A d \in Components : /\ (WasType(d))' = WasType(d) /\ ((WasSeen(d))' <=> WasSeen(d))
                                  /\ (PinAnswer(d))' = PinAnswer(d) /\ (Written(d))' = Written(d)
      BY <2>1, <2>2 DEF ToWrite, Removed, Unresolved, WasType, WasSeen, PinAnswer, Written
    <2>4. AtStart' /\ Answers'
      BY <1>1, <2>1, <2>3, RunTypes DEF AtStart, Answers, PinsInv
    <2>5. Saved'
      BY <1>1, <1>2, <1>4, <2>1, <2>3 DEF Saved, PinsInv, PinsTypeOK
    <2>6. PinsTypeOK'
      BY <1>3, <1>4, <2>1, <2>2 DEF PinsInv, PinsTypeOK
    <2>7. RefreshIsExact' /\ OthersUntouched'
      <3>1. \A d \in Components : d # c => pins'[d] = pins[d]
        BY <1>4 DEF PinsInv, PinsTypeOK
      <3>2. c \in refresh.sel
        BY <1>2 DEF ToWrite, Removed
      <3> QED
        BY <1>1, <1>2, <2>1, <2>3, <3>1, <3>2 DEF PinsInv, RefreshIsExact, OthersUntouched, AtStart
    <2> QED
      BY <2>4, <2>5, <2>6, <2>7 DEF PinsInv, InRun
  <1>5. CASE Set(Finish("error")) /\ (UNCHANGED pins \/ pins' = [pins EXCEPT ![c] = "empty"])
    <2>1. pins' \in [Components -> Contents]
      BY <1>5 DEF PinsInv, PinsTypeOK, Contents
    <2>2. \A d \in Unresolved : pins'[d] = refresh.before[d]
      <3>1. \A d \in Unresolved : d \in Components /\ d \notin ToWrite /\ d # c
        BY <1>2, FailedIsNotWritten, RunTypes DEF PinsInv, Unresolved
      <3>2. \A d \in Unresolved : pins[d] = refresh.before[d]
        BY <1>1, <3>1, Unwritten
      <3> QED
        BY <1>5, <3>1, <3>2 DEF PinsInv, PinsTypeOK
    <2> QED
      BY <1>1, <1>2, <1>5, <2>1, <2>2, Ended
  <1> QED
    BY <1>4, <1>5 DEF SaveOne

-----------------------------------------------------------------------------
(* The end of a run: what is pinned by then                                *)

(* Each selected component without an error has the pin of a fresh run. *)
LEMMA SelectedIsFresh ==
  ASSUME PinsInv, refresh.pc = "save", refresh.todo = {}, Unresolved = {}, ~refresh.check \/ ToWrite = {},
         NEW c \in refresh.sel
  PROVE  pins[c] = IF WasType(c) = "upstream" THEN tip[c] ELSE NoPin
  <1>1. AtStart /\ Answers /\ Saved /\ c \in Components
    BY RunTypes DEF PinsInv, InRun
  <1>2. pins[c] = IF c \in ToWrite THEN Written(c) ELSE refresh.before[c]
    BY <1>1 DEF Saved
  <1>3. CASE WasType(c) = "upstream"
    <2>1. refresh.result[c] \in {"same", tip[c]} /\ refresh.result[c] = PinAnswer(c)
      BY <1>1, <1>3 DEF Answers, Unresolved, PinAnswer
    <2>2. tip[c] \in Tips
      BY <1>1 DEF PinsInv, PinsTypeOK
    <2>3. CASE refresh.result[c] = "same"
      <3>1. refresh.before[c] = tip[c]
        BY <2>1, <2>2, <2>3, PinsAssumption DEF PinAnswer
      <3>2. c \notin ToWrite
        BY <2>3, PinsAssumption DEF ToWrite, Removed
      <3> QED
        BY <1>2, <1>3, <3>1, <3>2
    <2>4. CASE refresh.result[c] = tip[c]
      <3>1. c \in ToWrite /\ c \notin Removed
        BY <2>2, <2>4, PinsAssumption DEF ToWrite, Removed
      <3> QED
        BY <1>2, <1>3, <2>4, <3>1 DEF Written
    <2> QED
      BY <2>1, <2>3, <2>4
  <1>4. CASE WasType(c) # "upstream"
    <2>1. CASE refresh.before[c] # NoPin
      <3>1. refresh.result[c] = "remove"
        BY <1>1, <1>4, <2>1 DEF AtStart
      <3> QED
        BY <1>2, <1>4, <3>1 DEF Written, ToWrite, Removed
    <2>2. CASE refresh.before[c] = NoPin
      <3>1. refresh.result[c] = "none"
        BY <1>1, <1>4, <2>2 DEF AtStart
      <3> QED
        BY <1>2, <1>4, <2>2, <3>1, PinsAssumption DEF ToWrite, Removed
    <2> QED
      BY <2>1, <2>2
  <1> QED
    BY <1>3, <1>4

(* What is left when the orphans are gone is what a fresh run would leave. *)
LEMMA AllIsFresh ==
  ASSUME PinsInv, refresh.pc = "save", refresh.todo = {}, Unresolved = {}, refresh.all,
         ~refresh.check \/ ToWrite = {}, NEW new \in [Components -> Contents],
         \A c \in Components : new[c] = IF c \in Orphans THEN NoPin ELSE pins[c],
         pins' = new, UNCHANGED <<default, kind, tip>>, NEW c \in Components
  PROVE  pins'[c] = (Fresh(c))'
  <1> USE PinsAssumption
  <1>1. AtStart /\ Saved /\ kind[c] \in {"upstream", "local", "gone"} /\ tip[c] \in Tips
    BY DEF PinsInv, InRun, PinsTypeOK
  <1>2. (Type(c))' = IF kind[c] # "gone" THEN kind[c] ELSE IF pins'[c] \in Tips THEN default ELSE "none"
    BY DEF Type, Resolved
  <1>3. Type(c) = IF kind[c] # "gone" THEN kind[c] ELSE IF pins[c] \in Tips THEN default ELSE "none"
    BY DEF Type, Resolved
  <1>4. CASE c \in refresh.sel /\ WasType(c) = "upstream"
    <2>1. pins[c] = tip[c]
      BY <1>4, SelectedIsFresh
    <2>2. Type(c) = "upstream"
      BY <1>1, <1>3, <1>4, <2>1 DEF WasType
    <2>3. pins'[c] = tip[c]
      BY <2>1, <2>2 DEF Orphans
    <2>4. (Type(c))' = "upstream"
      BY <1>1, <1>2, <1>3, <2>1, <2>2, <2>3
    <2> QED
      BY <2>3, <2>4 DEF Fresh
  <1>5. CASE c \in refresh.sel /\ WasType(c) # "upstream"
    <2>1. pins[c] = NoPin
      BY <1>5, SelectedIsFresh
    <2>2. pins'[c] = NoPin
      BY <2>1
    <2>3. (Type(c))' # "upstream"
      BY <1>2, <1>5, <2>2 DEF WasType
    <2> QED
      BY <2>2, <2>3 DEF Fresh
  <1>6. CASE c \notin refresh.sel
    <2>1. kind[c] = "gone" /\ refresh.before[c] \notin Tips
      BY <1>1, <1>6 DEF AtStart, WasSeen
    <2>2. pins[c] = refresh.before[c]
      BY <1>6, Unwritten DEF ToWrite, Removed
    <2>3. pins'[c] \notin Tips
      BY <2>1, <2>2
    <2>4. (Type(c))' # "upstream" /\ Type(c) # "upstream"
      BY <1>2, <1>3, <2>1, <2>2, <2>3
    <2>5. pins'[c] = NoPin
      BY <2>4 DEF Orphans
    <2> QED
      BY <2>4, <2>5 DEF Fresh
  <1> QED
    BY <1>4, <1>5, <1>6

LEMMA ConcludeKeeps == ASSUME PinsInv, Conclude PROVE PinsInv'
  <1>1. AtStart /\ Answers /\ Saved /\ refresh.pc = "save" /\ refresh.todo = {}
    BY DEF Conclude, PinsInv, InRun
  <1>2. \A c \in Unresolved : c \in Components /\ pins[c] = refresh.before[c]
    BY <1>1, FailedIsNotWritten, Unwritten, RunTypes DEF PinsInv, Unresolved
  <1>3. refresh.check => pins = refresh.before
    BY <1>1, RunTypes DEF Saved, PinsInv, PinsTypeOK
  <1>4. pins \in [Components -> Contents]
    BY DEF PinsInv, PinsTypeOK
  <1>5. CASE Set(Finish("error")) /\ UNCHANGED pins
    BY <1>1, <1>2, <1>3, <1>4, <1>5, Ended
  <1>6. CASE Unresolved = {} /\ refresh.check /\ ~Stale /\ Set(Finish("ok")) /\ UNCHANGED pins
    <2>1. /\ refresh' \in Refreshes /\ refresh'.pc = "idle" /\ refresh'.end = "ok"
          /\ UNCHANGED <<refresh.n, refresh.all, refresh.check, refresh.sel,
                         refresh.result, refresh.before, default, kind, tip, nenv>>
      BY <1>6, FinishFields DEF Set, PinsInv
    <2>2. refresh.all => Orphans = {} /\ ToWrite = {}
      BY <1>6 DEF Stale, ToWrite
    <2>3. RefreshIsExact'
      <3> SUFFICES ASSUME refresh.all, NEW c \in Components PROVE pins'[c] = (Fresh(c))'
        BY <2>1 DEF RefreshIsExact
      <3> QED
        BY <1>1, <1>4, <1>6, <2>1, <2>2, AllIsFresh
    <2>4. PinsTypeOK' /\ InRun'
      BY <1>4, <1>6, <2>1 DEF PinsInv, PinsTypeOK, InRun
    <2>5. OthersUntouched'
      BY <1>3, <1>6, <2>1 DEF OthersUntouched, Unresolved
    <2> QED
      BY <2>3, <2>4, <2>5 DEF PinsInv
  <1>7. CASE /\ Unresolved = {} /\ ~refresh.check
             /\ \E gone \in SUBSET Orphans :
                  /\ ~refresh.all => gone = {}
                  /\ pins' = [c \in Components |-> IF c \in gone THEN NoPin ELSE pins[c]]
                  /\ Set(Finish(IF refresh.all /\ gone # Orphans THEN "error" ELSE "ok"))
    <2>1. PICK gone \in SUBSET Orphans :
             /\ ~refresh.all => gone = {}
             /\ pins' = [c \in Components |-> IF c \in gone THEN NoPin ELSE pins[c]]
             /\ Set(Finish(IF refresh.all /\ gone # Orphans THEN "error" ELSE "ok"))
      BY <1>7
    <2>2. pins' \in [Components -> Contents]
      BY <1>4, <2>1 DEF Contents
    <2>3. CASE refresh.all /\ gone # Orphans
      <3>1. Set(Finish("error"))
        BY <2>1, <2>3
      <3> QED
        BY <1>1, <1>7, <2>2, <3>1, Ended
    <2>4. CASE ~(refresh.all /\ gone # Orphans)
      <3>1. Set(Finish("ok"))
        BY <2>1, <2>4
      <3>2. /\ refresh' \in Refreshes /\ refresh'.pc = "idle" /\ refresh'.end = "ok"
            /\ UNCHANGED <<refresh.n, refresh.all, refresh.check, refresh.sel,
                           refresh.result, refresh.before, default, kind, tip, nenv>>
        BY <3>1, FinishFields DEF Set, PinsInv
      <3>3. RefreshIsExact'
        <4> SUFFICES ASSUME refresh.all, NEW c \in Components PROVE pins'[c] = (Fresh(c))'
          BY <3>2 DEF RefreshIsExact
        <4>1. gone = Orphans
          BY <2>4
        <4>2. \A d \in Components : pins'[d] = IF d \in Orphans THEN NoPin ELSE pins[d]
          BY <2>1, <4>1
        <4> QED
          BY <1>1, <1>7, <2>2, <3>2, <4>2, AllIsFresh
      <3>4. PinsTypeOK' /\ InRun'
        BY <2>2, <3>2 DEF PinsInv, PinsTypeOK, InRun
      <3>5. OthersUntouched'
        BY <1>7, <3>2 DEF OthersUntouched, Unresolved
      <3> QED
        BY <3>3, <3>4, <3>5 DEF PinsInv
    <2> QED
      BY <2>3, <2>4
  <1> QED
    BY <1>5, <1>6, <1>7 DEF Conclude

-----------------------------------------------------------------------------
(* Interruptions, and what happens between runs                            *)

LEMMA CancelKeeps == ASSUME PinsInv, CancelRefresh PROVE PinsInv'
  <1>1. /\ refresh' \in Refreshes /\ refresh'.cancelled = TRUE
        /\ UNCHANGED <<refresh.n, refresh.pc, refresh.all, refresh.check, refresh.sel, refresh.result,
                       refresh.todo, refresh.end, refresh.before>>
    BY DEF CancelRefresh, Set, PinsInv, PinsTypeOK, Refreshes
  <1>2. UNCHANGED <<default, kind, tip, nenv, pins>> /\ refresh.pc # "idle"
    BY DEF CancelRefresh, Set
  <1>3. /\ ToWrite' = ToWrite /\ Unresolved' = Unresolved
        /\ \A d \in Components : /\ (WasType(d))' = WasType(d) /\ ((WasSeen(d))' <=> WasSeen(d))
                                /\ (PinAnswer(d))' = PinAnswer(d) /\ (Written(d))' = Written(d)
    BY <1>1, <1>2 DEF ToWrite, Removed, Unresolved, WasType, WasSeen, PinAnswer, Written
  <1>4. AtStart' /\ Answers' /\ Saved'
    BY <1>1, <1>2, <1>3, RunTypes DEF PinsInv, InRun, AtStart, Answers, Saved
  <1>5. PinsTypeOK' /\ RefreshIsExact' /\ OthersUntouched'
    BY <1>1, <1>2, <1>3 DEF PinsInv, PinsTypeOK, RefreshIsExact, OthersUntouched
  <1> QED
    BY <1>4, <1>5 DEF PinsInv, InRun

LEMMA KillKeeps == ASSUME PinsInv, KillRefresh PROVE PinsInv'
  <1>1. Set(Finish("killed")) /\ refresh.pc # "idle" /\ AtStart /\ Saved
    BY DEF KillRefresh, PinsInv, InRun
  <1>2. pins \in [Components -> Contents]
    BY DEF PinsInv, PinsTypeOK
  <1>3. \A d \in Unresolved : d \in Components /\ pins[d] = refresh.before[d]
    BY <1>1, FailedIsNotWritten, Unwritten, RunTypes DEF PinsInv, Unresolved
  <1>4. refresh.check => pins = refresh.before
    BY <1>1, <1>2, Unwritten, RunTypes DEF PinsInv
  <1>5. CASE UNCHANGED pins
    BY <1>1, <1>2, <1>3, <1>4, <1>5, Ended
  <1>6. ASSUME NEW c \in (refresh.todo \cap ToWrite) \ Removed, refresh.pc = "save",
               pins' = [pins EXCEPT ![c] = "empty"]
        PROVE  PinsInv'
    <2>1. ~refresh.check /\ c \notin Unresolved
      BY <1>1, <1>6, FailedIsNotWritten DEF Saved, PinsInv
    <2>2. pins' \in [Components -> Contents] /\ \A d \in Unresolved : pins'[d] = pins[d]
      BY <1>2, <1>3, <1>6, <2>1 DEF Contents
    <2> QED
      BY <1>1, <1>3, <2>1, <2>2, Ended
  <1> QED
    BY <1>5, <1>6 DEF KillRefresh

LEMMA EditKeeps == ASSUME PinsInv, NEW c \in Components, EditPins(c) PROVE PinsInv'
  <1>1. /\ refresh' \in Refreshes /\ refresh'.end = "none" /\ refresh.pc = "idle" /\ refresh'.pc = "idle"
    BY DEF EditPins, PinsInv, PinsTypeOK, Refreshes
  <1>2. nenv' \in Nat /\ UNCHANGED default
    BY DEF EditPins, PinsInv, PinsTypeOK
  <1>3. /\ kind' \in [Components -> {"upstream", "local", "gone"}]
        /\ tip' \in [Components -> Tips] /\ pins' \in [Components -> Contents]
    BY DEF EditPins, PinsInv, PinsTypeOK, Contents
  <1>4. PinsTypeOK'
    BY <1>1, <1>2, <1>3 DEF PinsInv, PinsTypeOK
  <1>5. InRun' /\ RefreshIsExact' /\ OthersUntouched'
    BY <1>1 DEF InRun, RefreshIsExact, OthersUntouched
  <1> QED
    BY <1>4, <1>5 DEF PinsInv

-----------------------------------------------------------------------------
(* The theorems                                                            *)

LEMMA PinsStepKeeps == PinsInv /\ [PinsNext]_pinVars => PinsInv'
  <1> SUFFICES ASSUME PinsInv, [PinsNext]_pinVars PROVE PinsInv'
    OBVIOUS
  <1>1. CASE \E all, check \in BOOLEAN, sel \in SUBSET Components : StartRefresh(all, check, sel)
    BY <1>1, StartKeeps
  <1>2. CASE \E c \in Components : Resolve(c) \/ SaveOne(c)
    BY <1>2, ResolveKeeps, SaveOneKeeps
  <1>3. CASE Resolved2Save \/ Conclude
    BY <1>3, SaveStartKeeps, ConcludeKeeps
  <1>4. CASE CancelRefresh \/ KillRefresh
    BY <1>4, CancelKeeps, KillKeeps
  <1>5. CASE \E c \in Components : EditPins(c)
    BY <1>5, EditKeeps
  <1>6. CASE UNCHANGED pinVars
    BY <1>6 DEF pinVars, PinsInv, PinsTypeOK, InRun, AtStart, Answers, Saved, RefreshIsExact,
                OthersUntouched, WasType, WasSeen, PinAnswer, ToWrite, Removed, Unresolved, Written,
                Fresh, Type, Resolved
  <1> QED
    BY <1>1, <1>2, <1>3, <1>4, <1>5, <1>6 DEF PinsNext, RefreshStep

LEMMA PinsInvariant == PinsSpec => []PinsInv
  BY PinsInitHolds, PinsStepKeeps, PTL DEF PinsSpec

(* The pins and the record of the run keep their types. *)
THEOREM PinsTypeCorrect == PinsSpec => []PinsTypeOK
  BY PinsInvariant, PTL DEF PinsInv

(* A refresh of all components that exits 0 leaves exactly the pins that   *)
(* upstream and the configuration call for, whatever earlier runs that     *)
(* failed or were killed left (RefreshUpstreamCommits).                    *)
THEOREM RefreshesAreExact == PinsSpec => []RefreshIsExact
  BY PinsInvariant, PTL DEF PinsInv

(* A refresh writes no pin of a component it did not select or could not   *)
(* resolve, and none when it only checks or was cancelled before it saves  *)
(* (saveUpstreamCommitConfigs).                                            *)
THEOREM OthersStay == PinsSpec => []OthersUntouched
  BY PinsInvariant, PTL DEF PinsInv

-----------------------------------------------------------------------------
(* Loading a project.                                                      *)

LEMMA TheProject ==
  ASSUME ProjectTypeOK
  PROVE  /\ proj.file \in [Files -> FileContents] /\ proj.top \in Seq(Files) \ {<<>>}
         /\ \A f \in Files : File(f) \in FileContents
  <1>1. proj \in Projects
    BY DEF ProjectTypeOK
  <1>2. proj.file \in [Files -> FileContents] /\ proj.top \in Seq(Files) \ {<<>>}
    BY <1>1, ProjectAssumption
  <1> QED
    BY <1>2 DEF File

LEMMA IsElement == ASSUME NEW S, NEW s \in Seq(S), NEW i \in DOMAIN s PROVE s[i] \in S
  OBVIOUS

LEMMA IsSequence ==
  ASSUME NEW S, NEW T, NEW s \in Seq(S), NEW t, t = [i \in DOMAIN s |-> t[i]], \A i \in DOMAIN s : t[i] \in T
  PROVE  t \in Seq(T) /\ Len(t) = Len(s)
  OBVIOUS

LEMMA HeadAndTail == ASSUME NEW S, NEW s \in Seq(S), s # <<>> PROVE Head(s) \in S /\ Tail(s) \in Seq(S)
  OBVIOUS

LEMMA Joined == ASSUME NEW S, NEW s \in Seq(S), NEW t \in Seq(S) PROVE s \o t \in Seq(S)
  OBVIOUS

LEMMA Longer == ASSUME NEW S, NEW s \in Seq(S), NEW x \in S PROVE Append(s, x) \in Seq(S)
  OBVIOUS

LEMMA IncludesTypes ==
  ASSUME ProjectTypeOK, NEW f \in Files
  PROVE  Includes(f) \in Seq(Files \cup {Missing})
  <1> DEFINE found == [i \in DOMAIN File(f).includes |-> Matches(File(f).includes[i])]
  <1>1. File(f).includes \in Seq([glob : BOOLEAN, found : Seq(Files)])
    BY TheProject DEF FileContents
  <1>2. \A i \in DOMAIN File(f).includes : Matches(File(f).includes[i]) \in Seq(Files \cup {Missing})
    <2> TAKE i \in DOMAIN File(f).includes
    <2> DEFINE pattern == File(f).includes[i]
    <2>1. pattern \in [glob : BOOLEAN, found : Seq(Files)]
      BY <1>1, IsElement
    <2>2. pattern.found \in Seq(Files \cup {Missing}) /\ <<Missing>> \in Seq(Files \cup {Missing})
      BY <2>1
    <2> QED
      BY <2>2 DEF Matches
  <1>3. found \in Seq(Seq(Files \cup {Missing}))
    BY SMTT(30), <1>1, <1>2
  <1> QED
    BY <1>3, FlattenType DEF Includes

LEMMA MergedTypes ==
  ASSUME NEW a \in ComponentLayers, NEW b \in ComponentLayers
  PROVE  Merged(a, b) \in ComponentLayers
  <1>1. a.files \o b.files \in Seq(STRING)
    BY DEF ComponentLayers
  <1> QED
    BY <1>1 DEF Merged, ComponentLayers

LEMMA EmptyTypes == Empty \in ComponentLayers
  BY DEF Empty, ComponentLayers

LEMMA MergedComponentTypes ==
  ASSUME NEW old \in MergedComponents \cup {None}, NEW f \in Files, NEW l \in ComponentLayers
  PROVE  MergedComponent(old, f, l) \in MergedComponents
  <1>1. Anchored(l, f) \in ComponentLayers
    <2>1. CASE l.pats = None
      BY <2>1 DEF Anchored
    <2>2. CASE l.pats # None
      <3> DEFINE P == [glob : BOOLEAN, dir : Files \cup {None}]
                 pats == [i \in DOMAIN l.pats |-> [l.pats[i] EXCEPT !.dir = IF @ = None THEN f ELSE @]]
      <3>1. l.pats \in Seq(P)
        BY <2>2 DEF ComponentLayers
      <3>2. \A i \in DOMAIN l.pats : [l.pats[i] EXCEPT !.dir = IF @ = None THEN f ELSE @] \in P
        <4> TAKE i \in DOMAIN l.pats
        <4>1. l.pats[i] \in P
          BY <3>1, IsElement
        <4> QED
          BY <4>1
      <3>3. pats \in Seq(P)
        <4> HIDE DEF P
        <4> QED
          BY <3>1, <3>2, IsSequence
      <3>4. Anchored(l, f) = [l EXCEPT !.pats = pats]
        BY <2>2 DEF Anchored
      <3> HIDE DEF pats
      <3> QED
        BY <3>3, <3>4 DEF ComponentLayers
    <2> QED
      BY <2>1, <2>2
  <1> DEFINE new  == IF proj.lockfree THEN l ELSE Anchored(l, f)
             base == IF old = None THEN Empty ELSE old.layer
  <1>2. new \in ComponentLayers /\ base \in ComponentLayers
    BY <1>1, EmptyTypes DEF MergedComponents
  <1>3. Merged(base, new) \in ComponentLayers
    <2> HIDE DEF new, base
    <2> QED
      BY <1>2, MergedTypes
  <1>4. (IF old = None THEN None ELSE old.pinFrom) \in Files \cup {None}
    BY DEF MergedComponents
  <1> QED
    BY <1>3, <1>4 DEF MergedComponent, MergedComponents

LEMMA ProjectInitTypes == ProjectInit => ProjectTypeOK
  <1> SUFFICES ASSUME ProjectInit PROVE ProjectTypeOK
    OBVIOUS
  <1> USE ProjectAssumption DEF ProjectInit
  <1>1. proj.top \in Seq(Files) /\ proj.top # <<>>
    OBVIOUS
  <1>2. Head(proj.top) \in Files /\ Tail(proj.top) \in Seq(Files)
    BY <1>1
  <1>3. tops \in Seq(Files) /\ todo \in Seq(Files \cup {Missing}) /\ batch \in Seq(Files) /\ order \in Seq(Files)
    BY <1>2
  <1>4. cfg \in [comps : [Comps -> MergedComponents \cup {None}], groups : [Groups -> GroupDefs \cup {None}],
                repos : [Keys -> STRING \cup {None}], taken : SUBSET STRING, uses : SUBSET STRING,
                defaults : ComponentLayers]
    BY EmptyTypes DEF NewProjectConfig
  <1>5. Len(answers) \in 0..MaxSelects
    OBVIOUS
  <1> QED
    BY <1>3, <1>4, <1>5 DEF ProjectTypeOK

LEMMA ReadFileTypes == ASSUME ProjectTypeOK, ReadFile PROVE ProjectTypeOK'
  <1> USE DEF ReadFile
  <1> DEFINE f == Head(todo)
  <1>1. UNCHANGED <<proj, tops, order, cfg, answers, asked>>
    OBVIOUS
  <1>2. CASE (\E reason \in {"no such include", "circular include", "invalid file"} : Fail(reason)) /\ UNCHANGED <<todo, seen, batch>>
    BY <1>1, <1>2 DEF Fail, ProjectTypeOK
  <1>3. CASE /\ f # Missing /\ todo' = Includes(f) \o Tail(todo)
             /\ seen' = seen \cup {f} /\ batch' = Append(batch, f)
             /\ pc' = (IF todo' = <<>> THEN "merge" ELSE pc) /\ UNCHANGED why
    <2> DEFINE T == Files \cup {Missing}
    <2>0. todo \in Seq(T) /\ todo # <<>>
      BY DEF ProjectTypeOK
    <2>1. f \in Files /\ Tail(todo) \in Seq(T)
      <3> HIDE DEF T
      <3>1. Head(todo) \in T /\ Tail(todo) \in Seq(T)
        BY <2>0, HeadAndTail
      <3> QED
        BY <1>3, <3>1 DEF T
    <2>2. Includes(f) \in Seq(T)
      BY <2>1, IncludesTypes
    <2>3. todo' \in Seq(T) /\ seen' \subseteq Files /\ batch' \in Seq(Files)
      <3> HIDE DEF T
      <3>1. Includes(f) \o Tail(todo) \in Seq(T)
        BY <2>1, <2>2, Joined
      <3>2. batch \in Seq(Files) /\ seen \subseteq Files
        BY DEF ProjectTypeOK
      <3> QED
        BY <1>3, <2>1, <3>1, <3>2, Longer
    <2>4. pc' \in {"load", "merge"} /\ why' = why
      BY <1>3 DEF ProjectTypeOK
    <2> QED
      BY <1>1, <2>3, <2>4 DEF ProjectTypeOK
  <1> QED
    BY <1>2, <1>3

(* What a file's layers become in the merged configuration. *)
LEMMA CfgTypes ==
  ASSUME ProjectTypeOK
  PROVE  /\ cfg.comps \in [Comps -> MergedComponents \cup {None}] /\ cfg.groups \in [Groups -> GroupDefs \cup {None}]
         /\ cfg.repos \in [Keys -> STRING \cup {None}] /\ cfg.taken \subseteq STRING /\ cfg.uses \subseteq STRING
         /\ cfg.defaults \in ComponentLayers
  BY DEF ProjectTypeOK

LEMMA FileTypes ==
  ASSUME ProjectTypeOK, NEW f \in Files
  PROVE  /\ File(f).comps \in [Comps -> ComponentLayers \cup {None}] /\ File(f).groups \in [Groups -> GroupDefs \cup {None}]
         /\ File(f).repos \in [Keys -> STRING \cup {None}] /\ File(f).defines \subseteq STRING
         /\ File(f).uses \subseteq STRING /\ File(f).defaults \in ComponentLayers
  BY TheProject DEF FileContents

(* The two ways mergeConfigFile ends. *)
LEMMA MergeSteps ==
  ASSUME ProjectTypeOK, MergeFile
  PROVE  /\ Head(batch) \in Files
         /\ \/ Fail("duplicate definition") /\ UNCHANGED <<batch, order, cfg>>
            \/ /\ batch' \in Seq(Files) /\ order' = Append(order, Head(batch)) /\ UNCHANGED <<pc, why>>
               /\ cfg'.comps = [c \in Comps |-> IF File(Head(batch)).comps[c] = None THEN cfg.comps[c]
                                  ELSE MergedComponent(cfg.comps[c], Head(batch), File(Head(batch)).comps[c])]
               /\ cfg' \in [comps : [Comps -> MergedComponents \cup {None}], groups : [Groups -> GroupDefs \cup {None}],
                            repos : [Keys -> STRING \cup {None}], taken : SUBSET STRING, uses : SUBSET STRING,
                            defaults : ComponentLayers]
  <1> DEFINE f == Head(batch)
  <1>1. batch \in Seq(Files) /\ batch # <<>>
    BY DEF MergeFile, ProjectTypeOK
  <1>2. f \in Files /\ Tail(batch) \in Seq(Files)
    BY <1>1, HeadAndTail
  <1>3. CASE Collides(f)
    BY <1>2, <1>3 DEF MergeFile
  <1>4. CASE ~Collides(f)
    <2> DEFINE comps    == [c \in Comps |-> IF File(f).comps[c] = None THEN cfg.comps[c]
                                             ELSE MergedComponent(cfg.comps[c], f, File(f).comps[c])]
               groups   == [g \in Groups |-> Later(cfg.groups[g], File(f).groups[g])]
               repos    == [k \in Keys |-> Later(cfg.repos[k], File(f).repos[k])]
               taken    == cfg.taken \cup File(f).defines
               uses     == cfg.uses \cup File(f).uses
               defaults == Merged(cfg.defaults, File(f).defaults)
    <2>1. /\ cfg' = [comps |-> comps, groups |-> groups, repos |-> repos, taken |-> taken, uses |-> uses, defaults |-> defaults]
          /\ batch' = Tail(batch) /\ order' = Append(order, f) /\ UNCHANGED <<pc, why>>
      BY <1>4 DEF MergeFile
    <2>2. comps \in [Comps -> MergedComponents \cup {None}]
      <3> SUFFICES ASSUME NEW c \in Comps, File(f).comps[c] # None
                   PROVE  MergedComponent(cfg.comps[c], f, File(f).comps[c]) \in MergedComponents
        BY CfgTypes
      <3>1. cfg.comps[c] \in MergedComponents \cup {None} /\ File(f).comps[c] \in ComponentLayers
        BY <1>2, CfgTypes, FileTypes
      <3> QED
        BY <1>2, <3>1, MergedComponentTypes
    <2>3. groups \in [Groups -> GroupDefs \cup {None}] /\ repos \in [Keys -> STRING \cup {None}]
      BY <1>2, CfgTypes, FileTypes DEF Later
    <2>4. taken \subseteq STRING /\ uses \subseteq STRING
      BY <1>2, CfgTypes, FileTypes
    <2>5. defaults \in ComponentLayers
      BY <1>2, CfgTypes, FileTypes, MergedTypes
    <2>6. cfg'.comps = comps
      <3> HIDE DEF comps, groups, repos, taken, uses, defaults
      <3> QED
        BY <2>1
    <2>7. cfg' \in [comps : [Comps -> MergedComponents \cup {None}], groups : [Groups -> GroupDefs \cup {None}],
                   repos : [Keys -> STRING \cup {None}], taken : SUBSET STRING, uses : SUBSET STRING,
                   defaults : ComponentLayers]
      <3> HIDE DEF comps, groups, repos, taken, uses, defaults
      <3> QED
        BY <2>1, <2>2, <2>3, <2>4, <2>5
    <2> QED
      BY <1>2, <2>1, <2>6, <2>7
  <1> QED
    BY <1>3, <1>4

LEMMA MergeFileTypes == ASSUME ProjectTypeOK, MergeFile PROVE ProjectTypeOK'
  <1>1. UNCHANGED <<proj, tops, todo, seen, answers, asked>>
    BY DEF MergeFile
  <1>2. CASE Fail("duplicate definition") /\ UNCHANGED <<batch, order, cfg>>
    BY <1>1, <1>2 DEF Fail, ProjectTypeOK
  <1>3. CASE /\ batch' \in Seq(Files) /\ order' = Append(order, Head(batch)) /\ UNCHANGED <<pc, why>>
             /\ cfg' \in [comps : [Comps -> MergedComponents \cup {None}], groups : [Groups -> GroupDefs \cup {None}],
                          repos : [Keys -> STRING \cup {None}], taken : SUBSET STRING, uses : SUBSET STRING,
                          defaults : ComponentLayers]
    <2>1. order' \in Seq(Files)
      BY <1>3, MergeSteps, Longer DEF ProjectTypeOK
    <2> QED
      BY <1>1, <1>3, <2>1 DEF ProjectTypeOK
  <1> QED
    BY <1>2, <1>3, MergeSteps

LEMMA NextTopTypes == ASSUME ProjectTypeOK, NextTop PROVE ProjectTypeOK'
  <1>1. UNCHANGED <<proj, why, batch, order, cfg, answers, asked>>
    BY DEF NextTop
  <1>2. CASE tops = <<>>
    BY <1>1, <1>2 DEF NextTop, ProjectTypeOK
  <1>3. CASE tops # <<>>
    <2>1. Head(tops) \in Files /\ Tail(tops) \in Seq(Files)
      BY <1>3, HeadAndTail DEF ProjectTypeOK
    <2>2. <<Head(tops)>> \in Seq(Files \cup {Missing})
      BY <2>1
    <2>3. pc' = "load" /\ tops' = Tail(tops) /\ todo' = <<Head(tops)>> /\ seen' = {}
      BY <1>3 DEF NextTop
    <2> QED
      BY <1>1, <2>1, <2>2, <2>3 DEF ProjectTypeOK
  <1> QED
    BY <1>2, <1>3

LEMMA ValidateTypes == ASSUME ProjectTypeOK, Validate PROVE ProjectTypeOK'
  BY DEF Validate, Fail, ProjectTypeOK

\* The answers are a sequence, of whatever selections answer.
AnswersInRow == \E S : answers \in Seq(S)

LEMMA SelectTypes ==
  ASSUME ProjectTypeOK, AnswersInRow, NEW f1, NEW f2, Select(f1, f2)
  PROVE  ProjectTypeOK' /\ AnswersInRow' /\ pc = "ready"
  <1>1. PICK S : answers \in Seq(S)
    BY DEF AnswersInRow
  <1>2. PICK a : answers' = Append(answers, a)
    BY DEF Select
  <1>3. /\ UNCHANGED <<proj, pc, why, tops, todo, seen, batch, order, cfg, asked>> /\ pc = "ready"
        /\ Len(answers) < MaxSelects
    BY DEF Select
  <1>4. answers \in Seq(S \cup {a})
    BY <1>1
  <1>5. answers' \in Seq(S \cup {a}) /\ Len(answers') = Len(answers) + 1
    BY <1>2, <1>4
  <1>6. Len(answers') \in 0..MaxSelects
    BY <1>1, <1>3, <1>5, ProjectAssumption
  <1> QED
    BY <1>3, <1>5, <1>6 DEF ProjectTypeOK, AnswersInRow

LEMMA AskTypes == ASSUME ProjectTypeOK, NEW c \in Commands, Ask(c) PROVE ProjectTypeOK' /\ pc = "ready"
  BY DEF Ask, ProjectTypeOK

-----------------------------------------------------------------------------
(* What holds while a project is loaded and then asked: the merged         *)
(* configuration knows the last of the files merged so far that pins a     *)
(* component; and an answer is what its command means for the loaded       *)
(* configuration, which is not touched any more.                           *)

PinIn(p, f, c) == IF f = None THEN Zero ELSE p.file[f].comps[c].pin
PinnedBy(p, f, c) == p.file[f].comps[c] # None /\ p.file[f].comps[c].pin # Zero

LastPinning(p, files, f, c) ==
  \/ f = None /\ \A i \in DOMAIN files : ~PinnedBy(p, files[i], c)
  \/ \E i \in DOMAIN files : /\ files[i] = f /\ PinnedBy(p, f, c)
                            /\ \A j \in DOMAIN files : PinnedBy(p, files[j], c) => j <= i

Known(p, k, files) ==
  p.lockfree => \A c \in Comps :
    IF k.comps[c] = None THEN \A i \in DOMAIN files : p.file[files[i]].comps[c] = None
    ELSE /\ LastPinning(p, files, k.comps[c].pinFrom, c)
         /\ k.comps[c].layer.pin = PinIn(p, k.comps[c].pinFrom, c)
PinsKnown == Known(proj, cfg, order)

\* What any criterion answers for a component that one group finds by one spec.
Expected(c, h, path) == IF path = h[2] THEN FromHit(h) ELSE GetComponent(c, path, {})
AsExpected(answer) ==
  answer # Failed => \A c \in DOMAIN answer :
    /\ c \in Comps
    /\ \A h \in Groups \X Specs : Hits(c, Groups) = {h} => answer[c] = Expected(c, h, answer[c].path)

AnswersExpected == \A a \in {answers[i] : i \in DOMAIN answers} : AsExpected(a)

ReplyKept == asked # None => asked.command \in Commands /\ asked.reply = Reply(asked.command)

AskedWhenReady == pc # "ready" => answers = <<>> /\ asked = None

ProjectInv == /\ ProjectTypeOK /\ AnswersInRow /\ PinsKnown /\ AnswersExpected /\ ReplyKept /\ AskedWhenReady

LEMMA ProjectInitHolds == ProjectInit => ProjectInv
  <1> SUFFICES ASSUME ProjectInit PROVE ProjectInv
    OBVIOUS
  <1>1. ProjectTypeOK
    BY ProjectInitTypes
  <1>2. AnswersInRow /\ AnswersExpected /\ ReplyKept /\ AskedWhenReady
    BY DEF ProjectInit, AnswersInRow, AnswersExpected, ReplyKept, AskedWhenReady
  <1>3. \A c \in Comps : cfg.comps[c] = None /\ order = <<>>
    BY DEF ProjectInit, NewProjectConfig
  <1>4. PinsKnown
    BY <1>3 DEF PinsKnown, Known
  <1> QED
    BY <1>1, <1>2, <1>4 DEF ProjectInv

\* A step after which nothing has been asked, or nothing more.
LEMMA NothingAsked ==
  ASSUME UNCHANGED <<proj, answers, asked>>, AnswersInRow, ReplyKept, AskedWhenReady, pc # "ready"
  PROVE  AnswersInRow' /\ AnswersExpected' /\ ReplyKept' /\ AskedWhenReady'
  BY DEF AnswersInRow, AnswersExpected, ReplyKept, AskedWhenReady

LEMMA SameFiles ==
  ASSUME UNCHANGED <<proj, order, cfg>>, PinsKnown PROVE PinsKnown'
  BY DEF PinsKnown

LEMMA MergedPin ==
  ASSUME proj.lockfree, NEW old, NEW f, NEW l
  PROVE  /\ MergedComponent(old, f, l).pinFrom =
              IF l.pin # Zero THEN f ELSE IF old = None THEN None ELSE old.pinFrom
         /\ MergedComponent(old, f, l).layer.pin =
              IF l.pin # Zero THEN l.pin ELSE IF old = None THEN Zero ELSE old.layer.pin
  <1> DEFINE base == IF old = None THEN Empty ELSE old.layer
  <1>1. base.pin = IF old = None THEN Zero ELSE old.layer.pin
    BY DEF Empty
  <1>2. Merged(base, l).pin = IF l.pin # Zero THEN l.pin ELSE base.pin
    BY DEF Merged
  <1>3. /\ MergedComponent(old, f, l).layer = Merged(base, l)
        /\ MergedComponent(old, f, l).pinFrom =
             IF l.pin # Zero THEN f ELSE IF old = None THEN None ELSE old.pinFrom
    BY DEF MergedComponent
  <1> HIDE DEF base
  <1> QED
    BY <1>1, <1>2, <1>3

LEMMA MergePins == ASSUME ProjectTypeOK, PinsKnown, MergeFile PROVE PinsKnown'
  <1> DEFINE f == Head(batch)
  <1>1. UNCHANGED proj
    BY DEF MergeFile
  <1>2. CASE UNCHANGED <<order, cfg>>
    BY <1>1, <1>2, SameFiles
  <1>3. CASE /\ order' = Append(order, f)
             /\ cfg'.comps = [c \in Comps |-> IF File(f).comps[c] = None THEN cfg.comps[c]
                                ELSE MergedComponent(cfg.comps[c], f, File(f).comps[c])]
    <2> SUFFICES ASSUME proj.lockfree, NEW c \in Comps
                 PROVE  IF cfg'.comps[c] = None THEN \A i \in DOMAIN order' : proj.file[order'[i]].comps[c] = None
                        ELSE /\ LastPinning(proj, order', cfg'.comps[c].pinFrom, c)
                             /\ cfg'.comps[c].layer.pin = PinIn(proj, cfg'.comps[c].pinFrom, c)
      BY <1>1 DEF PinsKnown, Known
    <2> DEFINE n == Len(order) + 1
               old == cfg.comps[c]  new == cfg'.comps[c]  l == File(f).comps[c]
    <2>1. /\ DOMAIN order = 1..Len(order) /\ Len(order) \in Nat /\ DOMAIN order' = 1..n
          /\ order'[n] = f /\ \A i \in DOMAIN order : order'[i] = order[i]
      <3>1. order \in Seq(Files) /\ order' = Append(order, f)
        BY <1>3 DEF ProjectTypeOK
      <3> HIDE DEF f
      <3> QED
        BY <3>1
    <2>3. f \in Files /\ f # None /\ new = IF l = None THEN old ELSE MergedComponent(old, f, l)
      BY <1>3, MergeSteps, ProjectAssumption
    <2>4. IF old = None THEN \A i \in DOMAIN order : proj.file[order[i]].comps[c] = None
          ELSE LastPinning(proj, order, old.pinFrom, c) /\ old.layer.pin = PinIn(proj, old.pinFrom, c)
      BY DEF PinsKnown, Known
    <2>a. l # None => MergedComponent(old, f, l) \in MergedComponents
      BY <2>3, CfgTypes, FileTypes, MergedComponentTypes
    <2>b. (PinnedBy(proj, f, c) <=> l # None /\ l.pin # Zero) /\ PinIn(proj, f, c) = l.pin
      BY <2>3 DEF PinnedBy, PinIn, File
    <2>c. DOMAIN order \subseteq DOMAIN order' /\ \A i \in DOMAIN order' : i = n \/ i \in DOMAIN order
      BY <2>1
    <2>d. n \in DOMAIN order' /\ \A j \in DOMAIN order' : j <= n
      BY <2>1
    <2> SUFFICES IF new = None THEN \A i \in DOMAIN order' : proj.file[order'[i]].comps[c] = None
                 ELSE LastPinning(proj, order', new.pinFrom, c) /\ new.layer.pin = PinIn(proj, new.pinFrom, c)
      OBVIOUS
    <2>e. proj.file[f].comps[c] = l
      BY DEF File
    <2> HIDE DEF n, old, new, l, f
    <2>5. CASE PinnedBy(proj, f, c)
      <3>1. l # None /\ l.pin # Zero
        BY <2>5, <2>b
      <3>2. new # None /\ new.pinFrom = f /\ new.layer.pin = l.pin
        BY <2>3, <2>a, <3>1, MergedPin, ProjectAssumption
      <3>3. LastPinning(proj, order', f, c)
        BY <2>1, <2>5, <2>d DEF LastPinning
      <3> QED
        BY <2>b, <3>2, <3>3
    <2>6. CASE ~PinnedBy(proj, f, c)
      <3>1. l = None \/ l.pin = Zero
        BY <2>6, <2>b
      <3>2. ASSUME NEW g, LastPinning(proj, order, g, c) PROVE LastPinning(proj, order', g, c)
        <4>1. \A j \in DOMAIN order' : PinnedBy(proj, order'[j], c) => j \in DOMAIN order /\ PinnedBy(proj, order[j], c)
          BY <2>1, <2>6, <2>c
        <4> QED
          BY <2>1, <2>c, <3>2, <4>1 DEF LastPinning
      <3>3. CASE l = None
        <4>1. new = old
          BY <2>3, <3>3
        <4>2. CASE old = None
          <5>1. \A i \in DOMAIN order' : proj.file[order'[i]].comps[c] = None
            BY <2>1, <2>4, <2>c, <2>e, <3>3, <4>2
          <5> QED
            BY <4>1, <4>2, <5>1
        <4>3. CASE old # None
          BY <2>4, <3>2, <4>1, <4>3
        <4> QED
          BY <4>2, <4>3
      <3>4. CASE l # None
        <4>1. new = MergedComponent(old, f, l) /\ l.pin = Zero /\ new # None
          BY <2>3, <2>a, <3>1, <3>4, ProjectAssumption
        <4>4. CASE old = None
          <5>1. new.pinFrom = None /\ new.layer.pin = Zero
            BY <4>1, <4>4, MergedPin
          <5>2. LastPinning(proj, order, None, c)
            BY <2>4, <4>4 DEF LastPinning, PinnedBy
          <5>3. LastPinning(proj, order', None, c) /\ PinIn(proj, None, c) = Zero
            BY <3>2, <5>2 DEF PinIn
          <5> QED
            BY <4>1, <5>1, <5>3
        <4>5. CASE old # None
          <5>1. new.pinFrom = old.pinFrom /\ new.layer.pin = old.layer.pin
            BY <4>1, <4>5, MergedPin
          <5> QED
            BY <2>4, <3>2, <4>1, <4>5, <5>1
        <4> QED
          BY <4>4, <4>5
      <3> QED
        BY <3>3, <3>4
    <2> QED
      BY <2>5, <2>6
  <1> QED
    BY <1>2, <1>3, MergeSteps

-----------------------------------------------------------------------------
(* Selecting.                                                              *)

LEMMA SpecsOfGroup == ASSUME ProjectTypeOK, NEW g \in Groups PROVE SpecsOf(g) \subseteq Specs
  BY CfgTypes DEF SpecsOf, GroupDefs

LEMMA GetComponentIs ==
  ASSUME NEW c, NEW spec, NEW extra, GetComponent(c, spec, extra) # Failed
  PROVE  /\ GetComponent(c, spec, extra).name = c
         /\ spec # None => GetComponent(c, spec, extra).path = spec
  BY DEF GetComponent

LEMMA TheHit ==
  ASSUME ProjectTypeOK, NEW c, NEW h \in Groups \X Specs, Hits(c, Groups) = {h}
  PROVE  /\ NameOf[h[2]] = c /\ h[2] \in SpecsOf(h[1]) /\ h[1] \in Groups /\ h[2] \in Specs
         /\ \A g \in Groups : \A s \in SpecsOf(g) : NameOf[s] = c => g = h[1] /\ s = h[2]
  <1>1. h \in Hits(c, Groups)
    OBVIOUS
  <1>2. ASSUME NEW g \in Groups, NEW s \in SpecsOf(g), NameOf[s] = c PROVE g = h[1] /\ s = h[2]
    <2>1. <<g, s>> \in Groups \X Specs
      BY SpecsOfGroup
    <2>2. <<g, s>> \in Hits(c, Groups)
      BY <1>2, <2>1 DEF Hits
    <2>3. <<g, s>> = h
      BY <2>2
    <2> QED
      BY <2>3
  <1> QED
    BY <1>1, <1>2 DEF Hits

\* One component's record agrees with what is expected of it.
LEMMA HitIsExpected ==
  ASSUME NEW c, NEW h \in Groups \X Specs, NameOf[h[2]] = c, FromHit(h) # Failed
  PROVE  FromHit(h) = Expected(c, h, FromHit(h).path)
  <1>1. h[2] # None
    BY ProjectAssumption
  <1>2. FromHit(h).path = h[2]
    BY <1>1, GetComponentIs DEF FromHit
  <1> QED
    BY <1>2 DEF Expected

LEMMA AllExpected == ASSUME ProjectTypeOK, NEW visit PROVE AsExpected(FindAllComponents(visit))
  <1> DEFINE all == FindAllComponents(visit)
  <1> SUFFICES ASSUME all # Failed, NEW c \in DOMAIN all
               PROVE  /\ c \in Comps
                      /\ \A h \in Groups \X Specs : Hits(c, Groups) = {h} => all[c] = Expected(c, h, all[c].path)
    BY DEF AsExpected
  <1>1. /\ all = [d \in AllNames |-> IF d \in Found THEN FromHit(LastVisited(d, visit)) ELSE GetComponent(d, None, {})]
        /\ \A d \in Found : \A h \in Hits(d, Groups) : FromHit(h) # Failed
    BY DEF FindAllComponents
  <1>2. c \in AllNames /\ c \in Comps
    BY <1>1 DEF AllNames, Found
  <1>3. ASSUME NEW h \in Groups \X Specs, Hits(c, Groups) = {h} PROVE all[c] = Expected(c, h, all[c].path)
    <2>1. c \in Found
      BY <1>2, <1>3 DEF Found
    <2>2. LastVisited(c, visit) = h
      BY <1>3 DEF LastVisited
    <2>3. all[c] = FromHit(h) /\ FromHit(h) # Failed
      BY <1>1, <1>2, <1>3, <2>1, <2>2
    <2> HIDE DEF all
    <2> QED
      BY <1>3, <2>3, TheHit, HitIsExpected
  <1> QED
    BY <1>2, <1>3

LEMMA SpecExpected == ASSUME ProjectTypeOK, NEW spec \in Specs PROVE AsExpected(BySpecPath(spec))
  <1> DEFINE c == NameOf[spec]
             r == GetComponent(c, spec, {g \in Groups : spec \in SpecsOf(g)})
  <1> SUFFICES ASSUME BySpecPath(spec) # Failed PROVE AsExpected(BySpecPath(spec))
    BY DEF AsExpected
  <1>1. r # Failed /\ BySpecPath(spec) = [d \in {r.name} |-> r]
    BY DEF BySpecPath, Set1
  <1>2. r.name = c /\ r.path = spec /\ c \in Comps
    BY <1>1, GetComponentIs, ProjectAssumption
  <1>3. ASSUME NEW h \in Groups \X Specs, Hits(c, Groups) = {h} PROVE r = Expected(c, h, spec)
    <2>1. CASE spec = h[2]
      <3>1. {g \in Groups : spec \in SpecsOf(g)} = {h[1]}
        BY <1>3, <2>1, TheHit
      <3> QED
        BY <2>1, <3>1 DEF Expected, FromHit
    <2>2. CASE spec # h[2]
      <3>1. {g \in Groups : spec \in SpecsOf(g)} = {}
        BY <1>3, <2>2, TheHit
      <3> QED
        BY <2>2, <3>1 DEF Expected
    <2> QED
      BY <2>1, <2>2
  <1> HIDE DEF r, c
  <1> QED
    BY <1>1, <1>2, <1>3 DEF AsExpected

\* Of numbers with a bound one is the greatest.
LEMMA GreatestNumber ==
  ASSUME NEW n \in Nat, NEW S \in SUBSET (1..n), S # {}
  PROVE  \E i \in S : \A j \in S : j <= i
  <1> DEFINE T == {k \in Nat : n - k \in S}
  <1>1. T \in SUBSET Nat /\ T # {}
    <2>1. PICK i \in S : TRUE
      OBVIOUS
    <2>2. n - i \in Nat /\ n - (n - i) = i
      BY <2>1
    <2> QED
      BY <2>1, <2>2
  <1>2. PICK k \in T : \A l \in T : k <= l
    <2> HIDE DEF T
    <2> QED
      BY <1>1, LeastNumber
  <1>3. ASSUME NEW j \in S PROVE j <= n - k
    <2>1. n - j \in Nat /\ n - (n - j) = j
      OBVIOUS
    <2>2. n - j \in T
      BY <2>1
    <2>3. k <= n - j /\ k \in Nat /\ j \in Nat
      BY <1>2, <2>2
    <2> QED
      BY <2>3
  <1> QED
    BY <1>3

\* The group visited last, and the last of its specs.
LEMMA LastVisitedIsAHit ==
  ASSUME ProjectTypeOK, NEW visit \in Visits, NEW c, Hits(c, Groups) # {}
  PROVE  LastVisited(c, visit) \in Hits(c, Groups)
  <1> DEFINE H == Hits(c, Groups)
             n == Cardinality(Groups)  m == Cardinality(Specs)
  <1>1. n \in Nat /\ m \in Nat
    BY FS_CardinalityType, ProjectAssumption
  <1>2. proj.rank \in [Specs -> 1..m] /\ IsInjective(proj.rank)
    <2>1. proj \in Projects
      BY DEF ProjectTypeOK
    <2> QED
      BY <2>1, ProjectAssumption
  <1>3. visit \in [Groups -> 1..n] /\ IsInjective(visit)
    BY DEF Visits
  <1>4. H \subseteq Groups \X Specs /\ H # {}
    BY DEF Hits
  <1> HIDE DEF H, n, m
  <1>5. PICK v \in {visit[h[1]] : h \in H} : \A w \in {visit[h[1]] : h \in H} : w <= v
    <2>1. {visit[h[1]] : h \in H} \in SUBSET (1..n) /\ {visit[h[1]] : h \in H} # {}
      BY <1>3, <1>4
    <2> QED
      BY <1>1, <2>1, GreatestNumber
  <1> DEFINE L == {h \in H : visit[h[1]] = v}
  <1>6. L # {} /\ L \subseteq H
    BY <1>5
  <1> HIDE DEF L
  <1>7. PICK r \in {proj.rank[h[2]] : h \in L} : \A w \in {proj.rank[h[2]] : h \in L} : w <= r
    <2>1. {proj.rank[h[2]] : h \in L} \in SUBSET (1..m) /\ {proj.rank[h[2]] : h \in L} # {}
      BY <1>2, <1>4, <1>6
    <2> QED
      BY <1>1, <2>1, GreatestNumber
  <1>8. PICK h \in L : proj.rank[h[2]] = r
    BY <1>7
  <1>9. ASSUME NEW h2 \in H \ {h} PROVE After(h, h2, visit)
    <2>1. h \in Groups \X Specs /\ h2 \in Groups \X Specs /\ visit[h[1]] = v
      BY <1>4, <1>8 DEF L
    <2>2. visit[h2[1]] <= v /\ v \in Nat /\ visit[h2[1]] \in Nat
      BY <1>3, <1>5, <2>1
    <2>3. CASE visit[h2[1]] = v
      <3>1. h2[1] = h[1]
        BY <1>3, <2>1, <2>3 DEF IsInjective
      <3>2. h2[2] # h[2]
        BY <2>1, <3>1
      <3>3. proj.rank[h2[2]] # proj.rank[h[2]]
        BY <1>2, <2>1, <3>2 DEF IsInjective
      <3>4. h2 \in L
        BY <2>3 DEF L
      <3>5. proj.rank[h2[2]] <= r /\ r \in Nat /\ proj.rank[h2[2]] \in Nat
        BY <1>2, <1>7, <1>8, <2>1, <3>4
      <3> QED
        BY <1>8, <2>1, <2>3, <3>3, <3>5 DEF After
    <2>4. CASE visit[h2[1]] # v
      BY <2>1, <2>2, <2>4 DEF After
    <2> QED
      BY <2>3, <2>4
  <1>10. \E x \in H : \A h2 \in H \ {x} : After(x, h2, visit)
    BY <1>6, <1>8, <1>9
  <1> QED
    BY <1>10 DEF LastVisited, H

LEMMA NameExpected == ASSUME ProjectTypeOK, NEW c, NEW visit \in Visits PROVE AsExpected(ByName(c, visit))
  <1> DEFINE all == FindAllComponents(visit)
  <1> SUFFICES ASSUME ByName(c, visit) # Failed PROVE AsExpected(ByName(c, visit))
    BY DEF AsExpected
  <1>1. all # Failed /\ c \in AllNames /\ all[c] # Failed /\ ByName(c, visit) = [d \in {all[c].name} |-> all[c]]
    BY DEF ByName, Set1
  <1>2. c \in DOMAIN all /\ all[c].name = c
    <2>1. all = [d \in AllNames |-> IF d \in Found THEN FromHit(LastVisited(d, visit)) ELSE GetComponent(d, None, {})]
      BY <1>1 DEF FindAllComponents
    <2>2. CASE c \in Found
      <3>1. Hits(c, Groups) # {}
        BY <2>2 DEF Found
      <3>2. LastVisited(c, visit) \in Hits(c, Groups)
        BY <3>1, LastVisitedIsAHit
      <3>3. NameOf[LastVisited(c, visit)[2]] = c
        BY <3>2 DEF Hits
      <3>4. all[c] = GetComponent(c, LastVisited(c, visit)[2], {LastVisited(c, visit)[1]})
        BY <1>1, <2>1, <2>2, <3>3 DEF FromHit
      <3> QED
        BY <1>1, <2>1, <3>4, GetComponentIs
    <2>3. CASE c \notin Found
      <3>1. all[c] = GetComponent(c, None, {})
        BY <1>1, <2>1, <2>3
      <3> QED
        BY <1>1, <2>1, <3>1, GetComponentIs
    <2> QED
      BY <2>2, <2>3
  <1> HIDE DEF all
  <1> QED
    BY <1>1, <1>2, AllExpected DEF AsExpected, all

LEMMA GlobExpected == ASSUME ProjectTypeOK, NEW matched, NEW visit PROVE AsExpected(ByGlob(matched, visit))
  <1> DEFINE all == FindAllComponents(visit)
  <1> SUFFICES ASSUME ByGlob(matched, visit) # Failed PROVE AsExpected(ByGlob(matched, visit))
    BY DEF AsExpected
  <1>1. all # Failed /\ ByGlob(matched, visit) = Restrict(all, matched \cap AllNames)
    BY DEF ByGlob
  <1>2. DOMAIN all = AllNames
    BY <1>1 DEF FindAllComponents
  <1>3. \A c \in matched \cap AllNames : c \in DOMAIN all
    BY <1>2
  <1> HIDE DEF all
  <1> QED
    BY <1>1, <1>3, AllExpected DEF AsExpected, Restrict, all

LEMMA GroupExpected == ASSUME ProjectTypeOK, NEW g \in Groups PROVE AsExpected(ByGroup(g))
  <1> SUFFICES ASSUME ByGroup(g) # Failed PROVE AsExpected(ByGroup(g))
    BY DEF AsExpected
  <1> DEFINE names == {NameOf[s] : s \in SpecsOf(g)}
             first(c) == CHOOSE s \in SpecsOf(g) :
                            /\ NameOf[s] = c
                            /\ \A t \in SpecsOf(g) : NameOf[t] = c => proj.rank[s] <= proj.rank[t]
  <1>1. /\ ByGroup(g) = [c \in names |-> FromHit(<<g, first(c)>>)]
        /\ \A s \in SpecsOf(g) : FromHit(<<g, s>>) # Failed
    BY DEF ByGroup
  <1>2. names \subseteq Comps
    BY SpecsOfGroup, ProjectAssumption
  <1>3. ASSUME NEW c \in names, NEW h \in Groups \X Specs, Hits(c, Groups) = {h}
        PROVE  FromHit(<<g, first(c)>>) = Expected(c, h, FromHit(<<g, first(c)>>).path)
    <2>1. PICK s \in SpecsOf(g) : NameOf[s] = c
      OBVIOUS
    <2>2. g = h[1] /\ s = h[2] /\ \A t \in SpecsOf(g) : NameOf[t] = c => t = s
      BY <1>3, <2>1, TheHit
    <2>3. proj.rank[s] <= proj.rank[s]
      <3>1. proj \in Projects /\ s \in Specs
        BY <2>1, SpecsOfGroup DEF ProjectTypeOK
      <3>2. proj.rank \in [Specs -> 1..Cardinality(Specs)] /\ Cardinality(Specs) \in Nat
        BY <3>1, FS_CardinalityType, ProjectAssumption
      <3> QED
        BY <3>1, <3>2
    <2>4. first(c) = s
      <3>1. \A t \in SpecsOf(g) : NameOf[t] = c => proj.rank[s] <= proj.rank[t]
        BY <2>2, <2>3
      <3> QED
        BY <2>1, <2>2, <3>1
    <2>5. <<g, first(c)>> = h
      BY <2>2, <2>4
    <2>6. FromHit(h) # Failed /\ NameOf[h[2]] = c
      BY <1>1, <2>1, <2>2
    <2> HIDE DEF first
    <2> QED
      BY <2>5, <2>6, HitIsExpected
  <1> HIDE DEF first, names
  <1> QED
    BY <1>1, <1>2, <1>3 DEF AsExpected

LEMMA AnswerExpected ==
  ASSUME ProjectTypeOK, NEW f \in Criteria, NEW visit \in Visits PROVE AsExpected(Answer(f, visit))
  <1>1. CASE f.by = "all"
    BY <1>1, AllExpected DEF Answer
  <1>2. CASE f.by = "spec"
    BY <1>2, SpecExpected DEF Answer, Criteria
  <1>3. CASE f.by = "name"
    BY <1>3, NameExpected DEF Answer
  <1>4. CASE f.by = "glob"
    BY <1>4, GlobExpected DEF Answer
  <1>5. CASE f.by = "group"
    BY <1>5, GroupExpected DEF Answer, Criteria
  <1> QED
    BY <1>1, <1>2, <1>3, <1>4, <1>5 DEF Criteria

LEMMA BothExpected == ASSUME NEW a, NEW b, AsExpected(a), AsExpected(b) PROVE AsExpected(Both(a, b))
  BY DEF AsExpected, Both

\* What is expected depends on nothing that selecting and asking change.
LEMMA SameExpected ==
  ASSUME UNCHANGED <<proj, cfg>> PROVE \A a : AsExpected(a)' <=> AsExpected(a)
  <1>1. \A c, spec, extra : GetComponent(c, spec, extra)' = GetComponent(c, spec, extra)
    <2> TAKE c, spec, extra
    <2> QED
      BY DEF GetComponent, GroupsByComponent, Members, OverlayFails, OverlaysFound, PatternDir, Failed
  <1>2. \A c : Hits(c, Groups)' = Hits(c, Groups)
    BY DEF Hits, SpecsOf
  <1>3. \A h : FromHit(h)' = FromHit(h)
    BY <1>1 DEF FromHit
  <1>4. \A c, h, path : Expected(c, h, path)' = Expected(c, h, path)
    BY <1>1, <1>3 DEF Expected
  <1> QED
    BY <1>2, <1>4 DEF AsExpected, Failed

LEMMA SelectKeeps ==
  ASSUME ProjectInv, NEW f1 \in Criteria, NEW f2 \in Criteria, Select(f1, f2)
  PROVE  ProjectInv'
  <1>1. ProjectTypeOK' /\ AnswersInRow' /\ pc = "ready"
    BY SelectTypes DEF ProjectInv
  <1>2. UNCHANGED <<proj, pc, order, cfg, asked>>
    BY DEF Select
  <1>3. PICK v1 \in Visits, v2 \in Visits :
          answers' = Append(answers, IF f1 = f2 THEN Answer(f1, v1) ELSE Both(Answer(f1, v1), Answer(f2, v2)))
    BY DEF Select
  <1> DEFINE a == IF f1 = f2 THEN Answer(f1, v1) ELSE Both(Answer(f1, v1), Answer(f2, v2))
  <1>4. AsExpected(a)
    BY AnswerExpected, BothExpected DEF ProjectInv
  <1> HIDE DEF a
  <1>5. ASSUME NEW i \in DOMAIN answers' PROVE AsExpected(answers'[i])
    <2>1. PICK S : answers \in Seq(S)
      BY DEF ProjectInv, AnswersInRow
    <2>2. answers'[i] = a \/ (i \in DOMAIN answers /\ answers'[i] = answers[i])
      BY <1>3, <2>1 DEF a
    <2> QED
      BY <1>4, <2>2 DEF ProjectInv, AnswersExpected
  <1>6. AnswersExpected'
    BY <1>2, <1>5, SameExpected DEF AnswersExpected
  <1>7. PinsKnown'
    BY <1>2, SameFiles DEF ProjectInv
  <1>8. ReplyKept' /\ AskedWhenReady'
    BY <1>1, <1>2 DEF ProjectInv, ReplyKept, Reply, AskedWhenReady
  <1> QED
    BY <1>1, <1>6, <1>7, <1>8 DEF ProjectInv

LEMMA AskKeeps == ASSUME ProjectInv, NEW c \in Commands, Ask(c) PROVE ProjectInv'
  <1>1. ProjectTypeOK' /\ pc = "ready"
    BY AskTypes DEF ProjectInv
  <1>2. UNCHANGED <<proj, pc, order, cfg, answers>>
    BY DEF Ask
  <1>3. AnswersInRow' /\ AskedWhenReady' /\ PinsKnown'
    BY <1>1, <1>2, SameFiles DEF ProjectInv, AnswersInRow, AskedWhenReady
  <1>4. AnswersExpected'
    BY <1>2, SameExpected DEF ProjectInv, AnswersExpected
  <1>5. asked'.command = c /\ asked'.reply = Reply(c)
    BY DEF Ask
  <1>6. ReplyKept'
    BY <1>2, <1>5 DEF ReplyKept, Reply
  <1> QED
    BY <1>1, <1>3, <1>4, <1>6 DEF ProjectInv

LEMMA LoadKeeps == ASSUME ProjectInv, Load PROVE ProjectInv'
  <1>1. UNCHANGED <<proj, answers, asked>> /\ pc # "ready"
    BY DEF Load, ReadFile, MergeFile, NextTop, Validate
  <1>2. AnswersInRow' /\ AnswersExpected' /\ ReplyKept' /\ AskedWhenReady'
    BY <1>1, NothingAsked DEF ProjectInv
  <1>3. CASE MergeFile
    BY <1>2, <1>3, MergeFileTypes, MergePins DEF ProjectInv
  <1>4. CASE ReadFile \/ NextTop \/ Validate
    <2>1. UNCHANGED <<proj, order, cfg>>
      BY <1>4 DEF ReadFile, NextTop, Validate
    <2> QED
      BY <1>2, <1>4, <2>1, ReadFileTypes, NextTopTypes, ValidateTypes, SameFiles DEF ProjectInv
  <1> QED
    BY <1>3, <1>4 DEF Load

LEMMA ProjectStutters == ASSUME ProjectInv, UNCHANGED projectVars PROVE ProjectInv'
  <1>1. ProjectTypeOK'
    BY DEF ProjectInv, ProjectTypeOK, projectVars
  <1>2. PinsKnown' /\ AnswersInRow' /\ AskedWhenReady'
    BY SameFiles DEF ProjectInv, projectVars, AnswersInRow, AskedWhenReady
  <1>3. AnswersExpected'
    BY SameExpected DEF ProjectInv, projectVars, AnswersExpected
  <1>4. ReplyKept'
    BY DEF ProjectInv, projectVars, ReplyKept, Reply
  <1> QED
    BY <1>1, <1>2, <1>3, <1>4 DEF ProjectInv

(* The inductive invariant of loading and asking. *)
THEOREM ProjectInvariant == ProjectSpec => []ProjectInv
  <1>1. ProjectInit => ProjectInv
    BY ProjectInitHolds
  <1>2. ProjectInv /\ [ProjectNext]_projectVars => ProjectInv'
    BY LoadKeeps, SelectKeeps, AskKeeps, ProjectStutters DEF ProjectNext
  <1> QED
    BY <1>1, <1>2, PTL DEF ProjectSpec

(* Loading and asking keep their types. *)
THEOREM ProjectTypes == ProjectSpec => []ProjectTypeOK
  BY ProjectInvariant, PTL DEF ProjectInv

(* However a component is spread over files, its pin is that of the last   *)
(* file read that pins it, and that file is the one remembered             *)
(* (MergeUpdatesFrom, UpstreamCommitConfigFile).                           *)
THEOREM PinsComeFromTheirFile == ProjectSpec => []PinHasItsFile
  <1>1. ProjectInv => PinHasItsFile
    <2> SUFFICES ASSUME ProjectInv, proj.lockfree, NEW c \in Comps, cfg.comps[c] # None
                 PROVE  LET pinning == {i \in DOMAIN order : Pins(order[i], c)}
                            f == IF pinning = {} THEN None
                                 ELSE order[CHOOSE i \in pinning : \A j \in pinning : j <= i]
                        IN /\ cfg.comps[c].pinFrom = f
                           /\ cfg.comps[c].layer.pin = IF f = None THEN Zero ELSE File(f).comps[c].pin
      BY DEF PinHasItsFile
    <2> DEFINE pinning == {i \in DOMAIN order : Pins(order[i], c)}
               last == CHOOSE i \in pinning : \A j \in pinning : j <= i
               f == IF pinning = {} THEN None ELSE order[last]
               from == cfg.comps[c].pinFrom
    <2>1. LastPinning(proj, order, from, c) /\ cfg.comps[c].layer.pin = PinIn(proj, from, c)
      BY DEF ProjectInv, PinsKnown, Known
    <2>2. order \in Seq(Files)
      BY DEF ProjectInv, ProjectTypeOK
    <2>3. \A i \in DOMAIN order : Pins(order[i], c) <=> PinnedBy(proj, order[i], c)
      BY DEF Pins, PinnedBy, File
    <2>4. from = f
      <3>1. CASE from = None /\ \A i \in DOMAIN order : ~PinnedBy(proj, order[i], c)
        BY <2>3, <3>1
      <3>2. CASE \E i \in DOMAIN order : /\ order[i] = from /\ PinnedBy(proj, from, c)
                                        /\ \A j \in DOMAIN order : PinnedBy(proj, order[j], c) => j <= i
        <4>1. PICK i \in DOMAIN order : /\ order[i] = from /\ PinnedBy(proj, from, c)
                                        /\ \A j \in DOMAIN order : PinnedBy(proj, order[j], c) => j <= i
          BY <3>2
        <4>2. i \in pinning /\ (\A j \in pinning : j <= i) /\ pinning \subseteq Nat
          BY <2>2, <2>3, <4>1
        <4> HIDE DEF pinning
        <4>3. last \in pinning /\ \A j \in pinning : j <= last
          BY <4>2
        <4>4. last <= i /\ i <= last /\ last \in Nat /\ i \in Nat
          BY <4>2, <4>3
        <4>5. last = i
          BY <4>4
        <4> HIDE DEF last
        <4> QED
          BY <4>1, <4>2, <4>5
      <3> QED
        BY <2>1, <3>1, <3>2 DEF LastPinning
    <2> HIDE DEF f, from
    <2> QED
      BY <2>1, <2>4 DEF PinIn, File, f, from
  <1> QED
    BY <1>1, ProjectInvariant, PTL

(* A component that one group finds, by one spec, is answered alike by     *)
(* every criterion that reaches it: by name, pattern, group, spec or all   *)
(* (getComponentFromNameAndSpecPath and its callers).                      *)
THEOREM SelectionsAgree == ProjectSpec => []SelectionIsStable
  <1>1. ProjectInv => SelectionIsStable
    <2> SUFFICES ASSUME ProjectInv, NEW i \in DOMAIN answers, NEW j \in DOMAIN answers,
                        answers[i] # Failed, answers[j] # Failed,
                        NEW c \in DOMAIN answers[i] \cap DOMAIN answers[j],
                        Cardinality(Hits(c, Groups)) = 1, answers[i][c].path = answers[j][c].path
                 PROVE  answers[i][c] = answers[j][c]
      BY DEF SelectionIsStable
    <2>1. IsFiniteSet(Hits(c, Groups))
      <3>1. IsFiniteSet(Groups \X Specs)
        BY FS_Product, ProjectAssumption
      <3>2. Hits(c, Groups) \in SUBSET (Groups \X Specs)
        BY DEF Hits
      <3> QED
        BY <3>1, <3>2, FS_Subset
    <2>2. PICK h : Hits(c, Groups) = {h}
      BY <2>1, FS_Singleton
    <2>3. h \in Groups \X Specs
      <3>1. h \in Hits(c, Groups)
        BY <2>2
      <3> QED
        BY <3>1 DEF Hits
    <2>4. /\ answers[i][c] = Expected(c, h, answers[i][c].path)
          /\ answers[j][c] = Expected(c, h, answers[j][c].path)
      BY <2>2, <2>3 DEF ProjectInv, AnswersExpected, AsExpected
    <2> QED
      BY <2>4
  <1> QED
    BY <1>1, ProjectInvariant, PTL

(* The listing of a file of packages names each once, under one of its     *)
(* sources, in the channel a build places it in as long as the distro sets *)
(* none (ListRPMFile, resolveRPMResults).                                  *)
THEOREM ListingsAgree == ProjectSpec => []ListAgreesWithBuild
  <1>1. ProjectInv => ListAgreesWithBuild
    <2> SUFFICES ASSUME ProjectInv, asked # None, asked.command.by = "rpmfile", asked.reply # Refused
                 PROVE  /\ \A d, e \in asked.reply : d.name = e.name => d = e
                        /\ \A e \in asked.reply :
                             /\ \E x \in Range(asked.command.entries) : x.pkg = e.name /\ x.src = e.comp
                             /\ proj.catalog.distro = NoPublish => e.channel = BuildChannel(proj.catalog, e.name, e.comp)
      BY DEF ListAgreesWithBuild, Answered
    <2> DEFINE k == proj.catalog  x == asked.command.entries
    <2>1. asked.reply = ListRPMFile(k, x) /\ DOMAIN x = 1..Len(x) /\ Len(x) \in Nat
      BY ProjectAssumption DEF ProjectInv, ReplyKept, Reply
    <2>2. asked.reply = {Entry(k, x[i].pkg, SourceOf(x, x[i].pkg)) : i \in DOMAIN x}
      BY <2>1 DEF ListRPMFile
    <2> HIDE DEF k, x
    <2>3. ASSUME NEW d \in asked.reply
          PROVE  /\ d.comp = SourceOf(x, d.name) /\ \E i \in DOMAIN x : x[i].pkg = d.name
                 /\ d = Entry(k, d.name, SourceOf(x, d.name))
      BY <2>2 DEF Entry
    <2>4. ASSUME NEW e \in asked.reply PROVE \E y \in Range(x) : y.pkg = e.name /\ y.src = e.comp
      <3> DEFINE I == {i \in DOMAIN x : x[i].pkg = e.name}
      <3>1. I \in SUBSET Nat /\ I # {}
        BY <2>1, <2>3 DEF x
      <3>2. PICK i \in I : \A j \in I : i <= j
        BY <3>1, LeastNumber
      <3> DEFINE first == CHOOSE n \in DOMAIN x : x[n].pkg = e.name /\ \A j \in DOMAIN x : x[j].pkg = e.name => n <= j
      <3>3. first \in DOMAIN x /\ x[first].pkg = e.name
        BY <3>2
      <3>4. SourceOf(x, e.name) = x[first].src
        BY DEF SourceOf
      <3> HIDE DEF first
      <3> QED
        BY <2>3, <3>3, <3>4 DEF Range
    <2>5. ASSUME NEW e \in asked.reply, k.distro = NoPublish PROVE e.channel = BuildChannel(k, e.name, e.comp)
      BY <2>3, <2>5 DEF Entry, BuildChannel
    <2> QED
      BY <2>3, <2>4, <2>5 DEF k, x
  <1> QED
    BY <1>1, ProjectInvariant, PTL

-----------------------------------------------------------------------------
(* Asking: what lists of repositories and of tests hold.                   *)

LEMMA RangeIs == ASSUME NEW T, NEW s \in Seq(T) PROVE DOMAIN s = 1..Len(s) /\ Range(s) = {s[i] : i \in 1..Len(s)} /\ Range(s) \subseteq T
BY DEF Range

LEMMA RangeAppend ==
  ASSUME NEW T, NEW s \in Seq(T), NEW x \in T
  PROVE  {Append(s, x)[i] : i \in 1..Len(Append(s, x))} = {s[i] : i \in 1..Len(s)} \cup {x}
<1> DEFINE t == Append(s, x)
<1>1. Len(t) = Len(s) + 1 /\ Len(s) \in Nat /\ t[Len(s) + 1] = x /\ \A i \in 1..Len(s) : t[i] = s[i] OBVIOUS
<1> HIDE DEF t
<1>2. {t[i] : i \in 1..Len(t)} = {s[i] : i \in 1..Len(s)} \cup {x}
  <2>1. ASSUME NEW i \in 1..Len(t) PROVE t[i] \in {s[j] : j \in 1..Len(s)} \cup {x}
    <3>1. i = Len(s) + 1 \/ i \in 1..Len(s) BY <1>1
    <3> QED BY <1>1, <3>1
  <2>2. ASSUME NEW j \in 1..Len(s) PROVE s[j] \in {t[i] : i \in 1..Len(t)}
    <3>1. j \in 1..Len(t) /\ t[j] = s[j] BY <1>1
    <3> QED BY <3>1
  <2>3. x \in {t[i] : i \in 1..Len(t)}
    <3>1. Len(s) + 1 \in 1..Len(t) BY <1>1
    <3> QED BY <1>1, <3>1
  <2> QED BY <2>1, <2>2, <2>3
<1> QED BY <1>2 DEF t

LEMMA PickRange ==
  ASSUME NEW T, NEW s \in Seq(T), NEW S
  PROVE  Range(Pick(s, S)) = {s[i] : i \in {i \in 1..Len(s) : i \in S}}
<1> DEFINE P == Picked(s, S)
           E(q) == {q[i] : i \in 1..Len(q)}
           Of(n) == {s[i] : i \in {i \in 1..n : i \in S}}
           N == {n \in 0..Len(s) : E(P[n]) = Of(n)}
<1>1. 0 \in N
  <2>1. P[0] = <<>> BY PickedIs
  <2>2. E(<<>>) = {} OBVIOUS
  <2> QED BY <2>1, <2>2
<1>2. ASSUME NEW n \in 1..Len(s), n - 1 \in N PROVE n \in N
  <2>1. P[n] = IF n \in S THEN Append(P[n - 1], s[n]) ELSE P[n - 1] BY PickedIs
  <2>2. n - 1 \in 0..Len(s) /\ P[n - 1] \in Seq(T) BY PickedType
  <2>3. E(P[n - 1]) = Of(n - 1) BY <1>2
  <2>4. Of(n) = IF n \in S THEN Of(n - 1) \cup {s[n]} ELSE Of(n - 1)
    <3>1. \A i : i \in 1..n <=> i \in 1..n - 1 \/ i = n OBVIOUS
    <3> QED BY <3>1
  <2> DEFINE q == P[n - 1]
  <2>5. E(Append(q, s[n])) = E(q) \cup {s[n]}
    <3>1. q \in Seq(T) /\ s[n] \in T BY <2>2
    <3> HIDE DEF q
    <3> QED BY <3>1, RangeAppend
  <2> HIDE DEF P, E, Of
  <2>6. E(P[n]) = Of(n) BY <2>1, <2>3, <2>4, <2>5
  <2> QED BY <2>6
<1>3. Len(s) \in N
  <2> HIDE DEF N
  <2>1. Len(s) \in Nat OBVIOUS
  <2>2. 0..Len(s) \subseteq N BY <1>1, <1>2, <2>1, AlongSequence
  <2> QED BY <2>1, <2>2
<1>4. E(P[Len(s)]) = Of(Len(s))
  <2> HIDE DEF E, Of, P
  <2> QED BY <1>3
<1>5. Pick(s, S) \in Seq(T) BY PickType
<1>6. Range(Pick(s, S)) = E(Pick(s, S)) BY <1>5, RangeIs
<1> QED BY <1>4, <1>6 DEF Pick

\* Each element that is picked is there by its place.
Places(s, S) == Pick([i \in 1..Len(s) |-> i], S)

LEMMA PickPlaces ==
  ASSUME NEW T, NEW s \in Seq(T), NEW S
  PROVE  /\ Places(s, S) \in Seq(Nat) /\ Len(Pick(s, S)) = Len(Places(s, S))
         /\ \A i \in 1..Len(Places(s, S)) :
              Places(s, S)[i] \in 1..Len(s) /\ Places(s, S)[i] \in S /\ Pick(s, S)[i] = s[Places(s, S)[i]]
         /\ \A i, j \in 1..Len(Places(s, S)) : i < j => Places(s, S)[i] < Places(s, S)[j]
<1> DEFINE d == [i \in 1..Len(s) |-> i]
           P == Picked(s, S)  Q == Picked(d, S)
           Like(p, q) == Len(p) = Len(q) /\ \A i \in 1..Len(q) : p[i] = s[q[i]]
           N == {n \in 0..Len(s) : Like(P[n], Q[n])}
<1>1. d \in Seq(Nat) /\ Len(d) = Len(s) /\ (\A i \in 1..Len(s) : d[i] = i) /\ Len(s) \in Nat OBVIOUS
<1> HIDE DEF d
<1>2. 0 \in N
  <2>1. P[0] = <<>> /\ Q[0] = <<>> BY <1>1, PickedIs
  <2> QED BY <2>1
<1>3. ASSUME NEW n \in 1..Len(s), n - 1 \in N PROVE n \in N
  <2>1. /\ P[n] = IF n \in S THEN Append(P[n - 1], s[n]) ELSE P[n - 1]
        /\ Q[n] = IF n \in S THEN Append(Q[n - 1], n) ELSE Q[n - 1]
    BY <1>1, PickedIs
  <2>2. n - 1 \in 0..Len(s) /\ P[n - 1] \in Seq(T) /\ Q[n - 1] \in Seq(Nat) BY <1>1, PickedType
  <2>3. Like(P[n - 1], Q[n - 1]) BY <1>3
  <2> DEFINE p == P[n - 1]  q == Q[n - 1]
  <2>4. Like(Append(p, s[n]), Append(q, n))
    <3>1. p \in Seq(T) /\ q \in Seq(Nat) /\ s[n] \in T /\ n \in Nat /\ Len(p) = Len(q) /\ (\A i \in 1..Len(q) : p[i] = s[q[i]]) BY <2>2, <2>3
    <3> HIDE DEF p, q
    <3> DEFINE pp == Append(p, s[n])  qq == Append(q, n)
    <3>2. /\ Len(pp) = Len(p) + 1 /\ Len(qq) = Len(q) + 1 /\ pp[Len(p) + 1] = s[n] /\ qq[Len(q) + 1] = n
          /\ (\A i \in 1..Len(p) : pp[i] = p[i]) /\ (\A i \in 1..Len(q) : qq[i] = q[i]) /\ Len(q) \in Nat
      BY <3>1
    <3> HIDE DEF pp, qq
    <3>3. ASSUME NEW i \in 1..Len(qq) PROVE pp[i] = s[qq[i]]
      <4>1. i = Len(q) + 1 \/ i \in 1..Len(q) BY <3>2
      <4>2. CASE i = Len(q) + 1 BY <3>1, <3>2, <4>2
      <4>3. CASE i \in 1..Len(q) BY <3>1, <3>2, <4>3
      <4> QED BY <4>1, <4>2, <4>3
    <3>4. Len(pp) = Len(qq) BY <3>1, <3>2
    <3> QED BY <3>3, <3>4 DEF pp, qq
  <2> HIDE DEF P, Q, Like
  <2>5. Like(P[n], Q[n]) BY <2>1, <2>3, <2>4
  <2> QED BY <2>5
<1>4. 0..Len(s) \subseteq N
  <2> HIDE DEF N
  <2> QED BY <1>1, <1>2, <1>3, AlongSequence
<1> DEFINE at == Pick(d, S)
<1>5. Like(Pick(s, S), at) BY <1>1, <1>4 DEF Pick
<1>6. at \in Seq(Nat) BY <1>1, PickType
<1>7. /\ \A i, j \in 1..Len(at) : i < j => at[i] < at[j]
      /\ \A i \in 1..Len(at) : \E j \in 1..Len(d) : j \in S /\ at[i] = d[j]
  <2>1. \A i, j \in 1..Len(d) : i < j => d[i] < d[j] BY <1>1
  <2> HIDE DEF at
  <2> QED BY <1>1, <2>1, PickIncreasing DEF at
<1>8. \A i \in 1..Len(at) : at[i] \in 1..Len(s) /\ at[i] \in S
  <2> HIDE DEF at
  <2> QED BY <1>1, <1>7
<1> HIDE DEF at
<1>9. at = Places(s, S) BY DEF at, d, Places
<1> QED BY <1>5, <1>6, <1>7, <1>8, <1>9

LEMMA ConcatRange ==
  ASSUME NEW T, NEW s \in Seq(T), NEW t \in Seq(T)
  PROVE  Range(s \o t) = Range(s) \cup Range(t)
<1> DEFINE u == s \o t
<1>1. /\ u \in Seq(T) /\ Len(u) = Len(s) + Len(t) /\ Len(s) \in Nat /\ Len(t) \in Nat
      /\ \A i \in 1..Len(s) : u[i] = s[i]
      /\ \A i \in 1..Len(t) : u[Len(s) + i] = t[i]
  OBVIOUS
<1> HIDE DEF u
<1>2. DOMAIN u = 1..Len(u) /\ DOMAIN s = 1..Len(s) /\ DOMAIN t = 1..Len(t) BY <1>1
<1>3. ASSUME NEW i \in 1..Len(u) PROVE u[i] \in Range(s) \cup Range(t)
  <2>1. CASE i <= Len(s)
    <3>1. i \in 1..Len(s) BY <2>1
    <3> QED BY <1>1, <1>2, <3>1 DEF Range
  <2>2. CASE ~(i <= Len(s))
    <3>1. i - Len(s) \in 1..Len(t) /\ Len(s) + (i - Len(s)) = i BY <1>1, <2>2
    <3>2. u[i] = t[i - Len(s)] BY <1>1, <3>1
    <3> QED BY <1>2, <3>1, <3>2 DEF Range
  <2> QED BY <2>1, <2>2
<1>4. ASSUME NEW i \in 1..Len(s) PROVE s[i] \in Range(u)
  <2>1. i \in 1..Len(u) BY <1>1
  <2> QED BY <1>1, <1>2, <2>1 DEF Range
<1>5. ASSUME NEW i \in 1..Len(t) PROVE t[i] \in Range(u)
  <2>1. Len(s) + i \in 1..Len(u) BY <1>1
  <2> QED BY <1>1, <1>2, <2>1 DEF Range
<1>6. Range(u) = Range(s) \cup Range(t) BY <1>2, <1>3, <1>4, <1>5 DEF Range
<1> QED BY <1>6 DEF u

LEMMA FlattenRange ==
  ASSUME NEW T, NEW ss \in Seq(Seq(T))
  PROVE  Range(FlattenSeq(ss)) = UNION {Range(ss[i]) : i \in 1..Len(ss)}
<1> DEFINE n == Len(ss)
           U(m) == [i \in 1..m |-> ss[i]]
           Of(m) == UNION {Range(ss[i]) : i \in 1..m}
           N == {m \in 0..n : Range(FlattenSeq(U(m))) = Of(m)}
<1>1. n \in Nat /\ \A i \in 1..n : ss[i] \in Seq(T) OBVIOUS
<1>2. 0 \in N
  <2>1. U(0) = <<>> OBVIOUS
  <2>2. FlattenSeq(<<>>) = <<>> BY DEF FlattenSeq
  <2>3. Range(<<>>) = {} BY DEF Range
  <2>4. Of(0) = {} OBVIOUS
  <2> HIDE DEF U, Of
  <2>5. Range(FlattenSeq(U(0))) = Of(0) BY <2>1, <2>2, <2>3, <2>4
  <2> QED BY <1>1, <2>5
<1>3. ASSUME NEW m \in 1..n, m - 1 \in N PROVE m \in N
  <2> DEFINE k == m - 1  a == FlattenSeq(U(k))
  <2>1. k \in Nat /\ k + 1 = m BY <1>1
  <2>2. U(m) \in [1..k+1 -> Seq(T)] BY <1>1, <2>1
  <2>3. \A i \in 1..k : U(m)[i] = ss[i] BY <2>1
  <2>4. [i \in 1..k |-> U(m)[i]] = U(k) BY <2>3
  <2>5. U(m)[k + 1] = ss[m] BY <2>1
  <2>6. Range(a) = Of(k) BY <1>3
  <2>7. Of(m) = Of(k) \cup Range(ss[m])
    <3>1. \A i : i \in 1..m <=> i \in 1..k \/ i = m BY <2>1
    <3> QED BY <3>1
  <2> HIDE DEF U, Of, k
  <2>8. a \in Seq(T) /\ FlattenSeq(U(m)) = a \o ss[m] BY <2>1, <2>2, <2>4, <2>5, FlattenMore
  <2> DEFINE b == ss[m]
  <2>9. Range(a \o b) = Range(a) \cup Range(b)
    <3>1. b \in Seq(T) BY <1>1
    <3> HIDE DEF a, b
    <3> QED BY <2>8, <3>1, ConcatRange
  <2>10. Range(FlattenSeq(U(m))) = Of(m) BY <2>6, <2>7, <2>8, <2>9
  <2> QED BY <2>10
<1>4. 0..n \subseteq N
  <2> HIDE DEF N
  <2> QED BY <1>1, <1>2, <1>3, AlongSequence
<1>5. U(n) = ss OBVIOUS
<1> HIDE DEF U
<1>6. n \in N
  <2> HIDE DEF N
  <2> QED BY <1>1, <1>4
<1> QED BY <1>5, <1>6

\* The first of those with one URL: every URL is still there, and once.
LEMMA DedupIs ==
  ASSUME NEW T, NEW s \in Seq(T)
  PROVE  /\ Dedup(s) \in Seq(T) /\ Range(Dedup(s)) \subseteq Range(s)
         /\ \A r \in Range(s) : \E d \in Range(Dedup(s)) : d.url = r.url
         /\ \A i, j \in 1..Len(Dedup(s)) : Dedup(s)[i].url = Dedup(s)[j].url => i = j
<1> DEFINE S == {i \in DOMAIN s : \A j \in 1 .. i - 1 : s[j].url # s[i].url}
           at == Places(s, S)
<1>1. Dedup(s) = Pick(s, S) BY DEF Dedup
<1>2. DOMAIN s = 1..Len(s) /\ Range(s) = {s[i] : i \in 1..Len(s)} BY RangeIs
<1>3. \A i \in S : \A j \in 1 .. i - 1 : s[j].url # s[i].url OBVIOUS
<1>4. ASSUME NEW n \in 1..Len(s) PROVE \E i \in 1..Len(s) : i \in S /\ s[i].url = s[n].url
  <2> DEFINE M == {i \in 1..Len(s) : s[i].url = s[n].url}
  <2>1. M \in SUBSET Nat /\ n \in M OBVIOUS
  <2>2. M # {} BY <2>1
  <2>3. PICK i \in M : \A j \in M : i <= j BY <2>1, <2>2, LeastNumber
  <2>4. i \in 1..Len(s) /\ s[i].url = s[n].url BY <2>3
  <2>5. ASSUME NEW j \in 1 .. i - 1 PROVE s[j].url # s[i].url
    <3>1. j \in 1..Len(s) /\ ~(i <= j) BY <2>4
    <3>2. j \notin M BY <2>3, <3>1
    <3> QED BY <2>4, <3>1, <3>2
  <2>6. i \in S BY <1>2, <2>4, <2>5
  <2> QED BY <2>4, <2>6
<1> HIDE DEF S
<1>5. Dedup(s) \in Seq(T) BY <1>1, PickType
<1>6. Range(Dedup(s)) = {s[i] : i \in {i \in 1..Len(s) : i \in S}} BY <1>1, PickRange
<1>7. ASSUME NEW r \in Range(s) PROVE \E d \in Range(Dedup(s)) : d.url = r.url
  <2>1. PICK n \in 1..Len(s) : r = s[n] BY <1>2
  <2>2. PICK i \in 1..Len(s) : i \in S /\ s[i].url = s[n].url BY <1>4
  <2>3. s[i] \in Range(Dedup(s)) BY <1>6, <2>2
  <2> QED BY <2>1, <2>2, <2>3
<1>8. /\ Len(Dedup(s)) = Len(at) /\ at \in Seq(Nat)
      /\ \A i \in 1..Len(at) : at[i] \in 1..Len(s) /\ at[i] \in S /\ Dedup(s)[i] = s[at[i]]
      /\ \A i, j \in 1..Len(at) : i < j => at[i] < at[j]
  BY <1>1, PickPlaces
<1> HIDE DEF at
<1>9. ASSUME NEW i \in 1..Len(at), NEW j \in 1..Len(at), i < j PROVE Dedup(s)[i].url # Dedup(s)[j].url
  <2>1. at[i] < at[j] /\ at[i] \in 1..Len(s) /\ at[j] \in 1..Len(s) /\ at[j] \in S BY <1>8, <1>9
  <2>2. at[i] \in 1 .. at[j] - 1 BY <2>1
  <2>3. s[at[i]].url # s[at[j]].url BY <1>3, <2>1, <2>2
  <2> QED BY <1>8, <2>3
<1>10. \A i, j \in 1..Len(Dedup(s)) : Dedup(s)[i].url = Dedup(s)[j].url => i = j
  <2> SUFFICES ASSUME NEW i \in 1..Len(at), NEW j \in 1..Len(at), Dedup(s)[i].url = Dedup(s)[j].url PROVE i = j
    BY <1>8
  <2>1. ~(i < j) /\ ~(j < i) BY <1>9
  <2>2. i \in Nat /\ j \in Nat BY <1>8
  <2> QED BY <2>1, <2>2
<1> QED BY <1>2, <1>5, <1>6, <1>7, <1>10

\* What a set takes of its template, and the repositories made of it.
Taken(k, s) == LET rows == k.templates[k.sets[s].template] IN Pick(rows, {i \in DOMAIN rows : Allowed(k.sets[s], rows[i])})
RepoOf(set, row) == [uri |-> <<set.uri, row.subpath.at>>, metalink |-> "", perArch |-> row.subpath.perArch,
                     nocheck |-> set.nocheck, key |-> set.key, arches |-> set.arches]

LEMMA TakenIs ==
  ASSUME NEW k, CatalogTypeOK(k), NEW s \in DOMAIN k.sets, Has(k.templates, k.sets[s].template)
  PROVE  /\ Taken(k, s) \in Seq(TemplateRows)
         /\ Range(Taken(k, s)) = {r \in Range(k.templates[k.sets[s].template]) : Allowed(k.sets[s], r)}
<1> DEFINE rows == k.templates[k.sets[s].template]  S == {i \in DOMAIN rows : Allowed(k.sets[s], rows[i])}
<1>1. rows \in Seq(TemplateRows) BY DEF CatalogTypeOK, Has
<1>2. Taken(k, s) = Pick(rows, S) BY DEF Taken
<1>3. \A i \in DOMAIN rows : i \in S <=> Allowed(k.sets[s], rows[i]) OBVIOUS
<1> HIDE DEF rows, S
<1>4. Pick(rows, S) \in Seq(TemplateRows) BY <1>1, PickType
<1>5. Range(Pick(rows, S)) = {rows[i] : i \in {i \in 1..Len(rows) : i \in S}} BY <1>1, PickRange
<1>6. DOMAIN rows = 1..Len(rows) /\ Range(rows) = {rows[i] : i \in 1..Len(rows)} BY <1>1, RangeIs
<1>7. {rows[i] : i \in {i \in 1..Len(rows) : i \in S}} = {r \in Range(rows) : Allowed(k.sets[s], r)} BY <1>3, <1>6
<1> QED BY <1>2, <1>4, <1>5, <1>7 DEF rows

LEMMA ExpandIs ==
  ASSUME NEW k, CatalogTypeOK(k), NEW s \in DOMAIN k.sets, Expand(k, s) # Refused
  PROVE  /\ Has(k.templates, k.sets[s].template) /\ Taken(k, s) \in Seq(TemplateRows)
         /\ DOMAIN Expand(k, s) = 1..Len(Taken(k, s)) /\ Len(Expand(k, s)) = Len(Taken(k, s))
         /\ \A i \in 1..Len(Taken(k, s)) : /\ Expand(k, s)[i].id = k.sets[s].prefix \o Taken(k, s)[i].name
                                          /\ Expand(k, s)[i].repo = RepoOf(k.sets[s], Taken(k, s)[i])
                                          /\ Expand(k, s)[i].id \in Seq(Text)
<1> DEFINE set == k.sets[s]  taken == Taken(k, s)
<1>1. Has(k.templates, set.template) BY DEF Expand
<1>2. taken \in Seq(TemplateRows) BY <1>1, TakenIs
<1>3. Expand(k, s) = [i \in DOMAIN taken |-> [id |-> set.prefix \o taken[i].name, repo |-> RepoOf(set, taken[i])]]
  BY <1>1 DEF Expand, Taken, RepoOf
<1>4. set.prefix \in Seq(Text) BY DEF CatalogTypeOK, RepoSets
<1> HIDE DEF set, taken
<1>5. DOMAIN taken = 1..Len(taken) /\ Len(taken) \in Nat BY <1>2
<1>6. ASSUME NEW i \in 1..Len(taken) PROVE set.prefix \o taken[i].name \in Seq(Text)
  <2>1. taken[i] \in TemplateRows BY <1>2
  <2>2. taken[i].name \in Seq(Text) BY <2>1 DEF TemplateRows
  <2> HIDE DEF Text
  <2> QED BY <1>4, <2>2
<1>7. DOMAIN Expand(k, s) = 1..Len(taken) /\ Len(Expand(k, s)) = Len(taken)
  <2> DEFINE x == Expand(k, s)
  <2>1. x = [i \in 1..Len(taken) |-> [id |-> set.prefix \o taken[i].name, repo |-> RepoOf(set, taken[i])]] BY <1>3, <1>5
  <2> HIDE DEF x
  <2>2. DOMAIN x = 1..Len(taken) BY <2>1
  <2>3. Len(x) = Len(taken) BY <1>5, <2>1
  <2> QED BY <2>2, <2>3 DEF x
<1>8. \A i \in 1..Len(taken) : Expand(k, s)[i] = [id |-> set.prefix \o taken[i].name, repo |-> RepoOf(set, taken[i])]
  BY <1>3, <1>5
<1>9. ASSUME NEW i \in 1..Len(taken)
      PROVE  Expand(k, s)[i].id = set.prefix \o taken[i].name /\ Expand(k, s)[i].repo = RepoOf(set, taken[i])
  <2> DEFINE x == Expand(k, s)[i]  id == set.prefix \o taken[i].name  repo == RepoOf(set, taken[i])
  <2>1. x = [id |-> id, repo |-> repo] BY <1>8
  <2> HIDE DEF x, id, repo
  <2>2. x.id = id /\ x.repo = repo BY ONLY <2>1
  <2> QED BY <2>2 DEF x, id, repo
<1> QED BY <1>1, <1>2, <1>6, <1>7, <1>9 DEF set, taken

\* The repositories there are: the explicit ones and the made ones, each of
\* those under an id of its own.
LEMMA EffectiveIs ==
  ASSUME NEW k, EffectiveRpmRepos(k) # Refused
  PROVE  LET eff == EffectiveRpmRepos(k)
         IN /\ \A s \in DOMAIN k.sets : Expand(k, s) # Refused
            /\ \A id \in DOMAIN k.repos : id \in DOMAIN eff /\ eff[id] = k.repos[id]
            /\ \A s \in DOMAIN k.sets : \A i \in DOMAIN Expand(k, s) :
                 LET id == Expand(k, s)[i].id IN /\ id \notin DOMAIN k.repos /\ id \in DOMAIN eff
                                                 /\ eff[id] = Expand(k, s)[i].repo
            /\ \A id \in DOMAIN eff : \/ id \in DOMAIN k.repos
                                      \/ \E s \in DOMAIN k.sets : \E i \in DOMAIN Expand(k, s) : id = Expand(k, s)[i].id
            /\ \A s, t \in DOMAIN k.sets : \A i \in DOMAIN Expand(k, s), j \in DOMAIN Expand(k, t) :
                 Expand(k, s)[i].id = Expand(k, t)[j].id => s = t /\ i = j
<1> DEFINE eff == EffectiveRpmRepos(k)
           made == UNION {{<<s, i>> : i \in DOMAIN Expand(k, s)} : s \in DOMAIN k.sets}
           at(m) == Expand(k, m[1])[m[2]]
           twice == \E m \in made : Has(k.repos, at(m).id) \/ \E n \in made : m # n /\ at(m).id = at(n).id
<1>1. \A s \in DOMAIN k.sets : Expand(k, s) # Refused BY DEF EffectiveRpmRepos
<1>2. eff = IF twice THEN Refused
            ELSE [id \in DOMAIN k.repos \cup {at(m).id : m \in made} |->
                    IF Has(k.repos, id) THEN k.repos[id] ELSE at(CHOOSE m \in made : at(m).id = id).repo]
  BY <1>1 DEF EffectiveRpmRepos
<1>3. \A s \in DOMAIN k.sets : \A i \in DOMAIN Expand(k, s) : <<s, i>> \in made /\ at(<<s, i>>) = Expand(k, s)[i] OBVIOUS
<1>4. \A m \in made : \E s \in DOMAIN k.sets : \E i \in DOMAIN Expand(k, s) : m = <<s, i>> OBVIOUS
<1> HIDE DEF made, at, eff
<1>5. \A m \in made : ~Has(k.repos, at(m).id) /\ \A n \in made : at(m).id = at(n).id => m = n BY <1>2 DEF eff
<1>6. /\ DOMAIN eff = DOMAIN k.repos \cup {at(m).id : m \in made}
      /\ \A id \in DOMAIN eff : eff[id] = IF Has(k.repos, id) THEN k.repos[id] ELSE at(CHOOSE m \in made : at(m).id = id).repo
  BY <1>2 DEF eff
<1>7. \A id \in DOMAIN k.repos : id \in DOMAIN eff /\ eff[id] = k.repos[id] BY <1>6 DEF Has
<1>8. ASSUME NEW m \in made PROVE at(m).id \notin DOMAIN k.repos /\ at(m).id \in DOMAIN eff /\ eff[at(m).id] = at(m).repo
  <2> DEFINE n == CHOOSE n \in made : at(n).id = at(m).id
  <2>1. n \in made /\ at(n).id = at(m).id OBVIOUS
  <2>2. n = m BY <1>5, <2>1
  <2>3. at(m).id \in DOMAIN eff BY <1>6
  <2>4. eff[at(m).id] = at(n).repo BY <1>5, <1>6, <2>3
  <2> HIDE DEF n
  <2> QED BY <1>5, <2>2, <2>3, <2>4 DEF Has
<1>9. ASSUME NEW s \in DOMAIN k.sets, NEW i \in DOMAIN Expand(k, s)
      PROVE  LET id == Expand(k, s)[i].id IN id \notin DOMAIN k.repos /\ id \in DOMAIN eff /\ eff[id] = Expand(k, s)[i].repo
  <2>1. <<s, i>> \in made /\ at(<<s, i>>) = Expand(k, s)[i] BY <1>3
  <2> QED BY <1>8, <2>1
<1>10. ASSUME NEW id \in DOMAIN eff
       PROVE  id \in DOMAIN k.repos \/ \E s \in DOMAIN k.sets : \E i \in DOMAIN Expand(k, s) : id = Expand(k, s)[i].id
  <2>1. CASE id \notin DOMAIN k.repos
    <3>1. PICK m \in made : id = at(m).id BY <1>6, <2>1
    <3>2. PICK s \in DOMAIN k.sets : \E i \in DOMAIN Expand(k, s) : m = <<s, i>> BY <1>4
    <3>3. PICK i \in DOMAIN Expand(k, s) : m = <<s, i>> BY <3>2
    <3>4. id = Expand(k, s)[i].id BY <1>3, <3>1, <3>3
    <3> QED BY <3>4
  <2> QED BY <2>1
<1>11. ASSUME NEW s \in DOMAIN k.sets, NEW t \in DOMAIN k.sets, NEW i \in DOMAIN Expand(k, s), NEW j \in DOMAIN Expand(k, t),
              Expand(k, s)[i].id = Expand(k, t)[j].id
       PROVE  s = t /\ i = j
  <2>1. <<s, i>> = <<t, j>> BY <1>3, <1>5, <1>11
  <2> QED BY <2>1
<1> QED BY <1>1, <1>7, <1>9, <1>10, <1>11 DEF eff

\* The kinds that repo query works out are those of the rows.
LEMMA KindOfMade ==
  ASSUME NEW k, CatalogTypeOK(k), EffectiveRpmRepos(k) # Refused, NEW s \in DOMAIN k.sets, NEW i \in DOMAIN Expand(k, s)
  PROVE  KindOf(k, Expand(k, s)[i].id) = Default(Taken(k, s)[i].kind)
<1> DEFINE id == Expand(k, s)[i].id
           all == UNION {{<<t, RowsOf(k, t)[j]>> : j \in DOMAIN RowsOf(k, t)} : t \in DOMAIN k.sets}
           rows == {row \in all : Allowed(k.sets[row[1]], row[2]) /\ k.sets[row[1]].prefix \o row[2].name = id}
           own == <<s, Taken(k, s)[i]>>
<1>1. KindOf(k, id) = KindIn(rows) BY DEF KindOf, Made
<1>2. \A t \in DOMAIN k.sets : /\ Expand(k, t) # Refused /\ RowsOf(k, t) = k.templates[k.sets[t].template]
                               /\ RowsOf(k, t) \in Seq(TemplateRows)
                               /\ DOMAIN RowsOf(k, t) = 1..Len(RowsOf(k, t))
  <2> SUFFICES ASSUME NEW t \in DOMAIN k.sets
               PROVE  /\ Expand(k, t) # Refused /\ RowsOf(k, t) = k.templates[k.sets[t].template]
                      /\ RowsOf(k, t) \in Seq(TemplateRows) /\ DOMAIN RowsOf(k, t) = 1..Len(RowsOf(k, t))
    OBVIOUS
  <2>1. Expand(k, t) # Refused BY EffectiveIs
  <2>2. Has(k.templates, k.sets[t].template) BY <2>1, ExpandIs
  <2>3. RowsOf(k, t) = k.templates[k.sets[t].template] BY <2>2 DEF RowsOf
  <2>4. RowsOf(k, t) \in Seq(TemplateRows) BY <2>2, <2>3 DEF CatalogTypeOK, Has
  <2> QED BY <2>1, <2>3, <2>4
<1>3. ASSUME NEW t \in DOMAIN k.sets
      PROVE  /\ DOMAIN Expand(k, t) = 1..Len(Taken(k, t)) /\ Taken(k, t) \in Seq(TemplateRows)
             /\ \A j \in DOMAIN Expand(k, t) : Expand(k, t)[j].id = k.sets[t].prefix \o Taken(k, t)[j].name
             /\ \A row \in Range(RowsOf(k, t)) : Allowed(k.sets[t], row) => \E j \in DOMAIN Expand(k, t) : row = Taken(k, t)[j]
             /\ \A j \in DOMAIN Expand(k, t) : Taken(k, t)[j] \in Range(RowsOf(k, t)) /\ Allowed(k.sets[t], Taken(k, t)[j])
  <2>1. Expand(k, t) # Refused /\ RowsOf(k, t) = k.templates[k.sets[t].template] BY <1>2
  <2>2. /\ Has(k.templates, k.sets[t].template) /\ DOMAIN Expand(k, t) = 1..Len(Taken(k, t)) /\ Taken(k, t) \in Seq(TemplateRows)
        /\ \A j \in DOMAIN Expand(k, t) : Expand(k, t)[j].id = k.sets[t].prefix \o Taken(k, t)[j].name
    <3>1. /\ Has(k.templates, k.sets[t].template) /\ DOMAIN Expand(k, t) = 1..Len(Taken(k, t)) /\ Taken(k, t) \in Seq(TemplateRows)
          /\ \A j \in 1..Len(Taken(k, t)) : Expand(k, t)[j].id = k.sets[t].prefix \o Taken(k, t)[j].name
      BY <2>1, ExpandIs
    <3> QED BY <3>1, Zenon
  <2>3. Range(Taken(k, t)) = {r \in Range(RowsOf(k, t)) : Allowed(k.sets[t], r)} BY <2>1, <2>2, TakenIs
  <2>4. Range(Taken(k, t)) = {Taken(k, t)[j] : j \in 1..Len(Taken(k, t))} BY <2>2, RangeIs
  <2> QED BY <2>2, <2>3, <2>4
<1>4. own \in rows
  <2>1. Taken(k, s)[i] \in Range(RowsOf(k, s)) /\ Allowed(k.sets[s], Taken(k, s)[i]) /\ id = k.sets[s].prefix \o Taken(k, s)[i].name
    BY <1>3
  <2>2. PICK j \in DOMAIN RowsOf(k, s) : Taken(k, s)[i] = RowsOf(k, s)[j] BY <2>1 DEF Range
  <2>3. own \in all BY <2>2
  <2>4. own[1] = s /\ own[2] = Taken(k, s)[i] OBVIOUS
  <2> HIDE DEF all, own, id
  <2> QED BY <2>1, <2>3, <2>4
<1>5. ASSUME NEW row \in rows PROVE row = own
  <2>1. PICK t \in DOMAIN k.sets : \E j \in DOMAIN RowsOf(k, t) : row = <<t, RowsOf(k, t)[j]>> OBVIOUS
  <2>2. PICK j \in DOMAIN RowsOf(k, t) : row = <<t, RowsOf(k, t)[j]>> BY <2>1
  <2> DEFINE r == RowsOf(k, t)[j]
  <2>3. row = <<t, r>> /\ r \in Range(RowsOf(k, t)) BY <2>2 DEF Range
  <2>4. Allowed(k.sets[row[1]], row[2]) /\ k.sets[row[1]].prefix \o row[2].name = id OBVIOUS
  <2> HIDE DEF r, id, all, rows
  <2>5. row[1] = t /\ row[2] = r BY <2>3
  <2>6. Allowed(k.sets[t], r) /\ k.sets[t].prefix \o r.name = id BY <2>4, <2>5
  <2>7. PICK m \in DOMAIN Expand(k, t) : r = Taken(k, t)[m] BY <1>3, <2>3, <2>6
  <2>8. Expand(k, t)[m].id = id BY <1>3, <2>6, <2>7
  <2>9. t = s /\ m = i BY <2>8, EffectiveIs DEF id
  <2> QED BY <2>3, <2>7, <2>9
<1>6. KindIn(rows) = Default(Taken(k, s)[i].kind)
  <2>1. own[2] = Taken(k, s)[i] OBVIOUS
  <2> HIDE DEF rows, own
  <2>2. rows # {} /\ (CHOOSE r \in rows : TRUE) \in rows BY <1>4
  <2>3. (CHOOSE r \in rows : TRUE) = own BY <1>5, <2>2
  <2> QED BY <2>1, <2>2, <2>3 DEF KindIn
<1> QED BY <1>1, <1>6

LEMMA KindOfPlain ==
  ASSUME NEW k, CatalogTypeOK(k), EffectiveRpmRepos(k) # Refused, NEW id \in DOMAIN k.repos
  PROVE  KindOf(k, id) = "binary"
<1> DEFINE all == UNION {{<<t, RowsOf(k, t)[j]>> : j \in DOMAIN RowsOf(k, t)} : t \in DOMAIN k.sets}
           rows == {row \in all : Allowed(k.sets[row[1]], row[2]) /\ k.sets[row[1]].prefix \o row[2].name = id}
<1>1. KindOf(k, id) = KindIn(rows) BY DEF KindOf, Made
<1>2. ASSUME NEW row \in rows PROVE FALSE
  <2>1. PICK t \in DOMAIN k.sets : \E j \in DOMAIN RowsOf(k, t) : row = <<t, RowsOf(k, t)[j]>> OBVIOUS
  <2>2. PICK j \in DOMAIN RowsOf(k, t) : row = <<t, RowsOf(k, t)[j]>> BY <2>1
  <2> DEFINE r == RowsOf(k, t)[j]
  <2>3. row = <<t, r>> /\ r \in Range(RowsOf(k, t)) BY <2>2 DEF Range
  <2>4. Allowed(k.sets[row[1]], row[2]) /\ k.sets[row[1]].prefix \o row[2].name = id OBVIOUS
  <2> HIDE DEF r, all, rows
  <2>5. row[1] = t /\ row[2] = r BY <2>3
  <2>6. Allowed(k.sets[t], r) /\ k.sets[t].prefix \o r.name = id BY <2>4, <2>5
  <2>7. Expand(k, t) # Refused BY EffectiveIs
  <2>8. /\ Has(k.templates, k.sets[t].template) /\ Taken(k, t) \in Seq(TemplateRows) /\ DOMAIN Expand(k, t) = 1..Len(Taken(k, t))
        /\ \A m \in DOMAIN Expand(k, t) : Expand(k, t)[m].id = k.sets[t].prefix \o Taken(k, t)[m].name
    BY <2>7, ExpandIs
  <2>9. r \in Range(Taken(k, t)) BY <2>3, <2>6, <2>8, TakenIs DEF RowsOf
  <2>10. PICK m \in 1..Len(Taken(k, t)) : r = Taken(k, t)[m] BY <2>8, <2>9, RangeIs
  <2>11. Expand(k, t)[m].id = id BY <2>6, <2>8, <2>10
  <2> QED BY <2>8, <2>11, EffectiveIs
<1>3. rows = {} BY <1>2
<1> QED BY <1>1, <1>3 DEF KindIn

\* What there is to a repository that a query uses.
LEMMA EffectiveTypes ==
  ASSUME NEW k, CatalogTypeOK(k), EffectiveRpmRepos(k) # Refused, NEW id \in DOMAIN EffectiveRpmRepos(k)
  PROVE  LET repo == EffectiveRpmRepos(k)[id] IN id \in Seq(Text) /\ repo.uri \in Seq(Text) /\ repo.key \in Text
<1> DEFINE repo == EffectiveRpmRepos(k)[id]
<1>1. CASE id \in DOMAIN k.repos
  <2>1. repo = k.repos[id] BY <1>1, EffectiveIs
  <2>2. id \in Seq(Text) /\ k.repos[id] \in RpmRepos BY <1>1 DEF CatalogTypeOK
  <2> QED BY <2>1, <2>2 DEF RpmRepos
<1>2. CASE id \notin DOMAIN k.repos
  <2>1. PICK s \in DOMAIN k.sets : \E i \in DOMAIN Expand(k, s) : id = Expand(k, s)[i].id BY <1>2, EffectiveIs
  <2>2. PICK i \in DOMAIN Expand(k, s) : id = Expand(k, s)[i].id BY <2>1
  <2>3. Expand(k, s) # Refused /\ repo = Expand(k, s)[i].repo BY <2>2, EffectiveIs
  <2>4. /\ DOMAIN Expand(k, s) = 1..Len(Taken(k, s)) /\ Taken(k, s) \in Seq(TemplateRows)
        /\ \A j \in 1..Len(Taken(k, s)) : Expand(k, s)[j].id \in Seq(Text) /\ Expand(k, s)[j].repo = RepoOf(k.sets[s], Taken(k, s)[j])
    BY <2>3, ExpandIs
  <2> DEFINE set == k.sets[s]  row == Taken(k, s)[i]
  <2>5. id \in Seq(Text) /\ repo = RepoOf(set, row) BY <2>2, <2>3, <2>4
  <2>6. set.uri \in Text /\ set.key \in Text BY DEF CatalogTypeOK, RepoSets
  <2>7. row.subpath.at \in Text
    <3>1. row \in TemplateRows BY <2>4
    <3> QED BY <3>1 DEF TemplateRows
  <2> HIDE DEF repo, set, row
  <2>8. repo.uri = <<set.uri, row.subpath.at>> /\ repo.key = set.key BY <2>5 DEF RepoOf
  <2>9. <<set.uri, row.subpath.at>> \in Seq(Text)
    <3> DEFINE u == set.uri  a == row.subpath.at
    <3>1. u \in Text /\ a \in Text BY <2>6, <2>7
    <3> HIDE DEF u, a
    <3> QED BY <3>1 DEF u, a
  <2> QED BY <2>5, <2>6, <2>8, <2>9 DEF repo
<1> QED BY <1>1, <1>2

\* What a query makes of one repository.
Wanted(q, ofKind) == ~(q.noDebug /\ ofKind = "debug") /\ ~(q.noSource /\ ofKind = "source")
ForArches(repo, q) == {a \in Range(q.arches) : IsAvailableForArch(repo, a)}
QueriedUrl(repo, a) == <<repo.uri, IF repo.perArch THEN a ELSE "">>
QueriedId(id, q, a) == IF Len(q.arches) > 1 THEN Append(id, a) ELSE id
Queried(repo, id, q, a) == [id |-> QueriedId(id, q, a), url |-> QueriedUrl(repo, a), key |-> IF repo.nocheck THEN "" ELSE repo.key]

LEMMA QueriedType ==
  ASSUME NEW repo, NEW id \in Seq(Text), repo.uri \in Seq(Text), repo.key \in Text, NEW q, NEW a \in Text
  PROVE  Queried(repo, id, q, a) \in QueriedRepos
<1>1. "" \in Text BY DEF Text
<1> DEFINE i == QueriedId(id, q, a)  u == QueriedUrl(repo, a)  x == IF repo.nocheck THEN "" ELSE repo.key
<1>2. Append(id, a) \in Seq(Text)
  <2> HIDE DEF Text
  <2> QED OBVIOUS
<1>3. i \in Seq(Text) BY <1>2 DEF QueriedId
<1>4. u \in Seq(Text) \X Text BY <1>1 DEF QueriedUrl
<1>5. x \in Text BY <1>1
<1> HIDE DEF i, u, x
<1>6. [id |-> i, url |-> u, key |-> x] \in QueriedRepos BY <1>3, <1>4, <1>5 DEF QueriedRepos
<1> QED BY <1>6 DEF Queried, i, u, x

LEMMA MaterializeIs ==
  ASSUME NEW k, CatalogTypeOK(k), EffectiveRpmRepos(k) # Refused, NEW id \in DOMAIN EffectiveRpmRepos(k),
         NEW q, q.arches \in Seq(Text)
  PROVE  LET eff == EffectiveRpmRepos(k)
         IN /\ Materialize(k, eff, id, q) \in Seq(QueriedRepos)
            /\ Range(Materialize(k, eff, id, q)) =
                 IF Wanted(q, KindOf(k, id)) THEN {Queried(eff[id], id, q, a) : a \in ForArches(eff[id], q)} ELSE {}
<1> DEFINE eff == EffectiveRpmRepos(k)  repo == eff[id]  m == Materialize(k, eff, id, q)
           S == {i \in DOMAIN q.arches : IsAvailableForArch(repo, q.arches[i])}
           arches == Pick(q.arches, S)
<1>1. m = IF ~Wanted(q, KindOf(k, id)) THEN <<>> ELSE [i \in DOMAIN arches |-> Queried(repo, id, q, arches[i])]
  BY DEF Materialize, Wanted, Queried, QueriedId, QueriedUrl
<1>2. arches \in Seq(Text) /\ Range(arches) = ForArches(repo, q)
  <2> DEFINE all == q.arches
  <2>1. \A i \in DOMAIN all : i \in S <=> IsAvailableForArch(repo, all[i]) OBVIOUS
  <2>2. all \in Seq(Text) /\ DOMAIN all = 1..Len(all) /\ Range(all) = {all[i] : i \in 1..Len(all)} BY RangeIs
  <2> HIDE DEF S, all, repo
  <2>3. Pick(all, S) \in Seq(Text) BY <2>2, PickType
  <2>4. Range(Pick(all, S)) = {all[i] : i \in {i \in 1..Len(all) : i \in S}} BY <2>2, PickRange
  <2>5. {all[i] : i \in {i \in 1..Len(all) : i \in S}} = {a \in Range(all) : IsAvailableForArch(repo, a)} BY <2>1, <2>2
  <2> QED BY <2>3, <2>4, <2>5 DEF ForArches, all
<1>3. id \in Seq(Text) /\ repo.uri \in Seq(Text) /\ repo.key \in Text BY EffectiveTypes
<1> HIDE DEF arches, repo, eff
<1>4. CASE ~Wanted(q, KindOf(k, id))
  <2>1. m = <<>> BY <1>1, <1>4
  <2>2. <<>> \in Seq(QueriedRepos) /\ Range(<<>>) = {} BY DEF Range
  <2> HIDE DEF m
  <2>3. m \in Seq(QueriedRepos) /\ Range(m) = {} BY <2>1, <2>2, Zenon
  <2> QED BY <1>4, <2>3 DEF m, eff
<1>5. CASE Wanted(q, KindOf(k, id))
  <2> DEFINE n == Len(arches)
  <2>1. DOMAIN arches = 1..n /\ Range(arches) = {arches[i] : i \in 1..n} /\ n \in Nat BY <1>2, RangeIs
  <2>2. m = [i \in 1..n |-> Queried(repo, id, q, arches[i])] BY <1>1, <1>5, <2>1
  <2>3. \A i \in 1..n : Queried(repo, id, q, arches[i]) \in QueriedRepos
    <3> SUFFICES ASSUME NEW i \in 1..n PROVE Queried(repo, id, q, arches[i]) \in QueriedRepos OBVIOUS
    <3>1. arches[i] \in Text
      <4> HIDE DEF Text
      <4> QED BY <1>2, <2>1
    <3> QED BY <1>3, <3>1, QueriedType
  <2> HIDE DEF m, n
  <2>4. m \in Seq(QueriedRepos) /\ Len(m) = n
    <3> DEFINE f(i) == Queried(repo, id, q, arches[i])
    <3>1. m = [i \in 1..n |-> f(i)] /\ \A i \in 1..n : f(i) \in QueriedRepos BY <2>2, <2>3
    <3> HIDE DEF f
    <3> QED BY <2>1, <3>1
  <2>5. Range(m) = {Queried(repo, id, q, a) : a \in ForArches(repo, q)} BY <1>2, <2>1, <2>2 DEF Range
  <2> QED BY <1>5, <2>4, <2>5 DEF m, eff, repo
<1> QED BY <1>4, <1>5

\* The ids a use case takes.
LEMMA EmittedIs ==
  ASSUME NEW k, CatalogTypeOK(k), NEW e \in [repo : Seq(Text), set : Text], Emitted(k, e) # Refused
  PROVE  /\ Emitted(k, e) \in Seq(Seq(Text))
         /\ \/ e.set = "" /\ Range(Emitted(k, e)) = {e.repo}
            \/ /\ e.set # "" /\ e.set \in DOMAIN k.sets /\ Expand(k, e.set) # Refused
               /\ Range(Emitted(k, e)) = {Expand(k, e.set)[i].id : i \in DOMAIN Expand(k, e.set)}
<1>1. CASE e.repo # <<>> /\ e.set = ""
  <2>1. Emitted(k, e) = <<e.repo>> BY <1>1 DEF Emitted
  <2> DEFINE id == e.repo  S == Seq(Text)
  <2>2. id \in S OBVIOUS
  <2> HIDE DEF id, S
  <2>3. <<id>> \in Seq(S) /\ Range(<<id>>) = {id} BY <2>2 DEF Range
  <2> QED BY <1>1, <2>1, <2>3 DEF id, S
<1>2. CASE e.repo = <<>> /\ e.set # "" /\ Has(k.sets, e.set)
  <2> DEFINE s == e.set  ex == Expand(k, s)  ids == [i \in DOMAIN ex |-> ex[i].id]
  <2>1. Emitted(k, e) = IF ex = Refused THEN Refused ELSE ids BY <1>2 DEF Emitted
  <2>2. s \in DOMAIN k.sets /\ ex # Refused /\ Emitted(k, e) = ids BY <1>2, <2>1 DEF Has
  <2>3. DOMAIN ex = 1..Len(Taken(k, s)) /\ Taken(k, s) \in Seq(TemplateRows) /\ \A i \in 1..Len(Taken(k, s)) : ex[i].id \in Seq(Text)
    BY <2>2, ExpandIs
  <2> DEFINE n == Len(Taken(k, s))  f(i) == ex[i].id  S == Seq(Text)
  <2>4. n \in Nat /\ ids = [i \in 1..n |-> f(i)] /\ \A i \in 1..n : f(i) \in S BY <2>3
  <2>5. DOMAIN ex = 1..n BY <2>3
  <2> HIDE DEF ids, f, n, S, ex
  <2>6. ids \in Seq(S) /\ Range(ids) = {f(i) : i \in 1..n} BY <2>4 DEF Range
  <2> QED BY <1>2, <2>2, <2>5, <2>6 DEF f, S, ex
<1>3. CASE ~(e.repo # <<>> /\ e.set = "") /\ ~(e.repo = <<>> /\ e.set # "" /\ Has(k.sets, e.set)) BY <1>3 DEF Emitted
<1> QED BY <1>1, <1>2, <1>3

LEMMA InputReposAre ==
  ASSUME NEW k, CatalogTypeOK(k), NEW use \in UseCases, InputRepos(k, use) # Refused
  PROVE  /\ InputRepos(k, use) \in Seq(Seq(Text))
         /\ \A e \in Range(k.inputs[use]) : e \in [repo : Seq(Text), set : Text] /\ Emitted(k, e) # Refused
         /\ Range(InputRepos(k, use)) = UNION {Range(Emitted(k, e)) : e \in Range(k.inputs[use])}
<1> DEFINE in == k.inputs[use]  E == [repo : Seq(Text), set : Text]  got == [i \in DOMAIN in |-> Emitted(k, in[i])]  S == Seq(Text)
<1>1. in \in Seq(E) BY DEF CatalogTypeOK, UseCases
<1>2. Refused \notin Range(got) /\ InputRepos(k, use) = FlattenSeq(got) BY DEF InputRepos
<1> HIDE DEF in, E
<1>3. DOMAIN in = 1..Len(in) /\ Len(in) \in Nat /\ Range(in) = {in[i] : i \in 1..Len(in)} /\ \A i \in 1..Len(in) : in[i] \in E
  BY <1>1, RangeIs
<1>4. \A i \in 1..Len(in) : Emitted(k, in[i]) # Refused BY <1>2, <1>3 DEF Range
<1>5. \A i \in 1..Len(in) : Emitted(k, in[i]) \in Seq(S)
  <2> SUFFICES ASSUME NEW i \in 1..Len(in) PROVE Emitted(k, in[i]) \in Seq(S) OBVIOUS
  <2>1. in[i] \in [repo : Seq(Text), set : Text] /\ Emitted(k, in[i]) # Refused BY <1>3, <1>4 DEF E
  <2> QED BY <2>1, EmittedIs
<1> HIDE DEF S
<1>6. got \in Seq(Seq(S)) /\ Len(got) = Len(in) /\ \A i \in 1..Len(in) : got[i] = Emitted(k, in[i])
  <2> DEFINE f(i) == Emitted(k, in[i])  n == Len(in)  U == Seq(S)
  <2>1. got = [i \in 1..n |-> f(i)] /\ n \in Nat /\ \A i \in 1..n : f(i) \in U BY <1>3, <1>5
  <2> HIDE DEF got, f, n, U
  <2>2. got \in Seq(U) /\ Len(got) = n /\ \A i \in 1..n : got[i] = f(i) BY <2>1
  <2> QED BY <2>2 DEF f, n, U
<1> HIDE DEF got
<1>7. FlattenSeq(got) \in Seq(S) BY <1>6, FlattenType
<1>8. Range(FlattenSeq(got)) = UNION {Range(got[i]) : i \in 1..Len(got)} BY <1>6, FlattenRange
<1>9. UNION {Range(got[i]) : i \in 1..Len(got)} = UNION {Range(Emitted(k, e)) : e \in Range(in)} BY <1>3, <1>6
<1>10. \A e \in Range(in) : e \in E /\ Emitted(k, e) # Refused BY <1>3, <1>4
<1> QED BY <1>2, <1>7, <1>8, <1>9, <1>10 DEF S, in, E

AllQueried(k, q) == LET ids == InputRepos(k, q.use)  eff == EffectiveRpmRepos(k)
                    IN Dedup(FlattenSeq([i \in DOMAIN ids |-> Materialize(k, eff, ids[i], q)]))
QueriedOf(k, q, id) == LET repo == EffectiveRpmRepos(k)[id]
                       IN IF Wanted(q, KindOf(k, id)) THEN {Queried(repo, id, q, a) : a \in ForArches(repo, q)} ELSE {}

LEMMA AllQueriedIs ==
  ASSUME NEW k, CatalogTypeOK(k), NEW q, q.use \in UseCases, q.arches \in Seq(Text),
         InputRepos(k, q.use) # Refused, EffectiveRpmRepos(k) # Refused,
         \A id \in Range(InputRepos(k, q.use)) : id \in DOMAIN EffectiveRpmRepos(k)
  PROVE  LET all == AllQueried(k, q)  ids == Range(InputRepos(k, q.use))
         IN /\ all \in Seq(QueriedRepos)
            /\ \A r \in Range(all) : \E id \in ids : r \in QueriedOf(k, q, id)
            /\ \A id \in ids : \A r \in QueriedOf(k, q, id) : \E d \in Range(all) : d.url = r.url
            /\ \A i, j \in 1..Len(all) : all[i].url = all[j].url => i = j
<1> DEFINE ids == InputRepos(k, q.use)  eff == EffectiveRpmRepos(k)
           mats == [i \in DOMAIN ids |-> Materialize(k, eff, ids[i], q)]
           f(i) == Materialize(k, eff, ids[i], q)  n == Len(ids)
<1>1. ids \in Seq(Seq(Text)) BY InputReposAre
<1>2. DOMAIN ids = 1..n /\ Range(ids) = {ids[i] : i \in 1..n} /\ n \in Nat
  <2> DEFINE S == Seq(Text)
  <2>1. ids \in Seq(S) BY <1>1
  <2> HIDE DEF ids, S
  <2> QED BY <2>1, RangeIs
<1>3. \A i \in 1..n : f(i) \in Seq(QueriedRepos) /\ Range(f(i)) = QueriedOf(k, q, ids[i])
  <2> SUFFICES ASSUME NEW i \in 1..n PROVE f(i) \in Seq(QueriedRepos) /\ Range(f(i)) = QueriedOf(k, q, ids[i]) OBVIOUS
  <2>1. ids[i] \in DOMAIN eff BY <1>2
  <2> HIDE DEF ids
  <2> QED BY <2>1, MaterializeIs DEF QueriedOf
<1>4. AllQueried(k, q) = Dedup(FlattenSeq(mats)) BY DEF AllQueried
<1> HIDE DEF ids, eff
<1>5. mats = [i \in 1..n |-> f(i)] BY <1>2
<1> HIDE DEF mats, f, n
<1>6. mats \in Seq(Seq(QueriedRepos)) /\ Len(mats) = n /\ \A i \in 1..n : mats[i] = f(i)
  <2> DEFINE U == Seq(QueriedRepos)
  <2>1. \A i \in 1..n : f(i) \in U BY <1>3
  <2> HIDE DEF U
  <2>2. mats \in Seq(U) /\ Len(mats) = n /\ \A i \in 1..n : mats[i] = f(i) BY <1>2, <1>5, <2>1
  <2> QED BY <2>2 DEF U
<1> DEFINE flat == FlattenSeq(mats)
<1>7. flat \in Seq(QueriedRepos) BY <1>6, FlattenType
<1>8. Range(flat) = UNION {Range(mats[i]) : i \in 1..Len(mats)} BY <1>6, FlattenRange
<1>9. Range(flat) = UNION {QueriedOf(k, q, ids[i]) : i \in 1..n} BY <1>3, <1>6, <1>8
<1> HIDE DEF flat
<1>10. Range(flat) = UNION {QueriedOf(k, q, id) : id \in Range(ids)} BY <1>2, <1>9
<1> DEFINE all == Dedup(flat)
<1>11. /\ all \in Seq(QueriedRepos) /\ Range(all) \subseteq Range(flat)
       /\ \A r \in Range(flat) : \E d \in Range(all) : d.url = r.url
       /\ \A i, j \in 1..Len(all) : all[i].url = all[j].url => i = j
  BY <1>7, DedupIs
<1> HIDE DEF all
<1>12. AllQueried(k, q) = all BY <1>4 DEF all, flat
<1>13. \A r \in Range(all) : \E id \in Range(ids) : r \in QueriedOf(k, q, id) BY <1>10, <1>11
<1>14. \A id \in Range(ids) : \A r \in QueriedOf(k, q, id) : \E d \in Range(all) : d.url = r.url BY <1>10, <1>11
<1> QED BY <1>11, <1>12, <1>13, <1>14 DEF ids

\* In a valid project a query asks for repositories that are there.
LEMMA ValidInputs ==
  ASSUME NEW k, ReposAreValid(k), NEW use \in UseCases
  PROVE  /\ EffectiveRpmRepos(k) # Refused /\ InputRepos(k, use) # Refused
         /\ \A id \in Range(InputRepos(k, use)) : id \in DOMAIN EffectiveRpmRepos(k)
BY DEF ReposAreValid, InputsAreValid, Has

LEMMA AppendApart ==
  ASSUME NEW T, NEW s \in Seq(T), NEW t \in Seq(T), NEW x \in T, NEW y \in T, Append(s, x) = Append(t, y)
  PROVE  s = t /\ x = y
<1> DEFINE u == Append(s, x)  v == Append(t, y)
<1>1. /\ Len(u) = Len(s) + 1 /\ u[Len(s) + 1] = x /\ (\A i \in 1..Len(s) : u[i] = s[i]) /\ Len(s) \in Nat
      /\ Len(v) = Len(t) + 1 /\ v[Len(t) + 1] = y /\ (\A i \in 1..Len(t) : v[i] = t[i]) /\ Len(t) \in Nat
  OBVIOUS
<1>2. u = v OBVIOUS
<1> HIDE DEF u, v
<1>3. Len(s) = Len(t) BY <1>1, <1>2
<1>4. x = y BY <1>1, <1>2, <1>3
<1>5. \A i \in 1..Len(s) : s[i] = t[i] BY <1>1, <1>2, <1>3
<1>6. s = t BY <1>3, <1>5
<1> QED BY <1>4, <1>6

\* An id and an architecture tell the URL.
LEMMA IdsAreOnce ==
  ASSUME NEW k, CatalogTypeOK(k), NEW q, q.use \in UseCases, q.arches \in Seq(Text), ReposAreValid(k)
  PROVE  LET all == AllQueried(k, q) IN \A i, j \in 1..Len(all) : all[i].id = all[j].id => i = j
<1> DEFINE all == AllQueried(k, q)  ids == Range(InputRepos(k, q.use))  eff == EffectiveRpmRepos(k)
<1>1. eff # Refused /\ InputRepos(k, q.use) # Refused /\ \A id \in ids : id \in DOMAIN eff BY ValidInputs
<1>2. /\ all \in Seq(QueriedRepos)
      /\ \A r \in Range(all) : \E id \in ids : r \in QueriedOf(k, q, id)
      /\ \A i, j \in 1..Len(all) : all[i].url = all[j].url => i = j
  BY <1>1, AllQueriedIs
<1>3. \A id \in ids : id \in Seq(Text) BY <1>1, EffectiveTypes
<1> HIDE DEF all, ids
<1>4. ASSUME NEW i \in 1..Len(all)
      PROVE  \E id \in ids : \E a \in Range(q.arches) : all[i].id = QueriedId(id, q, a) /\ all[i].url = QueriedUrl(eff[id], a)
  <2>1. all[i] \in Range(all)
    <3>1. DOMAIN all = 1..Len(all) BY <1>2
    <3> QED BY <3>1 DEF Range
  <2>2. PICK id \in ids : all[i] \in QueriedOf(k, q, id) BY <1>2, <2>1
  <2>3. PICK a \in ForArches(eff[id], q) : all[i] = Queried(eff[id], id, q, a) BY <2>2 DEF QueriedOf
  <2>4. a \in Range(q.arches) BY <2>3 DEF ForArches
  <2> HIDE DEF eff
  <2>5. all[i].id = QueriedId(id, q, a) /\ all[i].url = QueriedUrl(eff[id], a)
    <3> DEFINE x == all[i]  d == QueriedId(id, q, a)  u == QueriedUrl(eff[id], a)  y == IF eff[id].nocheck THEN "" ELSE eff[id].key
    <3>1. x = [id |-> d, url |-> u, key |-> y] BY <2>3 DEF Queried
    <3> HIDE DEF x, d, u, y
    <3>2. x.id = d /\ x.url = u BY ONLY <3>1
    <3> QED BY <3>2 DEF x, d, u
  <2> QED BY <2>4, <2>5
<1> HIDE DEF eff
<1>5. ASSUME NEW id \in ids, NEW jd \in ids, NEW a \in Range(q.arches), NEW b \in Range(q.arches),
             QueriedId(id, q, a) = QueriedId(jd, q, b)
      PROVE  id = jd /\ a = b
  <2> DEFINE x == q.arches
  <2>1. x \in Seq(Text) /\ DOMAIN x = 1..Len(x) /\ Range(x) = {x[i] : i \in 1..Len(x)} /\ Range(x) \subseteq Text BY RangeIs
  <2>2. id \in Seq(Text) /\ jd \in Seq(Text) /\ a \in Text /\ b \in Text BY <1>3, <2>1
  <2> HIDE DEF x, Text
  <2>3. CASE Len(q.arches) > 1
    <3>1. Append(id, a) = Append(jd, b) BY <1>5, <2>3 DEF QueriedId
    <3> QED BY <2>2, <3>1, AppendApart
  <2>4. CASE ~(Len(q.arches) > 1)
    <3>1. id = jd BY <1>5, <2>4 DEF QueriedId
    <3>2. Len(x) \in Nat /\ ~(Len(x) > 1) BY <2>1, <2>4 DEF x
    <3>3. PICK i \in 1..Len(x) : a = x[i] BY <2>1 DEF x
    <3>4. PICK j \in 1..Len(x) : b = x[j] BY <2>1 DEF x
    <3>5. i = j BY <3>2
    <3> QED BY <3>1, <3>3, <3>4, <3>5
  <2> QED BY <2>3, <2>4
<1>6. ASSUME NEW i \in 1..Len(all), NEW j \in 1..Len(all), all[i].id = all[j].id PROVE i = j
  <2>1. PICK id \in ids, a \in Range(q.arches) : all[i].id = QueriedId(id, q, a) /\ all[i].url = QueriedUrl(eff[id], a) BY <1>4
  <2>2. PICK jd \in ids, b \in Range(q.arches) : all[j].id = QueriedId(jd, q, b) /\ all[j].url = QueriedUrl(eff[jd], b) BY <1>4
  <2>3. id = jd /\ a = b BY <1>5, <1>6, <2>1, <2>2
  <2>4. all[i].url = all[j].url BY <2>1, <2>2, <2>3
  <2> QED BY <1>2, <2>4
<1> QED BY <1>6 DEF all

\* What the inputs declare, entry by entry.
UrlsFor(q, uri, per, arches) == {<<uri, IF per THEN a ELSE "">> : a \in {x \in Range(q.arches) : arches = {} \/ x \in arches}}
SetDeclares(k, q, s) ==
  UNION {UrlsFor(q, <<k.sets[s].uri, row.subpath.at>>, row.subpath.perArch, k.sets[s].arches) :
           row \in {r \in Range(k.templates[k.sets[s].template]) : Allowed(k.sets[s], r) /\ Wanted(q, Default(r.kind))}}
RepoDeclares(k, q, id) == UrlsFor(q, k.repos[id].uri, k.repos[id].perArch, k.repos[id].arches)
EntryDeclares(k, q, e) == IF e.set # "" THEN SetDeclares(k, q, e.set) ELSE IF Has(k.repos, e.repo) THEN RepoDeclares(k, q, e.repo) ELSE {}
UrlsOf(k, q, id) == {r.url : r \in QueriedOf(k, q, id)}

LEMMA DeclaredIs == ASSUME NEW k, NEW q PROVE Declared(k, q) = UNION {EntryDeclares(k, q, e) : e \in Range(k.inputs[q.use])}
BY DEF Declared, EntryDeclares, SetDeclares, RepoDeclares, UrlsFor, Wanted

LEMMA UrlsOfIs ==
  ASSUME NEW k, NEW q, NEW id
  PROVE  LET repo == EffectiveRpmRepos(k)[id]
         IN UrlsOf(k, q, id) = IF Wanted(q, KindOf(k, id)) THEN UrlsFor(q, repo.uri, repo.perArch, repo.arches) ELSE {}
<1> DEFINE repo == EffectiveRpmRepos(k)[id]
<1>1. \A a : Queried(repo, id, q, a).url = QueriedUrl(repo, a)
  <2> SUFFICES ASSUME NEW a PROVE Queried(repo, id, q, a).url = QueriedUrl(repo, a) OBVIOUS
  <2> DEFINE x == Queried(repo, id, q, a)  d == QueriedId(id, q, a)  u == QueriedUrl(repo, a)  y == IF repo.nocheck THEN "" ELSE repo.key
  <2>1. x = [id |-> d, url |-> u, key |-> y] BY DEF Queried
  <2> HIDE DEF x, d, u, y
  <2>2. x.url = u BY ONLY <2>1
  <2> QED BY <2>2 DEF x, u
<1> HIDE DEF repo
<1>2. QueriedOf(k, q, id) = IF Wanted(q, KindOf(k, id)) THEN {Queried(repo, id, q, a) : a \in ForArches(repo, q)} ELSE {}
  BY DEF QueriedOf, repo
<1>3. UrlsFor(q, repo.uri, repo.perArch, repo.arches) = {QueriedUrl(repo, a) : a \in ForArches(repo, q)}
  BY DEF UrlsFor, QueriedUrl, ForArches, IsAvailableForArch
<1>4. UrlsOf(k, q, id) = {r.url : r \in QueriedOf(k, q, id)} BY DEF UrlsOf
<1>5. CASE Wanted(q, KindOf(k, id))
  <2>1. QueriedOf(k, q, id) = {Queried(repo, id, q, a) : a \in ForArches(repo, q)} BY <1>2, <1>5
  <2> DEFINE A == ForArches(repo, q)  F(a) == Queried(repo, id, q, a)  U(a) == QueriedUrl(repo, a)
  <2>2. \A a : F(a).url = U(a) BY <1>1
  <2>3. UrlsOf(k, q, id) = {r.url : r \in {F(a) : a \in A}} BY <1>4, <2>1
  <2> HIDE DEF A, F, U
  <2>4. {r.url : r \in {F(a) : a \in A}} = {U(a) : a \in A} BY <2>2
  <2> QED BY <1>3, <1>5, <2>3, <2>4 DEF A, U, repo
<1>6. CASE ~Wanted(q, KindOf(k, id)) BY <1>2, <1>4, <1>6 DEF repo
<1> QED BY <1>5, <1>6

LEMMA PlainDeclares ==
  ASSUME NEW k, CatalogTypeOK(k), EffectiveRpmRepos(k) # Refused, NEW q, NEW id \in DOMAIN k.repos
  PROVE  UrlsOf(k, q, id) = RepoDeclares(k, q, id)
<1>1. KindOf(k, id) = "binary" /\ EffectiveRpmRepos(k)[id] = k.repos[id] BY KindOfPlain, EffectiveIs
<1>2. Wanted(q, "binary") BY DEF Wanted
<1> QED BY <1>1, <1>2, UrlsOfIs DEF RepoDeclares

LEMMA MadeDeclares ==
  ASSUME NEW k, CatalogTypeOK(k), EffectiveRpmRepos(k) # Refused, NEW q, NEW s \in DOMAIN k.sets
  PROVE  UNION {UrlsOf(k, q, Expand(k, s)[i].id) : i \in DOMAIN Expand(k, s)} = SetDeclares(k, q, s)
<1> DEFINE set == k.sets[s]  taken == Taken(k, s)
           F(row) == UrlsFor(q, <<set.uri, row.subpath.at>>, row.subpath.perArch, set.arches)
           ex == Expand(k, s)
<1>1. Expand(k, s) # Refused BY EffectiveIs
<1>2. /\ Has(k.templates, set.template) /\ taken \in Seq(TemplateRows)
      /\ DOMAIN ex = 1..Len(taken)
      /\ \A i \in 1..Len(taken) : ex[i].repo = RepoOf(set, taken[i])
  BY <1>1, ExpandIs
<1>3. Range(taken) = {r \in Range(k.templates[set.template]) : Allowed(set, r)} BY <1>2, TakenIs
<1>4. Range(taken) = {taken[i] : i \in 1..Len(taken)} BY <1>2, RangeIs
<1>5. ASSUME NEW i \in 1..Len(taken)
      PROVE  UrlsOf(k, q, ex[i].id) = IF Wanted(q, Default(taken[i].kind)) THEN F(taken[i]) ELSE {}
  <2> DEFINE id == ex[i].id  repo == EffectiveRpmRepos(k)[id]  row == taken[i]
  <2>1. i \in DOMAIN ex BY <1>2
  <2>2. repo = RepoOf(set, row)
    <3>1. repo = ex[i].repo BY <2>1, EffectiveIs
    <3> QED BY <1>2, <3>1
  <2>3. KindOf(k, id) = Default(row.kind) BY <2>1, KindOfMade
  <2>4. UrlsOf(k, q, id) = IF Wanted(q, KindOf(k, id)) THEN UrlsFor(q, repo.uri, repo.perArch, repo.arches) ELSE {} BY UrlsOfIs
  <2> HIDE DEF id, repo, row, set
  <2>5. repo.uri = <<set.uri, row.subpath.at>> /\ repo.perArch = row.subpath.perArch /\ repo.arches = set.arches BY <2>2 DEF RepoOf
  <2> QED BY <2>3, <2>4, <2>5 DEF id, row
<1> DEFINE W(row) == Wanted(q, Default(row.kind))
           rows == {r \in Range(k.templates[set.template]) : Allowed(set, r)}
<1>6. SetDeclares(k, q, s) = UNION {F(row) : row \in {r \in Range(k.templates[set.template]) : Allowed(set, r) /\ W(r)}}
  BY DEF SetDeclares
<1>7. UNION {UrlsOf(k, q, ex[i].id) : i \in DOMAIN ex} = UNION {IF W(taken[i]) THEN F(taken[i]) ELSE {} : i \in 1..Len(taken)}
  BY <1>2, <1>5
<1>8. {r \in Range(k.templates[set.template]) : Allowed(set, r) /\ W(r)} = {r \in Range(taken) : W(r)} BY <1>3
<1> HIDE DEF F, W, taken, ex
<1>9. UNION {IF W(taken[i]) THEN F(taken[i]) ELSE {} : i \in 1..Len(taken)} = UNION {F(row) : row \in {r \in Range(taken) : W(r)}}
  BY <1>4
<1> QED BY <1>6, <1>7, <1>8, <1>9 DEF ex

LEMMA EntryDeclaresIs ==
  ASSUME NEW k, CatalogTypeOK(k), EffectiveRpmRepos(k) # Refused, NEW q,
         NEW e \in [repo : Seq(Text), set : Text], Emitted(k, e) # Refused, e.set # "" \/ Has(k.repos, e.repo)
  PROVE  UNION {UrlsOf(k, q, id) : id \in Range(Emitted(k, e))} = EntryDeclares(k, q, e)
<1>1. CASE e.set = "" /\ Range(Emitted(k, e)) = {e.repo}
  <2>1. e.repo \in DOMAIN k.repos BY <1>1 DEF Has
  <2>2. UrlsOf(k, q, e.repo) = RepoDeclares(k, q, e.repo) BY <2>1, PlainDeclares
  <2>3. EntryDeclares(k, q, e) = RepoDeclares(k, q, e.repo) BY <1>1, <2>1 DEF EntryDeclares, Has
  <2> QED BY <1>1, <2>2, <2>3
<1>2. CASE /\ e.set # "" /\ e.set \in DOMAIN k.sets
           /\ Range(Emitted(k, e)) = {Expand(k, e.set)[i].id : i \in DOMAIN Expand(k, e.set)}
  <2> DEFINE ex == Expand(k, e.set)  U(id) == UrlsOf(k, q, id)
  <2>1. UNION {U(ex[i].id) : i \in DOMAIN ex} = SetDeclares(k, q, e.set) BY <1>2, MadeDeclares
  <2>2. EntryDeclares(k, q, e) = SetDeclares(k, q, e.set) BY <1>2 DEF EntryDeclares
  <2>3. Range(Emitted(k, e)) = {ex[i].id : i \in DOMAIN ex} BY <1>2
  <2> HIDE DEF U, ex
  <2>4. UNION {U(id) : id \in Range(Emitted(k, e))} = UNION {U(ex[i].id) : i \in DOMAIN ex} BY <2>3
  <2> QED BY <2>1, <2>2, <2>4 DEF U
<1> QED BY <1>1, <1>2, EmittedIs

\* In a valid project whose inputs are there, a query reaches what they
\* declare.
LEMMA QueryReaches ==
  ASSUME NEW k, CatalogTypeOK(k), ReposAreValid(k), NEW q, q.use \in UseCases, q.arches \in Seq(Text), PlainInputs(k, q)
  PROVE  LET all == AllQueried(k, q) IN {all[i].url : i \in 1..Len(all)} = Declared(k, q)
<1> DEFINE all == AllQueried(k, q)  ids == Range(InputRepos(k, q.use))  es == Range(k.inputs[q.use])
<1>1. EffectiveRpmRepos(k) # Refused /\ InputRepos(k, q.use) # Refused /\ \A id \in ids : id \in DOMAIN EffectiveRpmRepos(k)
  BY ValidInputs
<1>2. /\ all \in Seq(QueriedRepos)
      /\ \A r \in Range(all) : \E id \in ids : r \in QueriedOf(k, q, id)
      /\ \A id \in ids : \A r \in QueriedOf(k, q, id) : \E d \in Range(all) : d.url = r.url
  BY <1>1, AllQueriedIs
<1>3. /\ \A e \in es : e \in [repo : Seq(Text), set : Text] /\ Emitted(k, e) # Refused
      /\ ids = UNION {Range(Emitted(k, e)) : e \in es}
  BY <1>1, InputReposAre
<1>4. \A e \in es : UNION {UrlsOf(k, q, id) : id \in Range(Emitted(k, e))} = EntryDeclares(k, q, e)
  <2> SUFFICES ASSUME NEW e \in es PROVE UNION {UrlsOf(k, q, id) : id \in Range(Emitted(k, e))} = EntryDeclares(k, q, e) OBVIOUS
  <2>1. e.set # "" \/ Has(k.repos, e.repo) BY DEF PlainInputs
  <2> QED BY <1>1, <1>3, <2>1, EntryDeclaresIs
<1>5. Declared(k, q) = UNION {EntryDeclares(k, q, e) : e \in es} BY DeclaredIs
<1> HIDE DEF all, ids, es
<1>6. Range(all) = {all[i] : i \in 1..Len(all)} BY <1>2, RangeIs
<1>7. {all[i].url : i \in 1..Len(all)} = {r.url : r \in Range(all)} BY <1>6
<1>8. {r.url : r \in Range(all)} = UNION {UrlsOf(k, q, id) : id \in ids}
  <2>1. ASSUME NEW r \in Range(all) PROVE r.url \in UNION {UrlsOf(k, q, id) : id \in ids}
    <3>1. PICK id \in ids : r \in QueriedOf(k, q, id) BY <1>2
    <3>2. r.url \in UrlsOf(k, q, id) BY <3>1 DEF UrlsOf
    <3> QED BY <3>2
  <2>2. ASSUME NEW id \in ids, NEW u \in UrlsOf(k, q, id) PROVE u \in {r.url : r \in Range(all)}
    <3>1. PICK r \in QueriedOf(k, q, id) : u = r.url BY DEF UrlsOf
    <3>2. PICK d \in Range(all) : d.url = r.url BY <1>2
    <3> QED BY <3>1, <3>2
  <2> QED BY <2>1, <2>2
<1>9. UNION {UrlsOf(k, q, id) : id \in ids} = UNION {UNION {UrlsOf(k, q, id) : id \in Range(Emitted(k, e))} : e \in es} BY <1>3
<1>10. UNION {UNION {UrlsOf(k, q, id) : id \in Range(Emitted(k, e))} : e \in es} = UNION {EntryDeclares(k, q, e) : e \in es} BY <1>4
<1> QED BY <1>5, <1>7, <1>8, <1>9, <1>10 DEF all

\* Unless the run is permissive, what is asked has been validated.
CatalogChecked == pc = "ready" /\ ~proj.permissive /\ proj.catalog # None => CatalogIsValid(proj.catalog)
CatalogInv == /\ CatalogChecked /\ proj \in Projects
              /\ asked # None => /\ pc = "ready" /\ proj.catalog # None /\ asked.command \in Commands
                                 /\ asked.reply = Reply(asked.command)

(* A project that is asked something has been validated unless the run is  *)
(* permissive, and each answer is the reply to one of its commands         *)
(* (loadAndResolveProjectConfig, RunQuery, RunCompare).                    *)
THEOREM CatalogIsChecked == ProjectSpec => []CatalogInv
<1>1. ProjectInit => CatalogInv BY DEF ProjectInit, CatalogInv, CatalogChecked
<1>2. ASSUME CatalogInv, [ProjectNext]_projectVars PROVE CatalogInv'
  <2>1. CASE Load
    <3>1. UNCHANGED <<proj, asked>> /\ pc # "ready" BY <2>1 DEF Load, ReadFile, MergeFile, NextTop, Validate
    <3>2. pc' = "ready" => IsValid \/ proj.permissive BY <2>1 DEF Load, ReadFile, MergeFile, NextTop, Validate, Fail
    <3>3. IsValid /\ proj.catalog # None => CatalogIsValid(proj.catalog) BY DEF IsValid
    <3>4. asked = None BY <1>2, <3>1 DEF CatalogInv
    <3> QED BY <1>2, <3>1, <3>2, <3>3, <3>4 DEF CatalogInv, CatalogChecked
  <2>2. ASSUME NEW f1 \in Criteria, NEW f2 \in Criteria, Select(f1, f2) PROVE CatalogInv'
    <3>1. UNCHANGED <<proj, pc, asked>> BY <2>2 DEF Select
    <3> QED BY <1>2, <3>1 DEF CatalogInv, CatalogChecked, Reply
  <2>3. ASSUME NEW c \in Commands, Ask(c) PROVE CatalogInv'
    <3>1. pc = "ready" /\ proj.catalog # None /\ UNCHANGED <<proj, pc>> BY <2>3 DEF Ask
    <3>2. asked'.command = c /\ asked'.reply = Reply(c) BY <2>3 DEF Ask
    <3> QED BY <1>2, <3>1, <3>2 DEF CatalogInv, CatalogChecked, Reply
  <2>4. CASE UNCHANGED projectVars BY <1>2, <2>4 DEF projectVars, CatalogInv, CatalogChecked, Reply
  <2> QED BY <1>2, <2>1, <2>2, <2>3, <2>4 DEF ProjectNext
<1> QED BY <1>1, <1>2, PTL DEF ProjectSpec

\* What a command that selects one version of the catalog is answered.
LEMMA VersionReply ==
  ASSUME CatalogInv, Answered("version")
  PROVE  LET k == proj.catalog  q == asked.command
         IN /\ CatalogTypeOK(k) /\ ReposAreValid(k) /\ q.use \in UseCases /\ q.arches \in Seq(Text)
            /\ {q.noDebug, q.noSource} \subseteq BOOLEAN
            /\ asked.reply = QueryVersion(k, q)
<1>1. asked.command \in Commands /\ asked.command.by = "version" /\ proj.catalog # None /\ proj \in Projects
      /\ asked.reply = Reply(asked.command) /\ CatalogIsValid(proj.catalog)
  BY DEF CatalogInv, Answered, CatalogChecked
<1>2. asked.reply = QueryVersion(proj.catalog, asked.command) BY <1>1 DEF Reply
<1> QED BY <1>1, <1>2, CatalogAssumption DEF CatalogIsValid

(* `repo query --version` reaches exactly what the inputs declare, and no  *)
(* id twice (effectiveInputRepos, materializeVersionRepos).                *)
THEOREM QueriesAreExact == ProjectSpec => []QueryIsExact
<1>1. CatalogInv => QueryIsExact
  <2> SUFFICES ASSUME CatalogInv, Answered("version"), asked.reply # Refused, PlainInputs(proj.catalog, asked.command)
               PROVE  /\ {asked.reply[i].url : i \in DOMAIN asked.reply} = Declared(proj.catalog, asked.command)
                      /\ IsInjective([i \in DOMAIN asked.reply |-> asked.reply[i].id])
    BY DEF QueryIsExact
  <2> DEFINE k == proj.catalog  q == asked.command  all == AllQueried(k, q)  ids == InputRepos(k, q.use)
  <2>1. /\ CatalogTypeOK(k) /\ ReposAreValid(k) /\ q.use \in UseCases /\ q.arches \in Seq(Text)
        /\ asked.reply = QueryVersion(k, q) /\ PlainInputs(k, q)
    BY VersionReply
  <2>2. EffectiveRpmRepos(k) # Refused /\ ids # Refused /\ \A id \in Range(ids) : id \in DOMAIN EffectiveRpmRepos(k)
    BY <2>1, ValidInputs
  <2> HIDE DEF k, q
  <2>3. asked.reply = all BY <2>1 DEF QueryVersion, AllQueried
  <2>4. all \in Seq(QueriedRepos) BY <2>1, <2>2, AllQueriedIs
  <2>5. {all[i].url : i \in 1..Len(all)} = Declared(k, q) BY <2>1, QueryReaches
  <2>6. \A i, j \in 1..Len(all) : all[i].id = all[j].id => i = j BY <2>1, IdsAreOnce
  <2> HIDE DEF all, ids
  <2>7. DOMAIN all = 1..Len(all) BY <2>4
  <2>8. IsInjective([i \in DOMAIN all |-> all[i].id]) BY <2>6, <2>7 DEF IsInjective
  <2> QED BY <2>3, <2>5, <2>7, <2>8 DEF k, q
<1> QED BY <1>1, CatalogIsChecked, PTL

\* A query of a valid project is refused for what validation leaves open.
LEMMA RefusedQuery ==
  ASSUME NEW k, CatalogTypeOK(k), ReposAreValid(k), NEW q, q.use \in UseCases, q.arches \in Seq(Text),
         {q.noDebug, q.noSource} \subseteq BOOLEAN, QueryVersion(k, q) = Refused
  PROVE  LET ids == Range(InputRepos(k, q.use))
         IN \/ ids = {} \/ (\E id \in ids : EffectiveRpmRepos(k)[id].uri = <<>>)
            \/ \A id \in ids : ~Wanted(q, KindOf(k, id)) \/ \A a \in Range(q.arches) : ~IsAvailableForArch(EffectiveRpmRepos(k)[id], a)
<1> DEFINE s == InputRepos(k, q.use)  ids == Range(s)  eff == EffectiveRpmRepos(k)  all == AllQueried(k, q)
<1>1. eff # Refused /\ s # Refused /\ \A id \in ids : id \in DOMAIN eff BY ValidInputs
<1>2. /\ all \in Seq(QueriedRepos)
      /\ \A id \in ids : \A r \in QueriedOf(k, q, id) : \E d \in Range(all) : d.url = r.url
  BY <1>1, AllQueriedIs
<1>3. all # Refused BY <1>2, CatalogAssumption
<1>4. s = <<>> \/ (\E id \in ids : eff[id].uri = <<>>) \/ all = <<>>
  BY <1>1, <1>3 DEF QueryVersion, AllQueried, Has
<1>5. CASE s = <<>>
  <2>1. Range(<<>>) = {} BY DEF Range
  <2>2. ids = {} BY <1>5, <2>1, Zenon
  <2> QED BY <2>2
<1>6. CASE all = <<>>
  <2>1. Range(<<>>) = {} BY DEF Range
  <2> HIDE DEF all
  <2>2. Range(all) = {} BY <1>6, <2>1, Zenon
  <2> HIDE DEF ids, eff
  <2>3. ASSUME NEW id \in ids, Wanted(q, KindOf(k, id)), NEW a \in Range(q.arches), IsAvailableForArch(eff[id], a) PROVE FALSE
    <3>1. a \in ForArches(eff[id], q) BY <2>3 DEF ForArches
    <3>2. Queried(eff[id], id, q, a) \in QueriedOf(k, q, id) BY <2>3, <3>1 DEF QueriedOf, eff
    <3>3. QueriedOf(k, q, id) # {} BY <3>2
    <3> QED BY <1>2, <2>2, <3>3
  <2> QED BY <2>3 DEF ids, eff
<1> QED BY <1>4, <1>5, <1>6

\* The tests of a valid project resolve, each once.
LEMMA ValidTestsRun ==
  ASSUME NEW k, CatalogTypeOK(k), TestsAreValid(k)
  PROVE  LET run == ResolveTestRefs(k, k.imageTests) IN run # Refused /\ IsInjective(run)
<1> DEFINE refs == k.imageTests  names == [i \in DOMAIN refs |-> Names(k, refs[i])]  n == Len(refs)
<1>1. refs \in Seq(TestRefs) /\ RefListIsValid(k, refs) BY DEF CatalogTypeOK, TestsAreValid
<1>2. DOMAIN refs = 1..n /\ n \in Nat
  <2> HIDE DEF refs
  <2> QED BY <1>1
<1>3. ASSUME NEW i \in 1..n PROVE Resolves(k, refs[i]) /\ Names(k, refs[i]) \in Seq(Text)
  <2> DEFINE ref == refs[i]
  <2>1. OneOf(ref) /\ (ref.name # "" => ref.name \in k.tests) /\ (ref.group # "" => Has(k.testGroups, ref.group))
    BY <1>1, <1>2 DEF RefListIsValid
  <2>2. ref \in TestRefs
    <3> HIDE DEF refs
    <3> QED BY <1>1, <1>2
  <2>3. ref.name \in Text BY <2>2 DEF TestRefs
  <2>4. CASE ref.group = ""
    <3>1. ref.name # "" BY <2>1, <2>4 DEF OneOf
    <3>2. Resolves(k, ref) BY <2>1, <2>4 DEF Resolves
    <3>3. Names(k, ref) = <<ref.name>> BY <3>1 DEF Names
    <3> DEFINE x == ref.name
    <3>4. x \in Text BY <2>3
    <3> HIDE DEF x, Text
    <3>5. <<x>> \in Seq(Text) BY <3>4
    <3> QED BY <3>2, <3>3, <3>5 DEF x
  <2>5. CASE ref.group # ""
    <3> DEFINE g == k.testGroups[ref.group]
    <3>1. ref.name = "" /\ ref.group \in DOMAIN k.testGroups BY <2>1, <2>5 DEF OneOf, Has
    <3>2. GroupIsValid(k, g) /\ g \in Seq(TestRefs) BY <3>1 DEF TestsAreValid, CatalogTypeOK
    <3>3. \A m \in DOMAIN g : g[m].group = "" /\ g[m].name \in k.tests BY <3>2 DEF GroupIsValid
    <3>4. Resolves(k, ref) BY <2>1, <3>1, <3>3 DEF Resolves
    <3>5. Names(k, ref) = [m \in DOMAIN g |-> g[m].name] BY <3>1 DEF Names
    <3>6. k.tests \subseteq Text BY DEF CatalogTypeOK
    <3> DEFINE f(m) == g[m].name  l == Len(g)
    <3>7. DOMAIN g = 1..l /\ l \in Nat
      <4> HIDE DEF g
      <4> QED BY <3>2
    <3>8. Names(k, ref) = [m \in 1..l |-> f(m)] /\ \A m \in 1..l : f(m) \in Text BY <3>3, <3>5, <3>6, <3>7
    <3> HIDE DEF f, l, Text
    <3>9. [m \in 1..l |-> f(m)] \in Seq(Text) BY <3>7, <3>8
    <3> QED BY <3>4, <3>8, <3>9
  <2> QED BY <2>4, <2>5
<1>4. ResolveTestRefs(k, refs) = FlattenSeq(names) BY <1>2, <1>3 DEF ResolveTestRefs
<1>5. IsInjective(FlattenSeq(names)) BY <1>1 DEF RefListIsValid
<1>6. names \in Seq(Seq(Text))
  <2> DEFINE f(i) == Names(k, refs[i])  U == Seq(Text)
  <2>1. names = [i \in 1..n |-> f(i)] /\ \A i \in 1..n : f(i) \in U BY <1>2, <1>3
  <2> HIDE DEF names, f, n, U
  <2>2. names \in Seq(U) BY <1>2, <2>1
  <2> QED BY <2>2 DEF U
<1> HIDE DEF names
<1>7. FlattenSeq(names) \in Seq(Text) BY <1>6, FlattenType
<1>8. FlattenSeq(names) # Refused BY <1>7, CatalogAssumption
<1> QED BY <1>4, <1>5, <1>8

(* What validation lets pass does not fail later, for the tests of an      *)
(* image and for a query by version (validate, ResolveTestRefs,            *)
(* buildVersionRepos).                                                     *)
THEOREM ValidProjectsRun == ProjectSpec => []ValidMeansRunnable
<1>1. ASSUME CatalogInv, Answered("tests"), asked.command.selectors = <<>> PROVE asked.reply # Refused /\ IsInjective(asked.reply)
  <2> DEFINE k == proj.catalog
  <2>1. asked.command.by = "tests" /\ k # None /\ proj \in Projects /\ asked.reply = Reply(asked.command) /\ CatalogIsValid(k)
    BY <1>1 DEF CatalogInv, Answered, CatalogChecked
  <2>2. asked.reply = TestsToRun(k, asked.command.selectors) BY <2>1 DEF Reply
  <2>3. asked.reply = ResolveTestRefs(k, k.imageTests) BY <1>1, <2>2 DEF TestsToRun
  <2>4. CatalogTypeOK(k) /\ TestsAreValid(k) BY <2>1, CatalogAssumption DEF CatalogIsValid
  <2> HIDE DEF k
  <2> QED BY <2>3, <2>4, ValidTestsRun
<1>2. ASSUME CatalogInv, Answered("version"), asked.reply = Refused
      PROVE  LET c == asked.command  k == proj.catalog  ids == Range(InputRepos(k, c.use))
             IN \/ ids = {} \/ (\E id \in ids : EffectiveUri(id) = <<>>)
                \/ \A id \in ids : \/ KindOf(k, id) \in (IF c.noDebug THEN {"debug"} ELSE {}) \cup (IF c.noSource THEN {"source"} ELSE {})
                                   \/ \A a \in Range(c.arches) : ~IsAvailableForArch(EffectiveRpmRepos(k)[id], a)
  <2> DEFINE k == proj.catalog  q == asked.command  ids == Range(InputRepos(k, q.use))
             away(id) == \A a \in Range(q.arches) : ~IsAvailableForArch(EffectiveRpmRepos(k)[id], a)
  <2>1. /\ CatalogTypeOK(k) /\ ReposAreValid(k) /\ q.use \in UseCases /\ q.arches \in Seq(Text)
        /\ {q.noDebug, q.noSource} \subseteq BOOLEAN /\ Refused = QueryVersion(k, q)
    BY <1>2, VersionReply
  <2>2. \/ ids = {} \/ (\E id \in ids : EffectiveRpmRepos(k)[id].uri = <<>>)
        \/ \A id \in ids : ~Wanted(q, KindOf(k, id)) \/ away(id)
    <3> HIDE DEF k, q
    <3> QED BY <2>1, RefusedQuery
  <2>3. ASSUME NEW ofKind, ~Wanted(q, ofKind)
        PROVE  ofKind \in (IF q.noDebug THEN {"debug"} ELSE {}) \cup (IF q.noSource THEN {"source"} ELSE {})
    BY <2>3 DEF Wanted
  <2> HIDE DEF k, q, ids, away
  <2>4. \A id : EffectiveUri(id) = EffectiveRpmRepos(k)[id].uri BY DEF EffectiveUri, k
  <2> QED BY <2>2, <2>3, <2>4 DEF k, q, ids, away
<1>3. CatalogInv => ValidMeansRunnable BY <1>1, <1>2 DEF ValidMeansRunnable
<1> QED BY <1>3, CatalogIsChecked, PTL

-----------------------------------------------------------------------------
(* What a comparison loads, and what it reports.                           *)

\* One repository of an expanded template.
AtArch(row, a) == [name |-> row.name, kind |-> Default(row.kind), arch |-> a, url |-> <<row.subpath.at, a>>]
ArchesOf(row, arches) == IF row.subpath.perArch THEN Range(arches) ELSE {""}
Expanded == [name : Seq(Text), kind : Text \cup {"binary"}, arch : Text, url : Text \X Text]

LEMMA AtArchIs ==
  ASSUME NEW row \in TemplateRows, NEW a \in Text
  PROVE  LET r == AtArch(row, a)
         IN /\ r \in Expanded /\ r.name = row.name /\ r.kind = Default(row.kind) /\ r.arch = a
            /\ r.url = <<row.subpath.at, a>>
<1> DEFINE r == AtArch(row, a)  n == row.name  d == Default(row.kind)  u == <<row.subpath.at, a>>
<1>1. n \in Seq(Text) /\ d \in Text \cup {"binary"} /\ u \in Text \X Text BY DEF TemplateRows, Default
<1>2. r = [name |-> n, kind |-> d, arch |-> a, url |-> u] BY DEF AtArch
<1> HIDE DEF r, n, d, u
<1>3. r.name = n /\ r.kind = d /\ r.arch = a /\ r.url = u BY ONLY <1>2
<1>4. r \in Expanded BY <1>1, <1>2 DEF Expanded
<1> QED BY <1>3, <1>4 DEF r, n, d, u

LEMMA ExpandTemplateIs ==
  ASSUME NEW rows \in Seq(TemplateRows), NEW arches \in Seq(Text)
  PROVE  /\ ExpandTemplate(rows, arches) \in Seq(Expanded)
         /\ Range(ExpandTemplate(rows, arches)) = UNION {{AtArch(row, a) : a \in ArchesOf(row, arches)} : row \in Range(rows)}
<1> DEFINE f(i) == IF rows[i].subpath.perArch THEN [j \in DOMAIN arches |-> AtArch(rows[i], arches[j])] ELSE <<AtArch(rows[i], "")>>
           n == Len(rows)  ss == [i \in DOMAIN rows |-> f(i)]  m == Len(arches)
           G(row) == {AtArch(row, a) : a \in ArchesOf(row, arches)}
<1>1. ExpandTemplate(rows, arches) = FlattenSeq(ss) BY DEF ExpandTemplate, AtArch
<1>2. /\ DOMAIN rows = 1..n /\ n \in Nat /\ Range(rows) = {rows[i] : i \in 1..n}
      /\ DOMAIN arches = 1..m /\ m \in Nat /\ Range(arches) = {arches[j] : j \in 1..m}
  BY RangeIs
<1>3. ASSUME NEW i \in 1..n PROVE f(i) \in Seq(Expanded) /\ Range(f(i)) = G(rows[i])
  <2> DEFINE row == rows[i]
  <2>1. row \in TemplateRows BY <1>2
  <2>2. CASE row.subpath.perArch
    <3> DEFINE g(j) == AtArch(row, arches[j])
    <3>1. f(i) = [j \in 1..m |-> g(j)] BY <1>2, <2>2
    <3>2. \A j \in 1..m : arches[j] \in Text
      <4> HIDE DEF Text
      <4> QED BY <1>2
    <3>3. \A j \in 1..m : g(j) \in Expanded BY <2>1, <3>2, AtArchIs
    <3>4. G(row) = {g(j) : j \in 1..m} BY <1>2, <2>2 DEF ArchesOf
    <3> HIDE DEF f, g
    <3>5. f(i) \in Seq(Expanded) /\ Range(f(i)) = {g(j) : j \in 1..m} BY <1>2, <3>1, <3>3 DEF Range
    <3> QED BY <3>4, <3>5
  <2>3. CASE ~row.subpath.perArch
    <3> DEFINE x == AtArch(row, "")
    <3>1. f(i) = <<x>> /\ G(row) = {x} BY <2>3 DEF ArchesOf
    <3>2. "" \in Text BY DEF Text
    <3>3. x \in Expanded BY <2>1, <3>2, AtArchIs
    <3> HIDE DEF x
    <3>4. <<x>> \in Seq(Expanded) /\ Range(<<x>>) = {x} BY <3>3 DEF Range
    <3> QED BY <3>1, <3>4
  <2> QED BY <2>2, <2>3
<1> HIDE DEF f, G
<1>4. ss \in Seq(Seq(Expanded)) /\ Len(ss) = n /\ \A i \in 1..n : ss[i] = f(i)
  <2> DEFINE U == Seq(Expanded)
  <2>1. ss = [i \in 1..n |-> f(i)] /\ \A i \in 1..n : f(i) \in U BY <1>2, <1>3
  <2> HIDE DEF ss, n, U
  <2>2. ss \in Seq(U) /\ Len(ss) = n /\ \A i \in 1..n : ss[i] = f(i) BY <1>2, <2>1
  <2> QED BY <2>2 DEF U
<1> HIDE DEF ss, n
<1>5. FlattenSeq(ss) \in Seq(Expanded) BY <1>4, FlattenType
<1>6. Range(FlattenSeq(ss)) = UNION {Range(ss[i]) : i \in 1..Len(ss)} BY <1>4, FlattenRange
<1>7. UNION {Range(ss[i]) : i \in 1..Len(ss)} = UNION {G(row) : row \in Range(rows)} BY <1>2, <1>3, <1>4
<1> QED BY <1>1, <1>5, <1>6, <1>7 DEF G

\* What a side of a comparison has, when no two of its rows lead to one
\* place.
SideArches(k, s, row, arches) ==
  IF row.subpath.perArch THEN {x \in Range(arches) : k.sets[s].arches = {} \/ x \in k.sets[s].arches} ELSE {""}
SideRepos(k, s, arches) == UNION {{AtArch(row, a) : a \in SideArches(k, s, row, arches)} : row \in RowsOfSet(k, s)}

LEMMA InSide ==
  ASSUME NEW k, NEW s, NEW arches
  PROVE  /\ \A r \in SideRepos(k, s, arches) :
              \E row \in RowsOfSet(k, s) : \E a \in SideArches(k, s, row, arches) : r = AtArch(row, a)
         /\ \A row \in RowsOfSet(k, s) : \A a \in SideArches(k, s, row, arches) : AtArch(row, a) \in SideRepos(k, s, arches)
<1> DEFINE A(row) == SideArches(k, s, row, arches)  Rows == RowsOfSet(k, s)  F(row) == {AtArch(row, a) : a \in A(row)}
<1>1. SideRepos(k, s, arches) = UNION {F(row) : row \in Rows} BY DEF SideRepos
<1>2. \A row : \A r \in F(row) : \E a \in A(row) : r = AtArch(row, a) OBVIOUS
<1>3. \A row : \A a \in A(row) : AtArch(row, a) \in F(row) OBVIOUS
<1> HIDE DEF F, A, Rows
<1>4. \A r \in SideRepos(k, s, arches) : \E row \in Rows : r \in F(row) BY <1>1
<1>5. \A row \in Rows : \A r \in F(row) : r \in SideRepos(k, s, arches) BY <1>1
<1> QED BY <1>2, <1>3, <1>4, <1>5 DEF A, Rows

LEMMA SideIs ==
  ASSUME NEW k, CatalogTypeOK(k), NEW s, NEW arches \in Seq(Text), "" \notin Range(arches),
         SideOf(k, s, arches) # Refused, RowsApart(k, s)
  PROVE  /\ SideOf(k, s, arches) \in Seq(Expanded) /\ Range(SideOf(k, s, arches)) = SideRepos(k, s, arches)
         /\ \A row \in RowsOfSet(k, s) : row \in TemplateRows /\ SideArches(k, s, row, arches) \subseteq Text
         /\ s \in DOMAIN k.sets
<1>0. /\ \A r \in SideRepos(k, s, arches) :
              \E row \in RowsOfSet(k, s) : \E a \in SideArches(k, s, row, arches) : r = AtArch(row, a)
      /\ \A row \in RowsOfSet(k, s) : \A a \in SideArches(k, s, row, arches) : AtArch(row, a) \in SideRepos(k, s, arches)
  BY InSide
<1> DEFINE set == k.sets[s]  rows == k.templates[set.template]  all == ExpandTemplate(rows, arches)
           fits(r) == Allowed(set, r) /\ (r.arch = "" \/ IsAvailableForArch(set, r.arch))
           S == {i \in DOMAIN all : fits(all[i])}
           R == {r \in Range(all) : fits(r)}
<1>1. /\ s \in DOMAIN k.sets /\ set.template \in DOMAIN k.templates
      /\ SideOf(k, s, arches) = Dedup(Pick(all, S))
  BY DEF SideOf, Has
<1>2. rows \in Seq(TemplateRows) BY <1>1 DEF CatalogTypeOK
<1>3. \A row \in Range(rows) : row \in TemplateRows
  <2> HIDE DEF rows
  <2> QED BY <1>2, RangeIs
<1>4. Range(arches) \subseteq Text /\ "" \in Text BY RangeIs DEF Text
<1>5. \A row : SideArches(k, s, row, arches) \subseteq Text BY <1>4 DEF SideArches
<1>6. all \in Seq(Expanded) /\ Range(all) = UNION {{AtArch(row, a) : a \in ArchesOf(row, arches)} : row \in Range(rows)}
  BY <1>2, ExpandTemplateIs
<1>7. \A i \in DOMAIN all : i \in S <=> fits(all[i]) OBVIOUS
<1>8. \A row \in Range(rows) : ArchesOf(row, arches) \subseteq Text BY <1>4 DEF ArchesOf
<1>9. RowsOfSet(k, s) = {row \in Range(rows) : Allowed(set, row)} BY DEF RowsOfSet
<1>10. \A row, t \in RowsOfSet(k, s) : row.subpath.at = t.subpath.at => row = t BY DEF RowsApart
<1>11. R = SideRepos(k, s, arches)
  <2>1. ASSUME NEW row \in Range(rows), NEW a \in ArchesOf(row, arches)
        PROVE  fits(AtArch(row, a)) <=> Allowed(set, row) /\ a \in SideArches(k, s, row, arches)
    <3> DEFINE r == AtArch(row, a)
    <3>1. r.name = row.name /\ r.arch = a BY <1>3, <1>8, AtArchIs
    <3>2. Allowed(set, r) <=> Allowed(set, row) BY <3>1 DEF Allowed
    <3>3. (r.arch = "" \/ IsAvailableForArch(set, r.arch)) <=> a \in SideArches(k, s, row, arches)
      BY <3>1 DEF SideArches, ArchesOf, IsAvailableForArch
    <3> QED BY <3>2, <3>3
  <2>2. \A row : SideArches(k, s, row, arches) \subseteq ArchesOf(row, arches) BY DEF SideArches, ArchesOf
  <2> HIDE DEF fits, all, rows, set
  <2>3. ASSUME NEW r \in R PROVE r \in SideRepos(k, s, arches)
    <3>1. PICK row \in Range(rows) : \E a \in ArchesOf(row, arches) : r = AtArch(row, a) BY <1>6
    <3>2. PICK a \in ArchesOf(row, arches) : r = AtArch(row, a) BY <3>1
    <3>3. row \in RowsOfSet(k, s) /\ a \in SideArches(k, s, row, arches) BY <1>9, <2>1, <3>2
    <3> QED BY <3>2, <3>3, InSide
  <2>4. ASSUME NEW r \in SideRepos(k, s, arches) PROVE r \in R
    <3>1. PICK row \in RowsOfSet(k, s) : \E a \in SideArches(k, s, row, arches) : r = AtArch(row, a) BY <1>0
    <3>2. PICK a \in SideArches(k, s, row, arches) : r = AtArch(row, a) BY <3>1
    <3>3. row \in Range(rows) /\ Allowed(set, row) /\ a \in ArchesOf(row, arches) BY <1>9, <2>2, <3>2
    <3>4. fits(r) BY <2>1, <3>2, <3>3
    <3> DEFINE F(row2) == {AtArch(row2, b) : b \in ArchesOf(row2, arches)}
    <3>5. r \in F(row) /\ Range(all) = UNION {F(row2) : row2 \in Range(rows)} BY <1>6, <3>2, <3>3
    <3> HIDE DEF F
    <3>6. r \in Range(all) BY <3>3, <3>5
    <3> QED BY <3>4, <3>6
  <2> QED BY <2>3, <2>4
<1>12. ASSUME NEW r \in SideRepos(k, s, arches), NEW d \in SideRepos(k, s, arches), r.url = d.url PROVE r = d
  <2>1. PICK row \in RowsOfSet(k, s) : \E a \in SideArches(k, s, row, arches) : r = AtArch(row, a) BY <1>0
  <2>2. PICK a \in SideArches(k, s, row, arches) : r = AtArch(row, a) BY <2>1
  <2>3. PICK t \in RowsOfSet(k, s) : \E b \in SideArches(k, s, t, arches) : d = AtArch(t, b) BY <1>0
  <2>4. PICK b \in SideArches(k, s, t, arches) : d = AtArch(t, b) BY <2>3
  <2>5. row \in TemplateRows /\ t \in TemplateRows /\ a \in Text /\ b \in Text BY <1>3, <1>5, <1>9
  <2>6. r.url = <<row.subpath.at, a>> /\ d.url = <<t.subpath.at, b>> BY <2>2, <2>4, <2>5, AtArchIs
  <2>7. row.subpath.at = t.subpath.at /\ a = b
    <3> DEFINE x == row.subpath.at  y == t.subpath.at  ru == r.url  du == d.url
    <3>1. ru = <<x, a>> /\ du = <<y, b>> /\ ru = du BY <1>12, <2>6
    <3> HIDE DEF x, y, ru, du
    <3>2. x = y /\ a = b BY ONLY <3>1
    <3> QED BY <3>2 DEF x, y
  <2>8. row = t BY <1>10, <2>7
  <2> QED BY <2>2, <2>4, <2>7, <2>8
<1> DEFINE picked == Pick(all, S)
<1> HIDE DEF S, all, rows, fits
<1>13. picked \in Seq(Expanded) BY <1>6, PickType
<1>14. Range(picked) = R
  <2>1. Range(picked) = {all[i] : i \in {i \in 1..Len(all) : i \in S}} BY <1>6, PickRange
  <2>2. DOMAIN all = 1..Len(all) /\ Range(all) = {all[i] : i \in 1..Len(all)} BY <1>6, RangeIs
  <2> QED BY <1>7, <2>1, <2>2
<1> DEFINE side == Dedup(picked)
<1> HIDE DEF picked
<1>15. /\ side \in Seq(Expanded) /\ Range(side) \subseteq R
       /\ \A r \in R : \E d \in Range(side) : d.url = r.url
  BY <1>13, <1>14, DedupIs
<1> HIDE DEF side, R
<1>16. Range(side) = R
  <2>1. ASSUME NEW r \in R PROVE r \in Range(side)
    <3>1. PICK d \in Range(side) : d.url = r.url BY <1>15
    <3>2. d = r BY <1>11, <1>12, <1>15, <3>1
    <3> QED BY <3>1, <3>2
  <2> QED BY <1>15, <2>1
<1>17. \A row \in RowsOfSet(k, s) : row \in TemplateRows BY <1>3, <1>9
<1> QED BY <1>1, <1>5, <1>11, <1>15, <1>16, <1>17 DEF side, picked

\* The kinds a side has, and the repositories of the kinds both have.
LEMMA KindsAre ==
  ASSUME NEW k, CatalogTypeOK(k), NEW s, NEW arches \in Seq(Text), "" \notin Range(arches),
         SideOf(k, s, arches) # Refused, RowsApart(k, s)
  PROVE  KindsOf(k, s, arches) = {r.kind : r \in Range(SideOf(k, s, arches))}
<1> DEFINE A(row) == SideArches(k, s, row, arches)  Rows == RowsOfSet(k, s)
<1>1. Range(SideOf(k, s, arches)) = SideRepos(k, s, arches) /\ \A row \in Rows : row \in TemplateRows /\ A(row) \subseteq Text
  BY SideIs
<1>2. \A row : PlacesOf(k, s, row, arches) # {} <=> A(row) # {} BY DEF PlacesOf, SideArches
<1>3. \A row \in Rows : \A a \in A(row) : AtArch(row, a).kind = Default(row.kind) BY <1>1, AtArchIs
<1>4. /\ \A r \in SideRepos(k, s, arches) : \E row \in Rows : \E a \in A(row) : r = AtArch(row, a)
      /\ \A row \in Rows : \A a \in A(row) : AtArch(row, a) \in SideRepos(k, s, arches)
  BY InSide
<1>5. KindsOf(k, s, arches) = {Default(row.kind) : row \in {r \in Rows : A(r) # {}}} BY <1>2 DEF KindsOf
<1> HIDE DEF A, Rows
<1>6. ASSUME NEW ofKind \in KindsOf(k, s, arches) PROVE ofKind \in {r.kind : r \in SideRepos(k, s, arches)}
  <2>1. PICK row \in Rows : A(row) # {} /\ ofKind = Default(row.kind) BY <1>5
  <2>2. PICK a \in A(row) : TRUE BY <2>1
  <2>3. AtArch(row, a) \in SideRepos(k, s, arches) /\ AtArch(row, a).kind = ofKind BY <1>3, <1>4, <2>1
  <2> QED BY <2>3
<1>7. ASSUME NEW r \in SideRepos(k, s, arches) PROVE r.kind \in KindsOf(k, s, arches)
  <2>1. PICK row \in Rows : \E a \in A(row) : r = AtArch(row, a) BY <1>4
  <2>2. PICK a \in A(row) : r = AtArch(row, a) BY <2>1
  <2>3. r.kind = Default(row.kind) BY <1>3, <2>2
  <2> QED BY <1>5, <2>2, <2>3
<1> QED BY <1>1, <1>6, <1>7

LEMMA SharedIs ==
  ASSUME NEW one \in Seq(Expanded), NEW other \in Seq(Expanded)
  PROVE  /\ Shared(one, other) \in Seq(Expanded)
         /\ Range(Shared(one, other)) = {r \in Range(one) : r.kind \in {o.kind : o \in Range(other)}}
<1> DEFINE S == {i \in DOMAIN one : \E j \in DOMAIN other : other[j].kind = one[i].kind}
           kinds == {o.kind : o \in Range(other)}
<1>1. /\ DOMAIN one = 1..Len(one) /\ Range(one) = {one[i] : i \in 1..Len(one)}
      /\ DOMAIN other = 1..Len(other) /\ Range(other) = {other[i] : i \in 1..Len(other)}
  BY RangeIs
<1>2. Shared(one, other) = Pick(one, S) BY DEF Shared
<1>3. \A i \in 1..Len(one) : i \in S <=> one[i].kind \in kinds BY <1>1
<1> HIDE DEF S, kinds
<1>4. Pick(one, S) \in Seq(Expanded) BY PickType
<1>5. Range(Pick(one, S)) = {one[i] : i \in {i \in 1..Len(one) : i \in S}} BY PickRange
<1>6. Range(Pick(one, S)) = {r \in Range(one) : r.kind \in kinds} BY <1>1, <1>3, <1>5
<1> QED BY <1>2, <1>4, <1>6 DEF kinds

LEMMA LoadedIs ==
  ASSUME NEW k, NEW s, NEW repos \in Seq(Expanded), LoadRepositories(k, s, repos) # Refused
  PROVE  /\ \A r \in Range(repos) : <<k.sets[s].uri, r.url>> \in DOMAIN k.metadata
         /\ \A x \in LoadRepositories(k, s, repos) :
              \E r \in Range(repos) : \E p \in k.metadata[<<k.sets[s].uri, r.url>>] : x = Identity(p, r.kind)
         /\ \A r \in Range(repos) : \A p \in k.metadata[<<k.sets[s].uri, r.url>>] :
              Identity(p, r.kind) \in LoadRepositories(k, s, repos)
<1> DEFINE got(i) == Fetch(k, MetadataUrl(k, s, repos[i]))
           F(i) == {Identity(p, repos[i].kind) : p \in got(i)}
           place(r) == <<k.sets[s].uri, r.url>>
<1>1. /\ \A i \in DOMAIN repos : got(i) # Refused
      /\ LoadRepositories(k, s, repos) = UNION {F(i) : i \in DOMAIN repos}
  BY DEF LoadRepositories
<1>2. \A i \in DOMAIN repos : place(repos[i]) \in DOMAIN k.metadata /\ got(i) = k.metadata[place(repos[i])]
  BY <1>1 DEF Fetch, MetadataUrl, Has
<1>3. \A i : \A x : x \in F(i) <=> \E p \in got(i) : x = Identity(p, repos[i].kind) OBVIOUS
<1>4. \A r \in Range(repos) : \E i \in DOMAIN repos : r = repos[i] BY DEF Range
<1>5. \A i \in DOMAIN repos : repos[i] \in Range(repos) BY DEF Range
<1> HIDE DEF F
<1>6. ASSUME NEW x \in LoadRepositories(k, s, repos)
      PROVE  \E r \in Range(repos) : \E p \in k.metadata[place(r)] : x = Identity(p, r.kind)
  <2>1. PICK i \in DOMAIN repos : x \in F(i) BY <1>1
  <2>2. PICK p \in got(i) : x = Identity(p, repos[i].kind) BY <1>3, <2>1
  <2> HIDE DEF got, place
  <2> QED BY <1>2, <1>5, <2>2
<1>7. ASSUME NEW r \in Range(repos), NEW p \in k.metadata[place(r)] PROVE Identity(p, r.kind) \in LoadRepositories(k, s, repos)
  <2>1. PICK i \in DOMAIN repos : r = repos[i] BY <1>4
  <2> HIDE DEF got, place
  <2>2. Identity(p, r.kind) \in F(i) BY <1>2, <1>3, <2>1
  <2> QED BY <1>1, <2>2
<1>8. \A r \in Range(repos) : place(r) \in DOMAIN k.metadata BY <1>2, <1>4
<1> QED BY <1>6, <1>7, <1>8

\* What a comparison sees of a published package.
Seen(d) == [name |-> d.name, evr |-> <<d.pkg.epoch[1], d.pkg.version, d.pkg.release>>, arch |-> d.pkg.arch, kind |-> d.kind]

LEMMA NotEmpty == ASSUME NEW T, NEW e \in Seq(T), e # <<>> PROVE Len(e) \in Nat /\ Len(e) >= 1 /\ e[1] \in Range(e)
<1>1. Len(e) # 0
  <2>1. e = [i \in 1..Len(e) |-> e[i]] OBVIOUS
  <2>2. Len(e) = 0 => e = <<>> BY <2>1
  <2> QED BY <2>2
<1>2. Len(e) \in Nat OBVIOUS
<1>3. Len(e) >= 1 BY ONLY <1>1, <1>2
<1>4. Range(e) = {e[i] : i \in 1..Len(e)} BY RangeIs
<1>5. 1 \in 1..Len(e) BY ONLY <1>2, <1>3
<1>6. e[1] \in Range(e) BY ONLY <1>4, <1>5
<1> QED BY <1>2, <1>3, <1>6

LEMMA OneElement == ASSUME NEW T, NEW e \in Seq(T), e # <<>>, Len(e) <= 1 PROVE e = <<e[1]>>
<1>1. Len(e) \in Nat /\ Len(e) >= 1 BY NotEmpty
<1>2. Len(e) <= 1 OBVIOUS
<1>3. Len(e) = 1
  <2> DEFINE n == Len(e)
  <2>1. n \in Nat /\ n >= 1 /\ n <= 1 BY <1>1, <1>2
  <2> HIDE DEF n
  <2>2. n = 1 BY ONLY <2>1
  <2> QED BY <2>2 DEF n
<1>4. e \in Seq(T) OBVIOUS
<1> QED BY ONLY <1>3, <1>4

LEMMA PublishedFields ==
  ASSUME NEW p \in Packages, NEW ofKind
  PROVE  LET d == AsPublished(p, ofKind)
         IN /\ d = [name |-> d.name, pkg |-> d.pkg, kind |-> d.kind] /\ d.name = p.name /\ d.kind = ofKind
            /\ d.pkg = [name |-> p.name, epoch |-> <<NormalizedEpoch(p.epoch)>>, version |-> p.version,
                        release |-> p.release, arch |-> p.arch]
            /\ d.pkg.epoch[1] = NormalizedEpoch(p.epoch) /\ d.pkg.version = p.version /\ d.pkg.release = p.release
            /\ d.pkg.arch = p.arch
<1> DEFINE d == AsPublished(p, ofKind)  n == p.name  e == p.epoch  v == p.version  r == p.release  a == p.arch
           g == [p EXCEPT !.epoch = IF @ = <<>> THEN <<0>> ELSE @]
           m == NormalizedEpoch(e)
<1>1. d = [name |-> n, pkg |-> g, kind |-> ofKind] BY DEF AsPublished
<1>2. p = [name |-> n, epoch |-> e, version |-> v, release |-> r, arch |-> a] /\ e \in Seq(Nat) /\ Len(e) <= 1 BY DEF Packages
<1>3. (IF e = <<>> THEN <<0>> ELSE e) = <<m>>
  <2> HIDE DEF e
  <2>1. CASE e = <<>> BY <2>1 DEF NormalizedEpoch
  <2>2. CASE e # <<>>
    <3>1. e = <<e[1]>> BY <1>2, <2>2, OneElement
    <3> QED BY <2>2, <3>1 DEF NormalizedEpoch
  <2> QED BY <2>1, <2>2
<1>4. g = [p EXCEPT !.epoch = <<m>>] BY <1>3
<1> HIDE DEF g, d, n, e, v, r, a, m
<1>5. g = [name |-> n, epoch |-> <<m>>, version |-> v, release |-> r, arch |-> a] BY <1>2, <1>4
<1>6. d.name = n /\ d.pkg = g /\ d.kind = ofKind BY ONLY <1>1
<1>7. g.epoch = <<m>> /\ g.version = v /\ g.release = r /\ g.arch = a BY ONLY <1>5
<1>8. g.epoch[1] = m BY ONLY <1>7
<1> QED BY <1>1, <1>5, <1>6, <1>7, <1>8 DEF d, n, e, v, r, a, m

LEMMA SeenIs ==
  ASSUME NEW p \in Packages, NEW ofKind
  PROVE  Seen(AsPublished(p, ofKind)) = Identity(p, ofKind)
<1> DEFINE d == AsPublished(p, ofKind)  n == p.name  m == NormalizedEpoch(p.epoch)  v == p.version  r == p.release  a == p.arch
<1>1. /\ d = [name |-> d.name, pkg |-> d.pkg, kind |-> d.kind] /\ d.name = n /\ d.kind = ofKind
      /\ d.pkg = [name |-> n, epoch |-> <<m>>, version |-> v, release |-> r, arch |-> a]
      /\ d.pkg.epoch[1] = m /\ d.pkg.version = v /\ d.pkg.release = r /\ d.pkg.arch = a
  BY PublishedFields DEF n, m, v, r, a
<1>2. Identity(p, ofKind) = [name |-> n, evr |-> <<m, v, r>>, arch |-> a, kind |-> ofKind] BY DEF Identity
<1>3. Seen(d) = [name |-> d.name, evr |-> <<d.pkg.epoch[1], d.pkg.version, d.pkg.release>>, arch |-> d.pkg.arch, kind |-> d.kind]
  BY DEF Seen
<1> HIDE DEF d, n, m, v, r, a
<1> QED BY <1>1, <1>2, <1>3 DEF d

LEMMA IdentityFields ==
  ASSUME NEW p, NEW ofKind
  PROVE  LET i == Identity(p, ofKind)
         IN /\ i.name = p.name /\ i.evr = <<NormalizedEpoch(p.epoch), p.version, p.release>>
            /\ i.arch = p.arch /\ i.kind = ofKind
<1> DEFINE i == Identity(p, ofKind)  n == p.name  e == <<NormalizedEpoch(p.epoch), p.version, p.release>>  a == p.arch
<1>1. i = [name |-> n, evr |-> e, arch |-> a, kind |-> ofKind] BY DEF Identity
<1> HIDE DEF i, n, e, a
<1>2. i.name = n /\ i.evr = e /\ i.arch = a /\ i.kind = ofKind BY ONLY <1>1
<1> QED BY <1>2 DEF i, n, e, a

LEMMA SeenApart ==
  ASSUME NEW p \in Packages, NEW q \in Packages, NEW ofKind, NEW other, Identity(p, ofKind) = Identity(q, other)
  PROVE  AsPublished(p, ofKind) = AsPublished(q, other)
<1> DEFINE pe == NormalizedEpoch(p.epoch)  pv == p.version  pr == p.release
           qe == NormalizedEpoch(q.epoch)  qv == q.version  qr == q.release
<1>1. p.name = q.name /\ p.arch = q.arch /\ ofKind = other /\ <<pe, pv, pr>> = <<qe, qv, qr>> BY IdentityFields
<1> HIDE DEF pe, pv, pr, qe, qv, qr
<1>2. pe = qe /\ pv = qv /\ pr = qr BY <1>1
<1> DEFINE d == AsPublished(p, ofKind)  c == AsPublished(q, other)
<1>3. /\ d = [name |-> d.name, pkg |-> d.pkg, kind |-> d.kind] /\ d.name = p.name /\ d.kind = ofKind
      /\ d.pkg = [name |-> p.name, epoch |-> <<pe>>, version |-> pv, release |-> pr, arch |-> p.arch]
  BY PublishedFields DEF pe, pv, pr
<1>4. /\ c = [name |-> c.name, pkg |-> c.pkg, kind |-> c.kind] /\ c.name = q.name /\ c.kind = other
      /\ c.pkg = [name |-> q.name, epoch |-> <<qe>>, version |-> qv, release |-> qr, arch |-> q.arch]
  BY PublishedFields DEF qe, qv, qr
<1> HIDE DEF d, c
<1>5. d.pkg = c.pkg /\ d.name = c.name /\ d.kind = c.kind BY <1>1, <1>2, <1>3, <1>4
<1> QED BY <1>3, <1>4, <1>5 DEF d, c

\* What a side publishes in the kinds both have is what is loaded for it.
BothKinds(k, s, t, arches) == KindsOf(k, s, arches) \cap KindsOf(k, t, arches)
Offered(k, s, t, arches) == PublishedBy(k, s, BothKinds(k, s, t, arches), arches)
Loaded(k, s, t, arches) == LoadRepositories(k, s, Shared(SideOf(k, s, arches), SideOf(k, t, arches)))
PublishedIn(ds, kinds) == \A d \in ds : \E p \in Packages, ofKind \in kinds : d = AsPublished(p, ofKind)
Shows(ds, loaded) == (\A d \in ds : Seen(d) \in loaded) /\ \A x \in loaded : \E d \in ds : x = Seen(d)

LEMMA PublishedIs ==
  ASSUME NEW k, CatalogTypeOK(k), NEW s, NEW t, NEW arches \in Seq(Text), "" \notin Range(arches),
         SideOf(k, s, arches) # Refused, RowsApart(k, s), SideOf(k, t, arches) # Refused, RowsApart(k, t),
         Loaded(k, s, t, arches) # Refused
  PROVE  /\ PublishedIn(Offered(k, s, t, arches), BothKinds(k, s, t, arches))
         /\ Shows(Offered(k, s, t, arches), Loaded(k, s, t, arches))
<1> DEFINE side == SideOf(k, s, arches)  other == SideOf(k, t, arches)  repos == Shared(side, other)
           kinds == KindsOf(k, s, arches) \cap KindsOf(k, t, arches)
           loaded == LoadRepositories(k, s, repos)
           A(row) == SideArches(k, s, row, arches)  Rows == RowsOfSet(k, s)
           uri == k.sets[s].uri
           place(r) == <<uri, r.url>>
           P(row, pl) == {AsPublished(p, Default(row.kind)) : p \in k.metadata[pl]}
           Q(row) == UNION {P(row, pl) : pl \in PlacesOf(k, s, row, arches)}
           published == PublishedBy(k, s, kinds, arches)
<1>1. /\ side \in Seq(Expanded) /\ Range(side) = SideRepos(k, s, arches)
      /\ \A row \in Rows : row \in TemplateRows /\ A(row) \subseteq Text
  BY SideIs
<1>2. other \in Seq(Expanded) BY SideIs
<1>3. KindsOf(k, s, arches) = {r.kind : r \in Range(side)} /\ KindsOf(k, t, arches) = {r.kind : r \in Range(other)}
  BY KindsAre
<1>4. repos \in Seq(Expanded) /\ Range(repos) = {r \in Range(side) : r.kind \in {o.kind : o \in Range(other)}}
  BY <1>1, <1>2, SharedIs
<1>5. /\ \A r \in Range(repos) : place(r) \in DOMAIN k.metadata
      /\ \A x \in loaded : \E r \in Range(repos) : \E p \in k.metadata[place(r)] : x = Identity(p, r.kind)
      /\ \A r \in Range(repos) : \A p \in k.metadata[place(r)] : Identity(p, r.kind) \in loaded
  BY <1>4, LoadedIs DEF Loaded
<1>6. /\ \A r \in SideRepos(k, s, arches) : \E row \in Rows : \E a \in A(row) : r = AtArch(row, a)
      /\ \A row \in Rows : \A a \in A(row) : AtArch(row, a) \in SideRepos(k, s, arches)
  BY InSide
<1>7. \A row \in Rows : \A a \in A(row) : /\ AtArch(row, a).kind = Default(row.kind)
                                          /\ AtArch(row, a).url = <<row.subpath.at, a>>
  BY <1>1, AtArchIs
<1>8. \A pl \in DOMAIN k.metadata : k.metadata[pl] \subseteq Packages BY DEF CatalogTypeOK
<1>9. \A row : \A pl : pl \in PlacesOf(k, s, row, arches) <=> \E a \in A(row) : pl = <<uri, <<row.subpath.at, a>>>>
  BY DEF PlacesOf, SideArches
<1>10. published = UNION {Q(row) : row \in {r \in Rows : Default(r.kind) \in kinds}} BY DEF PublishedBy
<1>11. \A row, pl : \A d : d \in P(row, pl) <=> \E p \in k.metadata[pl] : d = AsPublished(p, Default(row.kind)) OBVIOUS
<1> HIDE DEF P
<1>12. \A row : \A d : d \in Q(row) <=> \E pl \in PlacesOf(k, s, row, arches) : d \in P(row, pl) OBVIOUS
<1> HIDE DEF Q, published
<1>13. \A d : d \in published <=> \E row \in Rows : Default(row.kind) \in kinds /\ d \in Q(row) BY <1>10
<1>14. \A r \in Range(repos) : r.kind \in kinds BY <1>3, <1>4
<1>15. \A r \in Range(side) : r.kind \in kinds => r \in Range(repos) BY <1>3, <1>4
<1> HIDE DEF side, other, repos, kinds, loaded, A, Rows
<1>16. ASSUME NEW d \in published
       PROVE  (\E p \in Packages, ofKind \in kinds : d = AsPublished(p, ofKind)) /\ Seen(d) \in loaded
  <2>1. PICK row \in Rows : Default(row.kind) \in kinds /\ d \in Q(row) BY <1>13
  <2>2. PICK pl \in PlacesOf(k, s, row, arches) : d \in P(row, pl) BY <1>12, <2>1
  <2>3. PICK p \in k.metadata[pl] : d = AsPublished(p, Default(row.kind)) BY <1>11, <2>2
  <2>4. PICK a \in A(row) : pl = <<uri, <<row.subpath.at, a>>>> BY <1>9, <2>2
  <2> DEFINE r == AtArch(row, a)
  <2>5. r.kind = Default(row.kind) /\ r.url = <<row.subpath.at, a>> /\ r \in Range(side) BY <1>1, <1>6, <1>7
  <2> HIDE DEF r
  <2>6. r \in Range(repos) /\ pl = place(r) BY <1>15, <2>1, <2>4, <2>5
  <2>7. p \in Packages BY <1>5, <1>8, <2>6
  <2>8. Identity(p, r.kind) \in loaded BY <1>5, <2>6
  <2>9. Seen(d) = Identity(p, r.kind) BY <2>3, <2>5, <2>7, SeenIs
  <2> QED BY <2>1, <2>3, <2>7, <2>8, <2>9
<1>17. ASSUME NEW x \in loaded PROVE \E d \in published : x = Seen(d)
  <2>1. PICK r \in Range(repos) : \E p \in k.metadata[place(r)] : x = Identity(p, r.kind) BY <1>5
  <2>2. PICK p \in k.metadata[place(r)] : x = Identity(p, r.kind) BY <2>1
  <2>3. r \in SideRepos(k, s, arches) BY <1>1, <1>4
  <2>4. PICK row \in Rows : \E a \in A(row) : r = AtArch(row, a) BY <1>6, <2>3
  <2>5. PICK a \in A(row) : r = AtArch(row, a) BY <2>4
  <2>6. r.kind = Default(row.kind) /\ r.url = <<row.subpath.at, a>> BY <1>7, <2>5
  <2>7. place(r) \in PlacesOf(k, s, row, arches) BY <1>9, <2>6
  <2>8. p \in Packages BY <1>5, <1>8
  <2> DEFINE d == AsPublished(p, Default(row.kind))
  <2>9. d \in P(row, place(r)) BY <1>11
  <2>10. d \in Q(row) BY <1>12, <2>7, <2>9
  <2>11. d \in published BY <1>13, <1>14, <2>6, <2>10
  <2>12. Seen(d) = x BY <2>2, <2>6, <2>8, SeenIs
  <2> QED BY <2>11, <2>12
<1>18. published = Offered(k, s, t, arches) /\ loaded = Loaded(k, s, t, arches) /\ kinds = BothKinds(k, s, t, arches)
  BY DEF side, other, repos, kinds, loaded, published, Offered, Loaded, BothKinds
<1>19. PublishedIn(published, kinds) /\ Shows(published, loaded) BY <1>16, <1>17 DEF PublishedIn, Shows
<1> QED BY ONLY <1>18, <1>19

\* What is published and what is loaded differ alike.
Versions(ps, n) == {p.evr : p \in OfName(ps, n)}
Of(ps, n) == {p \in ps : p.name = n}
PublishedVersions(ps) == {<<p.pkg.epoch[1], p.pkg.version, p.pkg.release>> : p \in ps}

LEMMA SeenTells ==
  ASSUME NEW here, NEW there, NEW left, NEW right, NEW K,
         PublishedIn(here, K), PublishedIn(there, K), Shows(here, left), Shows(there, right)
  PROVE  /\ {x.name : x \in left \ right} = {d.name : d \in here \ there}
         /\ \A n : Versions(left, n) = PublishedVersions(Of(here, n))
<1>0. /\ \A d \in here \cup there : \E p \in Packages, ofKind \in K : d = AsPublished(p, ofKind)
      /\ \A d \in here : Seen(d) \in left
      /\ \A x \in left : \E d \in here : x = Seen(d)
      /\ \A d \in there : Seen(d) \in right
      /\ \A x \in right : \E d \in there : x = Seen(d)
  BY DEF PublishedIn, Shows
<1> DEFINE V(d) == <<d.pkg.epoch[1], d.pkg.version, d.pkg.release>>
<1>1. \A d : Seen(d).name = d.name /\ Seen(d).evr = V(d)
  <2> SUFFICES ASSUME NEW d PROVE Seen(d).name = d.name /\ Seen(d).evr = V(d) OBVIOUS
  <2> DEFINE s == Seen(d)  n == d.name  v == V(d)  a == d.pkg.arch  ofKind == d.kind
  <2>1. s = [name |-> n, evr |-> v, arch |-> a, kind |-> ofKind] BY DEF Seen
  <2> HIDE DEF s, n, v, a, ofKind
  <2>2. s.name = n /\ s.evr = v BY ONLY <2>1
  <2> QED BY <2>2 DEF s, n, v
<1>2. ASSUME NEW d \in here, NEW c \in there, Seen(d) = Seen(c) PROVE d = c
  <2>1. PICK p \in Packages, ofKind \in K : d = AsPublished(p, ofKind) BY <1>0
  <2>2. PICK q \in Packages, other \in K : c = AsPublished(q, other) BY <1>0
  <2>3. Seen(d) = Identity(p, ofKind) BY <2>1, SeenIs
  <2>4. Seen(c) = Identity(q, other) BY <2>2, SeenIs
  <2>5. Identity(p, ofKind) = Identity(q, other) BY <1>2, <2>3, <2>4
  <2>6. AsPublished(p, ofKind) = AsPublished(q, other) BY <2>5, SeenApart
  <2> QED BY <2>1, <2>2, <2>6
<1> HIDE DEF V
<1>3. {x.name : x \in left \ right} = {d.name : d \in here \ there}
  <2>1. ASSUME NEW x \in left \ right PROVE \E d \in here \ there : x.name = d.name
    <3>1. PICK d \in here : x = Seen(d) BY <1>0
    <3>2. d \notin there BY <1>0, <3>1
    <3> QED BY <1>1, <3>1, <3>2
  <2>2. ASSUME NEW d \in here \ there PROVE \E x \in left \ right : x.name = d.name
    <3>1. Seen(d) \in left BY <1>0
    <3>2. Seen(d) \notin right BY <1>0, <1>2
    <3> QED BY <1>1, <3>1, <3>2
  <2> QED BY <2>1, <2>2
<1>4. ASSUME NEW n PROVE Versions(left, n) = PublishedVersions(Of(here, n))
  <2> DEFINE H == {d \in here : d.name = n}
  <2>0. OfName(left, n) = {x \in left : x.name = n} BY DEF OfName
  <2>1. ASSUME NEW x \in OfName(left, n) PROVE \E d \in H : x.evr = V(d)
    <3>1. PICK d \in here : x = Seen(d) BY <1>0, <2>0
    <3>2. d \in H BY <1>1, <2>0, <3>1
    <3> QED BY <1>1, <3>1, <3>2
  <2>2. ASSUME NEW d \in H PROVE \E x \in OfName(left, n) : x.evr = V(d)
    <3>1. Seen(d) \in OfName(left, n) BY <1>0, <1>1, <2>0
    <3> QED BY <1>1, <3>1
  <2> HIDE DEF H
  <2>3. {x.evr : x \in OfName(left, n)} = {V(d) : d \in H} BY <2>1, <2>2
  <2> QED BY <2>3 DEF H, V, Versions, PublishedVersions, Of
<1> QED BY <1>3, <1>4

\* When packages of one name have a status, and which.
ArchesDiffer(here, there) == \E p \in here : Arches(there, p) \notin {{}, Arches(here, p)}

LEMMA ArchesDifferBothWays ==
  ASSUME NEW here, NEW there, ArchesDiffer(here, there)
  PROVE  ArchesDiffer(there, here) /\ here # there
<1>1. PICK p \in here : Arches(there, p) # {} /\ Arches(there, p) # Arches(here, p) BY DEF ArchesDiffer
<1>2. PICK q \in there : q.evr = p.evr /\ q.kind = p.kind BY <1>1 DEF Arches
<1>3. \A ps : Arches(ps, q) = Arches(ps, p) BY <1>2 DEF Arches
<1>4. p.arch \in Arches(here, p) BY DEF Arches
<1>5. Arches(here, q) # {} /\ Arches(here, q) # Arches(there, q) BY <1>1, <1>3, <1>4
<1> QED BY <1>1, <1>5 DEF ArchesDiffer

LEMMA StatusesAre ==
  ASSUME NEW here, NEW there
  PROVE  /\ "missing-from-right" \in PackageStatuses(here, there) <=> here \ there # {}
         /\ "added-in-right" \in PackageStatuses(here, there) <=> there \ here # {}
         /\ PackageStatuses(here, there) # {} <=> here \ there # {} \/ there \ here # {}
         /\ PackageStatuses(there, here) = {Mirror(t) : t \in PackageStatuses(here, there)}
<1> DEFINE m == "missing-from-right"  a == "added-in-right"  x == "architectures-differ"
           M == here \ there # {}  A == there \ here # {}  X == ArchesDiffer(here, there)
           S == (IF M THEN {m} ELSE {}) \cup (IF A THEN {a} ELSE {}) \cup (IF X THEN {x} ELSE {})
           T == (IF A THEN {m} ELSE {}) \cup (IF M THEN {a} ELSE {}) \cup (IF X THEN {x} ELSE {})
<1>1. ArchesDiffer(there, here) <=> X BY ArchesDifferBothWays
<1>2. X => M \/ A BY ArchesDifferBothWays
<1>3. PackageStatuses(here, there) = S BY DEF PackageStatuses, ArchesDiffer
<1>4. PackageStatuses(there, here) = T BY <1>1 DEF PackageStatuses, ArchesDiffer
<1>5. Mirror(m) = a /\ Mirror(a) = m /\ Mirror(x) = x BY DEF Mirror
<1>6. m # a /\ m # x /\ a # x OBVIOUS
<1> HIDE DEF m, a, x, M, A, X
<1>7. (m \in S <=> M) /\ (a \in S <=> A) /\ (S # {} <=> M \/ A) BY <1>2, <1>6
<1>8. T = {Mirror(t) : t \in S} BY <1>5
<1> QED BY <1>3, <1>4, <1>7, <1>8 DEF m, a, M, A

\* What is reported: the names under which the sides differ, and how.
ReportOf(left, right, n) == [name |-> n, summary |-> PackageStatuses(OfName(left, n), OfName(right, n)),
                             left |-> Versions(left, n), right |-> Versions(right, n)]
Differing(left, right) == {n \in {p.name : p \in left \cup right} : PackageStatuses(OfName(left, n), OfName(right, n)) # {}}

LEMMA ReportsAre ==
  ASSUME NEW left, NEW right, Reports(left, right) # Refused
  PROVE  /\ Reports(left, right) = {ReportOf(left, right, n) : n \in Differing(left, right)}
         /\ Reports(right, left) = {ReportOf(right, left, n) : n \in Differing(left, right)}
<1> DEFINE report(n) == [name |-> n, summary |-> PackageStatuses(OfName(left, n), OfName(right, n)),
                         left |-> NEVRs(OfName(left, n)), right |-> NEVRs(OfName(right, n))]
           troper(n) == [name |-> n, summary |-> PackageStatuses(OfName(right, n), OfName(left, n)),
                         left |-> NEVRs(OfName(right, n)), right |-> NEVRs(OfName(left, n))]
           D == Differing(left, right)
<1>1. Differing(right, left) = D
  <2>1. {p.name : p \in left \cup right} = {p.name : p \in right \cup left} OBVIOUS
  <2>2. \A n : PackageStatuses(OfName(left, n), OfName(right, n)) # {} <=> PackageStatuses(OfName(right, n), OfName(left, n)) # {}
    BY StatusesAre
  <2> QED BY <2>1, <2>2 DEF Differing
<1>2. \A n : report(n).left = NEVRs(OfName(left, n)) /\ report(n).right = NEVRs(OfName(right, n)) OBVIOUS
<1>3. \A n : troper(n).left = NEVRs(OfName(right, n)) /\ troper(n).right = NEVRs(OfName(left, n)) OBVIOUS
<1>4. Reports(left, right) = IF \E n \in D : Refused \in {report(n).left, report(n).right} THEN Refused ELSE {report(n) : n \in D}
  BY DEF Reports, Differing
<1>5. Reports(right, left) = IF \E n \in D : Refused \in {troper(n).left, troper(n).right} THEN Refused ELSE {troper(n) : n \in D}
  BY <1>1 DEF Reports, Differing
<1>6. \A n \in D : NEVRs(OfName(left, n)) # Refused /\ NEVRs(OfName(right, n)) # Refused BY <1>2, <1>4
<1>7. \A n \in D : NEVRs(OfName(left, n)) = Versions(left, n) /\ NEVRs(OfName(right, n)) = Versions(right, n)
  BY <1>6 DEF NEVRs, Versions
<1>8. \A n \in D : report(n) = ReportOf(left, right, n) /\ troper(n) = ReportOf(right, left, n) BY <1>7 DEF ReportOf
<1>9. Reports(left, right) = {report(n) : n \in D} BY <1>2, <1>4, <1>6
<1>10. Reports(right, left) = {troper(n) : n \in D} BY <1>3, <1>5, <1>6
<1> HIDE DEF report, troper, D
<1> QED BY <1>8, <1>9, <1>10 DEF D

LEMMA ReportFields ==
  ASSUME NEW left, NEW right, NEW n
  PROVE  LET e == ReportOf(left, right, n)
         IN /\ e.name = n /\ e.summary = PackageStatuses(OfName(left, n), OfName(right, n))
            /\ e.left = Versions(left, n) /\ e.right = Versions(right, n)
            /\ [name |-> e.name, summary |-> {Mirror(u) : u \in e.summary}, left |-> e.right, right |-> e.left] = ReportOf(right, left, n)
<1> DEFINE e == ReportOf(left, right, n)  s == PackageStatuses(OfName(left, n), OfName(right, n))
           l == Versions(left, n)  r == Versions(right, n)  f == ReportOf(right, left, n)
           t == PackageStatuses(OfName(right, n), OfName(left, n))
<1>1. e = [name |-> n, summary |-> s, left |-> l, right |-> r] BY DEF ReportOf
<1>2. f = [name |-> n, summary |-> t, left |-> r, right |-> l] BY DEF ReportOf
<1>3. t = {Mirror(u) : u \in s} BY StatusesAre
<1> HIDE DEF e, s, l, r, f, t
<1>4. e.name = n /\ e.summary = s /\ e.left = l /\ e.right = r BY ONLY <1>1
<1>5. [name |-> e.name, summary |-> {Mirror(u) : u \in e.summary}, left |-> e.right, right |-> e.left] = f
  <2> DEFINE mirrored == {Mirror(u) : u \in e.summary}
  <2>1. mirrored = t BY <1>3, <1>4
  <2> HIDE DEF mirrored
  <2>2. [name |-> e.name, summary |-> mirrored, left |-> e.right, right |-> e.left] = f BY ONLY <1>2, <1>4, <2>1
  <2> QED BY <2>2 DEF mirrored
<1> QED BY <1>4, <1>5 DEF e, s, l, r, f

LEMMA ReportsTell ==
  ASSUME NEW left, NEW right, Reports(left, right) # Refused
  PROVE  LET reply == Reports(left, right)  told(status) == {e.name : e \in {x \in reply : status \in x.summary}}
         IN /\ told("missing-from-right") = {p.name : p \in left \ right}
            /\ told("added-in-right") = {p.name : p \in right \ left}
            /\ {e.name : e \in reply} = told("missing-from-right") \cup told("added-in-right")
            /\ \A e \in reply : e.left = Versions(left, e.name) /\ e.right = Versions(right, e.name)
            /\ Reports(right, left) = {[name |-> e.name, summary |-> {Mirror(u) : u \in e.summary}, left |-> e.right, right |-> e.left] : e \in reply}
<1> DEFINE reply == Reports(left, right)  told(status) == {e.name : e \in {x \in reply : status \in x.summary}}
           D == Differing(left, right)  R(n) == ReportOf(left, right, n)  O(n) == ReportOf(right, left, n)
           S(n) == PackageStatuses(OfName(left, n), OfName(right, n))
           F(e) == [name |-> e.name, summary |-> {Mirror(u) : u \in e.summary}, left |-> e.right, right |-> e.left]
           m == "missing-from-right"  a == "added-in-right"
<1>1. reply = {R(n) : n \in D} /\ Reports(right, left) = {O(n) : n \in D} BY ReportsAre
<1>2. \A n : R(n).name = n /\ R(n).summary = S(n) /\ R(n).left = Versions(left, n) /\ R(n).right = Versions(right, n) /\ F(R(n)) = O(n)
  <2> SUFFICES ASSUME NEW n
               PROVE  R(n).name = n /\ R(n).summary = S(n) /\ R(n).left = Versions(left, n) /\ R(n).right = Versions(right, n) /\ F(R(n)) = O(n)
    OBVIOUS
  <2> DEFINE e == ReportOf(left, right, n)
  <2>1. /\ e.name = n /\ e.summary = PackageStatuses(OfName(left, n), OfName(right, n))
        /\ e.left = Versions(left, n) /\ e.right = Versions(right, n)
        /\ [name |-> e.name, summary |-> {Mirror(u) : u \in e.summary}, left |-> e.right, right |-> e.left] = ReportOf(right, left, n)
    BY ReportFields
  <2> QED BY <2>1
<1>3. \A n : /\ m \in S(n) <=> OfName(left, n) \ OfName(right, n) # {}
             /\ a \in S(n) <=> OfName(right, n) \ OfName(left, n) # {}
             /\ S(n) # {} => m \in S(n) \/ a \in S(n)
  BY StatusesAre
<1>4. \A n : /\ OfName(left, n) \ OfName(right, n) # {} <=> \E p \in left \ right : p.name = n
             /\ OfName(right, n) \ OfName(left, n) # {} <=> \E p \in right \ left : p.name = n
  BY DEF OfName
<1>5. D = {n \in {p.name : p \in left \cup right} : S(n) # {}} BY DEF Differing
<1> HIDE DEF reply, D, R, O, S, F, m, a
<1>6. \A status : told(status) = {n \in D : status \in S(n)}
  <2> SUFFICES ASSUME NEW status PROVE told(status) = {n \in D : status \in S(n)} OBVIOUS
  <2>1. ASSUME NEW n \in told(status) PROVE n \in D /\ status \in S(n)
    <3>1. PICK e \in reply : status \in e.summary /\ n = e.name OBVIOUS
    <3>2. PICK c \in D : e = R(c) BY <1>1
    <3> QED BY <1>2, <3>1, <3>2
  <2>2. ASSUME NEW n \in D, status \in S(n) PROVE n \in told(status)
    <3>1. R(n) \in reply /\ status \in R(n).summary /\ R(n).name = n BY <1>1, <1>2, <2>2
    <3> QED BY <3>1
  <2> QED BY <2>1, <2>2
<1> HIDE DEF told
<1>7. told(m) = {p.name : p \in left \ right}
  <2>1. ASSUME NEW n \in told(m) PROVE n \in {p.name : p \in left \ right} BY <1>3, <1>4, <1>6
  <2>2. ASSUME NEW p \in left \ right PROVE p.name \in told(m) BY <1>3, <1>4, <1>5, <1>6
  <2> QED BY <2>1, <2>2
<1>8. told(a) = {p.name : p \in right \ left}
  <2>1. ASSUME NEW n \in told(a) PROVE n \in {p.name : p \in right \ left} BY <1>3, <1>4, <1>6
  <2>2. ASSUME NEW p \in right \ left PROVE p.name \in told(a) BY <1>3, <1>4, <1>5, <1>6
  <2> QED BY <2>1, <2>2
<1>9. {e.name : e \in reply} = told(m) \cup told(a)
  <2>1. {e.name : e \in reply} = D BY <1>1, <1>2
  <2>2. D = told(m) \cup told(a) BY <1>3, <1>5, <1>6
  <2> QED BY <2>1, <2>2
<1>10. \A e \in reply : e.left = Versions(left, e.name) /\ e.right = Versions(right, e.name)
  <2> SUFFICES ASSUME NEW e \in reply PROVE e.left = Versions(left, e.name) /\ e.right = Versions(right, e.name) OBVIOUS
  <2>1. PICK n \in D : e = R(n) BY <1>1
  <2> QED BY <1>2, <2>1
<1>11. Reports(right, left) = {F(e) : e \in reply} BY <1>1, <1>2
<1> QED BY <1>7, <1>8, <1>9, <1>10, <1>11 DEF reply, told, F, m, a

LEMMA RangeOfNone == Range(<<>>) = {}
BY DEF Range

\* Where a comparison gets its answer from, and that of the sides swapped.
LEMMA ComparisonIs ==
  ASSUME NEW k, CatalogTypeOK(k), NEW l, NEW r, NEW arches \in Seq(Text), "" \notin Range(arches),
         Compare(k, l, r, arches) # Refused, RowsApart(k, l), RowsApart(k, r)
  PROVE  /\ SideOf(k, l, arches) # Refused /\ SideOf(k, r, arches) # Refused
         /\ Loaded(k, l, r, arches) # Refused /\ Loaded(k, r, l, arches) # Refused
         /\ Compare(k, l, r, arches) = Reports(Loaded(k, l, r, arches), Loaded(k, r, l, arches))
         /\ Compare(k, r, l, arches) = Reports(Loaded(k, r, l, arches), Loaded(k, l, r, arches))
<1> DEFINE left == SideOf(k, l, arches)  right == SideOf(k, r, arches)
           lps == Loaded(k, l, r, arches)  rps == Loaded(k, r, l, arches)
<1>1. /\ l # r /\ left # Refused /\ right # Refused /\ Shared(left, right) # <<>> /\ lps # Refused /\ rps # Refused
      /\ Compare(k, l, r, arches) = Reports(lps, rps)
  BY DEF Compare, Loaded
<1>2. left \in Seq(Expanded) /\ right \in Seq(Expanded) BY <1>1, SideIs
<1>3. Shared(right, left) # <<>>
  <2> HIDE DEF left, right
  <2>1. /\ Shared(left, right) \in Seq(Expanded) /\ Range(Shared(left, right)) = {x \in Range(left) : x.kind \in {o.kind : o \in Range(right)}}
        /\ Range(Shared(right, left)) = {x \in Range(right) : x.kind \in {o.kind : o \in Range(left)}}
    BY <1>2, SharedIs
  <2>2. PICK x \in Range(Shared(left, right)) : TRUE BY <1>1, <2>1, NotEmpty
  <2>3. PICK o \in Range(right) : o.kind = x.kind BY <2>1
  <2>4. o \in Range(Shared(right, left)) BY <2>1, <2>3
  <2>5. Shared(right, left) = <<>> => Range(Shared(right, left)) = {} BY RangeOfNone, Zenon
  <2> QED BY <2>4, <2>5
<1>4. Compare(k, r, l, arches) = Reports(rps, lps) BY <1>1, <1>3 DEF Compare, Loaded
<1> QED BY <1>1, <1>4

\* What it tells of what the sets publish.
Told(reply, status) == {e.name : e \in {x \in reply : status \in x.summary}}
Mirrored(e) == [name |-> e.name, summary |-> {Mirror(t) : t \in e.summary}, left |-> e.right, right |-> e.left]
TellsOf(reply, here, there) ==
  /\ Told(reply, "missing-from-right") = {p.name : p \in here \ there}
  /\ Told(reply, "added-in-right") = {p.name : p \in there \ here}
  /\ {e.name : e \in reply} = Told(reply, "missing-from-right") \cup Told(reply, "added-in-right")
  /\ \A e \in reply : e.left = PublishedVersions(Of(here, e.name)) /\ e.right = PublishedVersions(Of(there, e.name))

LEMMA ComparisonTells ==
  ASSUME NEW k, CatalogTypeOK(k), NEW l, NEW r, NEW arches \in Seq(Text), "" \notin Range(arches),
         Compare(k, l, r, arches) # Refused, RowsApart(k, l), RowsApart(k, r)
  PROVE  /\ TellsOf(Compare(k, l, r, arches), Offered(k, l, r, arches), Offered(k, r, l, arches))
         /\ Compare(k, r, l, arches) = {Mirrored(e) : e \in Compare(k, l, r, arches)}
<1>1. /\ SideOf(k, l, arches) # Refused /\ SideOf(k, r, arches) # Refused
      /\ Loaded(k, l, r, arches) # Refused /\ Loaded(k, r, l, arches) # Refused
      /\ Compare(k, l, r, arches) = Reports(Loaded(k, l, r, arches), Loaded(k, r, l, arches))
      /\ Compare(k, r, l, arches) = Reports(Loaded(k, r, l, arches), Loaded(k, l, r, arches))
  BY ComparisonIs
<1>2. PublishedIn(Offered(k, l, r, arches), BothKinds(k, l, r, arches)) /\ Shows(Offered(k, l, r, arches), Loaded(k, l, r, arches))
  BY <1>1, PublishedIs
<1>3. PublishedIn(Offered(k, r, l, arches), BothKinds(k, r, l, arches)) /\ Shows(Offered(k, r, l, arches), Loaded(k, r, l, arches))
  BY <1>1, PublishedIs
<1>4. BothKinds(k, r, l, arches) = BothKinds(k, l, r, arches) BY DEF BothKinds
<1> DEFINE here == Offered(k, l, r, arches)  there == Offered(k, r, l, arches)
           lps == Loaded(k, l, r, arches)  rps == Loaded(k, r, l, arches)
           reply == Reports(lps, rps)  K == BothKinds(k, l, r, arches)
<1>5. /\ Compare(k, l, r, arches) = reply /\ Compare(k, r, l, arches) = Reports(rps, lps) /\ reply # Refused
      /\ PublishedIn(here, K) /\ PublishedIn(there, K) /\ Shows(here, lps) /\ Shows(there, rps)
  BY <1>1, <1>2, <1>3, <1>4
<1> HIDE DEF here, there, lps, rps, K
<1>6. reply # Refused BY <1>5
<1>7. /\ {x.name : x \in lps \ rps} = {d.name : d \in here \ there}
      /\ \A n : Versions(lps, n) = PublishedVersions(Of(here, n))
  BY <1>5, SeenTells
<1>8. /\ {x.name : x \in rps \ lps} = {d.name : d \in there \ here}
      /\ \A n : Versions(rps, n) = PublishedVersions(Of(there, n))
  <2>1. PublishedIn(there, K) BY <1>5
  <2>2. PublishedIn(here, K) BY <1>5
  <2>3. Shows(there, rps) BY <1>5
  <2>4. Shows(here, lps) BY <1>5
  <2> QED BY ONLY <2>1, <2>2, <2>3, <2>4, SeenTells
<1>9. /\ Told(reply, "missing-from-right") = {p.name : p \in lps \ rps}
      /\ Told(reply, "added-in-right") = {p.name : p \in rps \ lps}
      /\ {e.name : e \in reply} = Told(reply, "missing-from-right") \cup Told(reply, "added-in-right")
      /\ \A e \in reply : e.left = Versions(lps, e.name) /\ e.right = Versions(rps, e.name)
      /\ Reports(rps, lps) = {Mirrored(e) : e \in reply}
  BY <1>6, ReportsTell DEF Told, Mirrored
<1> HIDE DEF reply
<1>10. TellsOf(reply, here, there) BY <1>7, <1>8, <1>9 DEF TellsOf
<1> QED BY <1>5, <1>9, <1>10 DEF here, there

(* `repo compare` reports exactly what the sets publish differently, in    *)
(* the right direction, and its mirror image with the sides swapped        *)
(* (comparisonRepositories, LoadRepositories, repocompare.Compare).        *)
THEOREM ReportsAreExact == ProjectSpec => []ReportIsExact
<1>1. CatalogInv => ReportIsExact
  <2> SUFFICES ASSUME CatalogInv, Answered("compare"), asked.reply # Refused, RowsApart(proj.catalog, asked.command.left),
                      RowsApart(proj.catalog, asked.command.right), "" \notin Range(asked.command.arches)
               PROVE  ReportIsExact
    BY DEF ReportIsExact
  <2> DEFINE k == proj.catalog  c == asked.command
  <2>1. c \in Commands /\ c.by = "compare" /\ k # None /\ proj \in Projects /\ asked.reply = Reply(c)
    BY DEF CatalogInv, Answered
  <2>2. asked.reply = Compare(k, c.left, c.right, c.arches) BY <2>1 DEF Reply
  <2>3. CatalogTypeOK(k) /\ c.arches \in Seq(Text) BY <2>1, CatalogAssumption
  <2> DEFINE l == c.left  r == c.right  arches == c.arches
  <2>4. RowsApart(k, l) /\ RowsApart(k, r) /\ "" \notin Range(arches) /\ Compare(k, l, r, arches) # Refused BY <2>2
  <2> HIDE DEF k, c, l, r, arches
  <2>5. /\ TellsOf(Compare(k, l, r, arches), Offered(k, l, r, arches), Offered(k, r, l, arches))
        /\ Compare(k, r, l, arches) = {Mirrored(e) : e \in Compare(k, l, r, arches)}
    BY <2>3, <2>4, ComparisonTells DEF arches
  <2>6. BothKinds(k, r, l, arches) = BothKinds(k, l, r, arches) BY DEF BothKinds
  <2> QED BY <2>2, <2>5, <2>6
           DEF ReportIsExact, k, c, l, r, arches, TellsOf, Offered, BothKinds, Mirrored, Told, PublishedVersions, Of
<1> QED BY <1>1, CatalogIsChecked, PTL

-----------------------------------------------------------------------------
(* Comparing two revisions.                                                *)

(* Revisions that `changed` calls unchanged were made from the same inputs *)
(* and pin, and from the same sources where it does not fail; it never     *)
(* fails for two that were cleanly rendered (classifyAndCompareSources).   *)
(* A fingerprint is all it looks at: what makes that enough is that it     *)
(* determines the inputs and the pin.                                      *)
THEOREM ComparisonsAreHonest == Spec => []ChangedIsHonest
  <1>1. ASSUME NEW from, NEW to, mode = "lock", Updated(from), Updated(to), from.file.fp = to.file.fp
        PROVE  from.cfg = to.cfg /\ from.file.pin = to.file.pin
    <2>1. /\ from.file.fp = <<from.cfg, from.file.pin>>
          /\ to.file.fp = <<to.cfg, to.file.pin>>
      BY <1>1 DEF Updated, Fingerprint
    <2>2. <<from.cfg, from.file.pin>> = <<to.cfg, to.file.pin>>
      BY <1>1, <2>1
    <2> QED
      BY <2>2
  <1>2. ASSUME NEW from, NEW to, Updated(from), Updated(to), Changed(from, to) = "unchanged"
        PROVE  from.cfg = to.cfg /\ from.file.pin = to.file.pin /\ (mode = "lock" => from.file.fp = to.file.fp)
    <2>1. from.cfg # Absent /\ to.cfg # Absent /\ from.file # Absent /\ to.file # Absent
      BY <1>2 DEF Updated
    <2>2. CASE mode = "lock"
      <3>1. from.file.fp = to.file.fp
        BY <1>2, <2>1, <2>2 DEF Changed, Classify
      <3> QED
        BY <1>1, <1>2, <2>2, <3>1
    <2>3. CASE mode # "lock"
      BY <1>2, <2>1, <2>3 DEF Changed, ClassifyInputs, InProject, ComparisonInputs
    <2> QED
      BY <2>2, <2>3
  <1>3. ChangedIsHonest
    <2> SUFFICES ASSUME NEW n \in 1..Len(log), NEW m \in 1..Len(log)
                 PROVE  LET from == log[n]  to == log[m]
                            clean(t) == t.cfg # Absent /\ t.file # Absent /\ t.src = t.file.pin /\ Updated(t)
                        IN /\ clean(from) /\ clean(to) => ~IntegrityViolated(from, to)
                           /\ n < m /\ Updated(from) /\ Updated(to) /\ Changed(from, to) = "unchanged" =>
                                /\ from.cfg = to.cfg /\ from.file.pin = to.file.pin
                                /\ mode = "lock" /\ clean(from) /\ ~IntegrityViolated(from, to) => to.src = from.src
      BY DEF ChangedIsHonest
    <2> DEFINE from == log[n]  to == log[m]
               clean(t) == t.cfg # Absent /\ t.file # Absent /\ t.src = t.file.pin /\ Updated(t)
    <2> HIDE DEF from, to
    <2>1. clean(from) /\ clean(to) => ~IntegrityViolated(from, to)
      BY <1>1 DEF IntegrityViolated, SourcesDiffer, HaveMatchingFingerprints
    <2>2. ASSUME Updated(from), Updated(to), Changed(from, to) = "unchanged"
          PROVE  /\ from.cfg = to.cfg /\ from.file.pin = to.file.pin
                 /\ mode = "lock" /\ ~IntegrityViolated(from, to) => to.src = from.src
      <3>1. from.file # Absent /\ to.file # Absent
        BY <2>2 DEF Updated
      <3> QED
        BY <1>2, <2>2, <3>1 DEF IntegrityViolated, SourcesDiffer, HaveMatchingFingerprints
    <2> QED
      BY <2>1, <2>2 DEF from, to
  <1> QED
    BY <1>3, PTL

-----------------------------------------------------------------------------
(* The history of a component, for any number of commits.                  *)

LEMMA HistoryInitTypes == Init => HistoryTypeOK
<1> SUFFICES ASSUME Init PROVE HistoryTypeOK OBVIOUS
<1>1. tree \in Trees /\ log \in Seq(Trees) BY DEF Init, NoTree, Trees
<1> QED BY <1>1, HistoryAssumption DEF Init, HistoryTypeOK

LEMMA WorkTypes == ASSUME HistoryTypeOK, NEW t \in Trees, Work(t) PROVE HistoryTypeOK'
BY HistoryAssumption DEF HistoryTypeOK, Work

LEMMA HistoryNextTypes == HistoryTypeOK /\ [Next]_vars => HistoryTypeOK'
<1> SUFFICES ASSUME HistoryTypeOK, [Next]_vars PROVE HistoryTypeOK' OBVIOUS
<1>1. tree \in Trees /\ tree.cfg \in Cfgs \cup {Absent} /\ tree.file \in TrackedFiles \cup {Absent}
  BY DEF HistoryTypeOK, Trees
<1>2. CASE Edit
  <2>1. \A c \in Cfgs \cup {Absent} : [tree EXCEPT !.cfg = c] \in Trees BY <1>1 DEF Trees
  <2> QED BY <1>2, <2>1, WorkTypes DEF Edit
<1>3. CASE Update
  <2>1. \A f \in TrackedFiles \cup {Absent} : [tree EXCEPT !.file = f] \in Trees BY <1>1 DEF Trees
  <2>2. CASE tree.cfg = Absent /\ Work([tree EXCEPT !.file = Absent]) BY <2>1, <2>2, WorkTypes
  <2>3. ASSUME tree.cfg # Absent, NEW pin \in 1..Tip,
               Work([tree EXCEPT !.file =
               [fp  |-> IF mode = "lock" THEN Fingerprint(tree.cfg, pin) ELSE Absent, pin |-> pin,
                imp |-> IF mode = "pin" THEN Absent ELSE IF tree.file = Absent THEN pin ELSE tree.file.imp]])
        PROVE  HistoryTypeOK'
    <3> DEFINE fp == IF mode = "lock" THEN Fingerprint(tree.cfg, pin) ELSE Absent
               imp == IF mode = "pin" THEN Absent ELSE IF tree.file = Absent THEN pin ELSE tree.file.imp
    <3>1. fp \in (Cfgs \X (1..Tip)) \cup {Absent} BY <1>1, <2>3 DEF Fingerprint
    <3>2. imp \in 1..Tip \cup {Absent} BY <1>1, <2>3 DEF TrackedFiles
    <3> HIDE DEF fp, imp
    <3>3. [fp |-> fp, pin |-> pin, imp |-> imp] \in TrackedFiles BY <3>1, <3>2 DEF TrackedFiles
    <3>4. [tree EXCEPT !.file = [fp |-> fp, pin |-> pin, imp |-> imp]] \in Trees BY <2>1, <3>3
    <3> QED BY <2>3, <3>4, WorkTypes DEF fp, imp
  <2> QED BY <1>3, <2>2, <2>3 DEF Update
<1>4. CASE Render
  <2>1. tree.file # Absent => tree.file.pin \in 1..Tip BY <1>1 DEF TrackedFiles
  <2>2. \A s \in 1..Tip \cup {Absent, Hand} : [tree EXCEPT !.src = s] \in Trees BY <1>1 DEF Trees
  <2>3. CASE tree.cfg # Absent /\ tree.file # Absent /\ Work([tree EXCEPT !.src = tree.file.pin])
    BY <2>1, <2>2, <2>3, WorkTypes
  <2>4. CASE tree.cfg = Absent /\ Work([tree EXCEPT !.src = Absent]) BY <2>2, <2>4, WorkTypes
  <2> QED BY <1>4, <2>3, <2>4 DEF Render
<1>5. CASE HandEdit
  <2>1. [tree EXCEPT !.src = Hand] \in Trees BY <1>1 DEF Trees
  <2> QED BY <1>5, <2>1, WorkTypes DEF HandEdit
<1>6. CASE Commit
  <2> DEFINE old == IF log = <<>> THEN Absent ELSE Last(log).src
  <2>1. old \in 1..Tip \cup {Absent, Hand}
    <3>1. CASE log = <<>> BY <3>1
    <3>2. CASE log # <<>>
      <4>1. Last(log) \in Trees BY <3>2 DEF HistoryTypeOK, Last
      <4> QED BY <3>2, <4>1 DEF Trees
    <3> QED BY <3>1, <3>2
  <2> HIDE DEF old
  <2>2. [tree EXCEPT !.src = old] \in Trees BY <1>1, <2>1 DEF Trees
  <2>3. PICK all \in BOOLEAN : log' = Append(log, IF all THEN tree ELSE [tree EXCEPT !.src = old])
    BY <1>6 DEF Commit, old
  <2>4. log' \in Seq(Trees)
    <3> DEFINE t == IF all THEN tree ELSE [tree EXCEPT !.src = old]
    <3>1. t \in Trees BY <1>1, <2>2
    <3> HIDE DEF t
    <3>2. log \in Seq(Trees) BY DEF HistoryTypeOK
    <3>3. Append(log, t) \in Seq(Trees) BY <3>1, <3>2
    <3> QED BY <2>3, <3>3 DEF t
  <2> QED BY <1>6, <2>4, HistoryAssumption DEF Commit, HistoryTypeOK
<1>7. CASE UNCHANGED vars BY <1>7 DEF vars, HistoryTypeOK
<1> QED BY <1>2, <1>3, <1>4, <1>5, <1>6, <1>7 DEF Next

(* The working tree and the commits keep their types.                      *)
THEOREM HistoryTypes == Spec => []HistoryTypeOK
BY HistoryInitTypes, HistoryNextTypes, PTL DEF Spec

\* The places of a log, and those of the commits that touched the file.
Ids(n) == [i \in 1..n |-> i]
Touched(l) == {i \in DOMAIN l : FileAt(l, i) # FileAt(l, i - 1)}

LEMMA FileLogIs ==
  ASSUME NEW l \in Seq(Trees)
  PROVE  /\ FileLog(l) = Pick(Ids(Len(l)), Touched(l))
         /\ Ids(Len(l)) \in Seq(Nat) /\ Len(Ids(Len(l))) = Len(l)
<1>1. DOMAIN l = 1..Len(l) /\ Len(l) \in Nat OBVIOUS
<1>2. [i \in DOMAIN l |-> i] = Ids(Len(l)) BY <1>1 DEF Ids
<1>3. FileLog(l) = Pick(Ids(Len(l)), Touched(l)) BY <1>2 DEF FileLog, Touched
<1> QED BY <1>1, <1>3 DEF Ids

\* They are the commits, in order, that touched it.
LEMMA FileLogPlaces ==
  ASSUME NEW l \in Seq(Trees)
  PROVE  /\ FileLog(l) \in Seq(Nat)
         /\ \A i, j \in 1..Len(FileLog(l)) : i < j => FileLog(l)[i] < FileLog(l)[j]
         /\ \A i \in 1..Len(FileLog(l)) : FileLog(l)[i] \in 1..Len(l) /\ FileLog(l)[i] \in Touched(l)
<1>1. Len(l) \in Nat OBVIOUS
<1>2. \A i \in 1..Len(l) : Ids(Len(l))[i] = i BY DEF Ids
<1>3. \A i, j \in 1..Len(Ids(Len(l))) : i < j => Ids(Len(l))[i] < Ids(Len(l))[j] BY <1>1, <1>2, FileLogIs
<1> DEFINE d == Ids(Len(l))
<1>4. d \in Seq(Nat) /\ Len(d) = Len(l) BY FileLogIs
<1> HIDE DEF d
<1>5. /\ \A i, j \in 1..Len(Pick(d, Touched(l))) : i < j => Pick(d, Touched(l))[i] < Pick(d, Touched(l))[j]
      /\ \A i \in 1..Len(Pick(d, Touched(l))) : \E j \in 1..Len(d) : j \in Touched(l) /\ Pick(d, Touched(l))[i] = d[j]
  BY <1>3, <1>4, PickIncreasing DEF d
<1>6. Pick(d, Touched(l)) \in Seq(Nat) BY <1>4, PickType
<1>7. \A i \in 1..Len(Pick(d, Touched(l))) : Pick(d, Touched(l))[i] \in 1..Len(l) /\ Pick(d, Touched(l))[i] \in Touched(l)
  <2> SUFFICES ASSUME NEW i \in 1..Len(Pick(d, Touched(l)))
               PROVE  Pick(d, Touched(l))[i] \in 1..Len(l) /\ Pick(d, Touched(l))[i] \in Touched(l)
    OBVIOUS
  <2>1. PICK j \in 1..Len(d) : j \in Touched(l) /\ Pick(d, Touched(l))[i] = d[j] BY <1>5
  <2>2. d[j] = j /\ j \in 1..Len(l) BY <1>2, <1>4, <2>1 DEF d
  <2> QED BY <2>1, <2>2
<1>8. FileLog(l) = Pick(d, Touched(l)) BY FileLogIs DEF d
<1> QED BY <1>5, <1>6, <1>7, <1>8

\* l is where the log m begins.
Begins(l, m) == Len(l) <= Len(m) /\ \A i \in 1..Len(l) : l[i] = m[i]

LEMMA FileAtBegin ==
  ASSUME NEW l \in Seq(Trees), NEW m \in Seq(Trees), Begins(l, m), NEW i \in 0..Len(l)
  PROVE  FileAt(l, i) = FileAt(m, i)
BY DEF Begins, FileAt

LEMMA FileLogBegin ==
  ASSUME NEW l \in Seq(Trees), NEW m \in Seq(Trees), Begins(l, m)
  PROVE  FileLog(l) = Picked(Ids(Len(m)), Touched(m))[Len(l)]
<1>1. Len(l) \in Nat /\ Len(m) \in Nat /\ DOMAIN l = 1..Len(l) /\ DOMAIN m = 1..Len(m) /\ Len(l) <= Len(m)
  BY DEF Begins
<1>2. ASSUME NEW i \in 1..Len(l) PROVE Ids(Len(l))[i] = Ids(Len(m))[i] /\ (i \in Touched(l) <=> i \in Touched(m))
  <2>1. i \in 0..Len(l) /\ i - 1 \in 0..Len(l) /\ i \in DOMAIN l /\ i \in DOMAIN m BY <1>1
  <2>2. FileAt(l, i) = FileAt(m, i) /\ FileAt(l, i - 1) = FileAt(m, i - 1) BY <2>1, FileAtBegin
  <2> QED BY <2>1, <2>2, <1>1 DEF Touched, Ids
<1> DEFINE d == Ids(Len(l))  e == Ids(Len(m))
<1>3. d \in Seq(Nat) /\ Len(d) = Len(l) /\ e \in Seq(Nat) /\ Len(e) = Len(m) BY FileLogIs
<1>4. \A i \in 1..Len(l) : d[i] = e[i] /\ (i \in Touched(l) <=> i \in Touched(m)) BY <1>2
<1> HIDE DEF d, e
<1>5. Pick(d, Touched(l)) = Picked(e, Touched(m))[Len(d)] BY <1>1, <1>3, <1>4, PickBegin
<1> QED BY <1>3, <1>5, FileLogIs DEF d, e

\* The commits that changed the fingerprint, in FingerprintChanges.
Fp(l, k) == IF k = 0 THEN Absent ELSE FileAt(l, FileLog(l)[k]).fp
Other(l) == {k \in DOMAIN FileLog(l) : Fp(l, k) # Fp(l, k - 1)}
News(l) == Pick(FileLog(l), Other(l))

LEMMA FingerprintChangesAre ==
  ASSUME NEW l
  PROVE  FingerprintChanges(l) =
           IF \E k \in DOMAIN FileLog(l) : FileAt(l, FileLog(l)[k]) = Absent THEN Err
           ELSE [n \in DOMAIN News(l) |-> [at |-> News(l)[n], pin |-> FileAt(l, News(l)[n]).pin]]
BY DEF FingerprintChanges, News, Other, Fp

\* Where a log begins, its changes do.
LEMMA LogBegins ==
  ASSUME NEW l \in Seq(Trees), NEW m \in Seq(Trees), Begins(l, m)
  PROVE  /\ Len(FileLog(l)) <= Len(FileLog(m))
         /\ FileLog(l) = SubSeq(FileLog(m), 1, Len(FileLog(l)))
         /\ News(l) = Picked(FileLog(m), Other(m))[Len(FileLog(l))]
<1> DEFINE e == Ids(Len(m))
<1>1. e \in Seq(Nat) /\ Len(e) = Len(m) /\ Len(l) \in 0..Len(e) BY FileLogIs DEF Begins
<1>2. FileLog(m) = Pick(e, Touched(m)) /\ FileLog(l) = Picked(e, Touched(m))[Len(l)] BY FileLogIs, FileLogBegin
<1> HIDE DEF e
<1>3. Len(FileLog(l)) <= Len(FileLog(m)) /\ FileLog(l) = SubSeq(FileLog(m), 1, Len(FileLog(l)))
  BY <1>1, <1>2, PickedPrefix
<1> DEFINE s == FileLog(l)  t == FileLog(m)
<1>4. s \in Seq(Nat) /\ t \in Seq(Nat) /\ Len(s) <= Len(t) BY <1>3, FileLogPlaces
<1>5. \A i \in 1..Len(s) : s[i] = t[i] /\ s[i] \in 0..Len(l)
  <2>1. \A i \in 1..Len(s) : s[i] \in 0..Len(l) BY FileLogPlaces
  <2>2. s = SubSeq(t, 1, Len(s)) BY <1>3
  <2> HIDE DEF s, t
  <2>3. \A i \in 1..Len(s) : SubSeq(t, 1, Len(s))[i] = t[i] BY <1>4
  <2> QED BY <2>1, <2>2, <2>3
<1>6. ASSUME NEW i \in 1..Len(s) PROVE i \in Other(l) <=> i \in Other(m)
  <2>1. Len(s) \in Nat /\ Len(t) \in Nat /\ DOMAIN s = 1..Len(s) /\ DOMAIN t = 1..Len(t)
    <3> HIDE DEF s, t
    <3> QED BY <1>4
  <2>2. i \in DOMAIN t /\ i \in DOMAIN s BY <1>4, <2>1
  <2>3. \A j \in 0..Len(s) : Fp(l, j) = Fp(m, j)
    <3> SUFFICES ASSUME NEW j \in 0..Len(s), j # 0 PROVE FileAt(l, s[j]).fp = FileAt(m, t[j]).fp
      BY DEF Fp
    <3>1. j \in 1..Len(s) BY <2>1
    <3>2. s[j] = t[j] /\ s[j] \in 0..Len(l) BY <1>5, <3>1
    <3>3. FileAt(l, s[j]) = FileAt(m, s[j]) BY <3>2, FileAtBegin
    <3> QED BY <3>2, <3>3
  <2>4. i \in 0..Len(s) /\ i - 1 \in 0..Len(s) BY <2>1
  <2> QED BY <2>2, <2>3, <2>4 DEF Other
<1> HIDE DEF s, t
<1>7. Pick(s, Other(l)) = Picked(t, Other(m))[Len(s)] BY <1>4, <1>5, <1>6, PickBegin
<1> QED BY <1>3, <1>7 DEF s, t, News

LEMMA FileLogAppend ==
  ASSUME NEW l \in Seq(Trees), NEW t \in Trees
  PROVE  FileLog(Append(l, t)) = IF t.file # FileAt(l, Len(l)) THEN Append(FileLog(l), Len(l) + 1) ELSE FileLog(l)
<1> DEFINE m == Append(l, t)  n == Len(l)  e == Ids(Len(m))
<1>1. m \in Seq(Trees) /\ Len(m) = n + 1 /\ n \in Nat /\ m[n + 1] = t /\ \A i \in 1..n : m[i] = l[i] OBVIOUS
<1> HIDE DEF m
<1>2. Begins(l, m) BY <1>1 DEF Begins
<1>3. FileLog(m) = Picked(e, Touched(m))[n + 1] /\ FileLog(l) = Picked(e, Touched(m))[n]
  BY <1>1, <1>2, FileLogIs, FileLogBegin DEF Pick
<1>4. Len(e) = n + 1 /\ e[n + 1] = n + 1
  <2>1. n + 1 \in 1..n + 1 BY <1>1
  <2> QED BY <1>1, <2>1, FileLogIs DEF Ids
<1>5. FileAt(m, n + 1) = t.file /\ FileAt(m, n) = FileAt(l, n) BY <1>1, <1>2, FileAtBegin DEF FileAt
<1>6. n + 1 \in Touched(m) <=> t.file # FileAt(l, n)
  <2>1. n + 1 \in DOMAIN m /\ (n + 1) - 1 = n BY <1>1
  <2> QED BY <1>5, <2>1 DEF Touched
<1> HIDE DEF e
<1>7. Picked(e, Touched(m))[n + 1] =
        IF n + 1 \in Touched(m) THEN Append(Picked(e, Touched(m))[n], e[n + 1]) ELSE Picked(e, Touched(m))[n]
  <2>1. n + 1 \in 1..Len(e) /\ Len(e) \in Nat /\ (n + 1) - 1 = n BY <1>1, <1>4
  <2> QED BY <2>1, PickedIs
<1> QED BY <1>3, <1>4, <1>6, <1>7 DEF m

\* The file is now as the last commit that touched it left it.
LEMMA LastTouched ==
  ASSUME NEW l \in Seq(Trees)
  PROVE  IF FileLog(l) = <<>> THEN FileAt(l, Len(l)) = Absent
         ELSE FileAt(l, Len(l)) = FileAt(l, FileLog(l)[Len(FileLog(l))])
<1> DEFINE d == Ids(Len(l))  S == Touched(l)
<1>1. d \in Seq(Nat) /\ Len(d) = Len(l) /\ FileLog(l) = Pick(d, S) BY FileLogIs
<1>2. \A i \in 1..Len(l) : d[i] = i BY DEF Ids
<1>3. \A i \in 1..Len(l) : i \notin S => FileAt(l, i) = FileAt(l, i - 1) BY DEF Touched
<1> HIDE DEF d, S
<1> DEFINE P == Picked(d, S)
           N == {n \in 0..Len(l) : IF P[n] = <<>> THEN FileAt(l, n) = Absent ELSE FileAt(l, n) = FileAt(l, P[n][Len(P[n])])}
<1>4. 0 \in N
  <2>1. P[0] = <<>> BY <1>1, PickedIs
  <2> QED BY <2>1 DEF FileAt
<1>5. ASSUME NEW n \in 1..Len(l), n - 1 \in N PROVE n \in N
  <2>1. P[n] = IF n \in S THEN Append(P[n - 1], d[n]) ELSE P[n - 1] BY <1>1, PickedIs
  <2>2. n - 1 \in 0..Len(l) /\ P[n - 1] \in Seq(Nat) BY <1>1, PickedType
  <2>3. IF P[n - 1] = <<>> THEN FileAt(l, n - 1) = Absent ELSE FileAt(l, n - 1) = FileAt(l, P[n - 1][Len(P[n - 1])])
    BY <1>5
  <2> HIDE DEF P
  <2>4. CASE n \in S
    <3> DEFINE q == P[n - 1]
    <3>1. q \in Seq(Nat) BY <2>2
    <3>2. P[n] = Append(q, n) BY <1>2, <2>1, <2>4
    <3> HIDE DEF q
    <3>3. P[n] # <<>> /\ P[n][Len(P[n])] = n
      <4>1. Append(q, n) # <<>> /\ Append(q, n)[Len(Append(q, n))] = n BY <3>1
      <4> QED BY <3>2, <4>1, Zenon
    <3>4. FileAt(l, n) = FileAt(l, P[n][Len(P[n])]) BY <3>3
    <3> QED BY <3>3, <3>4
  <2>5. CASE n \notin S
    <3>1. P[n] = P[n - 1] /\ FileAt(l, n) = FileAt(l, n - 1) BY <1>3, <2>1, <2>5
    <3> QED BY <2>3, <3>1
  <2> QED BY <2>4, <2>5
<1>6. Len(l) \in N
  <2> HIDE DEF N
  <2>1. Len(l) \in Nat OBVIOUS
  <2>2. 0..Len(l) \subseteq N BY <1>4, <1>5, <2>1, AlongSequence
  <2> QED BY <2>1, <2>2
<1> QED BY <1>1, <1>6 DEF Pick

\* The changes made by the commits at the places s.
ChangesAt(l, s) == [n \in DOMAIN s |-> [at |-> s[n], pin |-> FileAt(l, s[n]).pin]]
CanBeRead(l) == \A k \in DOMAIN FileLog(l) : FileAt(l, FileLog(l)[k]) # Absent

LEMMA NewsPlaces ==
  ASSUME NEW l \in Seq(Trees)
  PROVE  /\ News(l) \in Seq(Nat)
         /\ \A i, j \in 1..Len(News(l)) : i < j => News(l)[i] < News(l)[j]
         /\ \A i \in 1..Len(News(l)) : \E j \in 1..Len(FileLog(l)) : News(l)[i] = FileLog(l)[j]
<1>1. FileLog(l) \in Seq(Nat) /\ \A i, j \in 1..Len(FileLog(l)) : i < j => FileLog(l)[i] < FileLog(l)[j]
  BY FileLogPlaces
<1>2. News(l) = Pick(FileLog(l), Other(l)) BY DEF News
<1>3. Pick(FileLog(l), Other(l)) \in Seq(Nat) BY <1>1, PickType
<1>4. /\ \A i, j \in 1..Len(Pick(FileLog(l), Other(l))) :
            i < j => Pick(FileLog(l), Other(l))[i] < Pick(FileLog(l), Other(l))[j]
      /\ \A i \in 1..Len(Pick(FileLog(l), Other(l))) :
            \E j \in 1..Len(FileLog(l)) : j \in Other(l) /\ Pick(FileLog(l), Other(l))[i] = FileLog(l)[j]
  BY <1>1, PickIncreasing
<1> QED BY <1>2, <1>3, <1>4

Increasing(s, n) == /\ s \in Seq(Nat)
                    /\ \A i \in 1..Len(s) : s[i] \in 1..n
                    /\ \A i, j \in 1..Len(s) : i < j => s[i] < s[j]

LEMMA NewsIncrease == ASSUME NEW l \in Seq(Trees) PROVE Increasing(FileLog(l), Len(l)) /\ Increasing(News(l), Len(l))
<1>1. Increasing(FileLog(l), Len(l)) BY FileLogPlaces DEF Increasing
<1>2. \A i \in 1..Len(News(l)) : News(l)[i] \in 1..Len(l) BY FileLogPlaces, NewsPlaces
<1> QED BY <1>1, <1>2, NewsPlaces DEF Increasing

LEMMA ChangesAtType ==
  ASSUME NEW l \in Seq(Trees), NEW s, Increasing(s, Len(l)), \A i \in 1..Len(s) : FileAt(l, s[i]) # Absent
  PROVE  ChangesAt(l, s) \in Seq([at : Nat, pin : Nat]) /\ Len(ChangesAt(l, s)) = Len(s)
<1>1. DOMAIN s = 1..Len(s) /\ Len(s) \in Nat BY DEF Increasing
<1>2. ASSUME NEW i \in 1..Len(s) PROVE s[i] \in Nat /\ FileAt(l, s[i]).pin \in Nat
  <2>1. s[i] \in 1..Len(l) BY DEF Increasing
  <2>2. l[s[i]] \in Trees /\ FileAt(l, s[i]) = l[s[i]].file BY <2>1 DEF FileAt
  <2>3. FileAt(l, s[i]) \in TrackedFiles BY <2>2 DEF Trees
  <2> QED BY <2>1, <2>3 DEF TrackedFiles
<1>3. \A i \in 1..Len(s) : [at |-> s[i], pin |-> FileAt(l, s[i]).pin] \in [at : Nat, pin : Nat] BY <1>2
<1> QED BY <1>1, <1>3 DEF ChangesAt

LEMMA ReadChanges ==
  ASSUME NEW l \in Seq(Trees)
  PROVE  /\ CanBeRead(l) => /\ FingerprintChanges(l) = ChangesAt(l, News(l))
                            /\ FingerprintChanges(l) \in Seq([at : Nat, pin : Nat])
                            /\ FingerprintChanges(l) # Err
         /\ ~CanBeRead(l) => FingerprintChanges(l) = Err
<1>1. ~CanBeRead(l) => FingerprintChanges(l) = Err BY FingerprintChangesAre DEF CanBeRead
<1>2. ASSUME CanBeRead(l)
      PROVE  /\ FingerprintChanges(l) = ChangesAt(l, News(l))
             /\ FingerprintChanges(l) \in Seq([at : Nat, pin : Nat])
  <2>1. FingerprintChanges(l) = ChangesAt(l, News(l)) BY <1>2, FingerprintChangesAre DEF CanBeRead, ChangesAt
  <2>2. DOMAIN FileLog(l) = 1..Len(FileLog(l)) BY FileLogPlaces
  <2>3. ASSUME NEW i \in 1..Len(News(l)) PROVE FileAt(l, News(l)[i]) # Absent
    <3>1. PICK j \in 1..Len(FileLog(l)) : News(l)[i] = FileLog(l)[j] BY NewsPlaces
    <3> QED BY <1>2, <2>2, <3>1 DEF CanBeRead
  <2>4. ChangesAt(l, News(l)) \in Seq([at : Nat, pin : Nat]) BY <2>3, NewsIncrease, ChangesAtType
  <2> QED BY <2>1, <2>4
<1>3. \A s : s \in Seq([at : Nat, pin : Nat]) => s # Err BY HistoryAssumption
<1> QED BY <1>1, <1>2, <1>3

\* A commit adds the change it makes, or none.
LEMMA ChangesAppend ==
  ASSUME NEW l \in Seq(Trees), NEW t \in Trees, l # <<>>, FileAt(l, Len(l)) # Absent, t.file # Absent
  PROVE  /\ CanBeRead(Append(l, t)) <=> CanBeRead(l)
         /\ News(Append(l, t)) = IF t.file.fp = FileAt(l, Len(l)).fp THEN News(l) ELSE Append(News(l), Len(l) + 1)
<1> DEFINE m == Append(l, t)  n == Len(l)  s == FileLog(l)  u == FileLog(m)
<1>1. m \in Seq(Trees) /\ Len(m) = n + 1 /\ n \in Nat /\ m[n + 1] = t /\ \A i \in 1..n : m[i] = l[i] OBVIOUS
<1> HIDE DEF m
<1>2. Begins(l, m) BY <1>1 DEF Begins
<1>3. FileAt(m, n + 1) = t.file /\ FileAt(m, n) = FileAt(l, n) BY <1>1, <1>2, FileAtBegin DEF FileAt
<1>4. s \in Seq(Nat) /\ u \in Seq(Nat) /\ \A i \in 1..Len(s) : s[i] \in 0..n BY <1>1, FileLogPlaces
<1>5. u = IF t.file # FileAt(l, n) THEN Append(s, n + 1) ELSE s BY FileLogAppend DEF m
<1>6. News(l) = Picked(u, Other(m))[Len(s)] BY <1>1, <1>2, LogBegins
<1>7. \A i \in 1..Len(s) : FileAt(m, s[i]) = FileAt(l, s[i]) BY <1>1, <1>2, <1>4, FileAtBegin
<1>8. s # <<>> /\ FileAt(l, n) = FileAt(l, s[Len(s)]) BY LastTouched
<1>9. CASE t.file = FileAt(l, n)
  <2>1. u = s BY <1>5, <1>9
  <2>2. News(m) = News(l) BY <1>6, <2>1 DEF News, Pick
  <2>3. CanBeRead(m) <=> CanBeRead(l)
    <3>1. DOMAIN s = 1..Len(s) BY <1>4
    <3> QED BY <1>7, <2>1, <3>1 DEF CanBeRead
  <2> QED BY <1>9, <2>2, <2>3 DEF m
<1>10. CASE t.file # FileAt(l, n)
  <2> DEFINE K == Len(s)
  <2>1. u = Append(s, n + 1) BY <1>5, <1>10
  <2> HIDE DEF s, u
  <2>2. K \in Nat /\ K # 0 /\ Len(u) = K + 1 /\ DOMAIN u = 1..K+1 /\ DOMAIN s = 1..K /\ u[K + 1] = n + 1
        /\ \A i \in 1..K : u[i] = s[i]
    BY <1>1, <1>4, <1>8, <2>1
  <2>3. CanBeRead(m) <=> CanBeRead(l)
    <3>1. CanBeRead(m) <=> \A k \in 1..K+1 : FileAt(m, u[k]) # Absent BY <2>2 DEF CanBeRead, u
    <3>2. CanBeRead(l) <=> \A k \in 1..K : FileAt(l, s[k]) # Absent BY <2>2 DEF CanBeRead, s
    <3>3. FileAt(m, u[K + 1]) # Absent BY <1>3, <2>2
    <3>4. \A k \in 1..K : FileAt(m, u[k]) = FileAt(l, s[k]) BY <1>7, <2>2
    <3>5. \A k \in 1..K+1 : k = K + 1 \/ k \in 1..K BY <2>2
    <3>6. \A k \in 1..K : k \in 1..K+1 BY <2>2
    <3> HIDE DEF K
    <3> QED BY <3>1, <3>2, <3>3, <3>4, <3>5, <3>6
  <2>4. Fp(m, K + 1) = t.file.fp /\ Fp(m, K) = FileAt(l, n).fp
    <3>1. K + 1 # 0 /\ K \in 1..K BY <2>2
    <3>2. FileAt(m, u[K]) = FileAt(l, n) BY <1>7, <1>8, <2>2, <3>1
    <3> QED BY <1>3, <2>2, <3>1, <3>2 DEF Fp, u
  <2>5. K + 1 \in Other(m) <=> t.file.fp # FileAt(l, n).fp
    <3>1. K + 1 \in DOMAIN u /\ (K + 1) - 1 = K BY <2>2
    <3> QED BY <2>4, <3>1 DEF Other, u
  <2>6. Picked(u, Other(m))[K + 1] =
          IF K + 1 \in Other(m) THEN Append(Picked(u, Other(m))[K], u[K + 1]) ELSE Picked(u, Other(m))[K]
    <3>1. K + 1 \in 1..Len(u) /\ Len(u) \in Nat /\ (K + 1) - 1 = K BY <2>2
    <3> QED BY <3>1, PickedIs
  <2>7. News(m) = Picked(u, Other(m))[K + 1] BY <2>2 DEF News, Pick, u
  <2>8. News(m) = IF t.file.fp = FileAt(l, n).fp THEN News(l) ELSE Append(News(l), n + 1)
    BY <1>6, <2>2, <2>5, <2>6, <2>7
  <2> QED BY <2>3, <2>8 DEF m
<1> QED BY <1>9, <1>10

LEMMA OneMore ==
  ASSUME NEW U, NEW c \in Seq(U), NEW e \in U
  PROVE  c \o <<e>> = [i \in 1..Len(c) + 1 |-> IF i <= Len(c) THEN c[i] ELSE e]
OBVIOUS

LEMMA ChangesAtAppend ==
  ASSUME NEW l \in Seq(Trees), NEW t \in Trees, NEW s, Increasing(s, Len(l))
  PROVE  /\ ChangesAt(Append(l, t), s) = ChangesAt(l, s)
         /\ ChangesAt(Append(l, t), Append(s, Len(l) + 1)) =
              ChangesAt(l, s) \o <<[at |-> Len(l) + 1, pin |-> t.file.pin]>>
<1> DEFINE m == Append(l, t)  n == Len(l)
<1>1. m \in Seq(Trees) /\ Len(m) = n + 1 /\ n \in Nat /\ m[n + 1] = t /\ \A i \in 1..n : m[i] = l[i] OBVIOUS
<1> HIDE DEF m
<1>2. FileAt(m, n + 1) = t.file /\ \A i \in 1..n : FileAt(m, i) = FileAt(l, i) BY <1>1 DEF FileAt
<1>3. s \in Seq(Nat) /\ DOMAIN s = 1..Len(s) /\ Len(s) \in Nat /\ \A i \in 1..Len(s) : s[i] \in 1..n BY DEF Increasing
<1>4. ChangesAt(m, s) = ChangesAt(l, s) BY <1>2, <1>3 DEF ChangesAt
<1>5. ChangesAt(m, Append(s, n + 1)) = ChangesAt(l, s) \o <<[at |-> n + 1, pin |-> t.file.pin]>>
  <2> DEFINE a == Append(s, n + 1)  c == ChangesAt(l, s)  e == [at |-> n + 1, pin |-> t.file.pin]
  <2>1. a \in Seq(Nat) /\ Len(a) = Len(s) + 1 /\ DOMAIN a = 1..Len(s) + 1 /\ a[Len(s) + 1] = n + 1
        /\ \A i \in 1..Len(s) : a[i] = s[i]
    BY <1>1, <1>3
  <2>2. DOMAIN c = 1..Len(s) /\ Len(c) = Len(s) /\ \A i \in 1..Len(s) : c[i] = [at |-> s[i], pin |-> FileAt(l, s[i]).pin]
    BY <1>3 DEF ChangesAt
  <2>3. c = [i \in 1..Len(s) |-> c[i]]
    <3>1. c = [i \in DOMAIN s |-> [at |-> s[i], pin |-> FileAt(l, s[i]).pin]] BY DEF ChangesAt
    <3> HIDE DEF c
    <3> QED BY <1>3, <2>2, <3>1
  <2> HIDE DEF a, c, e
  <2>4. c \o <<e>> = [i \in 1..Len(s) + 1 |-> IF i <= Len(s) THEN c[i] ELSE e] 
    <3> DEFINE U == {c[i] : i \in 1..Len(s)} \cup {e}
    <3>1. c \in Seq(U) /\ e \in U
      <4>1. \A i \in 1..Len(s) : c[i] \in U OBVIOUS
      <4> HIDE DEF U
      <4>2. [i \in 1..Len(s) |-> c[i]] \in Seq(U) BY <1>3, <4>1
      <4>3. e \in U BY DEF U
      <4> QED BY <2>3, <4>2, <4>3
    <3> HIDE DEF U
    <3> QED BY <2>2, <3>1, OneMore
  <2>5. ChangesAt(m, a) = [i \in 1..Len(s) + 1 |-> [at |-> a[i], pin |-> FileAt(m, a[i]).pin]] BY <2>1 DEF ChangesAt
  <2>6. ASSUME NEW i \in 1..Len(s) + 1
        PROVE  [at |-> a[i], pin |-> FileAt(m, a[i]).pin] = IF i <= Len(s) THEN c[i] ELSE e
    <3>1. CASE i <= Len(s)
      <4>1. i \in 1..Len(s) BY <1>3, <3>1
      <4> QED BY <1>2, <1>3, <2>1, <2>2, <3>1, <4>1
    <3>2. CASE i = Len(s) + 1
      <4>1. ~(i <= Len(s)) BY <1>3, <3>2
      <4> QED BY <1>2, <2>1, <3>2, <4>1 DEF e
    <3> QED BY <1>3, <3>1, <3>2
  <2>7. ChangesAt(m, a) = c \o <<e>> BY <2>4, <2>5, <2>6
  <2> QED BY <2>7 DEF a, c, e
<1> QED BY <1>4, <1>5 DEF m

(* With HEAD's lock in place and the component updated, the history and    *)
(* the release made from a dirty working tree are those made from the      *)
(* commit of that tree, however long the log is (BuildDirtyChange).        *)
THEOREM DirtyTreesPredict == Spec => []DirtyIsPrediction
<1>1. HistoryTypeOK => DirtyIsPrediction
  <2> SUFFICES ASSUME HistoryTypeOK, mode = "lock", log # <<>>, Updated(tree), Last(log).file # Absent,
                      tree.file.imp = Last(log).file.imp
               PROVE  LET after == Append(log, tree)
                      IN Sequence(log, tree) = Sequence(after, tree) /\ Release(log, tree) = Release(after, tree)
    BY DEF DirtyIsPrediction
  <2> DEFINE m == Append(log, tree)  n == Len(log)  f == Last(log).file
  <2>1. log \in Seq(Trees) /\ tree \in Trees /\ tree.file # Absent /\ Fingerprint(tree.cfg, tree.file.pin) = tree.file.fp
    BY DEF HistoryTypeOK, Updated
  <2>2. n \in Nat /\ n # 0 /\ FileAt(log, n) = f BY <2>1 DEF FileAt, Last
  <2>3. m \in Seq(Trees) /\ m # <<>> /\ Last(m) = tree /\ FileAt(m, Len(m)) = tree.file
    <3>1. Len(m) = n + 1 /\ m[n + 1] = tree BY <2>1
    <3> QED BY <2>1, <2>2, <3>1 DEF FileAt, Last
  <2>4. /\ CanBeRead(m) <=> CanBeRead(log)
        /\ News(m) = IF tree.file.fp = f.fp THEN News(log) ELSE Append(News(log), n + 1)
    BY <2>1, <2>2, ChangesAppend
  <2>5. Increasing(News(log), n) BY <2>1, NewsIncrease
  <2>6. DirtyChange(m, tree) = <<>> BY <2>1, <2>3 DEF DirtyChange
  <2>7. DirtyChange(log, tree) = IF tree.file.fp = f.fp THEN <<>> ELSE <<[at |-> n + 1, pin |-> tree.file.pin]>>
    BY <2>1 DEF DirtyChange
  <2> HIDE DEF m, n, f
  <2>8. LockChanges(log, tree) = LockChanges(m, tree)
    <3>1. CASE ~CanBeRead(log)
      <4>1. FingerprintChanges(log) = Err /\ FingerprintChanges(m) = Err BY <2>1, <2>3, <2>4, <3>1, ReadChanges
      <4> QED BY <2>1, <2>2, <2>3, <4>1 DEF LockChanges, n, f
    <3>2. CASE CanBeRead(log)
      <4>1. /\ FingerprintChanges(log) = ChangesAt(log, News(log)) /\ FingerprintChanges(log) # Err
            /\ FingerprintChanges(m) = ChangesAt(m, News(m)) /\ FingerprintChanges(m) # Err
            /\ FingerprintChanges(m) \in Seq([at : Nat, pin : Nat])
        BY <2>1, <2>3, <2>4, <3>2, ReadChanges
      <4>2. LockChanges(log, tree) = FingerprintChanges(log) \o DirtyChange(log, tree)
        BY <2>2, <4>1 DEF LockChanges, n, f
      <4>3. LockChanges(m, tree) = FingerprintChanges(m) \o <<>> BY <2>1, <2>3, <2>6, <4>1 DEF LockChanges
      <4>4. FingerprintChanges(m) \o <<>> = FingerprintChanges(m) BY <4>1
      <4>5. CASE tree.file.fp = f.fp
        <5>1. FingerprintChanges(m) = FingerprintChanges(log)
          BY <2>1, <2>4, <2>5, <4>1, <4>5, ChangesAtAppend DEF m, n
        <5> QED BY <2>7, <4>2, <4>3, <4>5, <5>1
      <4>6. CASE tree.file.fp # f.fp
        <5>1. FingerprintChanges(m) = FingerprintChanges(log) \o <<[at |-> n + 1, pin |-> tree.file.pin]>>
          BY <2>1, <2>4, <2>5, <4>1, <4>6, ChangesAtAppend DEF m, n
        <5> QED BY <2>7, <4>2, <4>3, <4>4, <4>6, <5>1
      <4> QED BY <4>5, <4>6
    <3> QED BY <3>1, <3>2
  <2>9. Changes(log, tree) = Changes(m, tree) BY <2>8 DEF Changes
  <2>10. ImportCommit(log) = ImportCommit(m) BY <2>1, <2>3 DEF ImportCommit
  <2> QED BY <2>9, <2>10 DEF Sequence, Release, m
<1> QED BY <1>1, HistoryTypes, PTL

-----------------------------------------------------------------------------
(* The order of a history: the changes of each upstream commit behind it.  *)

Entries == [kind : {"upstream", "synthetic"}, id : Nat]
ChangeType == [at : Nat, pin : Nat]
SynOf(s) == [k \in DOMAIN s |-> Synthetic(s[k])]
MadeFor(cs, u) == {i \in DOMAIN cs : cs[i].pin = u}
Block(cs, u) == <<Upstream(u)>> \o SynOf(Pick(cs, MadeFor(cs, u)))

\* The first d upstream commits from low on, each with its changes.
Blocks(low, cs, d) == FlattenSeq([k \in 1..d |-> Block(cs, low + k - 1)])

LEMMA EntryTypes ==
  /\ \A u \in Nat : Upstream(u) \in Entries /\ Upstream(u).kind = "upstream" /\ Upstream(u).id = u
  /\ \A c \in ChangeType : Synthetic(c) \in Entries /\ Synthetic(c).kind = "synthetic" /\ Synthetic(c).id = c.at
BY DEF Upstream, Synthetic, Entries, ChangeType

LEMMA SynOfType ==
  ASSUME NEW s \in Seq(ChangeType)
  PROVE  SynOf(s) \in Seq(Entries) /\ Len(SynOf(s)) = Len(s) /\ \A i \in 1..Len(s) : SynOf(s)[i] = Synthetic(s[i])
<1>1. DOMAIN s = 1..Len(s) /\ Len(s) \in Nat /\ \A i \in 1..Len(s) : s[i] \in ChangeType OBVIOUS
<1>2. \A i \in 1..Len(s) : Synthetic(s[i]) \in Entries BY <1>1, EntryTypes
<1> QED BY <1>1, <1>2 DEF SynOf

LEMMA SynOfAppend ==
  ASSUME NEW s \in Seq(ChangeType), NEW c \in ChangeType
  PROVE  SynOf(Append(s, c)) = Append(SynOf(s), Synthetic(c))
<1> DEFINE t == Append(s, c)  a == SynOf(s)  b == SynOf(t)
<1>1. t \in Seq(ChangeType) /\ Len(t) = Len(s) + 1 /\ t[Len(s) + 1] = c /\ \A i \in 1..Len(s) : t[i] = s[i] /\ Len(s) \in Nat
  OBVIOUS
<1> HIDE DEF t
<1>2. a \in Seq(Entries) /\ Len(a) = Len(s) /\ \A i \in 1..Len(s) : a[i] = Synthetic(s[i]) BY SynOfType
<1>3. b \in Seq(Entries) /\ Len(b) = Len(t) /\ \A i \in 1..Len(t) : b[i] = Synthetic(t[i]) BY <1>1, SynOfType
<1>4. Synthetic(c) \in Entries BY EntryTypes
<1> HIDE DEF a, b
<1>5. Len(s) \in Nat OBVIOUS
<1>6. b[Len(s) + 1] = Synthetic(c) /\ \A i \in 1..Len(s) : b[i] = a[i]
  <2>1. Len(s) + 1 \in 1..Len(t) /\ \A i \in 1..Len(s) : i \in 1..Len(t) BY <1>1, <1>5
  <2> QED BY <1>1, <1>2, <1>3, <2>1
<1>7. b = Append(a, Synthetic(c)) BY <1>1, <1>2, <1>3, <1>4, <1>5, <1>6
<1> QED BY <1>7 DEF a, b, t

LEMMA BlockType ==
  ASSUME NEW cs \in Seq(ChangeType), NEW u \in Nat
  PROVE  Block(cs, u) \in Seq(Entries)
<1>1. Pick(cs, MadeFor(cs, u)) \in Seq(ChangeType) BY PickType
<1>2. SynOf(Pick(cs, MadeFor(cs, u))) \in Seq(Entries) BY <1>1, SynOfType
<1>3. <<Upstream(u)>> \in Seq(Entries) BY EntryTypes
<1> QED BY <1>2, <1>3 DEF Block

LEMMA BlocksMore ==
  ASSUME NEW cs \in Seq(ChangeType), NEW low \in Nat \ {0}, NEW d \in Nat
  PROVE  /\ Blocks(low, cs, d) \in Seq(Entries)
         /\ Blocks(low, cs, 0) = <<>>
         /\ Blocks(low, cs, d + 1) = Blocks(low, cs, d) \o Block(cs, low + d)
<1> DEFINE ss == [k \in 1..d+1 |-> Block(cs, low + k - 1)]
<1>1. \A k \in 1..d+1 : low + k - 1 \in Nat OBVIOUS
<1>2. ss \in [1..d+1 -> Seq(Entries)] BY <1>1, BlockType
<1>3. [i \in 1..d |-> ss[i]] = [k \in 1..d |-> Block(cs, low + k - 1)] OBVIOUS
<1>4. ss[d + 1] = Block(cs, low + d)
  <2>1. d + 1 \in 1..d+1 /\ low + (d + 1) - 1 = low + d OBVIOUS
  <2> QED BY <2>1
<1>5. FlattenSeq(ss) = Blocks(low, cs, d + 1) BY DEF Blocks
<1> HIDE DEF ss
<1>6. /\ FlattenSeq([i \in 1..d |-> ss[i]]) \in Seq(Entries)
      /\ FlattenSeq(ss) = FlattenSeq([i \in 1..d |-> ss[i]]) \o ss[d + 1]
  BY <1>2, FlattenMore
<1>7. Blocks(low, cs, 0) = <<>>
  <2>1. [k \in 1..0 |-> Block(cs, low + k - 1)] = <<>> OBVIOUS
  <2> QED BY <2>1 DEF Blocks, FlattenSeq
<1> QED BY <1>3, <1>4, <1>5, <1>6, <1>7 DEF Blocks

LEMMA ConcatAssociates ==
  ASSUME NEW U, NEW s \in Seq(U), NEW t \in Seq(U), NEW u \in Seq(U)
  PROVE  (s \o t) \o u = s \o (t \o u)
OBVIOUS

LEMMA ConcatAppend ==
  ASSUME NEW U, NEW s \in Seq(U), NEW t \in Seq(U), NEW x \in U
  PROVE  s \o Append(t, x) = Append(s \o t, x)
OBVIOUS

LEMMA ConcatNothing ==
  ASSUME NEW U, NEW s \in Seq(U)
  PROVE  s \o <<>> = s
OBVIOUS

LEMMA AppendIsConcat ==
  ASSUME NEW U, NEW s \in Seq(U), NEW x \in U
  PROVE  Append(s, x) = s \o <<x>>
OBVIOUS

LEMMA PickMadeForType == ASSUME NEW cs \in Seq(ChangeType), NEW S PROVE Pick(cs, S) \in Seq(ChangeType)
BY PickType

\* buildInterleavedSequence keeps the changes of the last pin for the end;
\* where the last upstream commit is that pin, they are behind it all the same.
LEMMA InterleavedIs ==
  ASSUME NEW cs \in Seq(ChangeType), cs # <<>>, NEW low \in Nat \ {0}, low <= Last(cs).pin
  PROVE  Interleaved([k \in 1 .. Last(cs).pin - low + 1 |-> low + k - 1], cs) = Blocks(low, cs, Last(cs).pin - low + 1)
<1> DEFINE p == Last(cs).pin  d == p - low  ups == [k \in 1..d+1 |-> low + k - 1]
           of(u) == Pick(cs, {i \in DOMAIN cs : cs[i].pin = u /\ u # p})
           ss == [k \in 1..d+1 |-> <<Upstream(ups[k])>> \o SynOf(of(ups[k]))]
           last == SynOf(Pick(cs, {i \in DOMAIN cs : cs[i].pin = p}))
<1>1. p \in Nat /\ d \in Nat /\ low + d = p
  <2>1. Last(cs) \in ChangeType BY DEF Last
  <2> QED BY <2>1 DEF ChangeType
<1>2. DOMAIN ups = 1..d+1 OBVIOUS
<1>3. Interleaved(ups, cs) = FlattenSeq(ss) \o last BY <1>2 DEF Interleaved, SynOf
<1> HIDE DEF p, d
<1>4. \A k \in 1..d+1 : ups[k] = low + k - 1 /\ ups[k] \in Nat BY <1>1
<1>5. ASSUME NEW u \in Nat PROVE of(u) \in Seq(ChangeType) /\ SynOf(of(u)) \in Seq(Entries)
  <2>1. of(u) \in Seq(ChangeType) BY PickType
  <2> HIDE DEF of
  <2> QED BY <2>1, SynOfType
<1>6. ss \in [1..d+1 -> Seq(Entries)]
  <2>1. ASSUME NEW k \in 1..d+1 PROVE <<Upstream(ups[k])>> \o SynOf(of(ups[k])) \in Seq(Entries)
    <3> DEFINE a == SynOf(of(ups[k]))  b == <<Upstream(ups[k])>>
    <3>1. a \in Seq(Entries) BY <1>4, <1>5
    <3>2. b \in Seq(Entries) BY <1>4, EntryTypes
    <3> HIDE DEF a, b
    <3>3. b \o a \in Seq(Entries) BY <3>1, <3>2
    <3> QED BY <3>3 DEF a, b
  <2> HIDE DEF of, ups
  <2> QED BY <2>1
<1>7. \A k \in 1..d : ss[k] = Block(cs, low + k - 1)
  <2> SUFFICES ASSUME NEW k \in 1..d PROVE ss[k] = Block(cs, low + k - 1) OBVIOUS
  <2>1. k \in 1..d+1 /\ low + k - 1 # p /\ ups[k] = low + k - 1 BY <1>1, <1>4
  <2>2. {i \in DOMAIN cs : cs[i].pin = ups[k] /\ ups[k] # p} = MadeFor(cs, low + k - 1) BY <2>1 DEF MadeFor
  <2>3. ss[k] = <<Upstream(ups[k])>> \o SynOf(of(ups[k])) BY <2>1
  <2> QED BY <2>1, <2>2, <2>3 DEF Block
<1>8. ss[d + 1] = <<Upstream(p)>>
  <2>1. d + 1 \in 1..d+1 /\ ups[d + 1] = p BY <1>1
  <2>2. of(p) = <<>> BY PickNone
  <2>3. SynOf(<<>>) = <<>> BY DEF SynOf
  <2>4. <<Upstream(p)>> \o <<>> = <<Upstream(p)>> BY <1>1, EntryTypes, ConcatNothing
  <2>5. ss[d + 1] = <<Upstream(ups[d + 1])>> \o SynOf(of(ups[d + 1])) BY <2>1
  <2> HIDE DEF ss, of, ups
  <2> QED BY <2>1, <2>2, <2>3, <2>4, <2>5
<1> DEFINE first == Blocks(low, cs, d)
<1>9. first \in Seq(Entries) /\ Blocks(low, cs, d + 1) = first \o Block(cs, p) BY <1>1, BlocksMore
<1>10. FlattenSeq(ss) = first \o <<Upstream(p)>>
  <2>1. [i \in 1..d |-> ss[i]] = [k \in 1..d |-> Block(cs, low + k - 1)]
    <3> HIDE DEF ss
    <3> QED BY <1>7
  <2> HIDE DEF ss
  <2>2. FlattenSeq(ss) = FlattenSeq([i \in 1..d |-> ss[i]]) \o ss[d + 1] BY <1>1, <1>6, FlattenMore
  <2>3. FlattenSeq([i \in 1..d |-> ss[i]]) = first BY <2>1 DEF Blocks
  <2> QED BY <1>8, <2>2, <2>3
<1>11. last \in Seq(Entries) /\ Block(cs, p) = <<Upstream(p)>> \o last
  <2>1. Pick(cs, {i \in DOMAIN cs : cs[i].pin = p}) \in Seq(ChangeType) BY PickType
  <2> QED BY <2>1, SynOfType DEF Block, MadeFor
<1>12. <<Upstream(p)>> \in Seq(Entries) BY <1>1, EntryTypes
<1> HIDE DEF ss, last, first, ups
<1>13. (first \o <<Upstream(p)>>) \o last = first \o (<<Upstream(p)>> \o last)
  BY <1>9, <1>11, <1>12, ConcatAssociates
<1>14. Interleaved(ups, cs) = Blocks(low, cs, d + 1) BY <1>3, <1>9, <1>10, <1>11, <1>13
<1> QED BY <1>14 DEF ups, d, p

LEMMA BlocksSkip ==
  ASSUME NEW cs \in Seq(ChangeType), NEW low \in Nat \ {0}, NEW d \in Nat,
         \A i \in 1..Len(cs) : cs[i].pin # low + d
  PROVE  Blocks(low, cs, d + 1) = Append(Blocks(low, cs, d), Upstream(low + d))
<1>1. Pick(cs, MadeFor(cs, low + d)) = <<>> BY PickNone DEF MadeFor
<1>2. SynOf(<<>>) = <<>> BY DEF SynOf
<1>3. Upstream(low + d) \in Entries BY EntryTypes
<1>4. <<Upstream(low + d)>> \o <<>> = <<Upstream(low + d)>> BY <1>3, ConcatNothing
<1>5. Block(cs, low + d) = <<Upstream(low + d)>> BY <1>1, <1>2, <1>4 DEF Block
<1> DEFINE s == Blocks(low, cs, d)  x == Upstream(low + d)
<1>6. s \in Seq(Entries) /\ Blocks(low, cs, d + 1) = s \o Block(cs, low + d) BY BlocksMore
<1> HIDE DEF s, x
<1>7. Append(s, x) = s \o <<x>>
  <2>1. x \in Entries BY <1>3 DEF x
  <2> QED BY <1>6, <2>1, AppendIsConcat
<1> QED BY <1>5, <1>6, <1>7 DEF s, x

LEMMA PickOfAppend ==
  ASSUME NEW cs \in Seq(ChangeType), NEW c \in ChangeType, NEW u
  PROVE  Pick(Append(cs, c), MadeFor(Append(cs, c), u)) =
           IF c.pin = u THEN Append(Pick(cs, MadeFor(cs, u)), c) ELSE Pick(cs, MadeFor(cs, u))
<1> DEFINE ds == Append(cs, c)
<1>1. ds \in Seq(ChangeType) /\ Len(ds) = Len(cs) + 1 /\ ds[Len(cs) + 1] = c /\ (\A i \in 1..Len(cs) : ds[i] = cs[i])
      /\ Len(cs) \in Nat /\ DOMAIN ds = 1..Len(cs) + 1 /\ DOMAIN cs = 1..Len(cs)
  OBVIOUS
<1>2. Pick(ds, MadeFor(ds, u)) =
        IF Len(cs) + 1 \in MadeFor(ds, u) THEN Append(Pick(cs, MadeFor(ds, u)), c) ELSE Pick(cs, MadeFor(ds, u))
  BY PickAppend
<1> HIDE DEF ds
<1>3. Len(cs) + 1 \in MadeFor(ds, u) <=> c.pin = u
  <2>1. Len(cs) + 1 \in DOMAIN ds BY <1>1
  <2> QED BY <1>1, <2>1 DEF MadeFor
<1>4. Pick(cs, MadeFor(ds, u)) = Pick(cs, MadeFor(cs, u))
  <2>1. \A i \in 1..Len(cs) : i \in MadeFor(ds, u) <=> i \in MadeFor(cs, u) BY <1>1 DEF MadeFor
  <2> QED BY <2>1, PickSame
<1> QED BY <1>2, <1>3, <1>4 DEF ds

LEMMA BlocksAdd ==
  ASSUME NEW cs \in Seq(ChangeType), NEW c \in ChangeType, NEW low \in Nat \ {0}, NEW d \in Nat, c.pin = low + d
  PROVE  Blocks(low, Append(cs, c), d + 1) = Append(Blocks(low, cs, d + 1), Synthetic(c))
<1> DEFINE ds == Append(cs, c)  u == low + d
<1>1. ds \in Seq(ChangeType) OBVIOUS
<1>2. ASSUME NEW k \in 1..d PROVE Block(ds, low + k - 1) = Block(cs, low + k - 1)
  <2>1. c.pin # low + k - 1 OBVIOUS
  <2> QED BY <2>1, PickOfAppend DEF Block
<1>3. Blocks(low, ds, d) = Blocks(low, cs, d)
  <2>1. [k \in 1..d |-> Block(ds, low + k - 1)] = [k \in 1..d |-> Block(cs, low + k - 1)] BY <1>2
  <2> QED BY <2>1 DEF Blocks
<1> DEFINE q == Pick(cs, MadeFor(cs, u))  a == SynOf(q)  e == Synthetic(c)  b == <<Upstream(u)>>  first == Blocks(low, cs, d)
<1>4. q \in Seq(ChangeType) BY PickType
<1>5. a \in Seq(Entries) /\ SynOf(Append(q, c)) = Append(a, e) BY <1>4, SynOfType, SynOfAppend
<1>6. e \in Entries /\ b \in Seq(Entries) BY EntryTypes
<1>7. Block(cs, u) = b \o a /\ Block(ds, u) = b \o Append(a, e)
  <2>1. Pick(ds, MadeFor(ds, u)) = Append(q, c) BY PickOfAppend
  <2> QED BY <1>5, <2>1 DEF Block
<1>8. first \in Seq(Entries) /\ Blocks(low, cs, d + 1) = first \o Block(cs, u) BY BlocksMore
<1>9. Blocks(low, ds, d + 1) = first \o Block(ds, u) BY <1>1, <1>3, BlocksMore
<1> HIDE DEF q, a, e, b, first, ds, u
<1>10. b \o Append(a, e) = Append(b \o a, e) /\ b \o a \in Seq(Entries)
  <2>1. b \o a \in Seq(Entries) BY <1>5, <1>6
  <2> QED BY <1>5, <1>6, <2>1, ConcatAppend
<1>11. first \o Append(b \o a, e) = Append(first \o (b \o a), e)
  <2> DEFINE g == b \o a
  <2>1. g \in Seq(Entries) BY <1>10
  <2> HIDE DEF g
  <2>2. first \o Append(g, e) = Append(first \o g, e) BY <1>6, <1>8, <2>1, ConcatAppend
  <2> QED BY <2>2 DEF g
<1>12. Blocks(low, ds, d + 1) = Append(Blocks(low, cs, d + 1), e) BY <1>7, <1>8, <1>9, <1>10, <1>11
<1> QED BY <1>12 DEF ds, e

\* Of the history s of the changes cs, up to the d-th upstream commit from
\* low on: each of those is there, each change once and behind its commit,
\* and the changes are in order.
Ups(s, p) == {s[j].id : j \in {j \in 1..p : s[j].kind = "upstream"}}
Syns(s) == {k \in DOMAIN s : s[k].kind = "synthetic"}
Placed(s, c, low) == \E p \in 1..Len(s) : /\ s[p] = Synthetic(c)
                                          /\ \A j \in 1..Len(s) : s[j] = Synthetic(c) => j = p
                                          /\ Ups(s, p) = low .. c.pin
Kept(s, cs, low, d) ==
  /\ s \in Seq(Entries)
  /\ Ups(s, Len(s)) = low .. low + d - 1
  /\ \A j \in 1..Len(s) : s[j].kind = "synthetic" => \E i \in 1..Len(cs) : s[j] = Synthetic(cs[i])
  /\ \A i \in 1..Len(cs) : Placed(s, cs[i], low)
  /\ Pick(s, Syns(s)) = SynOf(cs)

LEMMA Appended ==
  ASSUME NEW s \in Seq(Entries), NEW e \in Entries
  PROVE  /\ Append(s, e) \in Seq(Entries) /\ Len(Append(s, e)) = Len(s) + 1 /\ Append(s, e)[Len(s) + 1] = e
         /\ \A i \in 1..Len(s) : Append(s, e)[i] = s[i]
         /\ Len(s) \in Nat
OBVIOUS

LEMMA UpsAppend ==
  ASSUME NEW s \in Seq(Entries), NEW e \in Entries
  PROVE  /\ \A p \in 1..Len(s) : Ups(Append(s, e), p) = Ups(s, p)
         /\ Ups(Append(s, e), Len(s) + 1) = IF e.kind = "upstream" THEN Ups(s, Len(s)) \cup {e.id} ELSE Ups(s, Len(s))
<1> DEFINE t == Append(s, e)
<1>1. t[Len(s) + 1] = e /\ (\A i \in 1..Len(s) : t[i] = s[i]) /\ Len(s) \in Nat BY Appended
<1> HIDE DEF t
<1>2. ASSUME NEW p \in 1..Len(s) PROVE Ups(t, p) = Ups(s, p)
  <2>1. \A j \in 1..p : t[j] = s[j] BY <1>1
  <2> QED BY <2>1 DEF Ups
<1>3. Ups(t, Len(s) + 1) = IF e.kind = "upstream" THEN Ups(s, Len(s)) \cup {e.id} ELSE Ups(s, Len(s))
  <2> DEFINE n == Len(s)
  <2>1. n + 1 \in 1..n+1 /\ (\A j \in 1..n+1 : j \in 1..n \/ j = n + 1) /\ (\A j \in 1..n : j \in 1..n+1) BY <1>1
  <2>2. \A x : x \in Ups(t, n + 1) <=> x \in Ups(s, n) \/ (e.kind = "upstream" /\ x = e.id)
    <3> TAKE x
    <3> HIDE DEF n
    <3>1. x \in Ups(t, n + 1) <=> \E j \in 1..n+1 : t[j].kind = "upstream" /\ x = t[j].id BY DEF Ups
    <3>2. x \in Ups(s, n) <=> \E j \in 1..n : s[j].kind = "upstream" /\ x = s[j].id BY DEF Ups
    <3>3. t[n + 1] = e /\ \A i \in 1..n : t[i] = s[i] BY <1>1 DEF n
    <3> QED BY <2>1, <3>1, <3>2, <3>3
  <2> HIDE DEF n
  <2>3. Ups(t, n + 1) = IF e.kind = "upstream" THEN Ups(s, n) \cup {e.id} ELSE Ups(s, n) BY <2>2
  <2> QED BY <2>3 DEF n
<1> QED BY <1>2, <1>3 DEF t

LEMMA SynsAppend ==
  ASSUME NEW s \in Seq(Entries), NEW e \in Entries
  PROVE  Pick(Append(s, e), Syns(Append(s, e))) =
           IF e.kind = "synthetic" THEN Append(Pick(s, Syns(s)), e) ELSE Pick(s, Syns(s))
<1> DEFINE t == Append(s, e)
<1>1. t \in Seq(Entries) /\ Len(t) = Len(s) + 1 /\ t[Len(s) + 1] = e /\ (\A i \in 1..Len(s) : t[i] = s[i]) /\ Len(s) \in Nat
  BY Appended
<1>2. Pick(t, Syns(t)) = IF Len(s) + 1 \in Syns(t) THEN Append(Pick(s, Syns(t)), e) ELSE Pick(s, Syns(t))
  BY PickAppend
<1> HIDE DEF t
<1>3. DOMAIN t = 1..Len(s) + 1 /\ DOMAIN s = 1..Len(s) BY <1>1
<1>4. Len(s) + 1 \in Syns(t) <=> e.kind = "synthetic"
  <2>1. Len(s) + 1 \in DOMAIN t BY <1>1, <1>3
  <2> QED BY <1>1, <2>1 DEF Syns
<1>5. Pick(s, Syns(t)) = Pick(s, Syns(s))
  <2>1. \A i \in 1..Len(s) : i \in Syns(t) <=> i \in Syns(s) BY <1>1, <1>3 DEF Syns
  <2> QED BY <2>1, PickSame
<1> QED BY <1>2, <1>4, <1>5 DEF t

LEMMA PlacedAppend ==
  ASSUME NEW s \in Seq(Entries), NEW e \in Entries, NEW c, NEW low, Placed(s, c, low), e # Synthetic(c)
  PROVE  Placed(Append(s, e), c, low)
<1> DEFINE t == Append(s, e)
<1>1. Len(t) = Len(s) + 1 /\ t[Len(s) + 1] = e /\ (\A i \in 1..Len(s) : t[i] = s[i]) /\ Len(s) \in Nat BY Appended
<1>2. \A p \in 1..Len(s) : Ups(t, p) = Ups(s, p) BY UpsAppend
<1> HIDE DEF t
<1>3. PICK p \in 1..Len(s) : /\ s[p] = Synthetic(c)
                             /\ \A j \in 1..Len(s) : s[j] = Synthetic(c) => j = p
                             /\ Ups(s, p) = low .. c.pin
  BY DEF Placed
<1>4. p \in 1..Len(t) /\ t[p] = Synthetic(c) /\ Ups(t, p) = low .. c.pin BY <1>1, <1>2, <1>3
<1>5. \A j \in 1..Len(t) : j \in 1..Len(s) \/ j = Len(s) + 1 BY <1>1
<1>6. \A j \in 1..Len(t) : t[j] = Synthetic(c) => j = p BY <1>1, <1>3, <1>5
<1>7. Placed(t, c, low) BY <1>4, <1>6 DEF Placed
<1> QED BY <1>7 DEF t

LEMMA KeptSkip ==
  ASSUME NEW cs \in Seq(ChangeType), NEW low \in Nat \ {0}, NEW d \in Nat, NEW s, Kept(s, cs, low, d)
  PROVE  Kept(Append(s, Upstream(low + d)), cs, low, d + 1)
<1> DEFINE e == Upstream(low + d)  t == Append(s, e)
<1>1. e \in Entries /\ e.kind = "upstream" /\ e.id = low + d BY EntryTypes
<1>2. s \in Seq(Entries) BY DEF Kept
<1> HIDE DEF e
<1>3. t \in Seq(Entries) /\ Len(t) = Len(s) + 1 /\ t[Len(s) + 1] = e /\ (\A i \in 1..Len(s) : t[i] = s[i]) /\ Len(s) \in Nat
  BY <1>1, <1>2, Appended
<1>4. Ups(t, Len(t)) = low .. low + (d + 1) - 1
  <2>1. Ups(t, Len(s) + 1) = Ups(s, Len(s)) \cup {low + d} BY <1>1, <1>2, UpsAppend
  <2>2. Ups(s, Len(s)) = low .. low + d - 1 BY DEF Kept
  <2>3. low .. low + (d + 1) - 1 = (low .. low + d - 1) \cup {low + d} OBVIOUS
  <2> QED BY <1>3, <2>1, <2>2, <2>3
<1>5. Pick(t, Syns(t)) = SynOf(cs)
  <2>1. Pick(t, Syns(t)) = Pick(s, Syns(s)) BY <1>1, <1>2, SynsAppend
  <2> QED BY <2>1 DEF Kept
<1>6. ASSUME NEW i \in 1..Len(cs) PROVE Placed(t, cs[i], low)
  <2>1. cs[i] \in ChangeType OBVIOUS
  <2>2. Synthetic(cs[i]).kind = "synthetic" BY <2>1, EntryTypes
  <2>3. e # Synthetic(cs[i]) BY <1>1, <2>2
  <2>4. Placed(s, cs[i], low) BY DEF Kept
  <2> QED BY <1>1, <1>2, <2>3, <2>4, PlacedAppend
<1> HIDE DEF t
<1>7. ASSUME NEW j \in 1..Len(t), t[j].kind = "synthetic" PROVE \E i \in 1..Len(cs) : t[j] = Synthetic(cs[i])
  <2>1. j # Len(s) + 1 BY <1>1, <1>3, <1>7
  <2>2. j \in 1..Len(s) BY <1>3, <2>1
  <2> QED BY <1>3, <1>7, <2>2 DEF Kept
<1>8. Kept(t, cs, low, d + 1) BY <1>3, <1>4, <1>5, <1>6, <1>7 DEF Kept
<1> QED BY <1>8 DEF t, e

LEMMA KeptAdd ==
  ASSUME NEW cs \in Seq(ChangeType), NEW low \in Nat \ {0}, NEW d \in Nat, NEW s, Kept(s, cs, low, d + 1),
         NEW c \in ChangeType, c.pin = low + d, \A i \in 1..Len(cs) : cs[i].at # c.at
  PROVE  Kept(Append(s, Synthetic(c)), Append(cs, c), low, d + 1)
<1> DEFINE e == Synthetic(c)  t == Append(s, e)  ds == Append(cs, c)
<1>1. e \in Entries /\ e.kind = "synthetic" /\ e.id = c.at BY EntryTypes
<1>2. s \in Seq(Entries) BY DEF Kept
<1>3. t \in Seq(Entries) /\ Len(t) = Len(s) + 1 /\ t[Len(s) + 1] = e /\ (\A i \in 1..Len(s) : t[i] = s[i]) /\ Len(s) \in Nat
  BY <1>1, <1>2, Appended
<1>4. ds \in Seq(ChangeType) /\ Len(ds) = Len(cs) + 1 /\ ds[Len(cs) + 1] = c /\ (\A i \in 1..Len(cs) : ds[i] = cs[i])
      /\ Len(cs) \in Nat
  OBVIOUS
<1>5. Ups(t, Len(t)) = low .. low + (d + 1) - 1
  <2>1. Ups(t, Len(s) + 1) = Ups(s, Len(s)) BY <1>1, <1>2, UpsAppend
  <2> QED BY <1>3, <2>1 DEF Kept
<1>6. Pick(t, Syns(t)) = SynOf(ds)
  <2>1. Pick(t, Syns(t)) = Append(Pick(s, Syns(s)), e) BY <1>1, <1>2, SynsAppend
  <2>2. SynOf(ds) = Append(SynOf(cs), e) BY SynOfAppend
  <2> QED BY <2>1, <2>2 DEF Kept
<1>7. ASSUME NEW i \in 1..Len(cs) PROVE Placed(t, cs[i], low) /\ e # Synthetic(cs[i])
  <2>1. cs[i] \in ChangeType OBVIOUS
  <2>2. Synthetic(cs[i]).id = cs[i].at BY <2>1, EntryTypes
  <2>3. e # Synthetic(cs[i]) BY <1>1, <2>2
  <2>4. Placed(s, cs[i], low) BY DEF Kept
  <2> QED BY <1>1, <1>2, <2>3, <2>4, PlacedAppend
<1> HIDE DEF t, ds
<1>8. ASSUME NEW j \in 1..Len(s) PROVE s[j] # e
  <2>1. SUFFICES ASSUME s[j] = e PROVE FALSE OBVIOUS
  <2>2. PICK i \in 1..Len(cs) : s[j] = Synthetic(cs[i]) BY <1>1, <2>1 DEF Kept
  <2> QED BY <1>7, <2>1, <2>2
<1>9. Placed(t, c, low)
  <2>1. Len(t) \in 1..Len(t) /\ t[Len(t)] = Synthetic(c) BY <1>3
  <2>2. \A j \in 1..Len(t) : t[j] = Synthetic(c) => j = Len(t)
    <3>1. \A j \in 1..Len(t) : j \in 1..Len(s) \/ j = Len(t) BY <1>3
    <3> QED BY <1>3, <1>8, <3>1
  <2>3. Ups(t, Len(t)) = low .. c.pin
    <3>1. low + (d + 1) - 1 = low + d OBVIOUS
    <3> QED BY <1>5, <3>1
  <2> QED BY <2>1, <2>2, <2>3 DEF Placed
<1>10. ASSUME NEW i \in 1..Len(ds) PROVE Placed(t, ds[i], low)
  <2>1. i \in 1..Len(cs) \/ i = Len(cs) + 1 BY <1>4
  <2> QED BY <1>4, <1>7, <1>9, <2>1
<1>11. ASSUME NEW j \in 1..Len(t), t[j].kind = "synthetic" PROVE \E i \in 1..Len(ds) : t[j] = Synthetic(ds[i])
  <2>1. CASE j = Len(s) + 1
    <3>1. Len(cs) + 1 \in 1..Len(ds) BY <1>4
    <3> QED BY <1>3, <1>4, <2>1, <3>1
  <2>2. CASE j \in 1..Len(s)
    <3>1. PICK i \in 1..Len(cs) : s[j] = Synthetic(cs[i]) BY <1>3, <1>11, <2>2 DEF Kept
    <3>2. i \in 1..Len(ds) /\ ds[i] = cs[i] BY <1>4
    <3> QED BY <1>3, <2>2, <3>1, <3>2
  <2> QED BY <1>3, <2>1, <2>2
<1>12. Kept(t, ds, low, d + 1) BY <1>3, <1>5, <1>6, <1>10, <1>11 DEF Kept
<1> QED BY <1>12 DEF t, e, ds

Ordered(cs, low) ==
  /\ cs \in Seq(ChangeType)
  /\ \A i \in 1..Len(cs) : low <= cs[i].pin
  /\ \A i, j \in 1..Len(cs) : i < j => cs[i].pin <= cs[j].pin /\ cs[i].at < cs[j].at
Till(cs, k) == SubSeq(cs, 1, k)
Whole(cs, low, k) == Blocks(low, Till(cs, k), cs[k].pin - low + 1)

LEMMA TillIs ==
  ASSUME NEW cs \in Seq(ChangeType), NEW k \in 0..Len(cs)
  PROVE  /\ Till(cs, k) \in Seq(ChangeType) /\ Len(Till(cs, k)) = k /\ \A i \in 1..k : Till(cs, k)[i] = cs[i]
         /\ k # Len(cs) => Till(cs, k + 1) = Append(Till(cs, k), cs[k + 1])
         /\ k = 0 => Till(cs, k) = <<>>
         /\ k = Len(cs) => Till(cs, k) = cs
<1>1. Till(cs, k) \in Seq(ChangeType) /\ Len(Till(cs, k)) = k /\ \A i \in 1..k : Till(cs, k)[i] = cs[i] BY DEF Till
<1>2. ASSUME k # Len(cs) PROVE Till(cs, k + 1) = Append(Till(cs, k), cs[k + 1]) BY <1>2 DEF Till
<1>3. k = 0 => Till(cs, k) = <<>> BY <1>1
<1>4. k = Len(cs) => Till(cs, k) = cs BY DEF Till
<1> QED BY <1>1, <1>2, <1>3, <1>4

LEMMA PinsAreNumbers == ASSUME NEW c \in ChangeType PROVE c.pin \in Nat /\ c.at \in Nat
BY DEF ChangeType

LEMMA KeptSkips ==
  ASSUME NEW cs \in Seq(ChangeType), NEW low \in Nat \ {0}, NEW d \in Nat, NEW e \in Nat, d <= e,
         Kept(Blocks(low, cs, d), cs, low, d), \A i \in 1..Len(cs) : cs[i].pin < low + d
  PROVE  Kept(Blocks(low, cs, e), cs, low, e)
<1> DEFINE N == {g \in Nat : Kept(Blocks(low, cs, d + g), cs, low, d + g)}
<1>1. 0 \in N
  <2>1. d + 0 = d OBVIOUS
  <2> QED BY <2>1
<1>2. ASSUME NEW g \in Nat, g \in N PROVE g + 1 \in N
  <2>1. d + g \in Nat /\ d + (g + 1) = (d + g) + 1 OBVIOUS
  <2>2. ASSUME NEW i \in 1..Len(cs) PROVE cs[i].pin # low + (d + g)
    <3>1. cs[i] \in ChangeType OBVIOUS
    <3>2. cs[i].pin \in Nat BY <3>1, PinsAreNumbers
    <3> QED BY <3>2
  <2>3. Blocks(low, cs, (d + g) + 1) = Append(Blocks(low, cs, d + g), Upstream(low + (d + g))) BY <2>1, <2>2, BlocksSkip
  <2>4. Kept(Blocks(low, cs, (d + g) + 1), cs, low, (d + g) + 1) BY <1>2, <2>1, <2>3, KeptSkip
  <2> QED BY <2>1, <2>4
<1>3. Nat \subseteq N
  <2> HIDE DEF N
  <2> QED BY <1>1, <1>2, Induction
<1>4. e - d \in Nat /\ d + (e - d) = e OBVIOUS
<1>5. e - d \in N BY <1>3, <1>4
<1> HIDE DEF N
<1>6. Kept(Blocks(low, cs, d + (e - d)), cs, low, d + (e - d)) BY <1>5 DEF N
<1> QED BY <1>4, <1>6

LEMMA KeptNothing ==
  ASSUME NEW s \in Seq(Entries), Len(s) = 0, NEW cs \in Seq(ChangeType), Len(cs) = 0, NEW low \in Nat
  PROVE  Kept(s, cs, low, 0)
<1>1. Ups(s, Len(s)) = {} BY DEF Ups
<1>2. low .. low + 0 - 1 = {} OBVIOUS
<1>3. SynOf(cs) = <<>>
  <2>1. DOMAIN cs = {} OBVIOUS
  <2> QED BY <2>1 DEF SynOf
<1>4. Pick(s, Syns(s)) = <<>>
  <2>1. Picked(s, Syns(s))[0] = <<>> BY PickedIs
  <2> QED BY <2>1 DEF Pick
<1> QED BY <1>1, <1>2, <1>3, <1>4 DEF Kept

LEMMA TillKept ==
  ASSUME NEW low \in Nat \ {0}, NEW cs, Ordered(cs, low)
  PROVE  \A k \in 0..Len(cs) : \A d \in Nat :
           (k = 0 \/ cs[k].pin < low + d) => Kept(Blocks(low, Till(cs, k), d), Till(cs, k), low, d)
<1>1. cs \in Seq(ChangeType) /\ Len(cs) \in Nat BY DEF Ordered
<1> DEFINE N == {k \in 0..Len(cs) : \A d \in Nat :
                   (k = 0 \/ cs[k].pin < low + d) => Kept(Blocks(low, Till(cs, k), d), Till(cs, k), low, d)}
<1>2. 0 \in N
  <2> DEFINE ts == Till(cs, 0)
  <2>1. 0 \in 0..Len(cs) BY <1>1
  <2>2. ts \in Seq(ChangeType) /\ Len(ts) = 0 BY <1>1, <2>1, TillIs
  <2> HIDE DEF ts
  <2>3. Blocks(low, ts, 0) \in Seq(Entries) /\ Len(Blocks(low, ts, 0)) = 0
    <3>1. 0 \in Nat OBVIOUS
    <3>2. Blocks(low, ts, 0) = <<>> BY <2>2, <3>1, BlocksMore
    <3>3. <<>> \in Seq(Entries) /\ Len(<<>>) = 0 OBVIOUS
    <3> QED BY <3>2, <3>3, Zenon
  <2>4. Kept(Blocks(low, ts, 0), ts, low, 0) BY <2>2, <2>3, KeptNothing
  <2>5. \A i \in 1..Len(ts) : ts[i].pin < low + 0 BY <2>2
  <2>6. \A d \in Nat : Kept(Blocks(low, ts, d), ts, low, d)
    <3> SUFFICES ASSUME NEW d \in Nat PROVE Kept(Blocks(low, ts, d), ts, low, d) OBVIOUS
    <3>1. 0 \in Nat /\ 0 <= d OBVIOUS
    <3> QED BY <2>2, <2>4, <2>5, <3>1, KeptSkips
  <2> QED BY <2>1, <2>6 DEF ts
<1>3. ASSUME NEW k \in 1..Len(cs), k - 1 \in N PROVE k \in N
  <2> DEFINE c == cs[k]  j == k - 1  u == c.pin  g == u - low
  <2>1. c \in ChangeType /\ u \in Nat /\ low <= u BY <1>1, PinsAreNumbers DEF Ordered
  <2>2. g \in Nat /\ u = low + g BY <2>1
  <2>3. j \in 0..Len(cs) /\ j # Len(cs) /\ k = j + 1 /\ j \in Nat BY <1>1
  <2>4. Till(cs, j) \in Seq(ChangeType) /\ Len(Till(cs, j)) = j /\ \A i \in 1..j : Till(cs, j)[i] = cs[i] BY <1>1, <2>3, TillIs
  <2>5. Till(cs, k) = Append(Till(cs, j), c) /\ Till(cs, k) \in Seq(ChangeType) /\ Len(Till(cs, k)) = k
        /\ \A i \in 1..k : Till(cs, k)[i] = cs[i]
    <3>1. Till(cs, j + 1) = Append(Till(cs, j), cs[j + 1])
      <4> HIDE DEF j
      <4> QED BY <1>1, <2>3, TillIs
    <3>2. k \in 0..Len(cs) BY <1>1
    <3>3. Till(cs, k) \in Seq(ChangeType) /\ Len(Till(cs, k)) = k /\ \A i \in 1..k : Till(cs, k)[i] = cs[i]
      BY <1>1, <3>2, TillIs
    <3> QED BY <2>3, <3>1, <3>3
  <2>6. \A i \in 1..j : cs[i].pin \in Nat /\ cs[i].at \in Nat /\ cs[i].pin <= u /\ cs[i].at < c.at
    <3> SUFFICES ASSUME NEW i \in 1..j PROVE cs[i].pin \in Nat /\ cs[i].at \in Nat /\ cs[i].pin <= u /\ cs[i].at < c.at
      OBVIOUS
    <3>1. i \in 1..Len(cs) /\ i < k BY <2>3
    <3>2. cs[i] \in ChangeType BY <1>1, <3>1
    <3> QED BY <3>1, <3>2, PinsAreNumbers DEF Ordered
  <2>7. Kept(Blocks(low, Till(cs, j), g + 1), Till(cs, j), low, g + 1)
    <3>1. j = 0 \/ cs[j].pin < low + (g + 1)
      <4>1. j # 0 => j \in 1..j BY <2>3
      <4>2. CASE j # 0
        <5>1. cs[j].pin \in Nat /\ cs[j].pin <= u BY <2>6, <4>1, <4>2
        <5>2. u < low + (g + 1) /\ u \in Nat BY <2>1, <2>2
        <5> QED BY <5>1, <5>2
      <4> QED BY <4>2
    <3>2. g + 1 \in Nat BY <2>2
    <3> QED BY <1>3, <3>1, <3>2
  <2> HIDE DEF N, g, u, c, j
  <2>8. Kept(Append(Blocks(low, Till(cs, j), g + 1), Synthetic(c)), Append(Till(cs, j), c), low, g + 1)
    <3>1. c.pin = low + g BY <2>2 DEF u
    <3>2. \A i \in 1..Len(Till(cs, j)) : Till(cs, j)[i].at # c.at
      <4>1. c.at \in Nat BY <2>1, PinsAreNumbers
      <4> QED BY <2>4, <2>6, <4>1
    <3> QED BY <2>1, <2>2, <2>4, <2>7, <3>1, <3>2, KeptAdd
  <2>9. Blocks(low, Till(cs, k), g + 1) = Append(Blocks(low, Till(cs, j), g + 1), Synthetic(c))
    <3>1. c.pin = low + g BY <2>2 DEF u
    <3>2. Blocks(low, Append(Till(cs, j), c), g + 1) = Append(Blocks(low, Till(cs, j), g + 1), Synthetic(c))
      BY <2>1, <2>2, <2>4, <3>1, BlocksAdd
    <3> QED BY <2>5, <3>2
  <2>10. Kept(Blocks(low, Till(cs, k), g + 1), Till(cs, k), low, g + 1) BY <2>5, <2>8, <2>9
  <2>11. \A i \in 1..Len(Till(cs, k)) : Till(cs, k)[i].pin < low + (g + 1)
    <3> SUFFICES ASSUME NEW i \in 1..k PROVE cs[i].pin < low + (g + 1) BY <2>5
    <3>1. CASE i = k BY <2>1, <2>2, <3>1 DEF u, c
    <3>2. CASE i # k
      <4>1. i \in 1..j BY <2>3, <3>2
      <4> QED BY <2>2, <2>6, <4>1
    <3> QED BY <3>1, <3>2
  <2>12. ASSUME NEW d \in Nat, u < low + d PROVE Kept(Blocks(low, Till(cs, k), d), Till(cs, k), low, d)
    <3>1. g + 1 \in Nat /\ g + 1 <= d BY <2>2, <2>12
    <3> QED BY <2>5, <2>10, <2>11, <3>1, KeptSkips
  <2>13. k # 0 /\ k \in 0..Len(cs) BY <1>1
  <2> QED BY <2>12, <2>13 DEF N, u, c
<1>4. 0..Len(cs) \subseteq N
  <2> HIDE DEF N
  <2> QED BY <1>1, <1>2, <1>3, AlongSequence
<1> QED BY <1>4

\* A history ends with its last change.
LEMMA WholeIs ==
  ASSUME NEW low \in Nat \ {0}, NEW cs, Ordered(cs, low), NEW k \in 1..Len(cs)
  PROVE  /\ Kept(Whole(cs, low, k), Till(cs, k), low, cs[k].pin - low + 1)
         /\ cs[k].pin - low \in Nat
         /\ Whole(cs, low, k) = Append(Blocks(low, Till(cs, k - 1), cs[k].pin - low + 1), Synthetic(cs[k]))
<1>1. cs \in Seq(ChangeType) /\ Len(cs) \in Nat /\ cs[k] \in ChangeType BY DEF Ordered
<1>2. cs[k].pin \in Nat /\ low <= cs[k].pin BY <1>1, PinsAreNumbers DEF Ordered
<1> DEFINE g == cs[k].pin - low
<1>3. g \in Nat /\ cs[k].pin = low + g BY <1>2
<1>4. k \in 0..Len(cs) /\ k - 1 \in 0..Len(cs) /\ k - 1 # Len(cs) /\ (k - 1) + 1 = k BY <1>1
<1>5. cs[k].pin < low + (g + 1) /\ g + 1 \in Nat BY <1>2
<1>6. Kept(Blocks(low, Till(cs, k), g + 1), Till(cs, k), low, g + 1) BY <1>4, <1>5, TillKept
<1>7. Till(cs, k) = Append(Till(cs, k - 1), cs[k]) /\ Till(cs, k - 1) \in Seq(ChangeType)
  <2> DEFINE j == k - 1
  <2>1. j \in 0..Len(cs) /\ j # Len(cs) /\ j + 1 = k BY <1>4
  <2> HIDE DEF j
  <2>2. Till(cs, j + 1) = Append(Till(cs, j), cs[j + 1]) /\ Till(cs, j) \in Seq(ChangeType) BY <1>1, <2>1, TillIs
  <2> QED BY <2>1, <2>2 DEF j
<1> HIDE DEF g
<1>8. Blocks(low, Till(cs, k), g + 1) = Append(Blocks(low, Till(cs, k - 1), g + 1), Synthetic(cs[k]))
  BY <1>1, <1>3, <1>7, BlocksAdd
<1> QED BY <1>3, <1>6, <1>8 DEF Whole, g

LEMMA BeginsJoined ==
  ASSUME NEW s \in Seq(Entries), NEW t \in Seq(Entries)
  PROVE  Begins(s, s \o t)
BY DEF Begins

LEMMA BeginsTransitive ==
  ASSUME NEW r \in Seq(Entries), NEW s \in Seq(Entries), NEW t \in Seq(Entries), Begins(r, s), Begins(s, t)
  PROVE  Begins(r, t)
BY DEF Begins

LEMMA BlocksBegin ==
  ASSUME NEW cs \in Seq(ChangeType), NEW low \in Nat \ {0}, NEW d \in Nat, NEW e \in Nat, d <= e
  PROVE  Begins(Blocks(low, cs, d), Blocks(low, cs, e))
<1> DEFINE B(g) == Blocks(low, cs, d + g)  N == {g \in Nat : Begins(B(0), B(g))}
<1>1. \A g \in Nat : B(g) \in Seq(Entries)
  <2>1. \A g \in Nat : d + g \in Nat OBVIOUS
  <2> QED BY <2>1, BlocksMore
<1>2. 0 \in N
  <2>1. B(0) \in Seq(Entries) BY <1>1
  <2> HIDE DEF B
  <2> QED BY <2>1 DEF Begins
<1>3. ASSUME NEW g \in Nat, g \in N PROVE g + 1 \in N
  <2>1. d + g \in Nat /\ d + (g + 1) = (d + g) + 1 /\ low + (d + g) \in Nat OBVIOUS
  <2>2. B(g + 1) = B(g) \o Block(cs, low + (d + g)) BY <2>1, BlocksMore
  <2>3. Block(cs, low + (d + g)) \in Seq(Entries) BY <2>1, BlockType
  <2>4. B(0) \in Seq(Entries) /\ B(g) \in Seq(Entries) /\ B(g + 1) \in Seq(Entries)
    <3>1. 0 \in Nat /\ g + 1 \in Nat OBVIOUS
    <3> HIDE DEF B
    <3> QED BY <1>1, <3>1
  <2>5. Begins(B(0), B(g)) BY <1>3
  <2> HIDE DEF B
  <2>6. Begins(B(g), B(g + 1)) BY <2>2, <2>3, <2>4, BeginsJoined
  <2>7. Begins(B(0), B(g + 1)) BY <2>4, <2>5, <2>6, BeginsTransitive
  <2> QED BY <2>7
<1>4. Nat \subseteq N
  <2> HIDE DEF N
  <2> QED BY <1>2, <1>3, Induction
<1>5. e - d \in Nat /\ d + (e - d) = e /\ d + 0 = d OBVIOUS
<1>6. e - d \in N BY <1>4, <1>5
<1>7. Begins(B(0), B(e - d)) BY <1>6
<1> QED BY <1>5, <1>7

\* The history of earlier changes is where that of later ones begins.
LEMMA WholeBegins ==
  ASSUME NEW low \in Nat \ {0}, NEW cs, Ordered(cs, low), NEW j \in 1..Len(cs), NEW k \in 1..Len(cs), j <= k
  PROVE  Begins(Whole(cs, low, j), Whole(cs, low, k))
<1>1. cs \in Seq(ChangeType) /\ Len(cs) \in Nat BY DEF Ordered
<1>2. ASSUME NEW i \in 1..Len(cs) PROVE Whole(cs, low, i) \in Seq(Entries) BY WholeIs DEF Kept
<1>3. ASSUME NEW i \in 1..Len(cs), i + 1 \in 1..Len(cs) PROVE Begins(Whole(cs, low, i), Whole(cs, low, i + 1))
  <2> DEFINE g == cs[i].pin - low + 1  h == cs[i + 1].pin - low + 1  ts == Till(cs, i)
  <2>1. i \in 0..Len(cs) BY <1>1
  <2>2. ts \in Seq(ChangeType) BY <1>1, <2>1, TillIs
  <2>3. g \in Nat /\ h \in Nat /\ g <= h
    <3>1. cs[i].pin <= cs[i + 1].pin BY <1>1, <1>3 DEF Ordered
    <3>2. cs[i] \in ChangeType /\ cs[i + 1] \in ChangeType BY <1>1, <1>3
    <3>3. cs[i].pin \in Nat /\ cs[i + 1].pin \in Nat BY <3>2, PinsAreNumbers
    <3>4. cs[i].pin - low \in Nat BY WholeIs
    <3> DEFINE a == cs[i].pin  b == cs[i + 1].pin
    <3>5. a \in Nat /\ b \in Nat /\ a <= b /\ a - low \in Nat BY <3>1, <3>3, <3>4
    <3> HIDE DEF a, b
    <3>6. a - low + 1 \in Nat /\ b - low + 1 \in Nat /\ a - low + 1 <= b - low + 1 BY <3>5
    <3> QED BY <3>6 DEF a, b
  <2>4. Begins(Blocks(low, ts, g), Blocks(low, ts, h)) BY <2>2, <2>3, BlocksBegin
  <2>5. Whole(cs, low, i + 1) = Append(Blocks(low, ts, h), Synthetic(cs[i + 1]))
    <3>1. (i + 1) - 1 = i OBVIOUS
    <3> QED BY <1>3, <3>1, WholeIs
  <2>6. Whole(cs, low, i) = Blocks(low, ts, g) BY DEF Whole
  <2> DEFINE s == Blocks(low, ts, h)  e == Synthetic(cs[i + 1])
  <2>7. s \in Seq(Entries) BY <2>2, <2>3, BlocksMore
  <2>8. e \in Entries
    <3>1. cs[i + 1] \in ChangeType BY <1>1, <1>3
    <3> QED BY <3>1, EntryTypes
  <2> HIDE DEF s, e
  <2>9. Begins(s, Append(s, e)) BY <2>7, <2>8 DEF Begins
  <2>10. Append(s, e) \in Seq(Entries) BY <2>7, <2>8
  <2>11. Blocks(low, ts, g) \in Seq(Entries) BY <2>2, <2>3, BlocksMore
  <2> HIDE DEF ts, g, h
  <2>12. Begins(Blocks(low, ts, g), Append(s, e)) BY <2>4, <2>7, <2>9, <2>10, <2>11, BeginsTransitive DEF s
  <2> QED BY <2>5, <2>6, <2>12 DEF s, e
<1> DEFINE N == {d \in 0..k - j : Begins(Whole(cs, low, j), Whole(cs, low, j + d))}
<1>4. 0 \in N
  <2>1. j + 0 = j OBVIOUS
  <2>2. Whole(cs, low, j) \in Seq(Entries) BY <1>2
  <2> DEFINE w == Whole(cs, low, j)
  <2> HIDE DEF w
  <2>3. Begins(w, w) BY <2>2 DEF Begins, w
  <2> QED BY <2>1, <2>3 DEF w
<1>5. ASSUME NEW d \in 1..k - j, d - 1 \in N PROVE d \in N
  <2>1. j + (d - 1) \in 1..Len(cs) /\ (j + (d - 1)) + 1 = j + d /\ j + d \in 1..Len(cs) BY <1>1
  <2>2. Begins(Whole(cs, low, j + (d - 1)), Whole(cs, low, j + d)) BY <1>3, <2>1
  <2>3. Begins(Whole(cs, low, j), Whole(cs, low, j + (d - 1))) BY <1>5
  <2>4. Begins(Whole(cs, low, j), Whole(cs, low, j + d)) BY <1>2, <2>1, <2>2, <2>3, BeginsTransitive
  <2> QED BY <2>4
<1>6. 0..k - j \subseteq N
  <2> HIDE DEF N
  <2>1. k - j \in Nat OBVIOUS
  <2> QED BY <1>4, <1>5, <2>1, AlongSequence
<1>7. k - j \in N /\ j + (k - j) = k
  <2>1. k - j \in 0..k - j OBVIOUS
  <2> QED BY <1>6, <2>1
<1>8. Begins(Whole(cs, low, j), Whole(cs, low, j + (k - j))) BY <1>7
<1> QED BY <1>7, <1>8

At(l) == IF mode = "lock" THEN News(l) ELSE FileLog(l)
Low(n) == IF ImportCommit(Prefix(n)) = Absent THEN 1 ELSE ImportCommit(Prefix(n))
ChangesThen(n) == Changes(Prefix(n), log[n])

LEMMA PrefixIs ==
  ASSUME HistoryTypeOK, NEW n \in 1..Len(log)
  PROVE  /\ Prefix(n) \in Seq(Trees) /\ Len(Prefix(n)) = n /\ n \in Nat /\ n # 0 /\ Prefix(n) # <<>>
         /\ \A i \in 1..n : Prefix(n)[i] = log[i]
         /\ \A i \in 0..n : FileAt(Prefix(n), i) = FileAt(log, i)
         /\ Last(Prefix(n)) = log[n] /\ log[n] \in Trees
         /\ n = Len(log) => Prefix(n) = log
<1>1. log \in Seq(Trees) BY DEF HistoryTypeOK
<1>2. Prefix(n) \in Seq(Trees) /\ Len(Prefix(n)) = n /\ n \in Nat /\ n # 0 /\ \A i \in 1..n : Prefix(n)[i] = log[i]
  BY <1>1 DEF Prefix
<1>3. \A i \in 0..n : FileAt(Prefix(n), i) = FileAt(log, i) BY <1>1, <1>2 DEF FileAt
<1>4. Prefix(n) # <<>> BY <1>2
<1>5. n \in 1..n /\ log[n] \in Trees BY <1>1, <1>2
<1>6. Last(Prefix(n)) = log[n] BY <1>2, <1>5 DEF Last
<1>7. n = Len(log) => Prefix(n) = log BY <1>1 DEF Prefix
<1> QED BY <1>2, <1>3, <1>4, <1>5, <1>6, <1>7

LEMMA FilesAre ==
  ASSUME HistoryTypeOK, NEW i \in 1..Len(log), FileAt(log, i) # Absent
  PROVE  /\ FileAt(log, i) = log[i].file /\ FileAt(log, i).pin \in 1..Tip
         /\ FileAt(log, i).imp \in 1..Tip \/ FileAt(log, i).imp = Absent
<1>1. log \in Seq(Trees) BY DEF HistoryTypeOK
<1>2. log[i] \in Trees /\ FileAt(log, i) = log[i].file BY <1>1 DEF FileAt
<1>3. FileAt(log, i) \in TrackedFiles BY <1>2 DEF Trees
<1> QED BY <1>2, <1>3 DEF TrackedFiles

\* From a commit that has the file on, it stays, and its pin never falls.
LEMMA ForwardFrom ==
  ASSUME HistoryTypeOK, NEW m \in 1..Len(log), Forward(m), NEW i \in 1..m, FileAt(log, i) # Absent, NEW j \in i..m
  PROVE  /\ FileAt(log, j) # Absent /\ FileAt(log, i).pin <= FileAt(log, j).pin
         /\ FileAt(log, j).imp = FileAt(log, i).imp
         /\ FileAt(log, j).imp # Absent => FileAt(log, j).pin >= FileAt(log, j).imp
<1> DEFINE F(k) == FileAt(log, k)
           Kin(f, g) == f # Absent /\ g.pin <= f.pin /\ f.imp = g.imp /\ (f.imp # Absent => f.pin >= f.imp)
           N == {d \in 0..m - i : Kin(F(i + d), F(i))}
<1>1. Len(log) \in Nat BY DEF HistoryTypeOK
<1>2. \A k \in 1..m : \/ F(k) = Absent /\ F(k - 1) = Absent
                      \/ /\ F(k) # Absent /\ (F(k).imp # Absent => F(k).pin >= F(k).imp)
                         /\ F(k - 1) # Absent => F(k).pin >= F(k - 1).pin /\ F(k).imp = F(k - 1).imp
  BY DEF Forward
<1>3. \A k \in 1..m : F(k) # Absent => F(k).pin \in Nat
  <2> SUFFICES ASSUME NEW k \in 1..m, F(k) # Absent PROVE F(k).pin \in Nat OBVIOUS
  <2>1. k \in 1..Len(log) BY <1>1
  <2>2. F(k).pin \in 1..Tip BY <2>1, FilesAre
  <2> QED BY <2>2, HistoryAssumption
<1>4. F(i) # Absent OBVIOUS
<1> HIDE DEF F
<1>5. 0 \in N
  <2>1. i + 0 = i /\ 0 \in 0..m - i BY <1>1
  <2>2. Kin(F(i), F(i)) BY <1>2, <1>3, <1>4
  <2> HIDE DEF Kin
  <2> QED BY <2>1, <2>2
<1>6. ASSUME NEW d \in 1..m - i, d - 1 \in N PROVE d \in N
  <2> DEFINE k == i + d
  <2>1. k \in 1..m /\ k - 1 = i + (d - 1) /\ k - 1 \in 1..m /\ i \in 1..m /\ d \in 0..m - i BY <1>1
  <2>2. Kin(F(k - 1), F(i)) BY <1>6, <2>1
  <2> HIDE DEF k
  <2>3. F(k) # Absent /\ (F(k).imp # Absent => F(k).pin >= F(k).imp) /\ F(k).pin >= F(k - 1).pin /\ F(k).imp = F(k - 1).imp
    BY <1>2, <2>1, <2>2
  <2>4. F(k).pin \in Nat /\ F(k - 1).pin \in Nat /\ F(i).pin \in Nat BY <1>3, <1>4, <2>1, <2>2, <2>3
  <2>5. Kin(F(k), F(i)) BY <2>2, <2>3, <2>4
  <2> HIDE DEF Kin
  <2> QED BY <2>1, <2>5 DEF k
<1>7. 0..m - i \subseteq N
  <2> HIDE DEF N
  <2>1. m - i \in Nat BY <1>1
  <2> QED BY <1>5, <1>6, <2>1, AlongSequence
<1>8. j - i \in N /\ i + (j - i) = j
  <2>1. j - i \in 0..m - i /\ i + (j - i) = j BY <1>1
  <2> QED BY <1>7, <2>1
<1>9. Kin(F(j), F(i))
  <2> HIDE DEF Kin
  <2> QED BY <1>8
<1> QED BY <1>9 DEF F

LEMMA ForwardReads == ASSUME HistoryTypeOK, NEW n \in 1..Len(log), Forward(n) PROVE CanBeRead(Prefix(n))
<1> DEFINE l == Prefix(n)
<1>1. l \in Seq(Trees) /\ Len(l) = n /\ n \in Nat /\ \A i \in 0..n : FileAt(l, i) = FileAt(log, i) BY PrefixIs
<1> HIDE DEF l
<1> SUFFICES ASSUME NEW k \in DOMAIN FileLog(l), FileAt(l, FileLog(l)[k]) = Absent PROVE FALSE BY DEF CanBeRead, l
<1>2. k \in 1..Len(FileLog(l)) BY <1>1, FileLogPlaces
<1> DEFINE i == FileLog(l)[k]
<1>3. i \in 1..n /\ i \in Touched(l) BY <1>1, <1>2, FileLogPlaces
<1> HIDE DEF i
<1>4. i \in 0..n /\ i - 1 \in 0..n /\ i \in 1..n BY <1>1, <1>3
<1>5. FileAt(log, i) # FileAt(log, i - 1) BY <1>1, <1>3, <1>4 DEF Touched
<1>6. FileAt(log, i) = Absent BY <1>1, <1>4 DEF i
<1> QED BY <1>4, <1>5, <1>6 DEF Forward

\* The changes of a log whose last commit leaves nothing to do.
LEMMA ChangesThenAre ==
  ASSUME HistoryTypeOK, NEW n \in 1..Len(log), Forward(n), Updated(log[n])
  PROVE  /\ ChangesThen(n) = ChangesAt(Prefix(n), At(Prefix(n)))
         /\ ChangesThen(n) \in Seq(ChangeType) /\ Len(ChangesThen(n)) = Len(At(Prefix(n)))
         /\ Increasing(At(Prefix(n)), n)
         /\ \A i \in 1..Len(At(Prefix(n))) : FileAt(Prefix(n), At(Prefix(n))[i]) # Absent
<1> DEFINE l == Prefix(n)
<1>1. l \in Seq(Trees) /\ Len(l) = n /\ l # <<>> /\ Last(l) = log[n] /\ n \in Nat /\ n # 0 BY PrefixIs
<1>2. CanBeRead(l) BY ForwardReads
<1>3. FileAt(l, Len(l)) = log[n].file
  <2>1. n \in 1..n /\ \A i \in 1..n : l[i] = log[i] BY <1>1, PrefixIs
  <2> HIDE DEF l
  <2> QED BY <1>1, <2>1 DEF FileAt
<1>4. ChangesThen(n) = Changes(l, log[n]) BY DEF ChangesThen
<1>5. log[n].file # Absent BY DEF Updated
<1> HIDE DEF l
<1>6. Increasing(At(l), n) BY <1>1, NewsIncrease DEF At
<1>7. \A i \in 1..Len(FileLog(l)) : FileAt(l, FileLog(l)[i]) # Absent BY <1>1, <1>2, FileLogPlaces DEF CanBeRead
<1>8. \A i \in 1..Len(At(l)) : FileAt(l, At(l)[i]) # Absent
  <2>1. ASSUME NEW i \in 1..Len(News(l)) PROVE FileAt(l, News(l)[i]) # Absent
    <3>1. PICK j \in 1..Len(FileLog(l)) : News(l)[i] = FileLog(l)[j] BY <1>1, NewsPlaces
    <3> QED BY <1>7, <3>1
  <2> QED BY <1>7, <2>1 DEF At
<1>9. ChangesAt(l, At(l)) \in Seq(ChangeType) /\ Len(ChangesAt(l, At(l))) = Len(At(l))
  BY <1>1, <1>6, <1>8, ChangesAtType DEF ChangeType
<1>10. CASE mode = "lock"
  <2>1. FingerprintChanges(l) = ChangesAt(l, News(l)) /\ FingerprintChanges(l) # Err /\ FingerprintChanges(l) \in Seq(ChangeType)
    BY <1>1, <1>2, ReadChanges DEF ChangeType
  <2>2. DirtyChange(l, log[n]) = <<>> BY <1>1, <1>10 DEF DirtyChange, Updated
  <2>3. Changes(l, log[n]) = FingerprintChanges(l) \o <<>>
    BY <1>1, <1>3, <1>5, <1>10, <2>1, <2>2 DEF Changes, LockChanges
  <2>4. Changes(l, log[n]) = ChangesAt(l, News(l)) BY <2>1, <2>3, ConcatNothing
  <2> QED BY <1>4, <1>6, <1>8, <1>9, <1>10, <2>4 DEF At, l
<1>11. CASE mode # "lock"
  <2>1. DOMAIN FileLog(l) = 1..Len(FileLog(l)) BY <1>1, FileLogPlaces
  <2>2. UpstreamCommitChanges(l) = ChangesAt(l, FileLog(l)) BY <1>7, <2>1 DEF UpstreamCommitChanges, ChangesAt
  <2> QED BY <1>4, <1>6, <1>8, <1>9, <1>11, <2>2 DEF At, Changes, l
<1> QED BY <1>10, <1>11

LEMMA ChangeIs ==
  ASSUME HistoryTypeOK, NEW n \in 1..Len(log), Forward(n), Updated(log[n]), NEW i \in 1..Len(ChangesThen(n))
  PROVE  /\ ChangesThen(n)[i] = [at |-> At(Prefix(n))[i], pin |-> FileAt(log, At(Prefix(n))[i]).pin]
         /\ At(Prefix(n))[i] \in 1..n /\ FileAt(log, At(Prefix(n))[i]) # Absent
         /\ i \in 1..Len(At(Prefix(n)))
<1> DEFINE l == Prefix(n)  s == At(l)
<1>1. i \in 1..Len(s) /\ DOMAIN s = 1..Len(s) /\ s[i] \in 1..n BY ChangesThenAre DEF Increasing
<1>2. FileAt(l, s[i]) # Absent BY <1>1, ChangesThenAre
<1>3. ChangesThen(n) = ChangesAt(l, s) BY ChangesThenAre
<1>4. FileAt(l, s[i]) = FileAt(log, s[i])
  <2>1. s[i] \in 0..n BY <1>1, PrefixIs
  <2> QED BY <2>1, PrefixIs
<1>5. ChangesAt(l, s)[i] = [at |-> s[i], pin |-> FileAt(l, s[i]).pin] BY <1>1 DEF ChangesAt
<1> QED BY <1>1, <1>2, <1>3, <1>4, <1>5

LEMMA LowIs ==
  ASSUME HistoryTypeOK, NEW n \in 1..Len(log), Updated(log[n])
  PROVE  /\ Low(n) \in Nat \ {0}
         /\ Low(n) = IF mode = "lock" /\ FileAt(log, n).imp # Absent THEN FileAt(log, n).imp ELSE 1
<1>1. FileAt(log, n) # Absent /\ FileAt(log, n) = log[n].file
  <2>1. n # 0 BY PrefixIs
  <2> QED BY <2>1 DEF Updated, FileAt
<1>2. ImportCommit(Prefix(n)) = IF mode = "lock" THEN FileAt(log, n).imp ELSE Absent BY <1>1, PrefixIs DEF ImportCommit
<1>3. FileAt(log, n).imp \in 1..Tip \/ FileAt(log, n).imp = Absent BY <1>1, FilesAre
<1> QED BY <1>2, <1>3, HistoryAssumption DEF Low

\* They are in order, from the import commit to the pin of that commit.
LEMMA ChangesOrdered ==
  ASSUME HistoryTypeOK, NEW n \in 1..Len(log), Forward(n), Updated(log[n])
  PROVE  /\ Ordered(ChangesThen(n), Low(n))
         /\ \A i \in 1..Len(ChangesThen(n)) : ChangesThen(n)[i].pin <= log[n].file.pin
<1> DEFINE cs == ChangesThen(n)  s == At(Prefix(n))
<1>1. cs \in Seq(ChangeType) /\ n \in Nat /\ n # 0 /\ Len(log) \in Nat BY ChangesThenAre, PrefixIs DEF HistoryTypeOK
<1>2. FileAt(log, n) = log[n].file BY <1>1 DEF FileAt
<1>3. ASSUME NEW i \in 1..Len(cs)
      PROVE  /\ cs[i].at = s[i] /\ cs[i].pin = FileAt(log, s[i]).pin /\ s[i] \in 1..n /\ s[i] \in 1..Len(log)
             /\ FileAt(log, s[i]) # Absent /\ i \in 1..Len(s)
    <2>1. /\ cs[i] = [at |-> s[i], pin |-> FileAt(log, s[i]).pin]
          /\ s[i] \in 1..n /\ FileAt(log, s[i]) # Absent /\ i \in 1..Len(s)
      BY ChangeIs
    <2> HIDE DEF cs, s
    <2> QED BY <1>1, <2>1
<1> HIDE DEF cs, s
<1>4. ASSUME NEW i \in 1..Len(cs) PROVE Low(n) <= cs[i].pin /\ cs[i].pin <= log[n].file.pin
  <2> DEFINE a == s[i]
  <2>1. a \in 1..n /\ FileAt(log, a) # Absent /\ cs[i].pin = FileAt(log, a).pin /\ a \in 1..Len(log) BY <1>3
  <2> HIDE DEF a
  <2>2. n \in a..n /\ a \in a..n BY <1>1, <2>1
  <2>3. FileAt(log, a).pin <= FileAt(log, n).pin /\ FileAt(log, n).imp = FileAt(log, a).imp BY <2>1, <2>2, ForwardFrom
  <2>4. FileAt(log, a).imp # Absent => FileAt(log, a).pin >= FileAt(log, a).imp BY <2>1, <2>2, ForwardFrom
  <2>5. FileAt(log, a).pin \in 1..Tip BY <2>1, FilesAre
  <2>6. Low(n) <= FileAt(log, a).pin
    <3>1. CASE mode = "lock" /\ FileAt(log, n).imp # Absent
      <4>1. Low(n) = FileAt(log, a).imp /\ FileAt(log, a).imp # Absent BY <2>3, <3>1, LowIs
      <4>2. FileAt(log, a).imp \in 1..Tip BY <2>1, <4>1, FilesAre
      <4> QED BY <2>4, <2>5, <4>1, <4>2, HistoryAssumption
    <3>2. CASE ~(mode = "lock" /\ FileAt(log, n).imp # Absent)
      <4>1. Low(n) = 1 BY <3>2, LowIs
      <4> QED BY <2>5, <4>1, HistoryAssumption
    <3> QED BY <3>1, <3>2
  <2> QED BY <1>2, <2>1, <2>3, <2>6
<1>5. ASSUME NEW i \in 1..Len(cs), NEW j \in 1..Len(cs), i < j PROVE cs[i].pin <= cs[j].pin /\ cs[i].at < cs[j].at
  <2>1. Increasing(s, n) BY ChangesThenAre DEF s
  <2>2. s[i] < s[j] BY <1>3, <1>5, <2>1 DEF Increasing
  <2> DEFINE a == s[i]  b == s[j]
  <2>3. a \in 1..n /\ b \in 1..n /\ FileAt(log, a) # Absent /\ a < b BY <1>3, <2>2
  <2>4. cs[i].pin = FileAt(log, a).pin /\ cs[j].pin = FileAt(log, b).pin /\ cs[i].at = a /\ cs[j].at = b BY <1>3
  <2> HIDE DEF a, b
  <2>5. b \in a..n BY <2>3
  <2>6. FileAt(log, a).pin <= FileAt(log, b).pin BY <2>3, <2>5, ForwardFrom
  <2> QED BY <2>3, <2>4, <2>6
<1>6. Ordered(cs, Low(n)) /\ \A i \in 1..Len(cs) : cs[i].pin <= log[n].file.pin BY <1>1, <1>4, <1>5 DEF Ordered
<1> QED BY <1>6 DEF cs

LEMMA EntriesAreNoErr == Err \notin Seq(Entries) /\ Err \notin Seq(ChangeType) /\ Err \notin Seq(Nat)
  BY HistoryAssumption DEF Entries, ChangeType

\* The history that was committed, where the pin never fell.
LEMMA CommittedIs ==
  ASSUME HistoryTypeOK, NEW n \in 1..Len(log), Forward(n), Updated(log[n])
  PROVE  Committed(n) = IF ChangesThen(n) = <<>> THEN <<>> ELSE Whole(ChangesThen(n), Low(n), Len(ChangesThen(n)))
<1> DEFINE cs == ChangesThen(n)  low == Low(n)  head == log[n].file.pin  p == Last(cs).pin
           ups == UpstreamCommits(head, ImportCommit(Prefix(n)), p)
<1>1. cs \in Seq(ChangeType) /\ cs # Err BY ChangesThenAre, EntriesAreNoErr
<1>2. Changes(Prefix(n), log[n]) = cs BY DEF ChangesThen
<1>3. CASE cs = <<>>
  <2> HIDE DEF cs, ups, p
  <2>1. Committed(n) = <<>> BY <1>1, <1>2, <1>3 DEF Committed, Sequence
  <2> QED BY <1>3, <2>1 DEF cs
<1>4. CASE cs # <<>>
  <2> DEFINE k == Len(cs)
  <2>1. k \in 1..Len(cs) /\ p = cs[k].pin /\ k \in 0..Len(cs) BY <1>1, <1>4 DEF Last
  <2>2. cs[k].pin <= head /\ low <= cs[k].pin /\ Ordered(cs, low) BY <2>1, ChangesOrdered DEF Ordered
  <2>3. low \in Nat \ {0} BY LowIs
  <2>4. cs[k].pin \in Nat /\ head \in Nat
    <3>1. cs[k] \in ChangeType BY <1>1, <2>1
    <3>2. FileAt(log, n) = log[n].file /\ log[n].file # Absent
      <4>1. n # 0 BY PrefixIs
      <4> QED BY <4>1 DEF FileAt, Updated
    <3>3. head \in 1..Tip BY <3>2, FilesAre
    <3> QED BY <3>1, <3>3, PinsAreNumbers, HistoryAssumption
  <2>5. low = IF ImportCommit(Prefix(n)) = Absent THEN 1 ELSE ImportCommit(Prefix(n)) BY DEF Low
  <2>6. Committed(n) = IF ups = Err THEN Err ELSE Interleaved(ups, cs)
    <3> HIDE DEF cs, p
    <3> QED BY <1>1, <1>2, <1>4 DEF Committed, Sequence, p
  <2> HIDE DEF cs, k, low, head
  <2>7. ~(p > head \/ p < low) BY <2>1, <2>2, <2>3, <2>4
  <2>8. ups = [i \in 1 .. p - low + 1 |-> low + i - 1] BY <2>5, <2>7 DEF UpstreamCommits
  <2>9. ups \in Seq(Nat)
    <3>1. p - low + 1 \in Nat /\ low \in Nat BY <2>1, <2>2, <2>3, <2>4
    <3> HIDE DEF p, ups
    <3>2. \A i \in 1 .. p - low + 1 : low + i - 1 \in Nat BY <3>1
    <3> QED BY <2>8, <3>1, <3>2
  <2>10. ups # Err BY <2>9, EntriesAreNoErr
  <2>11. Interleaved(ups, cs) = Blocks(low, cs, p - low + 1)
    <3>1. low <= Last(cs).pin BY <2>1, <2>2
    <3> HIDE DEF ups
    <3>2. Interleaved([i \in 1 .. Last(cs).pin - low + 1 |-> low + i - 1], cs) = Blocks(low, cs, Last(cs).pin - low + 1)
      BY <1>1, <1>4, <2>3, <3>1, InterleavedIs
    <3> QED BY <2>8, <3>2
  <2>12. Whole(cs, low, k) = Blocks(low, cs, p - low + 1)
    <3>1. Till(cs, k) = cs BY <1>1, <2>1, TillIs DEF k
    <3> QED BY <2>1, <3>1 DEF Whole
  <2>13. Committed(n) = Whole(cs, low, k) BY <2>6, <2>10, <2>11, <2>12
  <2> QED BY <1>4, <2>13 DEF cs, low, k
<1> QED BY <1>3, <1>4

\* LaterOn changes begin with earlier ones.
LEMMA ChangesBegin ==
  ASSUME HistoryTypeOK, NEW m \in 1..Len(log), NEW n \in 1..m, Forward(m), Updated(log[n]), Updated(log[m])
  PROVE  /\ n \in 1..Len(log) /\ Forward(n)
         /\ Len(ChangesThen(n)) <= Len(ChangesThen(m))
         /\ \A i \in 1..Len(ChangesThen(n)) : ChangesThen(n)[i] = ChangesThen(m)[i]
         /\ Low(n) = Low(m)
<1>1. Len(log) \in Nat BY DEF HistoryTypeOK
<1>2. n \in 1..Len(log) /\ m \in Nat /\ n \in Nat BY <1>1
<1>3. Forward(n)
  <2>1. \A i \in 1..n : i \in 1..m BY <1>2
  <2> QED BY <2>1 DEF Forward
<1>4. Low(n) = Low(m)
  <2>1. FileAt(log, n) # Absent
    <3>1. n # 0 BY <1>2
    <3> QED BY <3>1 DEF Updated, FileAt
  <2>2. m \in n..m BY <1>2
  <2>3. FileAt(log, m).imp = FileAt(log, n).imp BY <2>1, <2>2, ForwardFrom
  <2> QED BY <1>2, <2>3, LowIs
<1> DEFINE l == Prefix(n)  r == Prefix(m)
<1>5. l \in Seq(Trees) /\ Len(l) = n /\ (\A i \in 1..n : l[i] = log[i]) BY <1>2, PrefixIs
<1>6. r \in Seq(Trees) /\ Len(r) = m /\ (\A i \in 1..m : r[i] = log[i]) BY PrefixIs
<1> HIDE DEF l, r
<1>7. Begins(l, r) BY <1>2, <1>5, <1>6 DEF Begins
<1>8. Len(At(l)) <= Len(At(r)) /\ At(l) = SubSeq(At(r), 1, Len(At(l))) /\ At(r) \in Seq(Nat) /\ At(l) \in Seq(Nat)
  <2>1. CASE mode = "lock"
    <3> DEFINE t == FileLog(r)  S == Other(r)
    <3>1. t \in Seq(Nat) /\ Len(FileLog(l)) \in 0..Len(t)
      <4>1. FileLog(l) \in Seq(Nat) /\ FileLog(r) \in Seq(Nat) BY <1>5, <1>6, FileLogPlaces
      <4>2. Len(FileLog(l)) <= Len(FileLog(r)) BY <1>5, <1>6, <1>7, LogBegins
      <4>3. Len(FileLog(l)) \in Nat /\ Len(FileLog(r)) \in Nat BY <4>1
      <4> QED BY <4>1, <4>2, <4>3
    <3>2. News(l) = Picked(t, S)[Len(FileLog(l))] /\ News(r) = Pick(t, S) BY <1>5, <1>6, <1>7, LogBegins DEF News
    <3> HIDE DEF t, S
    <3>3. Len(News(l)) <= Len(News(r)) /\ News(l) = SubSeq(News(r), 1, Len(News(l))) BY <3>1, <3>2, PickedPrefix
    <3>4. News(l) \in Seq(Nat) /\ News(r) \in Seq(Nat) BY <1>5, <1>6, NewsPlaces
    <3> QED BY <2>1, <3>3, <3>4 DEF At
  <2>2. CASE mode # "lock"
    <3>1. Len(FileLog(l)) <= Len(FileLog(r)) /\ FileLog(l) = SubSeq(FileLog(r), 1, Len(FileLog(l))) BY <1>5, <1>6, <1>7, LogBegins
    <3>2. FileLog(l) \in Seq(Nat) /\ FileLog(r) \in Seq(Nat) BY <1>5, <1>6, FileLogPlaces
    <3> QED BY <2>2, <3>1, <3>2 DEF At
  <2> QED BY <2>1, <2>2
<1>9. \A i \in 1..Len(At(l)) : At(l)[i] = At(r)[i]
  <2> DEFINE a == At(l)  b == At(r)
  <2>1. Len(a) <= Len(b) /\ a = SubSeq(b, 1, Len(a)) /\ b \in Seq(Nat) /\ a \in Seq(Nat) BY <1>8
  <2> HIDE DEF a, b
  <2>2. \A i \in 1..Len(a) : SubSeq(b, 1, Len(a))[i] = b[i] BY <2>1
  <2>3. \A i \in 1..Len(a) : a[i] = b[i] BY <2>1, <2>2
  <2> QED BY <2>3 DEF a, b
<1>10. Len(ChangesThen(n)) = Len(At(l)) /\ Len(ChangesThen(m)) = Len(At(r)) BY <1>2, <1>3, ChangesThenAre DEF l, r
<1>11. ASSUME NEW i \in 1..Len(ChangesThen(n)) PROVE ChangesThen(n)[i] = ChangesThen(m)[i]
  <2>1. i \in 1..Len(ChangesThen(m)) /\ i \in 1..Len(At(l)) BY <1>8, <1>10
  <2>2. ChangesThen(n)[i] = [at |-> At(l)[i], pin |-> FileAt(log, At(l)[i]).pin] BY <1>2, <1>3, ChangeIs DEF l
  <2>3. ChangesThen(m)[i] = [at |-> At(r)[i], pin |-> FileAt(log, At(r)[i]).pin] BY <2>1, ChangeIs DEF r
  <2> QED BY <1>9, <2>1, <2>2, <2>3
<1> QED BY <1>2, <1>3, <1>4, <1>8, <1>10, <1>11

LEMMA AppendOnly == HistoryTypeOK => HistoryIsAppendOnly
<1> SUFFICES ASSUME HistoryTypeOK, NEW n \in 1..Len(log), Forward(Len(log)), Updated(log[n]), Updated(log[Len(log)])
             PROVE  IsPrefix(Committed(n), Committed(Len(log)))
  BY DEF HistoryIsAppendOnly
<1> DEFINE m == Len(log)  cs == ChangesThen(m)  ds == ChangesThen(n)  low == Low(m)
<1>1. m \in Nat BY DEF HistoryTypeOK
<1>2. m \in 1..Len(log) /\ n \in 1..m BY <1>1
<1>3. n \in 1..Len(log) /\ Forward(n) /\ Len(ds) <= Len(cs) /\ (\A i \in 1..Len(ds) : ds[i] = cs[i]) /\ Low(n) = low
  BY <1>2, ChangesBegin
<1>4. cs \in Seq(ChangeType) /\ ds \in Seq(ChangeType) BY <1>2, <1>3, ChangesThenAre
<1>5. low \in Nat \ {0} /\ Ordered(cs, low) /\ Ordered(ds, low) BY <1>2, <1>3, LowIs, ChangesOrdered
<1>6. Committed(m) = (IF cs = <<>> THEN <<>> ELSE Whole(cs, low, Len(cs))) BY <1>2, CommittedIs
<1>7. Committed(n) = (IF ds = <<>> THEN <<>> ELSE Whole(ds, low, Len(ds))) BY <1>2, <1>3, CommittedIs
<1> HIDE DEF cs, ds, low, m
<1>8. Committed(m) \in Seq(Entries)
  <2>1. CASE cs = <<>> BY <1>6, <2>1
  <2>2. CASE cs # <<>>
    <3>1. Len(cs) \in 1..Len(cs) BY <1>4, <2>2
    <3> QED BY <1>5, <1>6, <2>2, <3>1, WholeIs DEF Kept
  <2> QED BY <2>1, <2>2
<1>9. Begins(Committed(n), Committed(m)) /\ Committed(n) \in Seq(Entries)
  <2>1. CASE ds = <<>>
    <3>1. Committed(n) = <<>> BY <1>7, <2>1
    <3>2. <<>> \in Seq(Entries) /\ Len(<<>>) = 0 OBVIOUS
    <3>3. Committed(n) \in Seq(Entries) /\ Len(Committed(n)) = 0 BY <3>1, <3>2, Zenon
    <3> QED BY <1>8, <3>3 DEF Begins
  <2>2. CASE ds # <<>>
    <3> DEFINE k == Len(ds)
    <3>1. k \in 1..Len(ds) /\ k \in 1..Len(cs) /\ Len(cs) \in 1..Len(cs) /\ k <= Len(cs) /\ cs # <<>>
          /\ k \in 0..Len(ds) /\ k \in 0..Len(cs)
      BY <1>3, <1>4, <2>2
    <3>2. Whole(ds, low, k) = Whole(cs, low, k)
      <4>1. Till(cs, k) = Till(ds, k)
        <5> DEFINE a == Till(cs, k)  b == Till(ds, k)
        <5>1. a \in Seq(ChangeType) /\ Len(a) = k /\ \A i \in 1..k : a[i] = cs[i] BY <1>4, <3>1, TillIs
        <5>2. b \in Seq(ChangeType) /\ Len(b) = k /\ \A i \in 1..k : b[i] = ds[i] BY <1>4, <3>1, TillIs
        <5>3. \A i \in 1..k : cs[i] = ds[i] BY <1>3
        <5> HIDE DEF a, b, k
        <5>4. a = b BY <5>1, <5>2, <5>3
        <5> QED BY <5>4 DEF a, b, k
      <4>2. cs[k] = ds[k] BY <1>3, <3>1
      <4> QED BY <4>1, <4>2 DEF Whole
    <3>3. Begins(Whole(cs, low, k), Whole(cs, low, Len(cs))) BY <1>5, <3>1, WholeBegins
    <3>4. Whole(ds, low, k) \in Seq(Entries) BY <1>5, <3>1, WholeIs DEF Kept
    <3>5. Committed(n) = Whole(cs, low, k) /\ Committed(m) = Whole(cs, low, Len(cs)) BY <1>6, <1>7, <2>2, <3>1, <3>2
    <3> QED BY <3>2, <3>3, <3>4, <3>5
  <2> QED BY <2>1, <2>2
<1> DEFINE a == Committed(n)  b == Committed(m)
<1>10. a \in Seq(Entries) /\ b \in Seq(Entries) /\ Len(a) <= Len(b) /\ \A i \in 1..Len(a) : a[i] = b[i]
  BY <1>8, <1>9 DEF Begins
<1> HIDE DEF a, b
<1>11. SubSeq(a, 1, Len(a)) = SubSeq(b, 1, Len(a)) BY <1>10
<1>12. IsPrefix(a, b) BY <1>10, <1>11 DEF IsPrefix
<1> QED BY <1>12 DEF a, b, m

LEMMA NoneLost == HistoryTypeOK => NothingIsLost
<1> DEFINE m == Len(log)  s == Committed(m)  cs == Changes(log, log[m])
           low == IF ImportCommit(log) = Absent THEN 1 ELSE ImportCommit(log)
           place(c) == {k \in DOMAIN s : s[k] = Synthetic(c)}
           ups(k)   == {s[j].id : j \in {j \in 1..k : s[j].kind = "upstream"}}
<1> SUFFICES ASSUME HistoryTypeOK, m > 0, Forward(m), Updated(log[m]), cs # <<>>
             PROVE  /\ s # Err /\ Last(s) = Synthetic(Last(cs))
                    /\ \A c \in ToSet(cs) : \E k \in DOMAIN s : place(c) = {k} /\ ups(k) = low .. c.pin
                    /\ Pick(s, {k \in DOMAIN s : s[k].kind = "synthetic"}) = [k \in DOMAIN cs |-> Synthetic(cs[k])]
  BY DEF NothingIsLost
<1>1. m \in Nat BY DEF HistoryTypeOK
<1>2. m \in 1..Len(log) BY <1>1
<1>3. cs = ChangesThen(m) /\ low = Low(m) BY <1>2, PrefixIs DEF ChangesThen, Low
<1>4. cs \in Seq(ChangeType) /\ low \in Nat \ {0} /\ Ordered(cs, low)
  <2>1. ChangesThen(m) \in Seq(ChangeType) BY <1>2, ChangesThenAre
  <2>2. Ordered(ChangesThen(m), Low(m)) BY <1>2, ChangesOrdered
  <2>3. Low(m) \in Nat \ {0} BY <1>2, LowIs
  <2> HIDE DEF cs, low, m
  <2> QED BY <1>3, <2>1, <2>2, <2>3
<1>5. s = Whole(cs, low, Len(cs))
  <2>1. Committed(m) = IF ChangesThen(m) = <<>> THEN <<>> ELSE Whole(ChangesThen(m), Low(m), Len(ChangesThen(m)))
    BY <1>2, CommittedIs
  <2> HIDE DEF cs, low, m
  <2> QED BY <1>3, <2>1
<1> DEFINE k == Len(cs)
<1> HIDE DEF cs, low, m
<1>6. k \in 1..Len(cs) /\ k \in 0..Len(cs) /\ Last(cs) = cs[k] BY <1>4 DEF Last
<1>7. Till(cs, k) = cs BY <1>4, <1>6, TillIs
<1>8. /\ Kept(Whole(cs, low, k), cs, low, cs[k].pin - low + 1) /\ cs[k].pin - low \in Nat
      /\ Whole(cs, low, k) = Append(Blocks(low, Till(cs, k - 1), cs[k].pin - low + 1), Synthetic(cs[k]))
  BY <1>4, <1>6, <1>7, WholeIs
<1>9. Kept(s, cs, low, cs[k].pin - low + 1) /\ s \in Seq(Entries) BY <1>5, <1>8 DEF Kept
<1>10. s # Err BY <1>9, EntriesAreNoErr
<1>11. Last(s) = Synthetic(Last(cs))
  <2> DEFINE b == Blocks(low, Till(cs, k - 1), cs[k].pin - low + 1)  e == Synthetic(cs[k])
  <2>1. s = Append(b, e) BY <1>5, <1>8
  <2>2. b \in Seq(Entries)
    <3>1. k - 1 \in 0..Len(cs) /\ cs[k].pin - low + 1 \in Nat BY <1>6, <1>8
    <3>2. Till(cs, k - 1) \in Seq(ChangeType) BY <1>4, <3>1, TillIs
    <3> QED BY <1>4, <3>1, <3>2, BlocksMore
  <2>3. e \in Entries
    <3>1. cs[k] \in ChangeType BY <1>4, <1>6
    <3> QED BY <3>1, EntryTypes
  <2> HIDE DEF b, e, s
  <2>4. Last(s) = e BY <2>1, <2>2, <2>3 DEF Last
  <2> QED BY <1>6, <2>4 DEF e
<1>12. DOMAIN s = 1..Len(s) /\ DOMAIN cs = 1..Len(cs) BY <1>4, <1>9
<1>13. ASSUME NEW c \in ToSet(cs) PROVE \E j \in DOMAIN s : place(c) = {j} /\ ups(j) = low .. c.pin
  <2>1. PICK i \in 1..Len(cs) : c = cs[i] BY <1>12 DEF ToSet
  <2>2. Placed(s, c, low)
    <3> HIDE DEF s, k
    <3> QED BY <1>9, <2>1 DEF Kept
  <2>3. PICK p \in 1..Len(s) : /\ s[p] = Synthetic(c)
                               /\ \A j \in 1..Len(s) : s[j] = Synthetic(c) => j = p
                               /\ Ups(s, p) = low .. c.pin
    BY <2>2 DEF Placed
  <2>4. place(c) = {p}
    <3> HIDE DEF s
    <3> QED BY <1>12, <2>3
  <2>5. ups(p) = low .. c.pin BY <2>3 DEF Ups
  <2>6. p \in DOMAIN s BY <1>12, <2>3
  <2> QED BY <2>4, <2>5, <2>6
<1>14. Pick(s, {j \in DOMAIN s : s[j].kind = "synthetic"}) = [j \in DOMAIN cs |-> Synthetic(cs[j])]
  BY <1>9 DEF Kept, Syns, SynOf
<1> QED BY <1>10, <1>11, <1>13, <1>14

(* As long as the pin moves forward, the history of a later build begins   *)
(* with that of an earlier one, and has each change once: behind the       *)
(* upstream commit it was made for, in the order of the project, the last  *)
(* change last; for any number of commits of the project and of dist-git   *)
(* (CommitInterleavedHistory).                                             *)
THEOREM HistoriesAreKept == Spec => []HistoryIsKept
<1>1. HistoryTypeOK => HistoryIsKept BY AppendOnly, NoneLost DEF HistoryIsKept
<1> QED BY <1>1, HistoryTypes, PTL

=============================================================================
