---------------------------- MODULE DataInduction ----------------------------
(***************************************************************************)
(* Induction over the natural numbers for a set instead of an operator, and *)
(* what it gives about the sequence operators of the models: FlattenSeq     *)
(* satisfies its recursion, and distributes over the first and the last     *)
(* element of its argument.                                                 *)
(***************************************************************************)
EXTENDS Integers, Sequences, SequencesExt, SequenceTheorems, WellFoundedInduction, TLAPS

\* A set of natural numbers has a smallest element.
LEMMA Least ==
    ASSUME NEW T \in SUBSET Nat, T # {}
    PROVE  \E m \in T : \A n \in T : m <= n
<1> DEFINE R == OpToRel(<, Nat)
<1>1. IsWellFoundedOn(R, Nat)
  BY NatLessThanWellFounded
<1> HIDE DEF R
<1>2. PICK m \in T : \A n \in T : ~(<<n, m>> \in R)
  BY <1>1, WFMin
<1>3. \A n \in T : <<n, m>> \in R <=> n < m
  BY DEF R, OpToRel
<1>4. \A n \in T : m <= n
  <2> SUFFICES ASSUME NEW n \in T
               PROVE  m <= n
    OBVIOUS
  <2>1. n \in Nat /\ m \in Nat /\ ~(n < m)
    BY <1>2, <1>3
  <2> QED
    BY <2>1
<1> QED
  BY <1>4

\* Induction: what holds of 0 and of a successor holds of all numbers.
LEMMA Induct ==
    ASSUME NEW S, 0 \in S, \A n \in Nat : n \in S => n + 1 \in S
    PROVE  \A n \in Nat : n \in S
<1> SUFFICES ASSUME Nat \ S # {} PROVE FALSE
  OBVIOUS
<1>1. PICK m \in Nat \ S : \A n \in Nat \ S : m <= n
  BY Least
<1>2. m # 0 /\ m - 1 \in Nat /\ m - 1 \in S
  BY <1>1
<1> QED
  BY <1>1, <1>2

\* The same, where a number may rest on any smaller one.
LEMMA StrongInduct ==
    ASSUME NEW S, \A n \in Nat : (\A m \in 0..n - 1 : m \in S) => n \in S
    PROVE  \A n \in Nat : n \in S
<1> SUFFICES ASSUME Nat \ S # {} PROVE FALSE
  OBVIOUS
<1>1. PICK m \in Nat \ S : \A n \in Nat \ S : m <= n
  BY Least
<1>2. \A n \in 0..m - 1 : n \in S
  BY <1>1
<1> QED
  BY <1>1, <1>2

-----------------------------------------------------------------------------
(* FlattenSeq. *)

\* g is the flattening of the first k items of s, item by item.
Flattens(g, s, k) ==
    /\ g[1] = s[1]
    /\ \A i \in 2..k : g[i] = g[i - 1] \o s[i]

LEMMA FlattenPartial ==
    ASSUME NEW S, NEW s \in Seq(Seq(S)), NEW n \in Nat
    PROVE  n + 1 <= Len(s) => \E g \in [1..n + 1 -> Seq(S)] : Flattens(g, s, n + 1)
<1> DEFINE Q(k) == k + 1 <= Len(s) => \E g \in [1..k + 1 -> Seq(S)] : Flattens(g, s, k + 1)
           P == {k \in Nat : Q(k)}
<1>1. Q(0)
  <2> SUFFICES ASSUME 1 <= Len(s)
               PROVE  \E g \in [1..1 -> Seq(S)] : Flattens(g, s, 1)
    OBVIOUS
  <2> WITNESS [i \in 1..1 |-> s[i]] \in [1..1 -> Seq(S)]
  <2> QED
    BY DEF Flattens
<1>2. ASSUME NEW k \in Nat, Q(k)
      PROVE  Q(k + 1)
  <2> SUFFICES ASSUME k + 2 <= Len(s)
               PROVE  \E g \in [1..k + 2 -> Seq(S)] : Flattens(g, s, k + 2)
    OBVIOUS
  <2>1. PICK h \in [1..k + 1 -> Seq(S)] : Flattens(h, s, k + 1)
    BY <1>2
  <2> DEFINE last == h[k + 1] \o s[k + 2]
             g == [i \in 1..k + 2 |-> IF i = k + 2 THEN last ELSE h[i]]
  <2>2. last \in Seq(S)
    OBVIOUS
  <2> HIDE DEF last
  <2>3. g \in [1..k + 2 -> Seq(S)]
    BY <2>2
  <2>4. g[k + 2] = last /\ \A i \in 1..k + 1 : g[i] = h[i]
    OBVIOUS
  <2> HIDE DEF g
  <2>5. ASSUME NEW i \in 2..k + 2
        PROVE  g[i] = g[i - 1] \o s[i]
    <3>1. CASE i = k + 2
      <4>1. i - 1 = k + 1 /\ k + 1 \in 1..k + 1
        BY <3>1
      <4> QED
        BY <2>4, <3>1, <4>1 DEF last
    <3>2. CASE i # k + 2
      <4>1. i \in 2..k + 1 /\ i \in 1..k + 1 /\ i - 1 \in 1..k + 1
        BY <3>2
      <4> QED
        BY <2>1, <2>4, <4>1 DEF Flattens
    <3> QED
      BY <3>1, <3>2
  <2>6. g[1] = s[1]
    BY <2>1, <2>4 DEF Flattens
  <2>7. Flattens(g, s, k + 2)
    BY <2>5, <2>6 DEF Flattens
  <2> QED
    BY <2>3, <2>7
<1> HIDE DEF Q
<1>3. \A k \in Nat : k \in P
  <2>1. 0 \in P /\ \A k \in Nat : k \in P => k + 1 \in P
    BY <1>1, <1>2
  <2> HIDE DEF P
  <2> QED
    BY <2>1, Induct
<1>4. Q(n)
  BY <1>3
<1> QED
  BY <1>4 DEF Q

\* What the flattening is depends on the items only.
LEMMA FlattenSame ==
    ASSUME NEW g, NEW h, NEW s, NEW t, NEW n \in Nat,
           Flattens(g, s, n), Flattens(h, t, n), \A i \in 1..n : s[i] = t[i]
    PROVE  \A i \in 1..n : g[i] = h[i]
<1> DEFINE P == {k \in Nat : k \in 1..n => g[k] = h[k]}
<1>1. 0 \in P
  OBVIOUS
<1>2. ASSUME NEW k \in Nat, k \in P
      PROVE  k + 1 \in P
  <2> SUFFICES ASSUME k + 1 \in 1..n
               PROVE  g[k + 1] = h[k + 1]
    OBVIOUS
  <2>1. CASE k = 0
    BY <2>1 DEF Flattens
  <2>2. CASE k # 0
    <3>1. k + 1 \in 2..n /\ k \in 1..n /\ s[k + 1] = t[k + 1] /\ g[k] = h[k]
      BY <1>2, <2>2
    <3>2. g[k + 1] = g[(k + 1) - 1] \o s[k + 1] /\ h[k + 1] = h[(k + 1) - 1] \o t[k + 1]
      BY <3>1 DEF Flattens
    <3>3. (k + 1) - 1 = k
      OBVIOUS
    <3> QED
      BY <3>1, <3>2, <3>3
  <2> QED
    BY <2>1, <2>2
<1>3. \A k \in Nat : k \in P
  <2> HIDE DEF P
  <2> QED
    BY <1>1, <1>2, Induct
<1> QED
  BY <1>3

\* FlattenSeq satisfies its recursion.
LEMMA FlattenDef ==
    ASSUME NEW S, NEW s \in Seq(Seq(S)), s # <<>>
    PROVE  \E g \in [1..Len(s) -> Seq(S)] :
              Flattens(g, s, Len(s)) /\ FlattenSeq(s) = g[Len(s)]
<1> DEFINE n == Len(s)
           Eq(g) == g = [i \in 1..n |-> IF i = 1 THEN s[i] ELSE g[i - 1] \o s[i]]
           F == CHOOSE g : Eq(g)
<1>1. n \in Nat \ {0} /\ n = (n - 1) + 1
  OBVIOUS
<1>2. PICK h \in [1..n -> Seq(S)] : Flattens(h, s, n)
  <2> DEFINE m == n - 1
  <2>1. m \in Nat /\ m + 1 = n
    BY <1>1
  <2> HIDE DEF m
  <2>2. m + 1 <= n => \E g \in [1..m + 1 -> Seq(S)] : Flattens(g, s, m + 1)
    BY <2>1, FlattenPartial
  <2> HIDE DEF n
  <2>3. m + 1 <= n
    BY <1>1, <2>1
  <2> QED
    BY <2>1, <2>2, <2>3
<1>3. FlattenSeq(s) = F[n]
  BY <1>1 DEF FlattenSeq
<1> HIDE DEF n
<1>4. Eq(h)
  <2>1. \A i \in 1..n : h[i] = IF i = 1 THEN s[i] ELSE h[i - 1] \o s[i]
    <3> SUFFICES ASSUME NEW i \in 1..n
                 PROVE  h[i] = IF i = 1 THEN s[i] ELSE h[i - 1] \o s[i]
      OBVIOUS
    <3>1. CASE i = 1
      BY <1>2, <3>1 DEF Flattens
    <3>2. CASE i # 1
      <4>1. i \in 2..n
        BY <1>1, <3>2
      <4> QED
        BY <1>2, <3>2, <4>1 DEF Flattens
    <3> QED
      BY <3>1, <3>2
  <2> DEFINE e(i) == IF i = 1 THEN s[i] ELSE h[i - 1] \o s[i]
  <2>2. \A i \in 1..n : h[i] = e(i)
    BY <2>1
  <2> HIDE DEF e
  <2>3. h = [i \in 1..n |-> e(i)]
    BY <2>2
  <2> QED
    BY <2>3 DEF e
<1>5. Eq(F)
  <2> HIDE DEF Eq
  <2> QED
    BY <1>4
<1> HIDE DEF F
<1>6. \A i \in 1..n : F[i] = IF i = 1 THEN s[i] ELSE F[i - 1] \o s[i]
  BY <1>5
<1>7. Flattens(F, s, n)
  <2>1. F[1] = s[1]
    BY <1>1, <1>6
  <2>2. ASSUME NEW i \in 2..n
        PROVE  F[i] = F[i - 1] \o s[i]
    <3>1. i \in 1..n /\ i # 1
      OBVIOUS
    <3> QED
      BY <1>6, <3>1
  <2> QED
    BY <2>1, <2>2 DEF Flattens
<1>8. F[n] = h[n]
  <2>1. \A i \in 1..n : s[i] = s[i]
    OBVIOUS
  <2> QED
    BY <1>1, <1>2, <1>7, <2>1, FlattenSame
<1> QED
  BY <1>2, <1>3, <1>8 DEF n

LEMMA FlattenEmpty == FlattenSeq(<<>>) = <<>>
  BY DEF FlattenSeq

\* The flattening of sequences over S is a sequence over S.
LEMMA FlattenType ==
    ASSUME NEW S, NEW s \in Seq(Seq(S))
    PROVE  FlattenSeq(s) \in Seq(S)
<1>1. CASE s = <<>>
  <2>1. <<>> \in Seq(S)
    OBVIOUS
  <2> QED
    BY <1>1, <2>1, FlattenEmpty
<1>2. CASE s # <<>>
  <2>1. PICK g \in [1..Len(s) -> Seq(S)] : FlattenSeq(s) = g[Len(s)]
    BY <1>2, FlattenDef
  <2>2. Len(s) \in 1..Len(s)
    BY <1>2
  <2> QED
    BY <2>1, <2>2
<1> QED
  BY <1>1, <1>2

LEMMA ConcatAssoc ==
    ASSUME NEW S, NEW a \in Seq(S), NEW b \in Seq(S), NEW c \in Seq(S)
    PROVE  (a \o b) \o c = a \o (b \o c)
BY ConcatAssociative

\* The flattening begins with the first item.
LEMMA FlattenCons ==
    ASSUME NEW S, NEW x \in Seq(S), NEW s \in Seq(Seq(S))
    PROVE  FlattenSeq(<<x>> \o s) = x \o FlattenSeq(s)
<1> DEFINE t == <<x>> \o s
           n == Len(s)
<1>1. n \in Nat /\ <<x>> \in Seq(Seq(S)) /\ Len(<<x>>) = 1 /\ <<x>>[1] = x
  OBVIOUS
<1>2. /\ t \in Seq(Seq(S)) /\ Len(t) = n + 1 /\ t[1] = x
      /\ \A k \in 1..n : t[k + 1] = s[k]
  <2>1. /\ t \in Seq(Seq(S)) /\ Len(t) = 1 + n
        /\ \A i \in 1..1 + n : t[i] = IF i <= 1 THEN <<x>>[i] ELSE s[i - 1]
    BY <1>1, ConcatProperties
  <2> HIDE DEF t, n
  <2>2. \A k \in 1..n : k + 1 \in 1..1 + n /\ ~(k + 1 <= 1) /\ k + 1 - 1 = k
    BY <1>1
  <2>3. 1 \in 1..1 + n /\ 1 + n = n + 1
    BY <1>1
  <2>4. t[1] = x
    BY <1>1, <2>1, <2>3
  <2>5. \A k \in 1..n : t[k + 1] = s[k]
    BY <2>1, <2>2
  <2> QED
    BY <2>1, <2>3, <2>4, <2>5
<1> HIDE DEF t
<1>3. t # <<>>
  BY <1>1, <1>2
<1>4. PICK h \in [1..Len(t) -> Seq(S)] : Flattens(h, t, Len(t)) /\ FlattenSeq(t) = h[Len(t)]
  BY <1>2, <1>3, FlattenDef
<1>5. h[1] = x
  BY <1>2, <1>4 DEF Flattens
<1>6. CASE s = <<>>
  <2>1. FlattenSeq(s) = <<>> /\ n = 0 /\ Len(t) = 1
    BY <1>2, <1>6, FlattenEmpty
  <2>2. x \o <<>> = x
    OBVIOUS
  <2> QED
    BY <1>4, <1>5, <2>1, <2>2 DEF t
<1>7. CASE s # <<>>
  <2>1. PICK g \in [1..n -> Seq(S)] : Flattens(g, s, n) /\ FlattenSeq(s) = g[n]
    BY <1>7, FlattenDef
  <2> HIDE DEF n
  <2> DEFINE P == {k \in Nat : k \in 1..n => h[k + 1] = x \o g[k]}
  <2>2. 0 \in P
    OBVIOUS
  <2>3. ASSUME NEW k \in Nat, k \in P
        PROVE  k + 1 \in P
    <3> SUFFICES ASSUME k + 1 \in 1..n PROVE h[k + 1 + 1] = x \o g[k + 1]
      OBVIOUS
    <3> DEFINE j == k + 1
               m == j + 1
    <3>1. /\ j \in 1..n /\ j - 1 = k /\ m \in 2..Len(t) /\ m - 1 = j /\ t[j + 1] = s[j]
          /\ k = 0 => j = 1
          /\ k # 0 => k \in 1..n /\ j \in 2..n
      BY <1>1, <1>2
    <3>2. k # 0 => h[j] = x \o g[k]
      BY <2>3, <3>1
    <3> HIDE DEF j, P
    <3>3. t[m] = s[j]
      BY <3>1
    <3> HIDE DEF m
    <3>4. h[m] = h[j] \o s[j]
      <4>1. h[m] = h[m - 1] \o t[m]
        BY <1>4, <3>1 DEF Flattens
      <4> QED
        BY <3>1, <3>3, <4>1
    <3>5. h[m] = x \o g[j]
      <4>1. CASE k = 0
        <5>1. h[j] = x /\ g[j] = s[j]
          BY <1>5, <2>1, <3>1, <4>1 DEF Flattens
        <5> QED
          BY <3>4, <5>1
      <4>2. CASE k # 0
        <5>1. g[j] = g[k] \o s[j]
          <6>1. g[j] = g[j - 1] \o s[j]
            BY <2>1, <3>1, <4>2 DEF Flattens
          <6> QED
            BY <3>1, <6>1
        <5>2. g[k] \in Seq(S) /\ s[j] \in Seq(S)
          <6>1. j \in 1..Len(s)
            BY <3>1 DEF n
          <6>2. s[j] \in Seq(S)
            BY <6>1
          <6> QED
            BY <3>1, <4>2, <6>2
        <5>3. (x \o g[k]) \o s[j] = x \o (g[k] \o s[j])
          <6> DEFINE b == g[k]
                     c == s[j]
          <6>1. x \in Seq(S) /\ b \in Seq(S) /\ c \in Seq(S)
            BY <5>2
          <6> HIDE DEF b, c
          <6>2. (x \o b) \o c = x \o (b \o c)
            BY <6>1, ConcatAssoc, SMTT(60)
          <6> QED
            BY <6>2 DEF b, c
        <5> QED
          BY <3>2, <3>4, <4>2, <5>1, <5>3
      <4> QED
        BY <4>1, <4>2
    <3> QED
      BY <3>5 DEF j, m
  <2>4. \A k \in Nat : k \in P
    <3> HIDE DEF P
    <3> QED
      BY <2>2, <2>3, Induct
  <2>5. n \in Nat /\ n \in 1..n
    BY <1>1, <1>7 DEF n
  <2>6. h[n + 1] = x \o g[n]
    BY <2>4, <2>5
  <2> QED
    BY <1>2, <1>4, <2>1, <2>6 DEF t
<1> QED
  BY <1>6, <1>7

=============================================================================
