--------------------------- MODULE Encoding_proofs ---------------------------
(***************************************************************************)
(* The encoding of responses, for values of any depth and size: the digits  *)
(* of a number read as that number, the recursive functions of the models   *)
(* satisfy their recursion, and what the encoding of a value begins with    *)
(* tells its kind.                                                          *)
(***************************************************************************)
EXTENDS Announce, DataInduction

(* Digits. *)

\* The provers do not know that a literal is in STRING.
Structure == {"d", "l", "i", "e", ":", "-"}
Byte == STRING \cup Structure
        \cup {"0", "1", "2", "3", "4", "5", "6", "7", "8", "9"}

LEMMA DigitFacts ==
    ASSUME NEW d \in 0..9
    PROVE  /\ Digits[d + 1] \in Byte \ Structure
           /\ IsDigit(Digits[d + 1]) /\ ValueOf(Digits[d + 1]) = d
<1> DEFINE e(i) == Digits[i]
<1>0. /\ e(1) = "0" /\ e(2) = "1" /\ e(3) = "2" /\ e(4) = "3" /\ e(5) = "4"
      /\ e(6) = "5" /\ e(7) = "6" /\ e(8) = "7" /\ e(9) = "8" /\ e(10) = "9"
      /\ DOMAIN Digits = 1..10
  BY DEF Digits
<1> HIDE DEF e
<1>1. DOMAIN Digits = 1..10 /\ \A i, j \in 1..10 : Digits[i] = Digits[j] => i = j
  <2>1. \A i \in 1..10 : i \in {1, 2, 3, 4, 5, 6, 7, 8, 9, 10}
    OBVIOUS
  <2>2. \A i, j \in 1..10 : e(i) = e(j) => i = j
    BY <1>0, <2>1
  <2> QED
    BY <1>0, <2>2 DEF e
<1>2. d + 1 \in 1..10 /\ (d + 1) - 1 = d
  OBVIOUS
<1>3. Digits[d + 1] \in Byte \ Structure
  <2>1. d + 1 \in {1, 2, 3, 4, 5, 6, 7, 8, 9, 10}
    OBVIOUS
  <2>2. e(d + 1) \in {"0", "1", "2", "3", "4", "5", "6", "7", "8", "9"}
    BY <1>0, <2>1
  <2> DEFINE c == e(d + 1)
  <2>3. c \in {"0", "1", "2", "3", "4", "5", "6", "7", "8", "9"}
    BY <2>2
  <2> HIDE DEF c
  <2>4. c \notin Structure
    BY <2>3 DEF Structure
  <2>5. c \in Byte
    BY <2>3 DEF Byte
  <2> QED
    BY <2>4, <2>5 DEF c, e
<1>4. (CHOOSE i \in DOMAIN Digits : Digits[i] = Digits[d + 1]) = d + 1
  BY <1>1, <1>2
<1>5. ValueOf(Digits[d + 1]) = d
  <2>1. ValueOf(Digits[d + 1]) = (CHOOSE i \in DOMAIN Digits : Digits[i] = Digits[d + 1]) - 1
    BY Zenon DEF ValueOf
  <2> QED
    BY <1>2, <1>4, <2>1
<1> QED
  BY <1>1, <1>2, <1>3, <1>5 DEF IsDigit

\* Only a digit is one.
LEMMA DigitIs ==
    ASSUME NEW c, IsDigit(c)
    PROVE  \E d \in 0..9 : c = Digits[d + 1]
<1>1. DOMAIN Digits = 1..10
  BY DEF Digits
<1>2. PICK i \in 1..10 : Digits[i] = c
  BY <1>1 DEF IsDigit
<1>3. i - 1 \in 0..9 /\ (i - 1) + 1 = i
  OBVIOUS
<1> QED
  BY <1>2, <1>3

LEMMA DigitValue ==
    ASSUME NEW c, IsDigit(c)
    PROVE  ValueOf(c) \in 0..9 /\ c \in Byte \ Structure
BY DigitIs, DigitFacts

-----------------------------------------------------------------------------
(* Decimal. *)

\* f gives what each of the first n digits of s makes of the number before it.
Counts(f, s, n) ==
    /\ f[0] = 0
    /\ \A i \in 1..n : f[i] = 10 * f[i - 1] + ValueOf(s[i])

LEMMA CountsPartial ==
    ASSUME NEW s, NEW n \in Nat
    PROVE  \E f : f = [i \in 0..n |-> IF i = 0 THEN 0 ELSE 10 * f[i - 1] + ValueOf(s[i])]
<1> DEFINE Eq(f, k) == f = [i \in 0..k |-> IF i = 0 THEN 0 ELSE 10 * f[i - 1] + ValueOf(s[i])]
           P == {k \in Nat : \E f : Eq(f, k)}
<1>1. 0 \in P
  <2> DEFINE f == [i \in 0..0 |-> 0]
  <2>1. Eq(f, 0)
    OBVIOUS
  <2> QED
    BY <2>1
<1>2. ASSUME NEW k \in Nat, k \in P
      PROVE  k + 1 \in P
  <2>1. PICK f : Eq(f, k)
    BY <1>2
  <2> DEFINE last == 10 * f[k] + ValueOf(s[k + 1])
             g == [i \in 0..k + 1 |-> IF i = k + 1 THEN last ELSE f[i]]
  <2>2. g[k + 1] = last /\ (\A i \in 0..k : g[i] = f[i]) /\ g = [i \in 0..k + 1 |-> g[i]]
    OBVIOUS
  <2>3. \A i \in 0..k : f[i] = IF i = 0 THEN 0 ELSE 10 * f[i - 1] + ValueOf(s[i])
    BY <2>1
  <2> HIDE DEF g
  <2> DEFINE e(i) == IF i = 0 THEN 0 ELSE 10 * g[i - 1] + ValueOf(s[i])
  <2>4. ASSUME NEW i \in 0..k + 1
        PROVE  g[i] = e(i)
    <3>1. CASE i = k + 1
      <4>1. k \in 0..k /\ i - 1 = k /\ i # 0
        BY <3>1
      <4>2. g[i - 1] = f[k]
        BY <2>2, <4>1
      <4> QED
        BY <2>2, <3>1, <4>1, <4>2
    <3>2. CASE i # k + 1
      <4>1. i \in 0..k /\ (i # 0 => i - 1 \in 0..k)
        BY <3>2
      <4>2. g[i] = f[i] /\ (i # 0 => g[i - 1] = f[i - 1])
        BY <2>2, <4>1
      <4> QED
        BY <2>3, <4>1, <4>2
    <3> QED
      BY <3>1, <3>2
  <2>5. Eq(g, k + 1)
    <3> HIDE DEF e
    <3>1. g = [i \in 0..k + 1 |-> e(i)]
      BY <2>2, <2>4
    <3> QED
      BY <3>1 DEF e
  <2> QED
    BY <2>5
<1>3. n \in P
  <2> HIDE DEF P
  <2> QED
    BY <1>1, <1>2, Induct
<1> QED
  BY <1>3

LEMMA DecimalDef ==
    ASSUME NEW s, Len(s) \in Nat
    PROVE  \E f : Counts(f, s, Len(s)) /\ Decimal(s) = f[Len(s)]
<1> DEFINE n == Len(s)
           Eq(f) == f = [i \in 0..n |-> IF i = 0 THEN 0 ELSE 10 * f[i - 1] + ValueOf(s[i])]
           F == CHOOSE f : Eq(f)
<1>1. \E f : Eq(f)
  BY CountsPartial
<1>2. Decimal(s) = F[n]
  BY DEF Decimal
<1>3. Eq(F)
  <2> HIDE DEF Eq
  <2> QED
    BY <1>1
<1> HIDE DEF F, n
<1>4. \A i \in 0..n : F[i] = IF i = 0 THEN 0 ELSE 10 * F[i - 1] + ValueOf(s[i])
  BY <1>3
<1>5. 0 \in 0..n /\ \A i \in 1..n : i \in 0..n /\ i # 0
  BY DEF n
<1>6. Counts(F, s, n)
  BY <1>4, <1>5 DEF Counts
<1> QED
  BY <1>2, <1>6 DEF n

\* What the digits make is determined by them.
LEMMA CountsSame ==
    ASSUME NEW f, NEW g, NEW s, NEW t, NEW n \in Nat,
           Counts(f, s, n), Counts(g, t, n), \A i \in 1..n : s[i] = t[i]
    PROVE  f[n] = g[n]
<1> DEFINE P == {k \in Nat : k <= n => f[k] = g[k]}
<1>1. 0 \in P
  BY DEF Counts
<1>2. ASSUME NEW k \in Nat, k \in P
      PROVE  k + 1 \in P
  <2> SUFFICES ASSUME k + 1 <= n
               PROVE  f[k + 1] = g[k + 1]
    OBVIOUS
  <2>1. k + 1 \in 1..n /\ (k + 1) - 1 = k /\ k <= n
    OBVIOUS
  <2>2. f[k + 1] = 10 * f[(k + 1) - 1] + ValueOf(s[k + 1])
        /\ g[k + 1] = 10 * g[(k + 1) - 1] + ValueOf(t[k + 1])
    BY <2>1 DEF Counts
  <2>3. f[k] = g[k] /\ s[k + 1] = t[k + 1]
    BY <1>2, <2>1
  <2> QED
    BY <2>1, <2>2, <2>3
<1>3. n \in P
  <2> HIDE DEF P
  <2> QED
    BY <1>1, <1>2, Induct
<1> QED
  BY <1>3

LEMMA DecimalEmpty == Decimal(<<>>) = 0
<1>1. Len(<<>>) = 0
  OBVIOUS
<1> QED
  BY <1>1, DecimalDef DEF Counts

LEMMA DecimalAppend ==
    ASSUME NEW S, NEW s \in Seq(S), NEW c \in S
    PROVE  Decimal(Append(s, c)) = 10 * Decimal(s) + ValueOf(c)
<1> DEFINE t == Append(s, c)
           n == Len(s)
<1>1. n \in Nat /\ Len(t) = n + 1 /\ t[n + 1] = c /\ \A i \in 1..n : t[i] = s[i]
  OBVIOUS
<1>2. PICK f : Counts(f, s, n) /\ Decimal(s) = f[n]
  BY <1>1, DecimalDef
<1> HIDE DEF t, n
<1>3. PICK g : Counts(g, t, n + 1) /\ Decimal(t) = g[n + 1]
  <2>1. Len(t) \in Nat
    BY <1>1
  <2> QED
    BY <1>1, <2>1, DecimalDef
<1>4. Counts(g, t, n)
  <2>1. \A i \in 1..n : i \in 1..n + 1
    BY <1>1
  <2> QED
    BY <1>3, <2>1 DEF Counts
<1>5. g[n] = f[n]
  BY <1>1, <1>2, <1>4, CountsSame
<1>6. n + 1 \in 1..n + 1 /\ (n + 1) - 1 = n
  BY <1>1
<1>7. g[n + 1] = 10 * g[n] + ValueOf(t[n + 1])
  BY <1>3, <1>6 DEF Counts
<1> QED
  BY <1>1, <1>2, <1>3, <1>5, <1>7 DEF t

\* A string of digits is a natural number.
LEMMA DecimalNat ==
    ASSUME NEW s, Len(s) \in Nat, \A i \in 1..Len(s) : IsDigit(s[i])
    PROVE  Decimal(s) \in Nat
<1> DEFINE n == Len(s)
<1>1. PICK f : Counts(f, s, n) /\ Decimal(s) = f[n]
  BY DecimalDef
<1>2. n \in Nat /\ \A i \in 1..n : IsDigit(s[i])
  OBVIOUS
<1> HIDE DEF n
<1> DEFINE P == {k \in Nat : k <= n => f[k] \in Nat}
<1>3. 0 \in P
  BY <1>1 DEF Counts
<1>4. ASSUME NEW k \in Nat, k \in P
      PROVE  k + 1 \in P
  <2> SUFFICES ASSUME k + 1 <= n
               PROVE  f[k + 1] \in Nat
    OBVIOUS
  <2>1. k + 1 \in 1..n /\ (k + 1) - 1 = k /\ k <= n
    BY <1>2
  <2>2. f[k + 1] = 10 * f[k] + ValueOf(s[k + 1])
    BY <1>1, <2>1 DEF Counts
  <2>3. ValueOf(s[k + 1]) \in 0..9
    BY <1>2, <2>1, DigitValue
  <2>4. f[k] \in Nat
    BY <1>4, <2>1
  <2> QED
    BY <2>2, <2>3, <2>4
<1>5. n \in P
  <2> HIDE DEF P
  <2> QED
    BY <1>2, <1>3, <1>4, Induct
<1> QED
  BY <1>1, <1>2, <1>5

-----------------------------------------------------------------------------
(* DigitsOf. *)

LEMMA DigitsPartial ==
    ASSUME NEW n \in Nat
    PROVE  \E f : f = [k \in 0..n |-> IF k < 10 THEN <<Digits[k + 1]>>
                                     ELSE Append(f[k \div 10], Digits[(k % 10) + 1])]
<1> DEFINE Eq(f, m) == f = [k \in 0..m |-> IF k < 10 THEN <<Digits[k + 1]>>
                                          ELSE Append(f[k \div 10], Digits[(k % 10) + 1])]
           P == {m \in Nat : \E f : Eq(f, m)}
<1>1. 0 \in P
  <2> DEFINE f == [k \in 0..0 |-> <<Digits[k + 1]>>]
  <2>1. Eq(f, 0)
    <3>1. \A k \in 0..0 : k < 10
      OBVIOUS
    <3> QED
      BY <3>1
  <2> QED
    BY <2>1
<1>2. ASSUME NEW m \in Nat, m \in P
      PROVE  m + 1 \in P
  <2>1. PICK f : Eq(f, m)
    BY <1>2
  <2> DEFINE o(h, k) == IF k < 10 THEN <<Digits[k + 1]>>
                        ELSE Append(h[k \div 10], Digits[(k % 10) + 1])
             g == [k \in 0..m + 1 |-> IF k = m + 1 THEN o(f, k) ELSE f[k]]
  <2>2. \A k \in 0..m : f[k] = o(f, k)
    BY <2>1
  <2> HIDE DEF o
  <2>3. /\ g[m + 1] = o(f, m + 1) /\ (\A k \in 0..m : g[k] = f[k])
        /\ g = [k \in 0..m + 1 |-> g[k]]
    OBVIOUS
  <2> HIDE DEF g
  <2>4. ASSUME NEW k \in 0..m + 1
        PROVE  g[k] = o(g, k)
    <3>1. o(g, k) = o(f, k)
      <4>1. CASE k < 10
        BY <4>1 DEF o
      <4>2. CASE ~(k < 10)
        <5>1. k \div 10 \in 0..m
          BY <4>2
        <5>2. g[k \div 10] = f[k \div 10]
          BY <2>3, <5>1
        <5> QED
          BY <5>2 DEF o
      <4> QED
        BY <4>1, <4>2
    <3>2. g[k] = o(f, k)
      <4>1. k = m + 1 \/ k \in 0..m
        OBVIOUS
      <4> QED
        BY <2>2, <2>3, <4>1
    <3> QED
      BY <3>1, <3>2
  <2>5. g = [k \in 0..m + 1 |-> o(g, k)]
    BY <2>3, <2>4
  <2>6. Eq(g, m + 1)
    BY <2>5 DEF o
  <2> HIDE DEF Eq
  <2> QED
    BY <2>6
<1>3. n \in P
  <2> HIDE DEF P
  <2> QED
    BY <1>1, <1>2, Induct
<1> QED
  BY <1>3

\* The digits of a number are digits, at least one, and make that number.
LEMMA DigitsAre ==
    ASSUME NEW n \in Nat
    PROVE  /\ DigitsOf(n) \in Seq(Byte) /\ DigitsOf(n) # <<>>
           /\ \A i \in 1..Len(DigitsOf(n)) : IsDigit(DigitsOf(n)[i])
           /\ Decimal(DigitsOf(n)) = n
<1> DEFINE o(h, k) == IF k < 10 THEN <<Digits[k + 1]>>
                      ELSE Append(h[k \div 10], Digits[(k % 10) + 1])
           Eq(f) == f = [k \in 0..n |-> o(f, k)]
           F == CHOOSE f : Eq(f)
<1>1. \E f : Eq(f)
  BY DigitsPartial
<1>2. DigitsOf(n) = F[n]
  BY DEF DigitsOf
<1>3. Eq(F)
  <2> HIDE DEF Eq
  <2> QED
    BY <1>1
<1> HIDE DEF F, o
<1>4. \A k \in 0..n : F[k] = o(F, k)
  BY <1>3
<1> HIDE DEF Eq
<1> DEFINE Q(s, k) == /\ s \in Seq(Byte) /\ s # <<>>
                      /\ \A i \in 1..Len(s) : IsDigit(s[i])
                      /\ Decimal(s) = k
           P == {k \in Nat : k <= n => Q(F[k], k)}
<1>5. ASSUME NEW d \in 0..9
      PROVE  Q(<<Digits[d + 1]>>, d)
  <2> DEFINE c == Digits[d + 1]
  <2>1. c \in Byte /\ IsDigit(c) /\ ValueOf(c) = d
    BY DigitFacts
  <2> HIDE DEF c
  <2>2. /\ <<c>> \in Seq(Byte) /\ <<c>> # <<>> /\ Len(<<c>>) = 1 /\ <<c>>[1] = c
        /\ <<>> \in Seq(Byte) /\ Append(<<>>, c) = <<c>>
    BY <2>1
  <2>3. Decimal(<<c>>) = 10 * 0 + d
    BY <2>1, <2>2, DecimalAppend, DecimalEmpty
  <2>4. Q(<<c>>, d)
    BY <2>1, <2>2, <2>3
  <2> QED
    BY <2>4 DEF c
<1>6. ASSUME NEW s \in Seq(Byte), NEW k \in Nat, NEW d \in 0..9, Q(s, k)
      PROVE  Q(Append(s, Digits[d + 1]), 10 * k + d)
  <2> DEFINE c == Digits[d + 1]
             t == Append(s, c)
  <2>1. c \in Byte /\ IsDigit(c) /\ ValueOf(c) = d
    BY DigitFacts
  <2> HIDE DEF c
  <2>2. /\ t \in Seq(Byte) /\ Len(t) = Len(s) + 1 /\ t[Len(s) + 1] = c
        /\ \A i \in 1..Len(s) : t[i] = s[i]
    BY <2>1
  <2>3. Decimal(t) = 10 * k + d
    BY <1>6, <2>1, DecimalAppend
  <2> HIDE DEF t
  <2>4. \A i \in 1..Len(t) : IsDigit(t[i])
    <3>1. \A i \in 1..Len(s) + 1 : i \in 1..Len(s) \/ i = Len(s) + 1
      OBVIOUS
    <3> QED
      BY <1>6, <2>1, <2>2, <3>1
  <2>5. t # <<>>
    BY <2>2
  <2> QED
    BY <2>2, <2>3, <2>4, <2>5 DEF c, t
<1> HIDE DEF Q
<1>7. ASSUME NEW k \in Nat, \A m \in 0..k - 1 : m \in P
      PROVE  k \in P
  <2> SUFFICES ASSUME k <= n
               PROVE  Q(F[k], k)
    OBVIOUS
  <2>1. F[k] = o(F, k)
    BY <1>4
  <2>2. CASE k < 10
    <3>1. k \in 0..9
      BY <2>2
    <3> QED
      BY <1>5, <2>1, <2>2, <3>1 DEF o
  <2>3. CASE ~(k < 10)
    <3> DEFINE m == k \div 10
               d == k % 10
    <3>1. m \in 0..k - 1 /\ m <= n /\ d \in 0..9 /\ 10 * m + d = k
      BY <2>3
    <3> HIDE DEF m, d
    <3>2. Q(F[m], m)
      BY <1>7, <3>1
    <3>3. Q(Append(F[m], Digits[d + 1]), 10 * m + d)
      <4>1. F[m] \in Seq(Byte) /\ m \in Nat
        BY <3>1, <3>2 DEF Q
      <4> QED
        BY <1>6, <3>1, <3>2, <4>1
    <3>4. F[k] = Append(F[m], Digits[d + 1])
      BY <2>1, <2>3 DEF o, m, d
    <3> QED
      BY <3>1, <3>3, <3>4
  <2> QED
    BY <2>2, <2>3
<1>8. n \in P
  <2> HIDE DEF P
  <2> QED
    BY <1>7, StrongInduct
<1> QED
  BY <1>2, <1>8 DEF Q

-----------------------------------------------------------------------------
(* Values, and what they encode to. *)

Texts == {"bytes"} \X Seq(STRING)

LEMMA IsValue ==
    ASSUME NEW parts, NEW v,
           \/ \E n \in Int : v = Number(n)
           \/ \E s \in Seq(STRING) : v = Bytes(s)
           \/ \E s \in Seq(parts) : v = List(s)
           \/ \E s \in Seq(Texts \X parts) : DistinctKeys(s) /\ v = Dict(s)
    PROVE  v \in ValuesOf(parts)
  BY DEF ValuesOf, Number, Bytes, List, Dict, Texts

LEMMA ValueIs ==
    ASSUME NEW parts, NEW v \in ValuesOf(parts)
    PROVE  \/ \E n \in Int : v = Number(n)
           \/ \E s \in Seq(STRING) : v = Bytes(s)
           \/ \E s \in Seq(parts) : v = List(s)
           \/ \E s \in Seq(Texts \X parts) : DistinctKeys(s) /\ v = Dict(s)
  BY DEF ValuesOf, Number, Bytes, List, Dict, Texts

LEMMA ValuesOfGrows ==
    ASSUME NEW A, NEW B, A \subseteq B
    PROVE  ValuesOf(A) \subseteq ValuesOf(B)
<1> SUFFICES ASSUME NEW v \in ValuesOf(A)
             PROVE  v \in ValuesOf(B)
  OBVIOUS
<1>1. \A s \in Seq(A) : s \in Seq(B)
  BY SeqMonotonic
<1>2. \A s \in Seq(Texts \X A) : s \in Seq(Texts \X B)
  <2>1. (Texts \X A) \subseteq (Texts \X B)
    OBVIOUS
  <2> QED
    BY <2>1, SeqMonotonic
<1>3. \/ \E n \in Int : v = Number(n)
      \/ \E s \in Seq(STRING) : v = Bytes(s)
      \/ \E s \in Seq(A) : v = List(s)
      \/ \E s \in Seq(Texts \X A) : DistinctKeys(s) /\ v = Dict(s)
  BY ValueIs
<1>4. \/ \E n \in Int : v = Number(n)
      \/ \E s \in Seq(STRING) : v = Bytes(s)
      \/ \E s \in Seq(B) : v = List(s)
      \/ \E s \in Seq(Texts \X B) : DistinctKeys(s) /\ v = Dict(s)
  BY <1>1, <1>2, <1>3
<1> QED
  BY <1>4, IsValue

\* Values satisfies its recursion.
LEMMA ValuesDef ==
    \A d \in 0..Depth : Values[d] = ValuesOf(IF d = 0 THEN {} ELSE Values[d - 1])
<1> DEFINE o(f, d) == ValuesOf(IF d = 0 THEN {} ELSE f[d - 1])
           Eq(f, n) == f = [d \in 0..n |-> o(f, d)]
           P == {n \in Nat : \E f : Eq(f, n)}
           F == CHOOSE f : Eq(f, Depth)
<1>1. 0 \in P
  <2> DEFINE f == [d \in 0..0 |-> ValuesOf({})]
  <2>1. Eq(f, 0)
    OBVIOUS
  <2> HIDE DEF Eq
  <2> QED
    BY <2>1
<1>2. ASSUME NEW n \in Nat, n \in P
      PROVE  n + 1 \in P
  <2>1. PICK f : Eq(f, n)
    BY <1>2
  <2>2. \A d \in 0..n : f[d] = o(f, d)
    BY <2>1
  <2> HIDE DEF o
  <2> DEFINE g == [d \in 0..n + 1 |-> IF d = n + 1 THEN o(f, d) ELSE f[d]]
  <2>3. /\ g[n + 1] = o(f, n + 1) /\ (\A d \in 0..n : g[d] = f[d])
        /\ g = [d \in 0..n + 1 |-> g[d]]
    OBVIOUS
  <2> HIDE DEF g
  <2>4. ASSUME NEW d \in 0..n + 1
        PROVE  g[d] = o(g, d)
    <3>1. o(g, d) = o(f, d)
      <4>1. CASE d = 0
        BY <4>1 DEF o
      <4>2. CASE d # 0
        <5>1. d - 1 \in 0..n
          BY <4>2
        <5>2. g[d - 1] = f[d - 1]
          BY <2>3, <5>1
        <5> QED
          BY <4>2, <5>2 DEF o
      <4> QED
        BY <4>1, <4>2
    <3>2. d = n + 1 \/ d \in 0..n
      OBVIOUS
    <3> QED
      BY <2>2, <2>3, <3>1, <3>2
  <2>5. Eq(g, n + 1)
    BY <2>3, <2>4
  <2> HIDE DEF Eq
  <2> QED
    BY <2>5
<1>3. Depth \in P
  <2> HIDE DEF P
  <2> QED
    BY <1>1, <1>2, Induct, ResponseAssumption
<1>4. Values = F
  BY DEF Values
<1>5. Eq(F, Depth)
  <2> HIDE DEF Eq
  <2> QED
    BY <1>3
<1> HIDE DEF F
<1>6. \A d \in 0..Depth : F[d] = o(F, d)
  BY <1>5
<1> QED
  BY <1>4, <1>6

LEMMA ValuesNext ==
    ASSUME NEW d \in Nat, d + 1 <= Depth
    PROVE  Values[d + 1] = ValuesOf(Values[d])
<1>1. d + 1 \in 0..Depth /\ d + 1 # 0 /\ (d + 1) - 1 = d
  BY ResponseAssumption
<1> QED
  BY <1>1, ValuesDef

LEMMA ValuesFirst == Values[0] = ValuesOf({})
<1>1. 0 \in 0..Depth
  BY ResponseAssumption
<1> QED
  BY <1>1, ValuesDef

LEMMA ValuesGrow ==
    ASSUME NEW d \in Nat
    PROVE  d + 1 <= Depth => Values[d] \subseteq Values[d + 1]
<1> DEFINE P == {n \in Nat : n + 1 <= Depth => Values[n] \subseteq Values[n + 1]}
<1>1. 0 \in P
  <2>1. 0 + 1 <= Depth => Values[0 + 1] = ValuesOf(Values[0])
    BY ValuesNext
  <2>2. ValuesOf({}) \subseteq ValuesOf(Values[0])
    BY ValuesOfGrows
  <2> QED
    BY <2>1, <2>2, ValuesFirst
<1>2. ASSUME NEW n \in Nat, n \in P
      PROVE  n + 1 \in P
  <2> SUFFICES ASSUME n + 1 + 1 <= Depth
               PROVE  Values[n + 1] \subseteq Values[n + 1 + 1]
    OBVIOUS
  <2>1. n + 1 \in Nat /\ n + 1 <= Depth
    BY ResponseAssumption
  <2>2. Values[n + 1] = ValuesOf(Values[n]) /\ Values[n + 1 + 1] = ValuesOf(Values[n + 1])
    BY <2>1, ValuesNext
  <2>3. Values[n] \subseteq Values[n + 1]
    BY <1>2, <2>1
  <2> QED
    BY <2>2, <2>3, ValuesOfGrows
<1>3. d \in P
  <2> HIDE DEF P
  <2> QED
    BY <1>1, <1>2, Induct
<1> QED
  BY <1>3

\* The parts of a value are values: of a response, and of whatever is in it.
AnyValue == Values[Depth]

LEMMA PartsAreValues ==
    AnyValue \subseteq ValuesOf(AnyValue)
<1>1. CASE Depth = 0
  <2>1. AnyValue = ValuesOf({})
    BY <1>1, ValuesFirst DEF AnyValue
  <2> QED
    BY <2>1, ValuesOfGrows
<1>2. CASE Depth # 0
  <2> DEFINE d == Depth - 1
  <2>1. d \in Nat /\ d + 1 = Depth /\ d + 1 <= Depth
    BY <1>2, ResponseAssumption
  <2> HIDE DEF d
  <2>2. Values[d + 1] = ValuesOf(Values[d]) /\ Values[d] \subseteq Values[d + 1]
    BY <2>1, ValuesNext, ValuesGrow
  <2> QED
    BY <2>1, <2>2, ValuesOfGrows DEF AnyValue
<1> QED
  BY <1>1, <1>2

LEMMA TextsAreValues ==
    ASSUME NEW s \in Seq(STRING)
    PROVE  Bytes(s) \in AnyValue
<1>1. Depth \in 0..Depth
  BY ResponseAssumption
<1>2. AnyValue = ValuesOf(IF Depth = 0 THEN {} ELSE Values[Depth - 1])
  BY <1>1, ValuesDef DEF AnyValue
<1> QED
  BY <1>2, IsValue

-----------------------------------------------------------------------------
(* Encode. *)

LEMMA EncoderDef ==
    \A d \in 0..Depth :
        Encoder[d] = [v \in Values[d] |->
                        EncodeWith(IF d = 0 THEN <<>> ELSE Encoder[d - 1], v)]
<1> DEFINE o(f, d) == [v \in Values[d] |-> EncodeWith(IF d = 0 THEN <<>> ELSE f[d - 1], v)]
           Eq(f, n) == f = [d \in 0..n |-> o(f, d)]
           P == {n \in Nat : \E f : Eq(f, n)}
           F == CHOOSE f : Eq(f, Depth)
<1>0. ASSUME NEW f, NEW g, NEW d \in Nat, d # 0 => f[d - 1] = g[d - 1]
      PROVE  o(f, d) = o(g, d)
  <2>1. CASE d = 0
    BY <2>1
  <2>2. CASE d # 0
    BY <1>0, <2>2
  <2> QED
    BY <2>1, <2>2
<1>4. Encoder = F
  BY DEF Encoder
<1> HIDE DEF o
<1>1. 0 \in P
  <2> DEFINE f == [d \in 0..0 |-> o(<<>>, d)]
  <2>1. f[0] = o(<<>>, 0) /\ f = [d \in 0..0 |-> f[d]]
    OBVIOUS
  <2>2. o(<<>>, 0) = o(f, 0)
    BY <1>0
  <2> HIDE DEF f
  <2>3. \A d \in 0..0 : f[d] = o(f, d)
    BY <2>1, <2>2
  <2>4. Eq(f, 0)
    BY <2>1, <2>3
  <2> HIDE DEF Eq
  <2> QED
    BY <2>4
<1>2. ASSUME NEW n \in Nat, n \in P
      PROVE  n + 1 \in P
  <2>1. PICK f : Eq(f, n)
    BY <1>2
  <2>2. \A d \in 0..n : f[d] = o(f, d)
    BY <2>1
  <2> DEFINE g == [d \in 0..n + 1 |-> IF d = n + 1 THEN o(f, d) ELSE f[d]]
  <2>3. /\ g[n + 1] = o(f, n + 1) /\ (\A d \in 0..n : g[d] = f[d])
        /\ g = [d \in 0..n + 1 |-> g[d]]
    OBVIOUS
  <2> HIDE DEF g
  <2>4. ASSUME NEW d \in 0..n + 1
        PROVE  g[d] = o(g, d)
    <3>1. o(g, d) = o(f, d)
      <4>1. d # 0 => d - 1 \in 0..n
        OBVIOUS
      <4>2. d \in Nat /\ (d # 0 => g[d - 1] = f[d - 1])
        BY <2>3, <4>1
      <4> QED
        BY <1>0, <4>2
    <3>2. d = n + 1 \/ d \in 0..n
      OBVIOUS
    <3> QED
      BY <2>2, <2>3, <3>1, <3>2
  <2>5. Eq(g, n + 1)
    BY <2>3, <2>4
  <2> HIDE DEF Eq
  <2> QED
    BY <2>5
<1>3. Depth \in P
  <2> HIDE DEF P
  <2> QED
    BY <1>1, <1>2, Induct, ResponseAssumption
<1>5. Eq(F, Depth)
  <2> HIDE DEF Eq
  <2> QED
    BY <1>3
<1> HIDE DEF F
<1>6. \A d \in 0..Depth : F[d] = o(F, d)
  BY <1>5
<1> QED
  BY <1>4, <1>6 DEF o

LEMMA EncodeKinds ==
    ASSUME NEW f, NEW x
    PROVE  /\ EncodeWith(f, Number(x)) = EncodeInt(x)
           /\ EncodeWith(f, Bytes(x)) = EncodeBytes(x)
           /\ EncodeWith(f, List(x)) =
                 <<"l">> \o FlattenSeq([i \in DOMAIN x |-> f[x[i]]]) \o <<"e">>
           /\ EncodeWith(f, Dict(x)) =
                 <<"d">> \o FlattenSeq([i \in DOMAIN x |->
                              EncodeBytes(x[i][1][2]) \o f[x[i][2]]]) \o <<"e">>
<1>1. /\ Number(x)[2] = x /\ Bytes(x)[2] = x /\ List(x)[2] = x /\ Dict(x)[2] = x
      /\ Number(x)[1] = "int" /\ Bytes(x)[1] = "bytes"
      /\ List(x)[1] = "list" /\ Dict(x)[1] = "dict"
  BY DEF Number, Bytes, List, Dict
<1>2. EncodeWith(f, Number(x)) = EncodeInt(x) /\ EncodeWith(f, Bytes(x)) = EncodeBytes(x)
  BY <1>1 DEF EncodeWith, IsKind
<1>3. EncodeWith(f, List(x)) =
        <<"l">> \o FlattenSeq([i \in DOMAIN x |-> f[x[i]]]) \o <<"e">>
  BY <1>1 DEF EncodeWith, IsKind
<1>4. EncodeWith(f, Dict(x)) =
        <<"d">> \o FlattenSeq([i \in DOMAIN x |->
                     EncodeBytes(x[i][1][2]) \o f[x[i][2]]]) \o <<"e">>
  BY <1>1 DEF EncodeWith, IsKind
<1> QED
  BY <1>2, <1>3, <1>4

\* The encoding of a value depends on that of its parts only.
LEMMA EncodeWithSame ==
    ASSUME NEW parts, NEW v \in ValuesOf(parts), NEW f, NEW g,
           \A u \in parts : f[u] = g[u]
    PROVE  EncodeWith(f, v) = EncodeWith(g, v)
<1>1. ASSUME NEW x, v = Number(x) \/ v = Bytes(x)
      PROVE  EncodeWith(f, v) = EncodeWith(g, v)
  <2>1. /\ EncodeWith(f, Number(x)) = EncodeInt(x) /\ EncodeWith(g, Number(x)) = EncodeInt(x)
        /\ EncodeWith(f, Bytes(x)) = EncodeBytes(x) /\ EncodeWith(g, Bytes(x)) = EncodeBytes(x)
    BY EncodeKinds
  <2> QED
    BY <1>1, <2>1
<1>2. ASSUME NEW s \in Seq(parts), v = List(s)
      PROVE  EncodeWith(f, v) = EncodeWith(g, v)
  <2> DEFINE e(h) == [i \in DOMAIN s |-> h[s[i]]]
  <2>1. \A i \in DOMAIN s : s[i] \in parts
    OBVIOUS
  <2>2. e(f) = e(g)
    BY <2>1
  <2>3. /\ EncodeWith(f, List(s)) = <<"l">> \o FlattenSeq(e(f)) \o <<"e">>
        /\ EncodeWith(g, List(s)) = <<"l">> \o FlattenSeq(e(g)) \o <<"e">>
    BY EncodeKinds
  <2> HIDE DEF e
  <2> QED
    BY <1>2, <2>2, <2>3
<1>3. ASSUME NEW s \in Seq(Texts \X parts), v = Dict(s)
      PROVE  EncodeWith(f, v) = EncodeWith(g, v)
  <2> DEFINE e(h) == [i \in DOMAIN s |-> EncodeBytes(s[i][1][2]) \o h[s[i][2]]]
  <2>1. \A i \in DOMAIN s : s[i][2] \in parts
    OBVIOUS
  <2>2. e(f) = e(g)
    BY <2>1
  <2>3. /\ EncodeWith(f, Dict(s)) = <<"d">> \o FlattenSeq(e(f)) \o <<"e">>
        /\ EncodeWith(g, Dict(s)) = <<"d">> \o FlattenSeq(e(g)) \o <<"e">>
    BY EncodeKinds
  <2> HIDE DEF e
  <2> QED
    BY <1>3, <2>2, <2>3
<1>4. \/ \E n \in Int : v = Number(n)
      \/ \E s \in Seq(STRING) : v = Bytes(s)
      \/ \E s \in Seq(parts) : v = List(s)
      \/ \E s \in Seq(Texts \X parts) : DistinctKeys(s) /\ v = Dict(s)
  BY ValueIs
<1> QED
  BY <1>1, <1>2, <1>3, <1>4

LEMMA EncoderAgrees ==
    ASSUME NEW d \in Nat
    PROVE  d + 1 <= Depth => \A v \in Values[d] : Encoder[d + 1][v] = Encoder[d][v]
<1> DEFINE Q(n) == n + 1 <= Depth => \A v \in Values[n] : Encoder[n + 1][v] = Encoder[n][v]
           P == {n \in Nat : Q(n)}
<1>0. ASSUME NEW n \in Nat, n + 1 <= Depth, NEW v \in Values[n]
      PROVE  /\ Encoder[n + 1][v] = EncodeWith(Encoder[n], v)
             /\ Encoder[n][v] = EncodeWith(IF n = 0 THEN <<>> ELSE Encoder[n - 1], v)
  <2>1. v \in Values[n + 1] /\ n \in 0..Depth /\ n + 1 \in 0..Depth
    BY <1>0, ValuesGrow, ResponseAssumption
  <2>2. n + 1 # 0 /\ (n + 1) - 1 = n
    OBVIOUS
  <2>3. Encoder[n + 1] = [u \in Values[n + 1] |-> EncodeWith(Encoder[n], u)]
    BY <2>1, <2>2, EncoderDef
  <2>4. Encoder[n] = [u \in Values[n] |->
                        EncodeWith(IF n = 0 THEN <<>> ELSE Encoder[n - 1], u)]
    BY <2>1, EncoderDef
  <2> QED
    BY <2>1, <2>3, <2>4
<1>1. Q(0)
  <2> SUFFICES ASSUME 0 + 1 <= Depth, NEW v \in Values[0]
               PROVE  Encoder[0 + 1][v] = Encoder[0][v]
    OBVIOUS
  <2>1. v \in ValuesOf({})
    BY ValuesFirst
  <2>2. EncodeWith(Encoder[0], v) = EncodeWith(<<>>, v)
    BY <2>1, EncodeWithSame
  <2> QED
    BY <1>0, <2>2
<1>2. ASSUME NEW n \in Nat, Q(n)
      PROVE  Q(n + 1)
  <2> DEFINE m == n + 1
  <2>0. m \in Nat /\ m # 0 /\ m - 1 = n /\ (m + 1 <= Depth => n + 1 <= Depth)
    BY ResponseAssumption
  <2> SUFFICES ASSUME m + 1 <= Depth, NEW v \in Values[m]
               PROVE  Encoder[m + 1][v] = Encoder[m][v]
    OBVIOUS
  <2>1. v \in ValuesOf(Values[n])
    BY <2>0, ValuesNext
  <2>2. \A u \in Values[n] : Encoder[m][u] = Encoder[n][u]
    BY <1>2, <2>0
  <2> HIDE DEF m, Q
  <2>3. EncodeWith(Encoder[m], v) = EncodeWith(Encoder[n], v)
    BY <2>1, <2>2, EncodeWithSame
  <2> QED
    BY <1>0, <2>0, <2>3
<1>3. d \in P
  <2>1. 0 \in P /\ \A n \in Nat : n \in P => n + 1 \in P
    BY <1>1, <1>2
  <2> HIDE DEF P
  <2> QED
    BY <2>1, Induct
<1> QED
  BY <1>3

\* The depth at which a value is looked for does not matter.
LEMMA EncodeEquation ==
    ASSUME NEW v \in AnyValue
    PROVE  Encode(v) = EncodeWith(Encoder[Depth], v)
<1> DEFINE inner == IF Depth = 0 THEN <<>> ELSE Encoder[Depth - 1]
<1>0. Depth \in 0..Depth
  BY ResponseAssumption
<1>1. Encode(v) = EncodeWith(inner, v)
  <2>1. Encoder[Depth] = [u \in Values[Depth] |-> EncodeWith(inner, u)]
    BY <1>0, EncoderDef
  <2> HIDE DEF inner
  <2> QED
    BY <2>1 DEF AnyValue, Encode
<1>2. CASE Depth = 0
  <2>1. v \in ValuesOf({})
    BY <1>2, ValuesFirst DEF AnyValue
  <2> HIDE DEF inner
  <2>2. EncodeWith(inner, v) = EncodeWith(Encoder[Depth], v)
    <3>1. \A u \in {} : inner[u] = Encoder[Depth][u]
      OBVIOUS
    <3> QED
      BY <2>1, <3>1, EncodeWithSame
  <2> QED
    BY <1>1, <2>2
<1>3. CASE Depth # 0
  <2> DEFINE d == Depth - 1
  <2>1. d \in Nat /\ d + 1 = Depth /\ d + 1 <= Depth /\ inner = Encoder[d]
    BY <1>3, ResponseAssumption
  <2> HIDE DEF d, inner
  <2>2. v \in ValuesOf(Values[d])
    BY <2>1, ValuesNext DEF AnyValue
  <2>3. \A u \in Values[d] : inner[u] = Encoder[Depth][u]
    BY <2>1, EncoderAgrees
  <2>4. EncodeWith(inner, v) = EncodeWith(Encoder[Depth], v)
    BY <2>2, <2>3, EncodeWithSame
  <2> QED
    BY <1>1, <2>4
<1> QED
  BY <1>2, <1>3

-----------------------------------------------------------------------------
(* What the decoder looks at. *)

LEMMA StructureBytes == Structure \subseteq Byte
  BY DEF Byte

LEMMA TextBytes ==
    ASSUME NEW s \in Seq(STRING)
    PROVE  s \in Seq(Byte)
  BY SeqMonotonic DEF Byte

\* Digits only are a number, and not part of the structure.
LEMMA DigitsNumber ==
    ASSUME NEW s \in Seq(Byte), s # <<>>, \A i \in 1..Len(s) : IsDigit(s[i])
    PROVE  /\ IsNumber(s) /\ NumberOf(s) = Decimal(s)
           /\ \A i \in 1..Len(s) : s[i] \notin Structure
<1>1. \A i \in 1..Len(s) : s[i] \notin Structure
  BY DigitValue
<1>2. s[1] # "-"
  <2>1. 1 \in 1..Len(s)
    OBVIOUS
  <2> QED
    BY <1>1, <2>1 DEF Structure
<1>3. Magnitude(s) = s
  BY <1>2 DEF Magnitude
<1>4. DOMAIN s = 1..Len(s)
  OBVIOUS
<1> QED
  BY <1>1, <1>2, <1>3, <1>4 DEF IsNumber, NumberOf

LEMMA Minus ==
    ASSUME NEW d \in Seq(Byte)
    PROVE  LET s == <<"-">> \o d
           IN  /\ s \in Seq(Byte) /\ s # <<>> /\ s[1] = "-" /\ Tail(s) = d
               /\ Len(s) = Len(d) + 1 /\ \A i \in 1..Len(d) : s[i + 1] = d[i]
<1> DEFINE m == <<"-">>
           s == m \o d
<1>1. m \in Seq(Byte) /\ Len(m) = 1 /\ m[1] = "-"
  BY StructureBytes DEF Structure
<1> HIDE DEF m
<1>2. /\ s \in Seq(Byte) /\ Len(s) = 1 + Len(d)
      /\ \A i \in 1..1 + Len(d) : s[i] = IF i <= 1 THEN m[i] ELSE d[i - 1]
  <2>1. m \in Seq(Byte) /\ d \in Seq(Byte)
    BY <1>1
  <2>2. /\ m \o d \in Seq(Byte) /\ Len(m \o d) = Len(m) + Len(d)
        /\ \A i \in 1..Len(m) + Len(d) :
              (m \o d)[i] = IF i <= Len(m) THEN m[i] ELSE d[i - Len(m)]
    BY <2>1, ConcatProperties
  <2> HIDE DEF s
  <2> QED
    BY <1>1, <2>2 DEF s
<1> HIDE DEF s
<1>3. Len(d) \in Nat /\ Len(s) = Len(d) + 1
  BY <1>2
<1>4. s[1] = "-" /\ \A i \in 1..Len(d) : s[i + 1] = d[i]
  <2>1. 1 \in 1..1 + Len(d)
    BY <1>3
  <2>2. \A i \in 1..Len(d) : i + 1 \in 1..1 + Len(d) /\ ~(i + 1 <= 1) /\ (i + 1) - 1 = i
    BY <1>3
  <2> QED
    BY <1>1, <1>2, <2>1, <2>2
<1>5. s # <<>>
  BY <1>2, <1>3
<1>6. Tail(s) = d
  <2>1. /\ Tail(s) \in Seq(Byte) /\ Len(Tail(s)) = Len(s) - 1
        /\ \A i \in 1..Len(Tail(s)) : Tail(s)[i] = s[i + 1]
    BY <1>2, <1>5, HeadTailProperties
  <2>2. Len(Tail(s)) = Len(d)
    BY <1>3, <2>1
  <2> DEFINE t == Tail(s)
  <2> HIDE DEF t
  <2>3. t = d
    <3>1. \A i \in 1..Len(t) : t[i] = d[i]
      BY <1>4, <2>1, <2>2 DEF t
    <3> QED
      BY <2>1, <2>2, <3>1, SeqEqual DEF t
  <2> QED
    BY <2>3 DEF t
<1> QED
  BY <1>2, <1>3, <1>4, <1>5, <1>6 DEF s, m

\* What stands between "i" and "e" reads as the number.
LEMMA NumberText ==
    ASSUME NEW n \in Int
    PROVE  \E x \in Seq(Byte) :
              /\ EncodeInt(n) = <<"i">> \o x \o <<"e">>
              /\ IsNumber(x) /\ NumberOf(x) = n
              /\ \A i \in 1..Len(x) : x[i] # "e"
<1>1. CASE n < 0
  <2> DEFINE d == DigitsOf(-n)
             x == <<"-">> \o d
  <2>1. /\ d \in Seq(Byte) /\ d # <<>> /\ Decimal(d) = -n
        /\ \A i \in 1..Len(d) : IsDigit(d[i])
    <3>1. -n \in Nat
      BY <1>1
    <3> QED
      BY <3>1, DigitsAre
  <2>2. EncodeInt(n) = <<"i">> \o x \o <<"e">>
    BY <1>1 DEF EncodeInt
  <2> HIDE DEF d
  <2>3. /\ x \in Seq(Byte) /\ x # <<>> /\ x[1] = "-" /\ Tail(x) = d
        /\ Len(x) = Len(d) + 1 /\ \A i \in 1..Len(d) : x[i + 1] = d[i]
    BY <2>1, Minus
  <2> HIDE DEF x
  <2>4. Magnitude(x) = d
    BY <2>3 DEF Magnitude
  <2>5. DOMAIN d = 1..Len(d) /\ Len(d) \in Nat
    BY <2>1
  <2>6. IsNumber(x)
    BY <2>1, <2>4, <2>5 DEF IsNumber
  <2>7. NumberOf(x) = n
    <3>1. NumberOf(x) = -Decimal(d)
      BY <2>3, <2>4 DEF NumberOf
    <3>2. -(-n) = n
      OBVIOUS
    <3> QED
      BY <2>1, <3>1, <3>2
  <2>8. ASSUME NEW i \in 1..Len(x)
        PROVE  x[i] # "e"
    <3>1. CASE i = 1
      BY <2>3, <3>1
    <3>2. CASE i # 1
      <4>1. i - 1 \in 1..Len(d) /\ (i - 1) + 1 = i
        BY <2>3, <2>5, <3>2
      <4>2. x[i] = d[i - 1]
        BY <2>3, <4>1
      <4> QED
        BY <2>1, <4>1, <4>2, DigitValue DEF Structure
    <3> QED
      BY <3>1, <3>2
  <2> QED
    BY <2>2, <2>3, <2>6, <2>7, <2>8
<1>2. CASE ~(n < 0)
  <2> DEFINE d == DigitsOf(n)
  <2>1. /\ d \in Seq(Byte) /\ d # <<>> /\ Decimal(d) = n
        /\ \A i \in 1..Len(d) : IsDigit(d[i])
    <3>1. n \in Nat
      BY <1>2
    <3> QED
      BY <3>1, DigitsAre
  <2>2. EncodeInt(n) = <<"i">> \o d \o <<"e">>
    BY <1>2 DEF EncodeInt
  <2> HIDE DEF d
  <2> QED
    BY <2>1, <2>2, DigitsNumber DEF Structure
<1> QED
  BY <1>1, <1>2

\* A token before a text and one after it.
LEMMA Framed ==
    ASSUME NEW c \in Byte, NEW e \in Byte, NEW x \in Seq(Byte)
    PROVE  /\ <<c>> \o x \o <<e>> \in Seq(Byte) /\ Len(<<c>> \o x \o <<e>>) = Len(x) + 2
           /\ (<<c>> \o x \o <<e>>)[1] = c
           /\ <<c>> \o x \o <<e>> = <<c>> \o (x \o <<e>>)
<1> DEFINE a == <<c>>
           b == <<e>>
           y == a \o x
<1>1. a \in Seq(Byte) /\ b \in Seq(Byte) /\ Len(a) = 1 /\ Len(b) = 1 /\ a[1] = c
  OBVIOUS
<1> HIDE DEF a, b
<1>2. /\ y \in Seq(Byte) /\ Len(y) = Len(a) + Len(x)
      /\ \A i \in 1..Len(a) + Len(x) : y[i] = IF i <= Len(a) THEN a[i] ELSE x[i - Len(a)]
  BY <1>1, ConcatProperties
<1>3. y \o b = a \o (x \o b)
  BY <1>1, ConcatAssociative
<1> HIDE DEF y
<1>4. /\ y \o b \in Seq(Byte) /\ Len(y \o b) = Len(y) + Len(b)
      /\ \A i \in 1..Len(y) + Len(b) :
            (y \o b)[i] = IF i <= Len(y) THEN y[i] ELSE b[i - Len(y)]
  <2>1. y \in Seq(Byte) /\ b \in Seq(Byte)
    BY <1>1, <1>2
  <2> QED
    BY <2>1, ConcatProperties
<1>5. Len(x) \in Nat
  OBVIOUS
<1>6. (y \o b)[1] = c /\ Len(y \o b) = Len(x) + 2
  BY <1>1, <1>2, <1>4, <1>5
<1> QED
  BY <1>3, <1>4, <1>6 DEF a, b, y

\* The length of a text, as it is read, and the text.
LEMMA BytesText ==
    ASSUME NEW s \in Seq(STRING)
    PROVE  \E d \in Seq(Byte) :
              /\ EncodeBytes(s) = d \o (<<":">> \o s)
              /\ IsNumber(d) /\ NumberOf(d) = Len(s) /\ d # <<>> /\ IsDigit(d[1])
              /\ \A i \in 1..Len(d) : d[i] # ":"
<1> DEFINE d == DigitsOf(Len(s))
           c == <<":">>
<1>1. /\ d \in Seq(Byte) /\ d # <<>> /\ Decimal(d) = Len(s)
      /\ \A i \in 1..Len(d) : IsDigit(d[i])
  BY DigitsAre
<1>2. c \in Seq(Byte) /\ s \in Seq(Byte)
  BY StructureBytes, TextBytes DEF Structure
<1>3. EncodeBytes(s) = d \o c \o s
  BY DEF EncodeBytes
<1> HIDE DEF d, c
<1>4. (d \o c) \o s = d \o (c \o s)
  BY <1>1, <1>2, ConcatAssociative
<1>5. /\ IsNumber(d) /\ NumberOf(d) = Decimal(d)
      /\ \A i \in 1..Len(d) : d[i] \notin Structure
  BY <1>1, DigitsNumber
<1>6. IsDigit(d[1]) /\ \A i \in 1..Len(d) : d[i] # ":"
  <2>1. 1 \in 1..Len(d)
    BY <1>1
  <2> QED
    BY <1>1, <1>5, <2>1 DEF Structure
<1>7. EncodeBytes(s) = d \o (c \o s)
  BY <1>3, <1>4
<1> QED
  BY <1>1, <1>5, <1>6, <1>7 DEF c

LEMMA BytesShape ==
    ASSUME NEW s \in Seq(STRING)
    PROVE  /\ EncodeBytes(s) \in Seq(Byte) /\ Len(EncodeBytes(s)) >= 2
           /\ EncodeBytes(s)[1] # "e"
<1> DEFINE c == <<":">>
           y == c \o s
<1>1. PICK d \in Seq(Byte) : /\ EncodeBytes(s) = d \o y
                             /\ d # <<>> /\ IsDigit(d[1])
  BY BytesText
<1>2. c \in Seq(Byte) /\ s \in Seq(Byte) /\ Len(c) = 1
  BY StructureBytes, TextBytes DEF Structure
<1> HIDE DEF c
<1>3. y \in Seq(Byte) /\ Len(y) = Len(c) + Len(s)
  BY <1>2, ConcatProperties
<1> HIDE DEF y
<1>4. /\ d \o y \in Seq(Byte) /\ Len(d \o y) = Len(d) + Len(y)
      /\ \A i \in 1..Len(d) + Len(y) : (d \o y)[i] = IF i <= Len(d) THEN d[i] ELSE y[i - Len(d)]
  <2>1. d \in Seq(Byte) /\ y \in Seq(Byte)
    BY <1>3
  <2> QED
    BY <2>1, ConcatProperties
<1>5. Len(d) \in Nat \ {0} /\ Len(s) \in Nat
  BY <1>1, <1>2
<1>6. Len(d \o y) >= 2
  BY <1>2, <1>3, <1>4, <1>5
<1>7. (d \o y)[1] = d[1]
  BY <1>2, <1>3, <1>4, <1>5
<1>8. d[1] # "e"
  BY <1>1, DigitValue DEF Structure
<1> QED
  BY <1>1, <1>4, <1>6, <1>7, <1>8

LEMMA EncodeWithShape ==
    ASSUME NEW parts, NEW v \in ValuesOf(parts), NEW f, \A u \in parts : f[u] \in Seq(Byte)
    PROVE  /\ EncodeWith(f, v) \in Seq(Byte) /\ Len(EncodeWith(f, v)) >= 2
           /\ EncodeWith(f, v)[1] # "e"
<1> DEFINE Good(x) == x \in Seq(Byte) /\ Len(x) >= 2 /\ x[1] # "e"
<1>0. \A c, e \in Byte, x \in Seq(Byte) : c # "e" => Good(<<c>> \o x \o <<e>>)
  <2> SUFFICES ASSUME NEW c \in Byte, NEW e \in Byte, NEW x \in Seq(Byte), c # "e"
               PROVE  Good(<<c>> \o x \o <<e>>)
    OBVIOUS
  <2> DEFINE y == <<c>> \o x \o <<e>>
  <2>1. y \in Seq(Byte) /\ Len(y) = Len(x) + 2 /\ y[1] = c
    BY Framed
  <2> HIDE DEF y
  <2>2. Good(y)
    BY <2>1
  <2> QED
    BY <2>2 DEF y
<1> HIDE DEF Good
<1>c. {"i", "l", "d", "e"} \subseteq Byte
  BY StructureBytes DEF Structure
<1>1. ASSUME NEW n \in Int, v = Number(n)
      PROVE  Good(EncodeWith(f, v))
  <2>1. PICK x \in Seq(Byte) : EncodeInt(n) = <<"i">> \o x \o <<"e">>
    BY NumberText
  <2>2. EncodeWith(f, v) = EncodeInt(n)
    BY <1>1, EncodeKinds
  <2> QED
    BY <1>0, <1>c, <2>1, <2>2
<1>2. ASSUME NEW s \in Seq(STRING), v = Bytes(s)
      PROVE  Good(EncodeWith(f, v))
  <2>1. EncodeWith(f, v) = EncodeBytes(s)
    BY <1>2, EncodeKinds
  <2> QED
    BY <2>1, BytesShape DEF Good
<1>3. ASSUME NEW s \in Seq(parts), v = List(s)
      PROVE  Good(EncodeWith(f, v))
  <2> DEFINE e == [i \in DOMAIN s |-> f[s[i]]]
  <2>1. DOMAIN s = 1..Len(s) /\ Len(s) \in Nat /\ \A i \in DOMAIN s : s[i] \in parts
    OBVIOUS
  <2>2. e \in Seq(Seq(Byte))
    BY <2>1
  <2>3. EncodeWith(f, v) = <<"l">> \o FlattenSeq(e) \o <<"e">>
    BY <1>3, EncodeKinds
  <2> HIDE DEF e
  <2>4. FlattenSeq(e) \in Seq(Byte)
    BY <2>2, FlattenType
  <2> QED
    BY <1>0, <1>c, <2>3, <2>4
<1>4. ASSUME NEW s \in Seq(Texts \X parts), v = Dict(s)
      PROVE  Good(EncodeWith(f, v))
  <2> DEFINE e == [i \in DOMAIN s |-> EncodeBytes(s[i][1][2]) \o f[s[i][2]]]
  <2>1. DOMAIN s = 1..Len(s) /\ Len(s) \in Nat
    OBVIOUS
  <2>2. ASSUME NEW i \in DOMAIN s
        PROVE  EncodeBytes(s[i][1][2]) \o f[s[i][2]] \in Seq(Byte)
    <3>1. s[i] \in Texts \X parts
      OBVIOUS
    <3>2. s[i][1][2] \in Seq(STRING) /\ f[s[i][2]] \in Seq(Byte)
      BY <3>1 DEF Texts
    <3>3. EncodeBytes(s[i][1][2]) \in Seq(Byte)
      BY <3>2, BytesShape
    <3> QED
      BY <3>2, <3>3, ConcatProperties
  <2>3. e \in Seq(Seq(Byte))
    BY <2>1, <2>2
  <2>4. EncodeWith(f, v) = <<"d">> \o FlattenSeq(e) \o <<"e">>
    BY <1>4, EncodeKinds
  <2> HIDE DEF e
  <2>5. FlattenSeq(e) \in Seq(Byte)
    BY <2>3, FlattenType
  <2> QED
    BY <1>0, <1>c, <2>4, <2>5
<1>5. \/ \E n \in Int : v = Number(n)
      \/ \E s \in Seq(STRING) : v = Bytes(s)
      \/ \E s \in Seq(parts) : v = List(s)
      \/ \E s \in Seq(Texts \X parts) : DistinctKeys(s) /\ v = Dict(s)
  BY ValueIs
<1>6. Good(EncodeWith(f, v))
  BY <1>1, <1>2, <1>3, <1>4, <1>5
<1> QED
  BY <1>6 DEF Good

LEMMA EncoderTyped ==
    ASSUME NEW d \in Nat
    PROVE  d <= Depth => \A v \in Values[d] : Encoder[d][v] \in Seq(Byte)
<1> DEFINE Q(n) == n <= Depth => \A v \in Values[n] : Encoder[n][v] \in Seq(Byte)
           P == {n \in Nat : Q(n)}
<1>1. Q(0)
  <2> SUFFICES ASSUME NEW v \in Values[0]
               PROVE  Encoder[0][v] \in Seq(Byte)
    OBVIOUS
  <2>1. 0 \in 0..Depth
    BY ResponseAssumption
  <2>2. Encoder[0] = [u \in Values[0] |-> EncodeWith(<<>>, u)]
    BY <2>1, EncoderDef
  <2>3. v \in ValuesOf({})
    BY ValuesFirst
  <2> QED
    BY <2>2, <2>3, EncodeWithShape
<1>2. ASSUME NEW n \in Nat, Q(n)
      PROVE  Q(n + 1)
  <2> DEFINE m == n + 1
  <2> SUFFICES ASSUME m <= Depth, NEW v \in Values[m]
               PROVE  Encoder[m][v] \in Seq(Byte)
    OBVIOUS
  <2>1. m \in 0..Depth /\ m # 0 /\ m - 1 = n /\ n <= Depth
    BY ResponseAssumption
  <2>2. v \in ValuesOf(Values[n])
    BY <2>1, ValuesNext
  <2> HIDE DEF m
  <2>3. Encoder[m] = [u \in Values[m] |-> EncodeWith(Encoder[n], u)]
    BY <2>1, EncoderDef
  <2> QED
    BY <1>2, <2>1, <2>2, <2>3, EncodeWithShape
<1> HIDE DEF Q
<1>3. d \in P
  <2>1. 0 \in P /\ \A n \in Nat : n \in P => n + 1 \in P
    BY <1>1, <1>2
  <2> HIDE DEF P
  <2> QED
    BY <2>1, Induct
<1> QED
  BY <1>3 DEF Q

\* An encoding is two bytes long at least, and does not begin as the end of a
\* container does.
LEMMA EncodeShape ==
    ASSUME NEW v \in AnyValue
    PROVE  Encode(v) \in Seq(Byte) /\ Len(Encode(v)) >= 2 /\ Encode(v)[1] # "e"
<1>1. \A u \in AnyValue : Encoder[Depth][u] \in Seq(Byte)
  BY EncoderTyped, ResponseAssumption DEF AnyValue
<1>2. v \in ValuesOf(AnyValue)
  BY PartsAreValues
<1>3. Encode(v) = EncodeWith(Encoder[Depth], v)
  BY EncodeEquation
<1> DEFINE f == Encoder[Depth]
<1> HIDE DEF f
<1>4. \A u \in AnyValue : f[u] \in Seq(Byte)
  BY <1>1 DEF f
<1>5. EncodeWith(f, v) \in Seq(Byte) /\ Len(EncodeWith(f, v)) >= 2 /\ EncodeWith(f, v)[1] # "e"
  BY <1>2, <1>4, EncodeWithShape
<1> QED
  BY <1>3, <1>5 DEF f

-----------------------------------------------------------------------------
(* Containers. *)

Entries == Texts \X AnyValue

\* What stands for each item, or each key and its value.
ListParts(s) == [i \in DOMAIN s |-> Encode(s[i])]
DictParts(s) == [i \in DOMAIN s |-> Encode(s[i][1]) \o Encode(s[i][2])]

LEMMA EncodeNumber ==
    ASSUME NEW n, Number(n) \in AnyValue
    PROVE  Encode(Number(n)) = EncodeInt(n)
  BY EncodeEquation, EncodeKinds

LEMMA EncodeText ==
    ASSUME NEW s, Bytes(s) \in AnyValue
    PROVE  Encode(Bytes(s)) = EncodeBytes(s)
  BY EncodeEquation, EncodeKinds

LEMMA EncodeList ==
    ASSUME NEW s, List(s) \in AnyValue
    PROVE  Encode(List(s)) = <<"l">> \o FlattenSeq(ListParts(s)) \o <<"e">>
<1>1. Encode(List(s)) = EncodeWith(Encoder[Depth], List(s))
  BY EncodeEquation
<1>2. ListParts(s) = [i \in DOMAIN s |-> Encoder[Depth][s[i]]]
  BY DEF ListParts, Encode
<1> DEFINE f == Encoder[Depth]
           e == [i \in DOMAIN s |-> f[s[i]]]
<1> HIDE DEF f
<1>3. EncodeWith(f, List(s)) = <<"l">> \o FlattenSeq(e) \o <<"e">>
  BY EncodeKinds
<1> HIDE DEF e
<1> QED
  BY <1>1, <1>2, <1>3 DEF e, f

LEMMA EncodeDict ==
    ASSUME NEW s \in Seq(Entries), Dict(s) \in AnyValue
    PROVE  Encode(Dict(s)) = <<"d">> \o FlattenSeq(DictParts(s)) \o <<"e">>
<1>1. Encode(Dict(s)) = EncodeWith(Encoder[Depth], Dict(s))
  BY EncodeEquation
<1> DEFINE f == Encoder[Depth]
           e == [i \in DOMAIN s |-> EncodeBytes(s[i][1][2]) \o f[s[i][2]]]
<1>2. DictParts(s) = e
  <2>1. ASSUME NEW i \in DOMAIN s
        PROVE  Encode(s[i][1]) = EncodeBytes(s[i][1][2])
    <3>1. s[i] \in Entries
      OBVIOUS
    <3>2. s[i][1] = Bytes(s[i][1][2]) /\ s[i][1][2] \in Seq(STRING)
      BY <3>1 DEF Entries, Texts, Bytes
    <3> DEFINE k == s[i][1][2]
    <3> HIDE DEF k
    <3>3. Encode(Bytes(k)) = EncodeBytes(k)
      BY <3>2, TextsAreValues, EncodeText DEF k
    <3> QED
      BY <3>2, <3>3 DEF k
  <2>2. \A i \in DOMAIN s : Encode(s[i][2]) = f[s[i][2]]
    BY DEF Encode
  <2> HIDE DEF f
  <2> QED
    BY <2>1, <2>2 DEF DictParts
<1> HIDE DEF f
<1>3. EncodeWith(f, Dict(s)) = <<"d">> \o FlattenSeq(e) \o <<"e">>
  BY EncodeKinds
<1> HIDE DEF e
<1> QED
  BY <1>1, <1>2, <1>3 DEF f

LEMMA PartsTyped ==
    /\ \A s \in Seq(AnyValue) : ListParts(s) \in Seq(Seq(Byte)) /\ Len(ListParts(s)) = Len(s)
    /\ \A s \in Seq(Entries) : DictParts(s) \in Seq(Seq(Byte)) /\ Len(DictParts(s)) = Len(s)
<1>1. ASSUME NEW s \in Seq(AnyValue)
      PROVE  ListParts(s) \in Seq(Seq(Byte)) /\ Len(ListParts(s)) = Len(s)
  <2>1. DOMAIN s = 1..Len(s) /\ Len(s) \in Nat /\ \A i \in 1..Len(s) : s[i] \in AnyValue
    OBVIOUS
  <2>2. \A i \in 1..Len(s) : Encode(s[i]) \in Seq(Byte)
    BY <2>1, EncodeShape
  <2> DEFINE e(i) == Encode(s[i])
  <2> HIDE DEF e
  <2>3. ListParts(s) = [i \in 1..Len(s) |-> e(i)]
    BY <2>1 DEF ListParts, e
  <2>4. \A i \in 1..Len(s) : e(i) \in Seq(Byte)
    BY <2>2 DEF e
  <2> QED
    BY <2>1, <2>3, <2>4
<1>2. ASSUME NEW s \in Seq(Entries)
      PROVE  DictParts(s) \in Seq(Seq(Byte)) /\ Len(DictParts(s)) = Len(s)
  <2>1. DOMAIN s = 1..Len(s) /\ Len(s) \in Nat /\ \A i \in 1..Len(s) : s[i] \in Entries
    OBVIOUS
  <2> DEFINE e(i) == Encode(s[i][1]) \o Encode(s[i][2])
  <2>2. ASSUME NEW i \in 1..Len(s)
        PROVE  e(i) \in Seq(Byte)
    <3>1. s[i][1] = Bytes(s[i][1][2]) /\ s[i][1][2] \in Seq(STRING) /\ s[i][2] \in AnyValue
      BY <2>1 DEF Entries, Texts, Bytes
    <3>2. s[i][1] \in AnyValue
      BY <3>1, TextsAreValues
    <3>3. Encode(s[i][1]) \in Seq(Byte) /\ Encode(s[i][2]) \in Seq(Byte)
      BY <3>1, <3>2, EncodeShape
    <3> QED
      BY <3>3, ConcatProperties
  <2>3. DictParts(s) = [i \in 1..Len(s) |-> e(i)]
    BY <2>1 DEF DictParts
  <2> HIDE DEF e
  <2> QED
    BY <2>1, <2>2, <2>3
<1> QED
  BY <1>1, <1>2

=============================================================================
