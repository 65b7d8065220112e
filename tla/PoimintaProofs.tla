--------------------------- MODULE PoimintaProofs ---------------------------
(***************************************************************************)
(* What is picked from a sequence, and what moving a member does: the      *)
(* lemmas about lists that the theorems of the pages rest on.              *)
(***************************************************************************)
EXTENDS Poiminta, FiniteSetTheorems, FunctionTheorems, SequenceTheorems, TLAPS

\* How many of the places in I there are up to i
Sija(I, i) == Cardinality({j \in I : j <= i})

\* Places of a sequence are finitely many, and each has its number among them
LEMMA SijatOikein ==
  ASSUME NEW m \in Nat, NEW I \in SUBSET (1 .. m)
  PROVE  /\ IsFiniteSet(I) /\ Cardinality(I) \in Nat /\ Cardinality(I) <= m
         /\ \A i \in I : Sija(I, i) \in 1 .. Cardinality(I)
         /\ \A i, j \in I : i < j => Sija(I, i) < Sija(I, j)
<1>1. IsFiniteSet(1 .. m) /\ Cardinality(1 .. m) = m
  BY FS_Interval
<1>2. IsFiniteSet(I) /\ Cardinality(I) \in Nat /\ Cardinality(I) <= m
  BY <1>1, FS_Subset, FS_CardinalityType
<1>3. ASSUME NEW i \in I PROVE Sija(I, i) \in 1 .. Cardinality(I)
  <2> DEFINE J == {j \in I : j <= i}
  <2>1. IsFiniteSet(J) /\ Cardinality(J) <= Cardinality(I) /\ Cardinality(J) \in Nat
    BY <1>2, FS_Subset, FS_CardinalityType
  <2>2. i \in J
    OBVIOUS
  <2>3. Cardinality(J) # 0
    BY <2>1, <2>2, FS_EmptySet
  <2> QED BY <1>2, <2>1, <2>3 DEF Sija
<1>4. ASSUME NEW i \in I, NEW j \in I, i < j PROVE Sija(I, i) < Sija(I, j)
  <2> DEFINE A == {k \in I : k <= i}
             B == {k \in I : k <= j}
  <2>0. i \in Int /\ j \in Int /\ I \subseteq Int
    OBVIOUS
  <2>1. IsFiniteSet(B) /\ A \in SUBSET B /\ j \in B /\ j \notin A
    <3>1. \A k \in I : k <= i => k <= j
      BY <1>4, <2>0
    <3>2. A \subseteq B
      BY <3>1
    <3>4. B \subseteq I
      OBVIOUS
    <3>5. j \in B
      BY <2>0
    <3>3. j \notin A
      BY <1>4, <2>0
    <3> QED BY <1>2, <3>2, <3>3, <3>4, <3>5, FS_Subset
  <2>2. Cardinality(A) <= Cardinality(B) /\ Cardinality(A) # Cardinality(B)
    BY <2>1, FS_Subset
  <2>3. Cardinality(A) \in Nat /\ Cardinality(B) \in Nat
    BY <2>1, FS_Subset, FS_CardinalityType
  <2> QED BY <2>2, <2>3 DEF Sija
<1> QED BY <1>2, <1>3, <1>4

\* Every number up to how many there are is the number of one place
LEMMA KohtaOikein ==
  ASSUME NEW m \in Nat, NEW I \in SUBSET (1 .. m)
  PROVE  /\ \A n \in 1 .. Cardinality(I) : Kohta(I, n) \in I /\ Sija(I, Kohta(I, n)) = n
         /\ \A i \in I : Kohta(I, Sija(I, i)) = i
<1> DEFINE N == 1 .. Cardinality(I)
           f == [i \in I |-> Sija(I, i)]
<1>1. /\ IsFiniteSet(I) /\ Cardinality(I) \in Nat
      /\ \A i \in I : Sija(I, i) \in N
      /\ \A i, j \in I : i < j => Sija(I, i) < Sija(I, j)
  BY SijatOikein
<1>2. \A i, j \in I : Sija(I, i) = Sija(I, j) => i = j
  BY <1>1
<1>3. f \in Injection(I, N)
  BY <1>1, <1>2, Fun_IsInj
<1>4. IsFiniteSet(N) /\ Cardinality(N) = Cardinality(I)
  BY <1>1, FS_Interval
<1>5. f \in Surjection(I, N)
  BY <1>3, <1>4, FS_Injection
<1>6. \A n \in N : \E i \in I : Sija(I, i) = n
  <2>1. \A n \in N : \E i \in I : f[i] = n
    BY <1>5 DEF Surjection
  <2> QED BY <2>1
<1>7. \A n \in N : Kohta(I, n) \in I /\ Sija(I, Kohta(I, n)) = n
  BY <1>6 DEF Kohta, Sija
<1> QED BY <1>1, <1>2, <1>7

\* What is picked comes in order from the places it is picked from
LEMMA KohdistaOikein ==
  ASSUME NEW S, NEW s \in Seq(S), NEW I \in SUBSET (DOMAIN s)
  PROVE  /\ Kohdista(s, I) \in Seq(S) /\ Len(Kohdista(s, I)) = Cardinality(I)
         /\ Cardinality(I) \in Nat /\ DOMAIN Kohdista(s, I) = 1 .. Cardinality(I)
         /\ \A n \in 1 .. Cardinality(I) : Kohta(I, n) \in I /\ Kohdista(s, I)[n] = s[Kohta(I, n)]
         /\ \A n, k \in 1 .. Cardinality(I) : n < k => Kohta(I, n) < Kohta(I, k)
         /\ \A i \in I : \E n \in 1 .. Cardinality(I) : Kohta(I, n) = i
<1>1. Len(s) \in Nat /\ DOMAIN s = 1 .. Len(s) /\ \A i \in DOMAIN s : s[i] \in S
  OBVIOUS
<1>2. /\ Cardinality(I) \in Nat
      /\ \A i \in I : Sija(I, i) \in 1 .. Cardinality(I)
      /\ \A i, j \in I : i < j => Sija(I, i) < Sija(I, j)
  BY <1>1, SijatOikein
<1>3. /\ \A n \in 1 .. Cardinality(I) : Kohta(I, n) \in I /\ Sija(I, Kohta(I, n)) = n
      /\ \A i \in I : Kohta(I, Sija(I, i)) = i
  BY <1>1, KohtaOikein
<1>4. \A n, k \in 1 .. Cardinality(I) : n < k => Kohta(I, n) < Kohta(I, k)
  <2> SUFFICES ASSUME NEW n \in 1 .. Cardinality(I), NEW k \in 1 .. Cardinality(I), n < k
               PROVE  Kohta(I, n) < Kohta(I, k)
    OBVIOUS
  <2>1. /\ Kohta(I, n) \in I /\ Sija(I, Kohta(I, n)) = n
        /\ Kohta(I, k) \in I /\ Sija(I, Kohta(I, k)) = k
    BY <1>3
  <2>2. Kohta(I, n) \in Nat /\ Kohta(I, k) \in Nat
    BY <1>1, <2>1
  <2>3. Kohta(I, k) < Kohta(I, n) => k < n
    BY <1>2, <2>1
  <2> QED BY <2>1, <2>2, <2>3
<1>5. Kohdista(s, I) \in [1 .. Cardinality(I) -> S]
  BY <1>1, <1>3 DEF Kohdista
<1>6. Kohdista(s, I) \in Seq(S) /\ Len(Kohdista(s, I)) = Cardinality(I)
      /\ DOMAIN Kohdista(s, I) = 1 .. Cardinality(I)
  <2>1. Kohdista(s, I) \in Seq(S)
    BY <1>2, <1>5, SeqDef
  <2>2. DOMAIN Kohdista(s, I) = 1 .. Cardinality(I)
    BY DEF Kohdista
  <2> QED BY <1>2, <2>1, <2>2
<1> QED BY <1>2, <1>3, <1>4, <1>6 DEF Kohdista

\* Picked from its first places, a sequence is cut short
LEMMA KohdistaAlku ==
  ASSUME NEW S, NEW s \in Seq(S), NEW m \in 0 .. Len(s)
  PROVE  /\ Kohdista(s, 1 .. m) \in Seq(S) /\ Len(Kohdista(s, 1 .. m)) = m
         /\ \A n \in 1 .. m : Kohdista(s, 1 .. m)[n] = s[n]
<1> DEFINE D == 1 .. m
<1>1. Len(s) \in Nat /\ m \in Nat /\ D \in SUBSET DOMAIN s
  OBVIOUS
<1>2. Cardinality(D) = m
  BY <1>1, FS_Interval
<1>3. ASSUME NEW n \in 1 .. m PROVE Kohta(D, n) = n
  <2>1. {j \in D : j <= n} = 1 .. n
    BY <1>1
  <2>2. Cardinality(1 .. n) = n
    BY <1>1, FS_Interval
  <2>3. Sija(D, n) = n
    BY <2>1, <2>2 DEF Sija
  <2>4. D \in SUBSET (1 .. m) /\ n \in D
    OBVIOUS
  <2> HIDE DEF D
  <2>5. Kohta(D, Sija(D, n)) = n
    BY <1>1, <2>4, KohtaOikein
  <2> QED BY <2>3, <2>5
<1> HIDE DEF D
<1>4. /\ Kohdista(s, D) \in Seq(S) /\ Len(Kohdista(s, D)) = m
      /\ \A n \in 1 .. m : Kohdista(s, D)[n] = s[n]
  BY <1>1, <1>2, <1>3, KohdistaOikein
<1> QED BY <1>4 DEF D

\* Picked from every place, a sequence is itself
LEMMA KohdistaKaikki ==
  ASSUME NEW S, NEW s \in Seq(S)
  PROVE  Kohdista(s, DOMAIN s) = s
<1>1. Len(s) \in 0 .. Len(s) /\ DOMAIN s = 1 .. Len(s)
  OBVIOUS
<1>2. /\ Kohdista(s, DOMAIN s) \in Seq(S) /\ Len(Kohdista(s, DOMAIN s)) = Len(s)
      /\ \A n \in 1 .. Len(s) : Kohdista(s, DOMAIN s)[n] = s[n]
  BY <1>1, KohdistaAlku
<1> QED BY <1>2, SeqEqual

\* c has the members of s, each from a place of its own
Samat(c, s) ==
  \E L \in [DOMAIN s -> DOMAIN s] :
    /\ \A k \in DOMAIN s : c[k] = s[L[k]]
    /\ \A k, l \in DOMAIN s : k # l => L[k] # L[l]

\* A list without one of its members
LEMMA IlmanYhta ==
  ASSUME NEW S, NEW s \in Seq(S), NEW i \in DOMAIN s
  PROVE  LET r == RemoveAt(s, i)
         IN  /\ r \in Seq(S) /\ Len(r) = Len(s) - 1
             /\ \A k \in 1 .. Len(s) - 1 : r[k] = IF k < i THEN s[k] ELSE s[k + 1]
             /\ \A k \in DOMAIN r : \E j \in DOMAIN s : r[k] = s[j]
<1> DEFINE n == Len(s)
<1>1. n \in Nat /\ DOMAIN s = 1 .. n /\ \A k \in 1 .. n : s[k] \in S
  OBVIOUS
<1>2. i \in Int /\ i \in 1 .. n
  BY <1>1
<1> HIDE DEF n
<1> DEFINE a == SubSeq(s, 1, i - 1)
           b == SubSeq(s, i + 1, n)
           r == a \o b
<1>3. /\ a \in Seq(S) /\ Len(a) = i - 1 /\ \A k \in 1 .. i - 1 : a[k] = s[k]
  <2>1. \A k \in 1 .. (i - 1) : s[k] \in S
    BY <1>1, <1>2
  <2> QED BY <1>2, <2>1, SubSeqProperties
<1>4. /\ b \in Seq(S) /\ Len(b) = n - i /\ \A k \in 1 .. n - i : b[k] = s[k + i]
  <2>1. \A k \in (i + 1) .. n : s[k] \in S
    BY <1>1, <1>2
  <2>2. b \in Seq(S) /\ Len(b) = (IF i + 1 <= n THEN n - (i + 1) + 1 ELSE 0)
        /\ \A k \in 1 .. n - (i + 1) + 1 : b[k] = s[i + 1 + k - 1]
    BY <1>1, <1>2, <2>1, SubSeqProperties
  <2> HIDE DEF b
  <2>3. Len(b) = n - i /\ 1 .. n - i = 1 .. n - (i + 1) + 1
    BY <1>1, <1>2, <2>2
  <2>4. \A k \in 1 .. n - i : i + 1 + k - 1 = k + i
    BY <1>1, <1>2
  <2> QED BY <2>2, <2>3, <2>4
<1> HIDE DEF a, b
<1>5. /\ r \in Seq(S) /\ Len(r) = n - 1
      /\ \A k \in 1 .. n - 1 : r[k] = IF k < i THEN s[k] ELSE s[k + 1]
  <2>1. r \in Seq(S) /\ Len(r) = Len(a) + Len(b)
        /\ \A k \in 1 .. Len(a) + Len(b) : r[k] = IF k <= Len(a) THEN a[k] ELSE b[k - Len(a)]
    BY <1>3, <1>4, ConcatProperties
  <2> HIDE DEF r
  <2>2. Len(a) + Len(b) = n - 1
    BY <1>1, <1>2, <1>3, <1>4
  <2>3. ASSUME NEW k \in 1 .. n - 1 PROVE r[k] = IF k < i THEN s[k] ELSE s[k + 1]
    <3>1. CASE k < i
      <4>1. k <= Len(a) /\ k \in 1 .. i - 1
        BY <1>1, <1>2, <1>3, <3>1
      <4> QED BY <1>3, <2>1, <2>2, <3>1, <4>1
    <3>2. CASE ~(k < i)
      <4>1. ~(k <= Len(a)) /\ k - Len(a) \in 1 .. n - i /\ (k - Len(a)) + i = k + 1
        BY <1>1, <1>2, <1>3, <3>2
      <4> QED BY <1>4, <2>1, <2>2, <3>2, <4>1
    <3> QED BY <3>1, <3>2
  <2> QED BY <2>1, <2>2, <2>3
<1>6. RemoveAt(s, i) = r
  BY DEF RemoveAt, r, a, b, n
<1> HIDE DEF r
<1>7. DOMAIN r = 1 .. n - 1
  BY <1>5
<1>8. ASSUME NEW k \in 1 .. n - 1
      PROVE  \E j \in DOMAIN s : r[k] = s[j]
  <2>1. k \in 1 .. n /\ k + 1 \in 1 .. n
    BY <1>1
  <2>2. r[k] = s[k] \/ r[k] = s[k + 1]
    BY <1>5
  <2> QED BY <1>1, <2>1, <2>2
<1> QED BY <1>5, <1>6, <1>7, <1>8 DEF n

\* A member put in another place: the others keep their order, and each is
\* there as it was
LEMMA SiirrettyOikein ==
  ASSUME NEW S, NEW s \in Seq(S), NEW i \in DOMAIN s, NEW j \in DOMAIN s
  PROVE  LET c == InsertAt(RemoveAt(s, i), j, s[i])
         IN  c \in Seq(S) /\ Len(c) = Len(s) /\ Samat(c, s)
<1> DEFINE n == Len(s)
<1>1. n \in Nat /\ DOMAIN s = 1 .. n /\ \A k \in 1 .. n : s[k] \in S
  OBVIOUS
<1>2. i \in Int /\ j \in Int /\ i \in 1 .. n /\ j \in 1 .. n
  BY <1>1
<1> HIDE DEF n
<1> DEFINE r == RemoveAt(s, i)
<1>5. /\ r \in Seq(S) /\ Len(r) = n - 1
      /\ \A k \in 1 .. n - 1 : r[k] = IF k < i THEN s[k] ELSE s[k + 1]
  BY IlmanYhta DEF n
<1> HIDE DEF r
<1> DEFINE d == SubSeq(r, 1, j - 1)
           e == SubSeq(r, j, n - 1)
           c == d \o <<s[i]>> \o e
<1>7. /\ d \in Seq(S) /\ Len(d) = j - 1 /\ \A k \in 1 .. j - 1 : d[k] = r[k]
  <2>1. \A k \in 1 .. (j - 1) : r[k] \in S
    BY <1>1, <1>2, <1>5
  <2> QED BY <1>2, <2>1, SubSeqProperties
<1>8. /\ e \in Seq(S) /\ Len(e) = n - j /\ \A k \in 1 .. n - j : e[k] = r[k + j - 1]
  <2>1. \A k \in j .. (n - 1) : r[k] \in S
    BY <1>1, <1>2, <1>5
  <2>2. e \in Seq(S) /\ Len(e) = (IF j <= n - 1 THEN n - 1 - j + 1 ELSE 0)
        /\ \A k \in 1 .. n - 1 - j + 1 : e[k] = r[j + k - 1]
    BY <1>1, <1>2, <2>1, SubSeqProperties
  <2> HIDE DEF e
  <2>3. Len(e) = n - j /\ 1 .. n - j = 1 .. n - 1 - j + 1
    BY <1>1, <1>2, <2>2
  <2>4. \A k \in 1 .. n - j : j + k - 1 = k + j - 1
    BY <1>1, <1>2
  <2> QED BY <2>2, <2>3, <2>4
<1> HIDE DEF d, e
<1>9. /\ c \in Seq(S) /\ Len(c) = n
      /\ \A k \in 1 .. n : c[k] = IF k < j THEN r[k] ELSE IF k = j THEN s[i] ELSE r[k - 1]
  <2> DEFINE x == <<s[i]>>
             y == d \o x
  <2>1. x \in Seq(S) /\ Len(x) = 1 /\ x[1] = s[i]
    BY <1>1, <1>2
  <2> HIDE DEF x
  <2>2. y \in Seq(S) /\ Len(y) = Len(d) + Len(x)
        /\ \A k \in 1 .. Len(d) + Len(x) : y[k] = IF k <= Len(d) THEN d[k] ELSE x[k - Len(d)]
    BY <1>7, <2>1, ConcatProperties
  <2>3. c = y \o e
    BY DEF x
  <2> HIDE DEF y, c
  <2>4. Len(d) + Len(x) = j /\ Len(y) = j /\ j + Len(e) = n
    BY <1>1, <1>2, <1>7, <1>8, <2>1, <2>2
  <2>5. c \in Seq(S) /\ Len(c) = Len(y) + Len(e)
        /\ \A k \in 1 .. Len(y) + Len(e) : c[k] = IF k <= Len(y) THEN y[k] ELSE e[k - Len(y)]
    BY <1>8, <2>2, <2>3, ConcatProperties, SMTT(15)
  <2>6. ASSUME NEW k \in 1 .. n
        PROVE  c[k] = IF k < j THEN r[k] ELSE IF k = j THEN s[i] ELSE r[k - 1]
    <3>1. CASE k < j
      <4>1. k \in 1 .. j - 1 /\ k \in 1 .. j /\ k <= j /\ k <= Len(d)
        BY <1>1, <1>2, <1>7, <3>1
      <4>2. c[k] = y[k] /\ y[k] = d[k]
        BY <2>2, <2>4, <2>5, <4>1
      <4> QED BY <1>7, <3>1, <4>1, <4>2
    <3>2. CASE k = j
      <4>1. k \in 1 .. j /\ k <= j /\ ~(k <= Len(d)) /\ k - Len(d) = 1
        BY <1>1, <1>2, <1>7, <3>2
      <4>2. c[k] = y[k] /\ y[k] = x[1]
        BY <2>2, <2>4, <2>5, <4>1
      <4> QED BY <1>2, <2>1, <3>2, <4>2
    <3>3. CASE ~(k <= j)
      <4>1. k - j \in 1 .. n - j /\ (k - j) + j - 1 = k - 1 /\ ~(k < j) /\ k # j
        BY <1>1, <1>2, <3>3
      <4>2. c[k] = e[k - j]
        BY <2>4, <2>5, <3>3
      <4>3. e[k - j] = r[(k - j) + j - 1]
        BY <1>8, <4>1
      <4> QED BY <4>1, <4>2, <4>3
    <3> QED BY <1>2, <3>1, <3>2, <3>3
  <2> QED BY <2>4, <2>5, <2>6
<1>10. InsertAt(RemoveAt(s, i), j, s[i]) = c
  <2>1. InsertAt(r, j, s[i]) = SubSeq(r, 1, j - 1) \o <<s[i]>> \o SubSeq(r, j, Len(r))
    BY DEF InsertAt
  <2> QED BY <1>5, <2>1 DEF c, d, e, r
<1> HIDE DEF c
<1> DEFINE \* where the member at k comes from
           L(k) == IF k = j THEN i
                   ELSE LET m == IF k < j THEN k ELSE k - 1 IN IF m < i THEN m ELSE m + 1
<1>11. ASSUME NEW k \in 1 .. n PROVE L(k) \in 1 .. n /\ c[k] = s[L(k)]
  <2>1. CASE k = j
    BY <1>2, <1>9, <2>1
  <2>2. CASE k # j
    <3> DEFINE m == IF k < j THEN k ELSE k - 1
    <3>1. m \in 1 .. n - 1 /\ c[k] = r[m] /\ L(k) = IF m < i THEN m ELSE m + 1
      BY <1>1, <1>2, <1>9, <2>2
    <3> HIDE DEF m, L
    <3> QED BY <1>1, <1>2, <1>5, <3>1
  <2> QED BY <2>1, <2>2
<1>12. \A k, l \in 1 .. n : k # l => L(k) # L(l)
  BY <1>1, <1>2
<1> DEFINE M == [k \in 1 .. n |-> L(k)]
<1>13. M \in [1 .. n -> 1 .. n] /\ \A k \in 1 .. n : M[k] = L(k)
  <2> HIDE DEF L
  <2> QED BY <1>11
<1> HIDE DEF M, L
<1>14. /\ \A k \in DOMAIN s : c[k] = s[M[k]]
       /\ \A k, l \in DOMAIN s : k # l => M[k] # M[l]
       /\ M \in [DOMAIN s -> DOMAIN s]
  BY <1>1, <1>11, <1>12, <1>13
<1>15. Samat(c, s)
  BY <1>14 DEF Samat
<1> QED BY <1>9, <1>10, <1>15 DEF n
=============================================================================
