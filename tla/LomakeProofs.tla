---------------------------- MODULE LomakeProofs ----------------------------
(***************************************************************************)
(* Theorems about the forms of module Selain: what the survey form, the    *)
(* template form and the question group form keep of their lists.          *)
(***************************************************************************)
EXTENDS SivutProofs, PoimintaProofs

(***************************************************************************)
(* Lists of groups (module Ryhmavalinta)                                   *)
(***************************************************************************)

\* A group as the forms keep it, and the lists of them
Rivityyppi == [id : DOMAIN Ryhmatiedot, poistetaan : BOOLEAN, poistettuja : Int]
Ryhmalistat == Seq(Rivityyppi)

\* r is on the list
Jasen(r, rs) == \E i \in DOMAIN rs : r = rs[i]

\* No group twice
Erilliset(rs) == \A i, j \in DOMAIN rs : i # j => rs[i].id # rs[j].id

\* What a list of length n has, told by its length
LEMMA Listatyyppi ==
  ASSUME NEW rs \in Ryhmalistat
  PROVE  /\ Len(rs) \in Nat /\ DOMAIN rs = 1 .. Len(rs)
         /\ \A i \in DOMAIN rs : rs[i] \in Rivityyppi
  BY DEF Ryhmalistat

\* A list in order has each group once
LEMMA KunnossaErilliset ==
  ASSUME NEW rs \in Ryhmalistat, Kunnossa(rs) PROVE Erilliset(rs)
<1>1. ASSUME NEW i \in DOMAIN rs, NEW j \in DOMAIN rs, i # j PROVE rs[i].id # rs[j].id
  <2>1. i \in Int /\ j \in Int
    BY Listatyyppi
  <2>2. i < j \/ j < i
    BY <1>1, <2>1
  <2> QED BY <2>2 DEF Kunnossa
<1> QED BY <1>1 DEF Erilliset

\* There are four places a group sorts to
LEMMA Lohkot == \A r : Lohko(r) \in {0, 100, 1000, 1100}
  BY DEF Lohko

\* What is picked of a list is of the list
LEMMA KohdistettuLista ==
  ASSUME NEW rs \in Ryhmalistat, NEW I \in SUBSET DOMAIN rs
  PROVE  /\ Kohdista(rs, I) \in Ryhmalistat
         /\ \A n \in DOMAIN Kohdista(rs, I) : \E i \in I : Kohdista(rs, I)[n] = rs[i]
  BY KohdistaOikein DEF Ryhmalistat

\* ... and has each group once, in order, when the list has
LEMMA KohdistettuKunnossa ==
  ASSUME NEW rs \in Ryhmalistat, NEW I \in SUBSET DOMAIN rs
  PROVE  /\ Erilliset(rs) => Erilliset(Kohdista(rs, I))
         /\ Kunnossa(rs) => Kunnossa(Kohdista(rs, I))
<1> DEFINE N == 1 .. Cardinality(I)
           k == Kohdista(rs, I)
<1>1. /\ DOMAIN k = N /\ Cardinality(I) \in Nat
      /\ \A n \in N : Kohta(I, n) \in I /\ k[n] = rs[Kohta(I, n)]
      /\ \A n, m \in N : n < m => Kohta(I, n) < Kohta(I, m)
  BY KohdistaOikein DEF Ryhmalistat
<1>2. \A n \in N : Kohta(I, n) \in DOMAIN rs /\ Kohta(I, n) \in Int
  BY <1>1, Listatyyppi
<1> HIDE DEF k
<1>3. ASSUME Erilliset(rs) PROVE Erilliset(k)
  <2>1. ASSUME NEW n \in N, NEW m \in N, n # m PROVE k[n].id # k[m].id
    <3>1. n < m \/ m < n
      BY <1>1, <2>1
    <3>2. Kohta(I, n) # Kohta(I, m)
      BY <1>1, <1>2, <3>1
    <3> QED BY <1>1, <1>2, <1>3, <3>2 DEF Erilliset
  <2> QED BY <1>1, <2>1 DEF Erilliset
<1>4. ASSUME Kunnossa(rs) PROVE Kunnossa(k)
  BY <1>1, <1>2, <1>4 DEF Kunnossa
<1> QED BY <1>3, <1>4 DEF k

\* Two lists one after the other
LEMMA LiitettyLista ==
  ASSUME NEW a \in Ryhmalistat, NEW b \in Ryhmalistat
  PROVE  /\ a \o b \in Ryhmalistat
         /\ \A k \in DOMAIN (a \o b) :
              \/ k \in DOMAIN a /\ (a \o b)[k] = a[k]
              \/ k - Len(a) \in DOMAIN b /\ (a \o b)[k] = b[k - Len(a)] /\ k > Len(a)
<1> DEFINE c == a \o b
<1>1. /\ c \in Ryhmalistat /\ Len(c) = Len(a) + Len(b)
      /\ \A i \in 1 .. Len(a) + Len(b) : c[i] = IF i <= Len(a) THEN a[i] ELSE b[i - Len(a)]
  BY ConcatProperties DEF Ryhmalistat
<1> HIDE DEF c
<1>2. /\ Len(a) \in Nat /\ DOMAIN a = 1 .. Len(a)
      /\ Len(b) \in Nat /\ DOMAIN b = 1 .. Len(b) /\ DOMAIN c = 1 .. Len(c)
  BY <1>1, Listatyyppi
<1>3. \A k \in DOMAIN c :
        \/ k \in DOMAIN a /\ c[k] = a[k]
        \/ k - Len(a) \in DOMAIN b /\ c[k] = b[k - Len(a)] /\ k > Len(a)
  BY <1>1, <1>2
<1> QED BY <1>1, <1>3 DEF c

\* ... have the groups of the two
LEMMA JasenetLiitetyssa ==
  ASSUME NEW a \in Ryhmalistat, NEW b \in Ryhmalistat
  PROVE  /\ a \o b \in Ryhmalistat
         /\ \A k \in DOMAIN (a \o b) :
              Jasen((a \o b)[k], a) \/ Jasen((a \o b)[k], b)
<1> DEFINE c == a \o b
<1>1. /\ c \in Ryhmalistat
      /\ \A k \in DOMAIN c :
           \/ k \in DOMAIN a /\ c[k] = a[k]
           \/ k - Len(a) \in DOMAIN b /\ c[k] = b[k - Len(a)] /\ k > Len(a)
  BY LiitettyLista
<1> HIDE DEF c
<1>2. \A k \in DOMAIN c : Jasen(c[k], a) \/ Jasen(c[k], b)
  BY <1>1 DEF Jasen
<1> QED BY <1>1, <1>2 DEF c

\* The two have each group once when each has and they share none
LEMMA LiitettyErilliset ==
  ASSUME NEW a \in Ryhmalistat, NEW b \in Ryhmalistat, Erilliset(a), Erilliset(b),
         \A i \in DOMAIN a, j \in DOMAIN b : a[i].id # b[j].id
  PROVE  Erilliset(a \o b)
<1> DEFINE c == a \o b
<1>1. \A k \in DOMAIN c :
        \/ k \in DOMAIN a /\ c[k] = a[k]
        \/ k - Len(a) \in DOMAIN b /\ c[k] = b[k - Len(a)] /\ k > Len(a)
  BY LiitettyLista
<1>2. Len(a) \in Nat /\ \A k \in DOMAIN c : k \in Int
  BY LiitettyLista, Listatyyppi
<1> HIDE DEF c
<1>3. ASSUME NEW i \in DOMAIN c, NEW j \in DOMAIN c, i # j PROVE c[i].id # c[j].id
  <2>1. i - Len(a) # j - Len(a)
    BY <1>2, <1>3
  <2> QED BY <1>1, <1>3, <2>1 DEF Erilliset
<1>4. Erilliset(c)
  BY <1>3 DEF Erilliset
<1> QED BY <1>4 DEF c

\* ... and are in order when also no group of the second sorts before the first
LEMMA LiitettyKunnossa ==
  ASSUME NEW a \in Ryhmalistat, NEW b \in Ryhmalistat, Kunnossa(a), Kunnossa(b),
         \A i \in DOMAIN a, j \in DOMAIN b : a[i].id # b[j].id /\ Lohko(a[i]) <= Lohko(b[j])
  PROVE  Kunnossa(a \o b)
<1> DEFINE c == a \o b
<1>1. \A k \in DOMAIN c :
        \/ k \in DOMAIN a /\ c[k] = a[k]
        \/ k - Len(a) \in DOMAIN b /\ c[k] = b[k - Len(a)] /\ k > Len(a)
  BY LiitettyLista
<1>2. /\ Len(a) \in Nat /\ \A k \in DOMAIN c : k \in Int
      /\ \A k \in DOMAIN a : k <= Len(a)
  BY LiitettyLista, Listatyyppi
<1> HIDE DEF c
<1>3. ASSUME NEW i \in DOMAIN c, NEW j \in DOMAIN c, i < j
      PROVE  c[i].id # c[j].id /\ Lohko(c[i]) <= Lohko(c[j])
  <2>1. CASE i \in DOMAIN a /\ c[i] = a[i] /\ j \in DOMAIN a /\ c[j] = a[j]
    BY <1>3, <2>1 DEF Kunnossa
  <2>2. CASE i \in DOMAIN a /\ c[i] = a[i] /\ j - Len(a) \in DOMAIN b /\ c[j] = b[j - Len(a)]
    BY <2>2
  <2>3. CASE /\ i - Len(a) \in DOMAIN b /\ c[i] = b[i - Len(a)]
             /\ j - Len(a) \in DOMAIN b /\ c[j] = b[j - Len(a)]
    <3>1. i - Len(a) < j - Len(a)
      BY <1>2, <1>3
    <3> QED BY <2>3, <3>1 DEF Kunnossa
  <2>4. ~(i - Len(a) \in DOMAIN b /\ i > Len(a) /\ j \in DOMAIN a)
    BY <1>2, <1>3
  <2> QED BY <1>1, <2>1, <2>2, <2>3, <2>4
<1>4. Kunnossa(c)
  BY <1>3 DEF Kunnossa
<1> QED BY <1>4 DEF c

\* The list of the groups of some ids
LEMMA RyhmienLista ==
  ASSUME NEW ids \in Seq(DOMAIN Ryhmatiedot)
  PROVE  /\ Ryhmat(ids) \in Ryhmalistat /\ DOMAIN Ryhmat(ids) = DOMAIN ids
         /\ \A i \in DOMAIN ids : Ryhmat(ids)[i].id = ids[i]
<1>1. Len(ids) \in Nat /\ DOMAIN ids = 1 .. Len(ids) /\ \A i \in DOMAIN ids : ids[i] \in DOMAIN Ryhmatiedot
  OBVIOUS
<1>2. \A i \in DOMAIN ids : Ryhma(ids[i]) \in Rivityyppi /\ Ryhma(ids[i]).id = ids[i]
  BY <1>1 DEF Ryhma, Rivityyppi
<1> QED BY <1>1, <1>2, SeqDef DEF Ryhmat, Ryhmalistat

\* The sort neither adds a group nor keeps one from its place: national
\* groups first, background questions before others
LEMMA JarjestettyKunnossa ==
  ASSUME NEW rs \in Ryhmalistat, Erilliset(rs)
  PROVE  /\ Jarjestetty(rs) \in Ryhmalistat /\ Kunnossa(Jarjestetty(rs))
         /\ \A k \in DOMAIN Jarjestetty(rs) : Jasen(Jarjestetty(rs)[k], rs)
<1> DEFINE P(n) == Poimi(rs, LAMBDA r : Lohko(r) = n)
<1>1. ASSUME NEW n \in {0, 100, 1000, 1100}
      PROVE  /\ P(n) \in Ryhmalistat /\ Kunnossa(P(n))
             /\ \A k \in DOMAIN P(n) : Lohko(P(n)[k]) = n /\ Jasen(P(n)[k], rs)
  <2> DEFINE I == {i \in DOMAIN rs : Lohko(rs[i]) = n}
             p == Kohdista(rs, I)
  <2>1. p = P(n)
    BY DEF Poimi
  <2>2. /\ p \in Ryhmalistat /\ Erilliset(p)
        /\ \A k \in DOMAIN p : \E i \in I : p[k] = rs[i]
    <3>1. I \in SUBSET DOMAIN rs
      OBVIOUS
    <3> HIDE DEF I
    <3> QED BY <3>1, KohdistettuLista, KohdistettuKunnossa
  <2> HIDE DEF p, P
  <2>3. \A k \in DOMAIN p : Lohko(p[k]) = n /\ Jasen(p[k], rs)
    BY <2>2 DEF Jasen
  <2>4. Kunnossa(p)
    <3>1. \A i, j \in DOMAIN p : i < j => i # j
      BY <2>2, Listatyyppi
    <3>2. \A i, j \in DOMAIN p : Lohko(p[i]) = n /\ Lohko(p[j]) = n
      BY <2>3
    <3>3. n <= n
      OBVIOUS
    <3> QED BY <2>2, <3>1, <3>2, <3>3 DEF Kunnossa, Erilliset
  <2> QED BY <2>1, <2>2, <2>3, <2>4
<1>2. Jarjestetty(rs) = P(0) \o P(100) \o P(1000) \o P(1100)
  BY DEF Jarjestetty
<1> HIDE DEF P
<1> DEFINE Oikein(s, n) ==
             /\ s \in Ryhmalistat /\ Kunnossa(s)
             /\ \A k \in DOMAIN s : Lohko(s[k]) <= n /\ Jasen(s[k], rs)
<1>3. ASSUME NEW s \in Ryhmalistat, NEW p \in Ryhmalistat, NEW m \in Int,
             NEW n \in Int, m < n, Oikein(s, m), Kunnossa(p),
             \A k \in DOMAIN p : Lohko(p[k]) = n /\ Jasen(p[k], rs)
      PROVE  Oikein(s \o p, n)
  <2> DEFINE c == s \o p
  <2>2. \A i \in DOMAIN s, j \in DOMAIN p : Lohko(s[i]) \in Int /\ Lohko(s[i]) < Lohko(p[j])
    BY <1>3, Lohkot
  <2>3. \A i \in DOMAIN s, j \in DOMAIN p : s[i].id # p[j].id
    <3>1. ASSUME NEW i \in DOMAIN s, NEW j \in DOMAIN p PROVE s[i].id # p[j].id
      <4>1. PICK k \in DOMAIN rs : s[i] = rs[k]
        BY <1>3 DEF Jasen
      <4>2. PICK l \in DOMAIN rs : p[j] = rs[l]
        BY <1>3 DEF Jasen
      <4>3. Lohko(s[i]) < Lohko(p[j]) /\ Lohko(s[i]) \in Int
        BY <2>2
      <4>4. k # l
        BY <4>1, <4>2, <4>3
      <4> QED BY <4>1, <4>2, <4>4 DEF Erilliset
    <3> QED BY <3>1
  <2>4. \A i \in DOMAIN s, j \in DOMAIN p : Lohko(s[i]) <= Lohko(p[j])
    BY <1>3, <2>2
  <2>5. Kunnossa(c)
    BY <1>3, <2>3, <2>4, LiitettyKunnossa
  <2>6. /\ c \in Ryhmalistat
        /\ \A k \in DOMAIN c : Jasen(c[k], s) \/ Jasen(c[k], p)
    <3>1. s \in Ryhmalistat /\ p \in Ryhmalistat
      BY <1>3
    <3> QED BY <3>1, JasenetLiitetyssa
  <2> HIDE DEF c
  <2>7. ASSUME NEW k \in DOMAIN c PROVE Lohko(c[k]) <= n /\ Jasen(c[k], rs)
    <3>1. CASE Jasen(c[k], s)
      <4>1. PICK i \in DOMAIN s : c[k] = s[i]
        BY <3>1 DEF Jasen
      <4>2. Lohko(s[i]) <= m /\ Lohko(s[i]) \in Int
        BY <1>3, Lohkot
      <4>3. Lohko(c[k]) <= n /\ Jasen(s[i], rs)
        BY <1>3, <4>1, <4>2
      <4> QED BY <4>1, <4>3
    <3>2. CASE Jasen(c[k], p)
      <4>1. PICK i \in DOMAIN p : c[k] = p[i]
        BY <3>2 DEF Jasen
      <4>2. Lohko(p[i]) = n /\ n <= n /\ Jasen(p[i], rs)
        BY <1>3
      <4> QED BY <4>1, <4>2
    <3> QED BY <2>6, <3>1, <3>2
  <2> QED BY <2>5, <2>6, <2>7 DEF c
<1>4. Oikein(P(0), 0)
  <2>1. \A k \in DOMAIN P(0) : Lohko(P(0)[k]) <= 0
    <3>1. 0 <= 0
      OBVIOUS
    <3> QED BY <1>1, <3>1
  <2> QED BY <1>1, <2>1
<1>5. Oikein(P(0) \o P(100), 100)
  <2>1. P(0) \in Ryhmalistat /\ Oikein(P(0), 0)
    BY <1>4
  <2> HIDE DEF Oikein
  <2> QED BY <1>1, <1>3, <2>1
<1>6. Oikein(P(0) \o P(100) \o P(1000), 1000)
  <2>1. P(0) \o P(100) \in Ryhmalistat /\ Oikein(P(0) \o P(100), 100)
    BY <1>5
  <2> HIDE DEF Oikein
  <2> QED BY <1>1, <1>3, <2>1
<1>7. Oikein(P(0) \o P(100) \o P(1000) \o P(1100), 1100)
  <2>1. P(0) \o P(100) \o P(1000) \in Ryhmalistat /\ Oikein(P(0) \o P(100) \o P(1000), 1000)
    BY <1>6
  <2> HIDE DEF Oikein
  <2> QED BY <1>1, <1>3, <2>1
<1>8. Oikein(Jarjestetty(rs), 1100)
  BY <1>2, <1>7
<1> QED BY <1>8

\* Groups that come are added without a group twice and in order; those of
\* the list stay as they are
LEMMA LisattyKunnossa ==
  ASSUME NEW rs \in Ryhmalistat, NEW uudet \in Ryhmalistat, Erilliset(rs), Erilliset(uudet)
  PROVE  LET ks == LisaaUniikitKysymysryhmat(rs, uudet)
         IN  /\ ks \in Ryhmalistat /\ Kunnossa(ks)
             /\ \A k \in DOMAIN ks : \/ Jasen(ks[k], rs)
                                     \/ \A i \in DOMAIN rs : rs[i].id # ks[k].id
<1> DEFINE I == {j \in DOMAIN uudet : \A i \in DOMAIN rs : rs[i].id # uudet[j].id}
           p == Kohdista(uudet, I)
           c == rs \o p
           ks == Jarjestetty(c)
<1>1. LisaaUniikitKysymysryhmat(rs, uudet) = ks
  BY DEF LisaaUniikitKysymysryhmat, Poimi
<1>2. /\ p \in Ryhmalistat /\ Erilliset(p)
      /\ \A n \in DOMAIN p : \E j \in I : p[n] = uudet[j]
  <2>1. I \in SUBSET DOMAIN uudet
    OBVIOUS
  <2> HIDE DEF I
  <2> QED BY <2>1, KohdistettuLista, KohdistettuKunnossa
<1> HIDE DEF p
<1>3. \A n \in DOMAIN p : \A i \in DOMAIN rs : rs[i].id # p[n].id
  BY <1>2
<1>4. Erilliset(c)
  BY <1>2, <1>3, LiitettyErilliset
<1>5. /\ c \in Ryhmalistat
      /\ \A k \in DOMAIN c : Jasen(c[k], rs) \/ Jasen(c[k], p)
  BY <1>2, JasenetLiitetyssa
<1> HIDE DEF c
<1>6. ks \in Ryhmalistat /\ Kunnossa(ks) /\ \A k \in DOMAIN ks : Jasen(ks[k], c)
  BY <1>4, <1>5, JarjestettyKunnossa
<1> HIDE DEF ks
<1>7. ASSUME NEW k \in DOMAIN ks
      PROVE  Jasen(ks[k], rs) \/ \A i \in DOMAIN rs : rs[i].id # ks[k].id
  <2>1. PICK l \in DOMAIN c : ks[k] = c[l]
    BY <1>6 DEF Jasen
  <2>2. CASE Jasen(c[l], rs)
    BY <2>1, <2>2
  <2>3. CASE Jasen(c[l], p)
    BY <1>3, <2>1, <2>3 DEF Jasen
  <2> QED BY <1>5, <2>2, <2>3
<1> QED BY <1>1, <1>6, <1>7

\* A dragged group is put elsewhere, and nothing else is done to the list
LEMMA SiirrettyErilliset ==
  ASSUME NEW rs \in Ryhmalistat, Erilliset(rs), NEW i \in DOMAIN rs, NEW j \in DOMAIN rs
  PROVE  LET c == InsertAt(RemoveAt(rs, i), j, rs[i]) IN c \in Ryhmalistat /\ Erilliset(c)
<1> DEFINE c == InsertAt(RemoveAt(rs, i), j, rs[i])
<1>1. c \in Ryhmalistat /\ Len(c) = Len(rs) /\ Samat(c, rs)
  BY SiirrettyOikein DEF Ryhmalistat
<1> HIDE DEF c
<1>2. PICK L \in [DOMAIN rs -> DOMAIN rs] :
             /\ \A k \in DOMAIN rs : c[k] = rs[L[k]]
             /\ \A k, l \in DOMAIN rs : k # l => L[k] # L[l]
  BY <1>1 DEF Samat
<1>3. DOMAIN c = DOMAIN rs
  BY <1>1, Listatyyppi
<1>4. Erilliset(c)
  BY <1>2, <1>3 DEF Erilliset
<1> QED BY <1>1, <1>4 DEF c

\* A group changed in its place is still that group, in that place
LEMMA MuokattuKunnossa ==
  ASSUME NEW rs \in Ryhmalistat, Kunnossa(rs), NEW i \in DOMAIN rs,
         NEW r \in Rivityyppi, r.id = rs[i].id
  PROVE  [rs EXCEPT ![i] = r] \in Ryhmalistat /\ Kunnossa([rs EXCEPT ![i] = r])
<1> DEFINE c == [rs EXCEPT ![i] = r]
<1>1. c \in Ryhmalistat
  BY DEF Ryhmalistat
<1>2. DOMAIN c = DOMAIN rs /\ \A k \in DOMAIN rs : c[k] = IF k = i THEN r ELSE rs[k]
  BY DEF Ryhmalistat
<1> HIDE DEF c
<1>3. Lohko(r) = Lohko(rs[i])
  BY DEF Lohko, Taustakysymykset, Valtakunnallinen, Tiedot
<1>4. \A k \in DOMAIN c : c[k].id = rs[k].id /\ Lohko(c[k]) = Lohko(rs[k])
  BY <1>2, <1>3
<1>5. Kunnossa(c)
  BY <1>2, <1>4 DEF Kunnossa
<1> QED BY <1>1, <1>5 DEF c

\* The trash buttons of a group and of its questions
LEMMA MerkittyKunnossa ==
  ASSUME NEW rs \in Ryhmalistat, Kunnossa(rs), NEW i \in DOMAIN rs,
         NEW c \in {PoistaTaiPalauta(rs, i), PoistaKysymys(rs, i), PalautaKysymys(rs, i)}
  PROVE  c \in Ryhmalistat /\ Kunnossa(c)
<1>1. rs[i] \in Rivityyppi
  BY Listatyyppi
<1>2. PICK r : /\ r \in {[rs[i] EXCEPT !.poistetaan = ~@], [rs[i] EXCEPT !.poistettuja = @ + 1],
                         [rs[i] EXCEPT !.poistettuja = @ - 1]}
               /\ c = [rs EXCEPT ![i] = r]
  BY DEF PoistaTaiPalauta, PoistaKysymys, PalautaKysymys
<1>3. \/ \E b \in BOOLEAN : r = [rs[i] EXCEPT !.poistetaan = b]
      \/ \E n \in Int : r = [rs[i] EXCEPT !.poistettuja = n]
  <2>1. /\ (~rs[i].poistetaan) \in BOOLEAN
        /\ rs[i].poistettuja + 1 \in Int /\ rs[i].poistettuja - 1 \in Int
    BY <1>1 DEF Rivityyppi
  <2> QED BY <1>2, <2>1
<1>4. r \in Rivityyppi /\ r.id = rs[i].id
  BY <1>1, <1>3 DEF Rivityyppi
<1> QED BY <1>2, <1>4, MuokattuKunnossa

\* What is left when the marked groups are taken away: nothing marked, and
\* nothing more to take away
LEMMA PoistetutPois ==
  ASSUME NEW rs \in Ryhmalistat
  PROVE  LET ks == PoistaKysymysryhmat(rs)
         IN  /\ ks \in Ryhmalistat /\ (Kunnossa(rs) => Kunnossa(ks))
             /\ \A k \in DOMAIN ks : ~ks[k].poistetaan /\ Jasen(ks[k], rs)
             /\ PoistaKysymysryhmat(ks) = ks
<1> DEFINE I == {i \in DOMAIN rs : ~rs[i].poistetaan}
           ks == Kohdista(rs, I)
<1>1. PoistaKysymysryhmat(rs) = ks
  BY DEF PoistaKysymysryhmat, Poimi
<1>2. /\ ks \in Ryhmalistat /\ (Kunnossa(rs) => Kunnossa(ks))
      /\ \A k \in DOMAIN ks : \E i \in I : ks[k] = rs[i]
  <2>1. I \in SUBSET DOMAIN rs
    OBVIOUS
  <2> HIDE DEF I
  <2> QED BY <2>1, KohdistettuLista, KohdistettuKunnossa
<1> HIDE DEF ks
<1>3. \A k \in DOMAIN ks : ~ks[k].poistetaan /\ Jasen(ks[k], rs)
  BY <1>2 DEF Jasen
<1>4. PoistaKysymysryhmat(ks) = ks
  <2>1. {i \in DOMAIN ks : ~ks[i].poistetaan} = DOMAIN ks
    BY <1>3
  <2>2. PoistaKysymysryhmat(ks) = Kohdista(ks, DOMAIN ks)
    BY <2>1 DEF PoistaKysymysryhmat, Poimi
  <2> QED BY <1>2, <2>2, KohdistaKaikki DEF Ryhmalistat
<1> QED BY <1>1, <1>2, <1>3, <1>4

(***************************************************************************)
(* The survey form                                                         *)
(***************************************************************************)

\* Groups asked for, by their ids: a group once in an answer
Tunnuslistat ==
  {ids \in Seq(DOMAIN Ryhmatiedot) : \A i, j \in DOMAIN ids : ids[i] = ids[j] => i = j}

\* The form's list, its preview and the survey on its way.  What the preview
\* showed is what a save would send, as long as nothing has changed since
LomakkeenLista ==
  /\ kysely # EiKyselya => kysely \in Ryhmalistat /\ Kunnossa(kysely)
  /\ kyselyhaussa => kysely = EiKyselya /\ esikatseltu = EiKyselya
  /\ ryhmahaut \subseteq Tunnuslistat
  /\ esikatseltu # EiKyselya => esikatseltu = Kysyttavat(PoistaKysymysryhmat(kysely))
  /\ TallentuuEsikatseltu

\* The answer to a question about groups gives a list without a group twice
LEMMA SaapuvatErilliset ==
  ASSUME NEW ids \in Tunnuslistat
  PROVE  Ryhmat(ids) \in Ryhmalistat /\ Erilliset(Ryhmat(ids))
  BY RyhmienLista DEF Tunnuslistat, Erilliset

\* The stored survey, also without its closed groups, is in order
LEMMA KyselyPalvelimelta ==
  ASSUME NEW ids \in {KyselyOnPalvelin, EiSuljettuja(KyselyOnPalvelin)}
  PROVE  Ryhmat(ids) \in Ryhmalistat /\ Kunnossa(Ryhmat(ids))
<1> DEFINE s == KyselyOnPalvelin
           I == {i \in DOMAIN s : ~Ryhmatiedot[s[i]].suljettu}
           p == Kohdista(s, I)
<1>1. s \in Seq(DOMAIN Ryhmatiedot) /\ Kunnossa(Ryhmat(s))
  BY KyselylomakeOletus
<1>2. Ryhmat(s) \in Ryhmalistat /\ DOMAIN Ryhmat(s) = DOMAIN s
  BY <1>1, RyhmienLista
<1>3. EiSuljettuja(s) = p
  BY DEF EiSuljettuja, Poimi
<1>4. I \in SUBSET DOMAIN s
  OBVIOUS
<1> HIDE DEF I, s
<1>5. /\ p \in Seq(DOMAIN Ryhmatiedot) /\ DOMAIN p = 1 .. Cardinality(I)
      /\ \A n \in 1 .. Cardinality(I) : Kohta(I, n) \in I /\ p[n] = s[Kohta(I, n)]
  BY <1>1, <1>4, KohdistaOikein
<1>6. Ryhmat(p) = Kohdista(Ryhmat(s), I)
  <2>1. DOMAIN Ryhmat(p) = 1 .. Cardinality(I)
    BY <1>5 DEF Ryhmat
  <2>2. \A n \in 1 .. Cardinality(I) : Ryhmat(p)[n] = Ryhmat(s)[Kohta(I, n)]
    BY <1>4, <1>5 DEF Ryhmat
  <2>3. Ryhmat(p) = [n \in 1 .. Cardinality(I) |-> Ryhmat(p)[n]]
    BY <2>1 DEF Ryhmat
  <2> QED BY <2>2, <2>3 DEF Kohdista
<1>7. Ryhmat(p) \in Ryhmalistat /\ Kunnossa(Ryhmat(p))
  BY <1>1, <1>2, <1>4, <1>6, KohdistettuLista, KohdistettuKunnossa
<1> QED BY <1>1, <1>2, <1>3, <1>7 DEF s

\* A form opens empty, or waits for its survey
LEMMA ListaAlku == KyselylomakeInit => LomakkeenLista
<1> SUFFICES ASSUME KyselylomakeInit PROVE LomakkeenLista
  OBVIOUS
<1>1. <<>> \in Ryhmalistat /\ Kunnossa(<<>>)
  BY DEF Ryhmalistat, Kunnossa
<1> QED BY <1>1 DEF KyselylomakeInit, LomakkeenLista, TallentuuEsikatseltu

\* A change by the user leaves a list in order and no preview
LEMMA MuutosKunnossa ==
  ASSUME LomakkeenLista, MuutaRyhmia
  PROVE  \E ks \in Ryhmalistat : Kunnossa(ks) /\ Muuta(ks) /\ kysely # EiKyselya
<1>1. kysely \in Ryhmalistat /\ Kunnossa(kysely) /\ kysely # EiKyselya
  BY DEF LomakkeenLista, MuutaRyhmia
<1>2. PICK i \in DOMAIN kysely :
        \/ \E ks \in {PoistaTaiPalauta(kysely, i), PoistaKysymys(kysely, i),
                      PalautaKysymys(kysely, i)} : Muuta(ks)
        \/ \E j \in DOMAIN kysely : Muuta(Raahattu(kysely, i, j))
  BY DEF MuutaRyhmia
<1>3. CASE \E ks \in {PoistaTaiPalauta(kysely, i), PoistaKysymys(kysely, i),
                      PalautaKysymys(kysely, i)} : Muuta(ks)
  BY <1>1, <1>3, MerkittyKunnossa
<1>4. ASSUME NEW j \in DOMAIN kysely, Muuta(Raahattu(kysely, i, j))
      PROVE  \E ks \in Ryhmalistat : Kunnossa(ks) /\ Muuta(ks)
  <2> DEFINE c == InsertAt(RemoveAt(kysely, i), j, kysely[i])
  <2>1. c \in Ryhmalistat /\ Erilliset(c)
    BY <1>1, KunnossaErilliset, SiirrettyErilliset
  <2> HIDE DEF c
  <2>2. Jarjestetty(c) \in Ryhmalistat /\ Kunnossa(Jarjestetty(c))
    BY <2>1, JarjestettyKunnossa
  <2> QED BY <1>4, <2>2 DEF Raahattu, c
<1> QED BY <1>1, <1>2, <1>3, <1>4

\* Groups that come leave a list in order, with the groups it had as they were
LEMMA SaapuminenKunnossa ==
  ASSUME LomakkeenLista, NEW ids \in ryhmahaut, RyhmatSaapuvat(ids)
  PROVE  \/ UNCHANGED kysely
         \/ /\ kysely # EiKyselya /\ kysely' \in Ryhmalistat /\ Kunnossa(kysely')
            /\ \A j \in DOMAIN kysely' :
                 \/ Jasen(kysely'[j], kysely)
                 \/ \A i \in DOMAIN kysely : kysely[i].id # kysely'[j].id
<1>1. Ryhmat(ids) \in Ryhmalistat /\ Erilliset(Ryhmat(ids))
  BY SaapuvatErilliset DEF LomakkeenLista
<1>2. ASSUME kysely # EiKyselya, kysely' = LisaaUniikitKysymysryhmat(kysely, Ryhmat(ids))
      PROVE  /\ kysely' \in Ryhmalistat /\ Kunnossa(kysely')
             /\ \A j \in DOMAIN kysely' :
                  \/ Jasen(kysely'[j], kysely)
                  \/ \A i \in DOMAIN kysely : kysely[i].id # kysely'[j].id
  <2>1. kysely \in Ryhmalistat /\ Erilliset(kysely)
    BY <1>2, KunnossaErilliset DEF LomakkeenLista
  <2> QED BY <1>1, <1>2, <2>1, LisattyKunnossa
<1> QED BY <1>2 DEF RyhmatSaapuvat

\* The form keeps its list in order through every step
LEMMA ListaSailyy ==
  ASSUME LomakeInv, LomakkeenLista, KyselylomakeNext PROVE LomakkeenLista'
<1> DEFINE Kysely(ks) == ks # EiKyselya => ks \in Ryhmalistat /\ Kunnossa(ks)
<1>1. ASSUME NEW ks, Muuta(ks), Kysely(ks), kysely # EiKyselya PROVE LomakkeenLista'
  BY <1>1 DEF Muuta, LomakkeenLista, TallentuuEsikatseltu
<1>2. CASE MuutaRyhmia
  BY <1>1, <1>2, MuutosKunnossa
<1>3. CASE KyselySaapuu
  <2>1. Kysely(kysely')
    <3>1. PICK ids \in {KyselyOnPalvelin, EiSuljettuja(KyselyOnPalvelin)} :
            kysely' = Ryhmat(ids) \/ kysely' = EiKyselya
      BY <1>3 DEF KyselySaapuu
    <3> QED BY <3>1, KyselyPalvelimelta
  <2> QED BY <1>3, <2>1 DEF KyselySaapuu, LomakkeenLista, TallentuuEsikatseltu
<1>4. CASE EsikatseleModal
  <2>1. tallennukset = {}
    <3>1. MetodiId("kyselynTallennus") = "kyselynTallennus"
      BY DEF MetodiId, Valilehdet
    <3> QED BY <1>4, <3>1 DEF EsikatseleModal, NayttaaSisallon, LomakeInv, YksiLahetettyKysely,
                              Tallennusilmaisin
  <2> QED BY <1>4, <2>1 DEF EsikatseleModal, LomakkeenLista, TallentuuEsikatseltu
<1>5. CASE PainaTallenna
  <2> DEFINE ks == PoistaKysymysryhmat(kysely)
  <2>1. /\ kysely # EiKyselya /\ kysely' = ks /\ ~kyselyhaussa
        /\ UNCHANGED <<kyselyhaussa, ryhmahaut, esikatseltu>>
    BY <1>5 DEF PainaTallenna, Tallenna, Tallennettava, LomakkeenLista
  <2>2. ks \in Ryhmalistat /\ Kunnossa(ks) /\ PoistaKysymysryhmat(ks) = ks
    BY <2>1, PoistetutPois DEF LomakkeenLista
  <2>3. \A p \in tallennukset' : p \in tallennukset \/ p.ryhmat = ks
    BY <1>5 DEF PainaTallenna, Tallenna, Tallennettava
  <2>4. esikatseltu # EiKyselya => esikatseltu = Kysyttavat(ks)
    BY DEF LomakkeenLista
  <2> HIDE DEF ks
  <2>5. TallentuuEsikatseltu'
    BY <2>1, <2>3, <2>4 DEF LomakkeenLista, TallentuuEsikatseltu
  <2> QED BY <2>1, <2>2, <2>4, <2>5 DEF LomakkeenLista
<1>6. CASE Peruuta
  BY <1>6 DEF Peruuta, LomakkeenLista, TallentuuEsikatseltu
<1>7. ASSUME NEW ids \in Tunnuslistat, PyydaRyhmia(ids) PROVE LomakkeenLista'
  BY <1>7 DEF PyydaRyhmia, LomakkeenLista, TallentuuEsikatseltu
<1>8. ASSUME NEW id \in DOMAIN Ryhmatiedot, LisaaKysymysryhmaModal(id) PROVE LomakkeenLista'
  <2>1. <<id>> \in Tunnuslistat
    BY DEF Tunnuslistat
  <2> QED BY <1>7, <1>8, <2>1 DEF LisaaKysymysryhmaModal
<1>9. ASSUME NEW ids \in Pohjat, LisaaKyselypohjaModal(ids) PROVE LomakkeenLista'
  <2>1. ids \in Tunnuslistat
    BY KyselylomakeOletus DEF Tunnuslistat
  <2> QED BY <1>7, <1>9, <2>1 DEF LisaaKyselypohjaModal
<1>10. ASSUME NEW ids \in ryhmahaut, RyhmatSaapuvat(ids) PROVE LomakkeenLista'
  <2>1. /\ ryhmahaut' = ryhmahaut \ {ids} /\ esikatseltu' = EiKyselya
        /\ UNCHANGED <<kyselyhaussa, tallennukset>>
    BY <1>10 DEF RyhmatSaapuvat
  <2>2. \/ UNCHANGED kysely
        \/ kysely # EiKyselya /\ kysely' \in Ryhmalistat /\ Kunnossa(kysely')
    BY <1>10, SaapuminenKunnossa
  <2> QED BY <2>1, <2>2 DEF LomakkeenLista, TallentuuEsikatseltu
<1>11. ASSUME NEW p \in tallennukset,
              PalvelinTallentaa(p) \/ TallennusOnnistui(p) \/ TallennusEpaonnistui(p)
       PROVE  LomakkeenLista'
  <2>1. "tehty" \in DOMAIN p
    BY DEF LomakeInv, YksiLahetettyKysely
  <2>2. UNCHANGED <<kysely, kyselyhaussa, ryhmahaut, esikatseltu>>
    BY <1>11 DEF PalvelinTallentaa, TallennusOnnistui, TallennusEpaonnistui
  <2>3. ASSUME NEW q \in tallennukset' PROVE q \in tallennukset \/ q.tehty
    BY <1>11, <2>1, <2>3 DEF PalvelinTallentaa, TallennusOnnistui, TallennusEpaonnistui
  <2> QED BY <2>2, <2>3 DEF LomakkeenLista, TallentuuEsikatseltu
<1> QED
  BY <1>2, <1>3, <1>4, <1>5, <1>6, <1>8, <1>9, <1>10, <1>11 DEF KyselylomakeNext

\* The form's invariants hold together on every page
LEMMA LomakeAina == Spec => [](LomakeInv /\ LomakkeenLista)
<1>1. Init => LomakeInv /\ LomakkeenLista
  BY LomakeAlku, ListaAlku DEF Init
<1>2. LomakeInv /\ LomakkeenLista /\ [Next]_muuttujat => (LomakeInv /\ LomakkeenLista)'
  <2> SUFFICES ASSUME LomakeInv, LomakkeenLista, [Next]_muuttujat
               PROVE  LomakeInv' /\ LomakkeenLista'
    OBVIOUS
  <2>1. LomakkeenLista'
    <3>1. CASE UNCHANGED lomakkeenMuuttujat
      BY <3>1 DEF lomakkeenMuuttujat, LomakkeenLista, TallentuuEsikatseltu
    <3> QED BY <3>1, LomakkeenAskel, ListaSailyy
  <2> QED BY <2>1, LomakeInvSailyy
<1> QED BY <1>1, <1>2, PTL DEF Spec

\* However groups come, are dragged and go, the form has each group once and
\* in the order respondents get them
THEOREM RyhmatAinaKunnossa == Spec => []RyhmatKunnossa
<1>1. LomakkeenLista => RyhmatKunnossa
  BY DEF LomakkeenLista, RyhmatKunnossa
<1> QED BY <1>1, LomakeAina, PTL

\* A survey that is sent asks what its preview showed
THEOREM TallentuuAinaEsikatseltu == Spec => []TallentuuEsikatseltu
<1>1. LomakkeenLista => TallentuuEsikatseltu
  BY DEF LomakkeenLista
<1> QED BY <1>1, LomakeAina, PTL

\* A group on the form changes only when the user changes it
LEMMA MerkinnatAskel ==
  ASSUME LomakeInv, LomakkeenLista, [Next]_muuttujat
  PROVE  maarat'.muutos = maarat.muutos /\ kysely # EiKyselya =>
           \A i \in DOMAIN kysely, j \in DOMAIN kysely' :
             kysely[i].id = kysely'[j].id => kysely[i] = kysely'[j]
<1> SUFFICES ASSUME maarat'.muutos = maarat.muutos, kysely # EiKyselya
             PROVE  \A i \in DOMAIN kysely, j \in DOMAIN kysely' :
                      kysely[i].id = kysely'[j].id => kysely[i] = kysely'[j]
  OBVIOUS
<1>1. kysely \in Ryhmalistat /\ Erilliset(kysely)
  BY KunnossaErilliset DEF LomakkeenLista
<1>2. \/ UNCHANGED kysely
      \/ \A j \in DOMAIN kysely' : \/ Jasen(kysely'[j], kysely)
                                   \/ \A i \in DOMAIN kysely : kysely[i].id # kysely'[j].id
  <2>1. ASSUME NEW ks, Muuta(ks) PROVE FALSE
    BY <2>1 DEF Muuta, LomakeInv, LuodutKunnossa
  <2>2. CASE MuutaRyhmia
    BY <2>1, <2>2 DEF MuutaRyhmia
  <2>3. CASE KyselySaapuu
    BY <2>3 DEF KyselySaapuu, LomakkeenLista
  <2>4. CASE PainaTallenna
    <3>1. kysely' = PoistaKysymysryhmat(kysely)
      BY <2>4 DEF PainaTallenna, Tallenna, Tallennettava
    <3> QED BY <1>1, <3>1, PoistetutPois
  <2>5. ASSUME NEW ids \in ryhmahaut, RyhmatSaapuvat(ids) PROVE <1>2!1 \/ <1>2!2
    BY <2>5, SaapuminenKunnossa
  <2>6. CASE EsikatseleModal \/ Peruuta \/ \E ids : PyydaRyhmia(ids)
    BY <2>6 DEF EsikatseleModal, Peruuta, PyydaRyhmia
  <2>7. CASE \E p \in tallennukset :
               PalvelinTallentaa(p) \/ TallennusOnnistui(p) \/ TallennusEpaonnistui(p)
    BY <2>7 DEF PalvelinTallentaa, TallennusOnnistui, TallennusEpaonnistui
  <2>8. CASE KyselylomakeNext
    BY <2>2, <2>3, <2>4, <2>5, <2>6, <2>7, <2>8
       DEF KyselylomakeNext, LisaaKysymysryhmaModal, LisaaKyselypohjaModal
  <2>9. CASE UNCHANGED lomakkeenMuuttujat
    BY <2>9 DEF lomakkeenMuuttujat
  <2> QED BY <2>8, <2>9, LomakkeenAskel
<1> QED BY <1>1, <1>2 DEF Jasen, Erilliset

\* A group on the form keeps its marks and removed questions until the user
\* changes them
THEOREM MerkinnatAinaKayttajalta == Spec => MerkinnatKayttajalta
<1>1. LomakeInv /\ LomakkeenLista /\ [Next]_muuttujat =>
        [maarat'.muutos = maarat.muutos /\ kysely # EiKyselya =>
           \A i \in DOMAIN kysely, j \in DOMAIN kysely' :
             kysely[i].id = kysely'[j].id => kysely[i] = kysely'[j]]_lomakkeenMuuttujat
  BY MerkinnatAskel
<1> QED BY <1>1, LomakeAina, PTL DEF Spec, MerkinnatKayttajalta

(***************************************************************************)
(* The template form                                                       *)
(***************************************************************************)

\* Only the template form's own steps change it
LEMMA PohjanAskel == [Next]_muuttujat => [KyselypohjalomakeNext]_pohjanMuuttujat
  BY DEF Next, Levossa, muuttujat

PohjaListana == pohja \in Ryhmalistat /\ Kunnossa(pohja)

\* A group is asked for only when there is a template to add it to
PohjaInv ==
  /\ pohja = EiPohjaa \/ PohjaListana
  /\ lisattavat \subseteq DOMAIN Ryhmatiedot /\ (lisattavat # {} => PohjaListana)
  /\ \A p \in pohjanLahetykset :
       Kunnossa(p.ryhmat) /\ \A i \in DOMAIN p.ryhmat : ~p.ryhmat[i].poistetaan

\* The form opens empty, or waits for its template
LEMMA PohjaAlku == KyselypohjalomakeInit => PohjaInv
<1> SUFFICES ASSUME KyselypohjalomakeInit PROVE PohjaInv
  OBVIOUS
<1>1. <<>> \in Ryhmalistat /\ Kunnossa(<<>>)
  BY DEF Ryhmalistat, Kunnossa
<1> QED BY <1>1 DEF KyselypohjalomakeInit, PohjaInv, PohjaListana

\* Every step of the form keeps the list in order
LEMMA PohjaSailyy ==
  ASSUME PohjaInv, KyselypohjalomakeNext PROVE PohjaInv'
<1>1. ASSUME PohjaListana', UNCHANGED pohjanLahetykset, lisattavat' \subseteq DOMAIN Ryhmatiedot
      PROVE  PohjaInv'
  BY <1>1 DEF PohjaInv
<1>2. CASE PohjaSaapuu
  <2>1. Ryhmat(PohjaOnPalvelin) \in Ryhmalistat /\ Kunnossa(Ryhmat(PohjaOnPalvelin))
    BY RyhmienLista, KyselypohjalomakeOletus
  <2>2. CASE pohja' = Ryhmat(PohjaOnPalvelin)
    BY <1>1, <1>2, <2>1, <2>2 DEF PohjaSaapuu, PohjaListana, PohjaInv
  <2>3. CASE UNCHANGED pohja
    BY <1>2, <2>3 DEF PohjaSaapuu, PohjaListana, PohjaInv
  <2> QED BY <1>2, <2>2, <2>3 DEF PohjaSaapuu
<1>3. CASE MuutaPohjaa
  <2>1. PohjaListana /\ UNCHANGED <<lisattavat, pohjanLahetykset>>
    BY <1>3 DEF MuutaPohjaa, PohjaInv
  <2>2. PICK i \in DOMAIN pohja :
          \/ pohja' = PoistaTaiPalauta(pohja, i)
          \/ \E j \in DOMAIN pohja : pohja' = Raahattu(pohja, i, j)
    BY <1>3 DEF MuutaPohjaa
  <2>3. CASE pohja' = PoistaTaiPalauta(pohja, i)
    <3>1. PohjaListana'
      BY <2>1, <2>3, MerkittyKunnossa DEF PohjaListana
    <3> QED BY <1>1, <2>1, <3>1 DEF PohjaInv
  <2>4. ASSUME NEW j \in DOMAIN pohja, pohja' = Raahattu(pohja, i, j) PROVE PohjaInv'
    <3> DEFINE c == InsertAt(RemoveAt(pohja, i), j, pohja[i])
    <3>1. c \in Ryhmalistat /\ Erilliset(c)
      BY <2>1, KunnossaErilliset, SiirrettyErilliset DEF PohjaListana
    <3> HIDE DEF c
    <3>2. Jarjestetty(c) \in Ryhmalistat /\ Kunnossa(Jarjestetty(c))
      BY <3>1, JarjestettyKunnossa
    <3>3. PohjaListana'
      BY <2>4, <3>2 DEF Raahattu, c, PohjaListana
    <3> QED BY <1>1, <2>1, <3>3 DEF PohjaInv
  <2> QED BY <2>2, <2>3, <2>4
<1>4. CASE TallennaPohja
  <2> DEFINE ks == PoistaKysymysryhmat(pohja)
  <2>1. PohjaListana /\ UNCHANGED lisattavat /\ pohja' = ks
    BY <1>4 DEF TallennaPohja, PohjaInv
  <2>2. /\ ks \in Ryhmalistat /\ Kunnossa(ks) /\ \A k \in DOMAIN ks : ~ks[k].poistetaan
    BY <2>1, PoistetutPois DEF PohjaListana
  <2>3. \A p \in pohjanLahetykset' : p \in pohjanLahetykset \/ p.ryhmat = ks
    BY <1>4 DEF TallennaPohja
  <2> HIDE DEF ks
  <2> QED BY <2>1, <2>2, <2>3 DEF PohjaInv, PohjaListana
<1>5. CASE NaytaRakenneModal \/ SuljeRakenne \/ PeruutaPohja
  BY <1>5 DEF NaytaRakenneModal, SuljeRakenne, PeruutaPohja, PohjaInv, PohjaListana
<1>6. ASSUME NEW id \in DOMAIN Ryhmatiedot, PyydaKysymysryhma(id) PROVE PohjaInv'
  BY <1>6 DEF PyydaKysymysryhma, PohjaInv, PohjaListana
<1>7. ASSUME NEW id \in lisattavat, KysymysryhmaSaapuu(id) PROVE PohjaInv'
  <2> DEFINE u == <<Ryhma(id)>>
  <2>1. PohjaListana /\ id \in DOMAIN Ryhmatiedot
    BY DEF PohjaInv
  <2>2. u \in Ryhmalistat /\ Erilliset(u)
    <3>1. Ryhma(id) \in Rivityyppi
      BY <2>1 DEF Ryhma, Rivityyppi
    <3> QED BY <3>1 DEF Ryhmalistat, Erilliset
  <2>3. UNCHANGED pohjanLahetykset /\ lisattavat' \subseteq DOMAIN Ryhmatiedot
        /\ (UNCHANGED pohja \/ pohja' = LisaaUniikitKysymysryhmat(pohja, u))
    BY <1>7 DEF KysymysryhmaSaapuu, PohjaInv
  <2> HIDE DEF u
  <2>4. PohjaListana'
    BY <2>1, <2>2, <2>3, KunnossaErilliset, LisattyKunnossa DEF PohjaListana
  <2> QED BY <1>1, <2>3, <2>4
<1>8. ASSUME NEW p \in pohjanLahetykset, PohjaVastaus(p) PROVE PohjaInv'
  BY <1>8 DEF PohjaVastaus, PohjaInv, PohjaListana
<1> QED
  BY <1>2, <1>3, <1>4, <1>5, <1>6, <1>7, <1>8 DEF KyselypohjalomakeNext

\* A template on the form, and each one sent, has every group once and in
\* order, with the marked ones gone from what is sent
THEOREM PohjaAinaKunnossa == Spec => []PohjaKunnossa
<1>1. Init => PohjaInv
  BY PohjaAlku DEF Init
<1>2. PohjaInv /\ [Next]_muuttujat => PohjaInv'
  <2>1. ASSUME PohjaInv, UNCHANGED pohjanMuuttujat PROVE PohjaInv'
    BY <2>1 DEF pohjanMuuttujat, PohjaInv, PohjaListana
  <2> QED BY <2>1, PohjanAskel, PohjaSailyy
<1>3. PohjaInv => PohjaKunnossa
  BY DEF PohjaInv, PohjaListana, PohjaKunnossa
<1> QED BY <1>1, <1>2, <1>3, PTL DEF Spec

(***************************************************************************)
(* The question group form                                                 *)
(***************************************************************************)

\* Only the group form's own steps change it
LEMMA RyhmanAskel == [Next]_muuttujat => [KysymysryhmalomakeNext]_ryhmanMuuttujat
  BY DEF Next, Levossa, muuttujat

Kysymyslistat == Seq(Kysymystyyppi)

\* A question in the editor has a follow-up question to write into, and of its
\* options at most as many may be chosen as there are, whatever its type
Muokattava(k) ==
  /\ k.jatkokysymys \in Jatkokysymykset
  /\ k.vaihtoehtoja # Maaraamaton =>
       k.vaihtoehtoja \in Nat /\ k.monivalinta_max \in Nat /\ k.monivalinta_max <= k.vaihtoehtoja

\* Every question but the one in the editor is finished
EditoriKunnossa ==
  /\ aktiivinen \in [paikka : Nat, uusi : BOOLEAN]
  /\ muokkaustila => aktiivinen.paikka = 0 \/ aktiivinen.paikka \in DOMAIN kysymykset
  /\ \A i \in DOMAIN kysymykset :
       IF muokkaustila /\ i = aktiivinen.paikka
       THEN Muokattava(kysymykset[i]) /\ kysymykset[i].uusi = aktiivinen.uusi
       ELSE Siisti(kysymykset[i])

ListatKunnossa ==
  /\ kysymystoimia \in Nat
  /\ kysymykset \in Kysymyslistat
  /\ originals \in Kysymyslistat /\ \A i \in DOMAIN originals : Siisti(originals[i])

\* While the editor is open on the group it was opened on, the other questions
\* are as they were then, and what a cancel would put back is the list of then
EnnenMuistissa ==
  muokkaustila /\ ennen # Maaraamaton =>
    /\ aktiivinen.paikka # 0
    /\ ennen \in Kysymyslistat /\ \A i \in DOMAIN ennen : Siisti(ennen[i])
    /\ \A i \in DOMAIN ennen : i # aktiivinen.paikka => kysymykset[i] = ennen[i]
    /\ IF aktiivinen.uusi
       THEN aktiivinen.paikka = Len(kysymykset) /\ Len(kysymykset) = Len(ennen) + 1
       ELSE originals = ennen /\ Len(kysymykset) = Len(ennen)

RyhmaInv == EditoriKunnossa /\ ListatKunnossa /\ EnnenMuistissa /\ LahetettyKunnossa

\* A list of questions, told by its length
LEMMA Kysymyslista ==
  ASSUME NEW ks \in Kysymyslistat
  PROVE  /\ Len(ks) \in Nat /\ DOMAIN ks = 1 .. Len(ks)
         /\ \A i \in DOMAIN ks : ks[i] \in Kysymystyyppi
  BY DEF Kysymyslistat

\* One question of a list changed in its place
LEMMA VaihdettuLista ==
  ASSUME NEW ks \in Kysymyslistat, NEW i \in DOMAIN ks, NEW k \in Kysymystyyppi
  PROVE  LET c == [ks EXCEPT ![i] = k]
         IN  /\ c \in Kysymyslistat /\ Len(c) = Len(ks) /\ DOMAIN c = DOMAIN ks
             /\ \A j \in DOMAIN ks : c[j] = IF j = i THEN k ELSE ks[j]
  BY DEF Kysymyslistat

\* Questions picked from a list
LEMMA PoimitutKysymykset ==
  ASSUME NEW ks \in Kysymyslistat, NEW I \in SUBSET DOMAIN ks
  PROVE  /\ Kohdista(ks, I) \in Kysymyslistat
         /\ \A n \in DOMAIN Kohdista(ks, I) : \E i \in I : Kohdista(ks, I)[n] = ks[i]
  BY KohdistaOikein DEF Kysymyslistat

\* Saving a question leaves no field its type does not have
LEMMA ValmisSiisti ==
  ASSUME NEW k \in Kysymystyyppi, Muokattava(k)
  PROVE  Valmis(k) \in Kysymystyyppi /\ Siisti(Valmis(k))
<1> DEFINE j == k.jatkokysymys
           j2 == IF j = Maaraamaton \/ ~(j.kylla \/ j.ei) THEN Maaraamaton
                 ELSE [j EXCEPT !.max_vastaus = @ /\ j.ei]
           m2 == k.max_vastaus /\ k.vastaustyyppi = "vapaateksti"
           x2 == IF k.vastaustyyppi = "monivalinta" THEN k.monivalinta_max ELSE Maaraamaton
           v2 == IF k.vastaustyyppi = "monivalinta" THEN k.vaihtoehtoja ELSE Maaraamaton
           p == PoistaYlimaaraisetKentat(k)
<1>1. j2 \in Jatkokysymykset \cup {Maaraamaton}
  <2>1. j \in Jatkokysymykset
    BY DEF Muokattava
  <2>2. (j.max_vastaus /\ j.ei) \in BOOLEAN
    OBVIOUS
  <2> DEFINE b == j.max_vastaus /\ j.ei
  <2>3. [j EXCEPT !.max_vastaus = b] \in Jatkokysymykset
    <3>1. b \in BOOLEAN
      BY <2>2
    <3> HIDE DEF b, j
    <3> QED BY <2>1, <3>1 DEF Jatkokysymykset
  <2> QED BY <2>3
<1>2. m2 \in BOOLEAN /\ (m2 => k.vastaustyyppi = "vapaateksti")
  OBVIOUS
<1>7. j2 # Maaraamaton => (j2.kylla \/ j2.ei) /\ (j2.max_vastaus => j2.ei)
  BY DEF Muokattava, Jatkokysymykset
<1>3. /\ x2 \in Nat \cup {Maaraamaton} /\ v2 \in Nat \cup {Maaraamaton}
      /\ x2 # Maaraamaton => k.vastaustyyppi = "monivalinta"
      /\ v2 # Maaraamaton =>
           k.vastaustyyppi = "monivalinta" /\ v2 \in Nat /\ x2 \in Nat /\ x2 <= v2
  BY DEF Muokattava, Kysymystyyppi
<1>4. p = [k EXCEPT !.jatkokysymys = j2, !.max_vastaus = m2, !.monivalinta_max = x2,
                    !.vaihtoehtoja = v2]
  BY DEF PoistaYlimaaraisetKentat
<1> HIDE DEF j2, m2, x2, v2, p
<1>5. /\ [p EXCEPT !.uusi = FALSE] \in Kysymystyyppi
      /\ ~[p EXCEPT !.uusi = FALSE].uusi
      /\ [p EXCEPT !.uusi = FALSE].vastaustyyppi = k.vastaustyyppi
      /\ [p EXCEPT !.uusi = FALSE].jatkokysymys = j2
      /\ [p EXCEPT !.uusi = FALSE].max_vastaus = m2
      /\ [p EXCEPT !.uusi = FALSE].monivalinta_max = x2
      /\ [p EXCEPT !.uusi = FALSE].vaihtoehtoja = v2
  BY <1>1, <1>2, <1>3, <1>4 DEF Kysymystyyppi
<1>6. Valmis(k) = [p EXCEPT !.uusi = FALSE]
  BY DEF Valmis, p
<1> QED BY <1>2, <1>3, <1>5, <1>6, <1>7 DEF Siisti

\* What the server stores of a finished question has no follow-up question of
\* another type
LEMMA TallentuvaEhja ==
  ASSUME NEW k \in Kysymystyyppi, Siisti(k) PROVE Ehja(Tallentuva(k))
<1> DEFINE j == IF k.vastaustyyppi = "kylla_ei_valinta" THEN k.jatkokysymys ELSE Maaraamaton
           v == IF k.vastaustyyppi = "monivalinta" THEN k.vaihtoehtoja ELSE Maaraamaton
           t == [k EXCEPT !.jatkokysymys = j, !.vaihtoehtoja = v]
<1>1. Tallentuva(k) = t
  BY DEF Tallentuva
<1>2. j # Maaraamaton => j = k.jatkokysymys /\ k.vastaustyyppi = "kylla_ei_valinta"
  OBVIOUS
<1>3. v # Maaraamaton => v = k.vaihtoehtoja
  OBVIOUS
<1> HIDE DEF j, v
<1>4. /\ t.uusi = k.uusi /\ t.vastaustyyppi = k.vastaustyyppi /\ t.max_vastaus = k.max_vastaus
      /\ t.monivalinta_max = k.monivalinta_max /\ t.jatkokysymys = j /\ t.vaihtoehtoja = v
  BY DEF Kysymystyyppi
<1> HIDE DEF t
<1> QED BY <1>1, <1>2, <1>3, <1>4 DEF Ehja, Siisti

\* What the editor's buttons make of a question can still be finished
LEMMA MuutosMuokattava ==
  ASSUME NEW k \in Kysymystyyppi, Muokattava(k), NEW c,
         \/ \E t \in Vastaustyypit : c = [k EXCEPT !.vastaustyyppi = t]
         \/ c = [k EXCEPT !.jatkokysymys.kylla = ~@]
         \/ c = [k EXCEPT !.jatkokysymys.ei = ~@]
         \/ /\ k.vaihtoehtoja # Maaraamaton
            /\ \/ c = LisaaVaihtoehto(k)
               \/ k.vaihtoehtoja > 2 /\ c = PoistaVaihtoehto(k)
               \/ \E n \in 1 .. k.vaihtoehtoja : c = [k EXCEPT !.monivalinta_max = n]
  PROVE  c \in Kysymystyyppi /\ Muokattava(c) /\ c.uusi = k.uusi
<1>1. ASSUME NEW t \in Vastaustyypit, c = [k EXCEPT !.vastaustyyppi = t]
      PROVE  c \in Kysymystyyppi /\ Muokattava(c) /\ c.uusi = k.uusi
  BY <1>1 DEF Vastaustyypit, Kysymystyyppi, Muokattava
<1>2. ASSUME NEW j \in Jatkokysymykset, c = [k EXCEPT !.jatkokysymys = j]
      PROVE  c \in Kysymystyyppi /\ Muokattava(c) /\ c.uusi = k.uusi
  BY <1>2 DEF Kysymystyyppi, Muokattava
<1>3. CASE c = [k EXCEPT !.jatkokysymys.kylla = ~@] \/ c = [k EXCEPT !.jatkokysymys.ei = ~@]
  <2> DEFINE j == k.jatkokysymys
             b == ~j.kylla
             e == ~j.ei
  <2>1. j \in Jatkokysymykset /\ b \in BOOLEAN /\ e \in BOOLEAN
    BY DEF Muokattava
  <2>2. \/ c = [k EXCEPT !.jatkokysymys = [j EXCEPT !.kylla = b]]
        \/ c = [k EXCEPT !.jatkokysymys = [j EXCEPT !.ei = e]]
    BY <1>3
  <2> HIDE DEF j, b, e
  <2>3. [j EXCEPT !.kylla = b] \in Jatkokysymykset /\ [j EXCEPT !.ei = e] \in Jatkokysymykset
    BY <2>1 DEF Jatkokysymykset
  <2> QED BY <1>2, <2>2, <2>3
<1>4. ASSUME NEW v \in Nat, NEW x \in Nat, x <= v,
             c = [k EXCEPT !.vaihtoehtoja = v, !.monivalinta_max = x]
      PROVE  c \in Kysymystyyppi /\ Muokattava(c) /\ c.uusi = k.uusi
  BY <1>4 DEF Kysymystyyppi, Muokattava
<1>5. CASE /\ k.vaihtoehtoja # Maaraamaton
           /\ \/ c = LisaaVaihtoehto(k)
              \/ k.vaihtoehtoja > 2 /\ c = PoistaVaihtoehto(k)
              \/ \E n \in 1 .. k.vaihtoehtoja : c = [k EXCEPT !.monivalinta_max = n]
  <2> DEFINE v == k.vaihtoehtoja
             x == k.monivalinta_max
  <2>1. v \in Nat /\ x \in Nat /\ x <= v
    BY <1>5 DEF Muokattava
  <2>2. k = [k EXCEPT !.vaihtoehtoja = v, !.monivalinta_max = x]
    BY DEF Kysymystyyppi
  <2>3. CASE c = LisaaVaihtoehto(k)
    <3>1. c = [k EXCEPT !.vaihtoehtoja = v + 1, !.monivalinta_max = x]
      BY <2>3 DEF LisaaVaihtoehto, Kysymystyyppi
    <3>2. v + 1 \in Nat /\ x <= v + 1
      BY <2>1
    <3> HIDE DEF v, x
    <3> QED BY <1>4, <2>1, <3>1, <3>2
  <2>4. CASE v > 2 /\ c = PoistaVaihtoehto(k)
    <3> DEFINE y == IF x > v - 1 THEN v - 1 ELSE x
    <3>1. c = [k EXCEPT !.vaihtoehtoja = v - 1, !.monivalinta_max = y]
      BY <2>4 DEF PoistaVaihtoehto
    <3>2. v - 1 \in Nat /\ y \in Nat /\ y <= v - 1
      BY <2>1, <2>4
    <3> HIDE DEF v, x, y
    <3> QED BY <1>4, <3>1, <3>2
  <2>5. ASSUME NEW n \in 1 .. v, c = [k EXCEPT !.monivalinta_max = n]
        PROVE  c \in Kysymystyyppi /\ Muokattava(c) /\ c.uusi = k.uusi
    <3>1. c = [k EXCEPT !.vaihtoehtoja = v, !.monivalinta_max = n]
      BY <2>5 DEF Kysymystyyppi
    <3>2. n \in Nat /\ n <= v
      BY <2>1
    <3> HIDE DEF v, x
    <3> QED BY <1>4, <2>1, <3>1, <3>2
  <2> QED BY <1>5, <2>3, <2>4, <2>5
<1> QED BY <1>1, <1>3, <1>5

\* A group form opens with the editor closed and nothing stored yet
LEMMA RyhmaAlku == KysymysryhmalomakeInit => RyhmaInv
<1> SUFFICES ASSUME KysymysryhmalomakeInit PROVE RyhmaInv
  OBVIOUS
<1>1. <<>> \in Kysymyslistat
  BY DEF Kysymyslistat
<1> QED BY <1>1 DEF KysymysryhmalomakeInit, RyhmaInv, EditoriKunnossa, ListatKunnossa,
                    EnnenMuistissa, LahetettyKunnossa

\* The stored group, also as a copy, has finished questions
LEMMA RyhmaPalvelimelta ==
  ASSUME NEW ks \in {KysymyksetOnPalvelin, Kopioitavat(KysymyksetOnPalvelin)}
  PROVE  ks \in Kysymyslistat /\ \A i \in DOMAIN ks : Siisti(ks[i])
<1> DEFINE s == KysymyksetOnPalvelin
           I == {i \in DOMAIN s : s[i].vastaustyyppi # "asteikko"}
           p == Kohdista(s, I)
           Kopio(k) == IF k.jatkokysymys # Maaraamaton /\ k.jatkokysymys.asteikko
                       THEN [k EXCEPT !.jatkokysymys = Maaraamaton] ELSE k
           c == [i \in DOMAIN p |-> Kopio(p[i])]
<1>1. s \in Kysymyslistat /\ \A i \in DOMAIN s : Siisti(s[i])
  BY KysymysryhmalomakeOletus DEF Kysymyslistat, Ehja
<1>2. Kopioitavat(s) = c
  BY DEF Kopioitavat, Poimi
<1>3. p \in Kysymyslistat /\ \A n \in DOMAIN p : \E i \in I : p[n] = s[i]
  <2>1. I \in SUBSET DOMAIN s
    OBVIOUS
  <2> HIDE DEF I, s
  <2> QED BY <1>1, <2>1, PoimitutKysymykset
<1> HIDE DEF p, s
<1>4. \A n \in DOMAIN p : p[n] \in Kysymystyyppi /\ Siisti(p[n])
  BY <1>1, <1>3, Kysymyslista
<1>5. ASSUME NEW k \in Kysymystyyppi, Siisti(k) PROVE Kopio(k) \in Kysymystyyppi /\ Siisti(Kopio(k))
  <2>1. CASE Kopio(k) = k
    BY <1>5, <2>1
  <2>2. CASE Kopio(k) = [k EXCEPT !.jatkokysymys = Maaraamaton]
    <3> HIDE DEF Kopio
    <3> QED BY <1>5, <2>2 DEF Kysymystyyppi, Siisti
  <2> QED BY <2>1, <2>2
<1> HIDE DEF Kopio
<1>6. \A n \in DOMAIN p : Kopio(p[n]) \in Kysymystyyppi /\ Siisti(Kopio(p[n]))
  BY <1>4, <1>5
<1>7. c \in Kysymyslistat /\ \A n \in DOMAIN c : Siisti(c[n])
  <2>1. Len(p) \in Nat /\ DOMAIN p = 1 .. Len(p)
    BY <1>3, Kysymyslista
  <2>2. DOMAIN c = 1 .. Len(p) /\ \A n \in DOMAIN c : c[n] = Kopio(p[n])
    BY <2>1
  <2> QED BY <1>6, <2>1, <2>2, SeqDef DEF Kysymyslistat
<1> QED BY <1>1, <1>2, <1>7 DEF s

\* An old question can be put back, a new one cannot
Muistaa(uusi) == originals' = IF uusi THEN originals ELSE kysymykset

\* A new question is the last one of a list one longer
Jatkuu(i, ks) == IF ks[i].uusi THEN i = Len(ks) /\ Len(ks) = Len(kysymykset) + 1
                               ELSE Len(ks) = Len(kysymykset)

\* The editor opens on one question; the list before is remembered
LEMMA AvausSailyttaa ==
  ASSUME RyhmaInv, NEW i, NEW ks \in Kysymyslistat, AvaaEditori(i, ks), i \in DOMAIN ks,
         Muokattava(ks[i]),
         \A j \in DOMAIN ks : j # i => j \in DOMAIN kysymykset /\ ks[j] = kysymykset[j],
         Jatkuu(i, ks), Muistaa(ks[i].uusi)
  PROVE  RyhmaInv'
<1>1. /\ ~muokkaustila /\ muokkaustila' /\ kysymykset' = ks /\ ennen' = kysymykset
      /\ aktiivinen' = [paikka |-> i, uusi |-> ks[i].uusi]
      /\ kysymystoimia' = kysymystoimia + 1 /\ UNCHANGED ryhmalahetykset
  BY DEF AvaaEditori, Kysymystoimi
<1>2. /\ kysymykset \in Kysymyslistat /\ kysymystoimia \in Nat
      /\ \A j \in DOMAIN kysymykset : Siisti(kysymykset[j])
      /\ originals \in Kysymyslistat /\ \A j \in DOMAIN originals : Siisti(originals[j])
  BY <1>1 DEF RyhmaInv, EditoriKunnossa, ListatKunnossa
<1>3. /\ Len(ks) \in Nat /\ DOMAIN ks = 1 .. Len(ks)
      /\ Len(kysymykset) \in Nat /\ DOMAIN kysymykset = 1 .. Len(kysymykset)
  BY <1>2, Kysymyslista
<1>4. i \in Nat /\ i # 0 /\ ks[i].uusi \in BOOLEAN
  <2>1. i \in 1 .. Len(ks)
    BY <1>3
  <2>2. ks[i].uusi \in BOOLEAN
    BY Kysymyslista DEF Kysymystyyppi
  <2> QED BY <1>3, <2>1, <2>2
<1>5. aktiivinen'.paikka = i /\ aktiivinen'.uusi = ks[i].uusi
      /\ aktiivinen' \in [paikka : Nat, uusi : BOOLEAN]
  BY <1>1, <1>4
<1>6. EditoriKunnossa'
  BY <1>1, <1>2, <1>5 DEF EditoriKunnossa
<1>7. ListatKunnossa'
  BY <1>1, <1>2 DEF ListatKunnossa, Muistaa
<1>8. EnnenMuistissa'
  <2>1. Len(kysymykset) <= Len(ks)
    <3>1. Len(kysymykset) \in Nat /\ Len(ks) \in Nat
      BY <1>3
    <3> QED BY <3>1 DEF Jatkuu
  <2>2. DOMAIN kysymykset \subseteq DOMAIN ks
    BY <1>3, <2>1
  <2>3. \A j \in DOMAIN kysymykset : j # i => ks[j] = kysymykset[j]
    BY <2>2
  <2> QED BY <1>1, <1>2, <1>4, <1>5, <2>3 DEF EnnenMuistissa, Muistaa, Jatkuu
<1>9. LahetettyKunnossa'
  BY <1>1 DEF RyhmaInv, LahetettyKunnossa
<1> QED BY <1>6, <1>7, <1>8, <1>9 DEF RyhmaInv

\* A new question, and an old one with a follow-up question to write into
LEMMA AvausKunnossa ==
  ASSUME RyhmaInv, LisaaKysymys \/ \E i \in DOMAIN kysymykset : Muokkaa(i) PROVE RyhmaInv'
<1>1. ~muokkaustila /\ kysymykset \in Kysymyslistat /\ kysymystoimia \in Nat
  BY DEF RyhmaInv, ListatKunnossa, LisaaKysymys, Muokkaa, AvaaEditori
<1>2. /\ Len(kysymykset) \in Nat /\ DOMAIN kysymykset = 1 .. Len(kysymykset)
      /\ \A i \in DOMAIN kysymykset : kysymykset[i] \in Kysymystyyppi /\ Siisti(kysymykset[i])
  BY <1>1, Kysymyslista DEF RyhmaInv, EditoriKunnossa
<1>3. CASE LisaaKysymys
  <2> DEFINE u == UusiKysymys(kysymystoimia)
             ks == Append(kysymykset, u)
             i == Len(kysymykset) + 1
  <2>1. u \in Kysymystyyppi /\ Muokattava(u) /\ u.uusi
    <3>1. [kylla |-> FALSE, ei |-> FALSE, asteikko |-> FALSE, max_vastaus |-> TRUE]
            \in Jatkokysymykset
      BY DEF Jatkokysymykset
    <3> QED BY <1>1, <3>1 DEF UusiKysymys, Kysymystyyppi, Muokattava
  <2>2. AvaaEditori(i, ks) /\ UNCHANGED originals
    BY <1>3 DEF LisaaKysymys
  <2> HIDE DEF u
  <2>3. /\ ks \in Kysymyslistat /\ Len(ks) = i /\ DOMAIN ks = 1 .. i
        /\ \A j \in 1 .. i : ks[j] = IF j = i THEN u ELSE kysymykset[j]
    BY <1>1, <1>2, <2>1 DEF Kysymyslistat
  <2> HIDE DEF ks
  <2>4. /\ i \in DOMAIN ks /\ ks[i] = u
        /\ \A j \in DOMAIN ks : j # i => j \in DOMAIN kysymykset /\ ks[j] = kysymykset[j]
    BY <1>2, <2>3
  <2> HIDE DEF i
  <2>5. ks[i].uusi /\ i = Len(ks) /\ Len(ks) = Len(kysymykset) + 1
    BY <2>1, <2>3, <2>4 DEF i
  <2> QED BY <2>1, <2>2, <2>3, <2>4, <2>5, AvausSailyttaa DEF Muistaa, Jatkuu
<1>4. ASSUME NEW i \in DOMAIN kysymykset, Muokkaa(i) PROVE RyhmaInv'
  <2> DEFINE k == kysymykset[i]
             j == IF k.jatkokysymys = Maaraamaton
                  THEN [kylla |-> FALSE, ei |-> FALSE, asteikko |-> FALSE, max_vastaus |-> TRUE]
                  ELSE [k.jatkokysymys EXCEPT !.max_vastaus = TRUE]
             c == [k EXCEPT !.jatkokysymys = j]
             ks == [kysymykset EXCEPT ![i] = c]
  <2>1. k \in Kysymystyyppi /\ Siisti(k)
    BY <1>2
  <2>2. j \in Jatkokysymykset
    <3>1. k.jatkokysymys \in Jatkokysymykset \cup {Maaraamaton}
      BY <2>1 DEF Kysymystyyppi
    <3> QED BY <3>1 DEF Jatkokysymykset
  <2>3. AvaaEditori(i, ks) /\ originals' = kysymykset
    BY <1>4 DEF Muokkaa
  <2> HIDE DEF k, j
  <2>4. c \in Kysymystyyppi /\ Muokattava(c) /\ ~c.uusi
    BY <2>1, <2>2 DEF Kysymystyyppi, Siisti, Muokattava
  <2> HIDE DEF c
  <2>5. /\ ks \in Kysymyslistat /\ Len(ks) = Len(kysymykset) /\ DOMAIN ks = DOMAIN kysymykset
        /\ \A l \in DOMAIN kysymykset : ks[l] = IF l = i THEN c ELSE kysymykset[l]
    BY <1>1, <2>4, VaihdettuLista
  <2> HIDE DEF ks
  <2> QED BY <2>3, <2>4, <2>5, AvausSailyttaa DEF Muistaa, Jatkuu
<1> QED BY <1>3, <1>4

\* The editor changes only its own question
LEMMA MuokkausKunnossa ==
  ASSUME RyhmaInv, MuokkaaKysymysta PROVE RyhmaInv'
<1> DEFINE i == aktiivinen.paikka
           k == kysymykset[i]
<1>1. /\ muokkaustila /\ i # 0 /\ i \in DOMAIN kysymykset /\ kysymykset \in Kysymyslistat
      /\ Muokattava(k) /\ k.uusi = aktiivinen.uusi
  BY DEF MuokkaaKysymysta, RyhmaInv, EditoriKunnossa, ListatKunnossa
<1>2. k \in Kysymystyyppi
  BY <1>1, Kysymyslista
<1>3. PICK c : /\ MuutaAktiivista(c)
               /\ \/ \E t \in Vastaustyypit : c = [k EXCEPT !.vastaustyyppi = t]
                  \/ c = [k EXCEPT !.jatkokysymys.kylla = ~@]
                  \/ c = [k EXCEPT !.jatkokysymys.ei = ~@]
                  \/ /\ k.vaihtoehtoja # Maaraamaton
                     /\ \/ c = LisaaVaihtoehto(k)
                        \/ k.vaihtoehtoja > 2 /\ c = PoistaVaihtoehto(k)
                        \/ \E n \in 1 .. k.vaihtoehtoja : c = [k EXCEPT !.monivalinta_max = n]
  BY DEF MuokkaaKysymysta
<1>4. c \in Kysymystyyppi /\ Muokattava(c) /\ c.uusi = aktiivinen.uusi
  BY <1>1, <1>2, <1>3, MuutosMuokattava
<1>5. /\ kysymykset' = [kysymykset EXCEPT ![i] = c] /\ kysymystoimia' = kysymystoimia + 1
      /\ UNCHANGED <<aktiivinen, muokkaustila, originals, ennen, ryhmalahetykset>>
  BY <1>3 DEF MuutaAktiivista, Kysymystoimi
<1> HIDE DEF k
<1>6. /\ kysymykset' \in Kysymyslistat /\ Len(kysymykset') = Len(kysymykset)
      /\ DOMAIN kysymykset' = DOMAIN kysymykset
      /\ \A j \in DOMAIN kysymykset : kysymykset'[j] = IF j = i THEN c ELSE kysymykset[j]
  <2> DEFINE ks == [kysymykset EXCEPT ![i] = c]
  <2>1. /\ ks \in Kysymyslistat /\ Len(ks) = Len(kysymykset) /\ DOMAIN ks = DOMAIN kysymykset
        /\ \A j \in DOMAIN kysymykset : ks[j] = IF j = i THEN c ELSE kysymykset[j]
    BY <1>1, <1>4, VaihdettuLista
  <2>2. kysymykset' = ks
    BY <1>5
  <2> HIDE DEF ks
  <2> QED BY <2>1, <2>2
<1>7. EditoriKunnossa'
  BY <1>1, <1>4, <1>5, <1>6 DEF RyhmaInv, EditoriKunnossa
<1>8. ListatKunnossa'
  BY <1>5, <1>6 DEF RyhmaInv, ListatKunnossa
<1>9. EnnenMuistissa'
  <2> SUFFICES ASSUME ennen # Maaraamaton PROVE EnnenMuistissa'
    BY <1>5 DEF EnnenMuistissa
  <2>1. /\ ennen \in Kysymyslistat /\ \A j \in DOMAIN ennen : Siisti(ennen[j])
        /\ \A j \in DOMAIN ennen : j # i => kysymykset[j] = ennen[j]
    BY <1>1 DEF RyhmaInv, EnnenMuistissa
  <2>2. /\ Len(ennen) \in Nat /\ DOMAIN ennen = 1 .. Len(ennen)
        /\ Len(kysymykset) \in Nat /\ DOMAIN kysymykset = 1 .. Len(kysymykset)
    BY <1>1, <2>1, Kysymyslista
  <2>3. DOMAIN ennen \subseteq DOMAIN kysymykset
    <3>1. Len(kysymykset) \in Nat /\ Len(ennen) \in Nat
      BY <2>2
    <3>2. Len(kysymykset) = Len(ennen) + 1 \/ Len(kysymykset) = Len(ennen)
      BY <1>1 DEF RyhmaInv, EnnenMuistissa
    <3>3. Len(ennen) <= Len(kysymykset)
      BY <3>1, <3>2
    <3> QED BY <2>2, <3>3
  <2>4. \A j \in DOMAIN ennen : j # i => kysymykset'[j] = ennen[j]
    BY <1>6, <2>1, <2>3
  <2>5. IF aktiivinen.uusi THEN i = Len(kysymykset) /\ Len(kysymykset) = Len(ennen) + 1
                           ELSE originals = ennen /\ Len(kysymykset) = Len(ennen)
    BY <1>1 DEF RyhmaInv, EnnenMuistissa
  <2> QED BY <1>1, <1>5, <1>6, <2>1, <2>4, <2>5 DEF EnnenMuistissa
<1>10. LahetettyKunnossa'
  BY <1>5 DEF RyhmaInv, LahetettyKunnossa
<1> QED BY <1>7, <1>8, <1>9, <1>10 DEF RyhmaInv

\* A list of finished questions, with the editor closed
LEMMA KiinniKunnossa ==
  ASSUME RyhmaInv, kysymykset' \in Kysymyslistat, \A i \in DOMAIN kysymykset' : Siisti(kysymykset'[i]),
         kysymystoimia' \in Nat, aktiivinen' \in [paikka : Nat, uusi : BOOLEAN],
         \/ ~muokkaustila'
         \/ aktiivinen'.paikka = 0 /\ ennen' = Maaraamaton,
         UNCHANGED originals, LahetettyKunnossa'
  PROVE  RyhmaInv'
<1>1. \A i \in DOMAIN kysymykset' : i # 0
  BY Kysymyslista
<1>2. EditoriKunnossa'
  BY <1>1 DEF EditoriKunnossa
<1>3. ListatKunnossa'
  BY DEF RyhmaInv, ListatKunnossa
<1>4. EnnenMuistissa'
  BY DEF EnnenMuistissa
<1> QED BY <1>2, <1>3, <1>4 DEF RyhmaInv

\* With a save the question in the editor is finished, with the others
LEMMA TallennusSiistii ==
  ASSUME RyhmaInv, TallennaKysymys
  PROVE  /\ kysymykset' \in Kysymyslistat /\ \A i \in DOMAIN kysymykset' : Siisti(kysymykset'[i])
         /\ Len(kysymykset') = Len(kysymykset)
         /\ \A i \in DOMAIN kysymykset : i # aktiivinen.paikka => kysymykset'[i] = kysymykset[i]
<1> DEFINE i == aktiivinen.paikka
           k == kysymykset[i]
<1>1. muokkaustila /\ kysymykset \in Kysymyslistat
  BY DEF TallennaKysymys, SuljeEditori, RyhmaInv, ListatKunnossa
<1>2. CASE i = 0
  <2>1. \A j \in DOMAIN kysymykset : j # 0
    BY <1>1, Kysymyslista
  <2> QED BY <1>1, <1>2, <2>1 DEF TallennaKysymys, RyhmaInv, EditoriKunnossa
<1>3. CASE i # 0
  <2>1. i \in DOMAIN kysymykset /\ Muokattava(k)
    BY <1>1, <1>3 DEF RyhmaInv, EditoriKunnossa
  <2>2. Valmis(k) \in Kysymystyyppi /\ Siisti(Valmis(k))
    BY <1>1, <2>1, Kysymyslista, ValmisSiisti
  <2>3. kysymykset' = [kysymykset EXCEPT ![i] = Valmis(k)]
    BY <1>3 DEF TallennaKysymys
  <2> DEFINE v == Valmis(k)
             L == [kysymykset EXCEPT ![i] = v]
  <2> HIDE DEF v
  <2>4. /\ L \in Kysymyslistat /\ Len(L) = Len(kysymykset) /\ DOMAIN L = DOMAIN kysymykset
        /\ \A j \in DOMAIN kysymykset : L[j] = IF j = i THEN v ELSE kysymykset[j]
    <3>1. v \in Kysymystyyppi
      BY <2>2 DEF v
    <3> HIDE DEF i
    <3> QED BY <1>1, <2>1, <3>1, VaihdettuLista
  <2>5. kysymykset' = L
    BY <2>3 DEF v
  <2>6. \A j \in DOMAIN kysymykset : j # i => Siisti(kysymykset[j])
    BY <1>1 DEF RyhmaInv, EditoriKunnossa
  <2>7. Siisti(v)
    BY <2>2 DEF v
  <2> HIDE DEF L
  <2> QED BY <2>4, <2>5, <2>6, <2>7
<1> QED BY <1>2, <1>3

\* With a cancel finished questions are left, of the form or of what it had
LEMMA PeruutusSiistii ==
  ASSUME RyhmaInv, PeruutaKysymysTallennus
  PROVE  kysymykset' \in Kysymyslistat /\ \A i \in DOMAIN kysymykset' : Siisti(kysymykset'[i])
<1> DEFINE ks == IF aktiivinen.uusi THEN kysymykset ELSE originals
           I == {i \in DOMAIN ks : ~ks[i].uusi}
<1>1. muokkaustila /\ kysymykset' = Kohdista(ks, I)
  BY DEF PeruutaKysymysTallennus, SuljeEditori, Poimi
<1>2. /\ ks \in Kysymyslistat /\ \A i \in I : Siisti(ks[i])
  BY <1>1 DEF RyhmaInv, EditoriKunnossa, ListatKunnossa
<1>3. I \in SUBSET DOMAIN ks
  OBVIOUS
<1> HIDE DEF ks, I
<1> QED BY <1>1, <1>2, <1>3, PoimitutKysymykset

\* Every step of the form keeps unfinished questions to the editor
LEMMA RyhmaSailyy ==
  ASSUME RyhmaInv, KysymysryhmalomakeNext PROVE RyhmaInv'
<1>1. /\ kysymykset \in Kysymyslistat /\ kysymystoimia \in Nat
      /\ aktiivinen \in [paikka : Nat, uusi : BOOLEAN]
  BY DEF RyhmaInv, EditoriKunnossa, ListatKunnossa
<1>2. ASSUME UNCHANGED ryhmalahetykset PROVE LahetettyKunnossa'
  BY <1>2 DEF RyhmaInv, LahetettyKunnossa
<1>3. ASSUME ~muokkaustila PROVE \A i \in DOMAIN kysymykset : Siisti(kysymykset[i])
  BY <1>3 DEF RyhmaInv, EditoriKunnossa
<1>4. CASE RyhmaSaapuu
  <2>1. /\ UNCHANGED <<muokkaustila, originals, kysymystoimia>>
        /\ UNCHANGED ryhmalahetykset
    BY <1>4 DEF RyhmaSaapuu
  <2>2. CASE UNCHANGED <<kysymykset, ntm, aktiivinen, ennen>>
    BY <2>1, <2>2 DEF RyhmaInv, EditoriKunnossa, ListatKunnossa, EnnenMuistissa, LahetettyKunnossa
  <2>3. CASE /\ kysymykset' \in {KysymyksetOnPalvelin, Kopioitavat(KysymyksetOnPalvelin)}
             /\ aktiivinen' = [aktiivinen EXCEPT !.paikka = 0] /\ ennen' = Maaraamaton
    <3>1. aktiivinen' \in [paikka : Nat, uusi : BOOLEAN] /\ aktiivinen'.paikka = 0
      BY <1>1, <2>3
    <3>2. kysymykset' \in Kysymyslistat /\ \A i \in DOMAIN kysymykset' : Siisti(kysymykset'[i])
      BY <2>3, RyhmaPalvelimelta
    <3> QED BY <1>1, <1>2, <2>1, <2>3, <3>1, <3>2, KiinniKunnossa
  <2> QED BY <1>4, <2>2, <2>3 DEF RyhmaSaapuu
<1>5. CASE LisaaKysymys \/ \E i \in DOMAIN kysymykset : Muokkaa(i)
  BY <1>5, AvausKunnossa
<1>6. CASE MuokkaaKysymysta
  BY <1>6, MuokkausKunnossa
<1>7. CASE TallennaKysymys \/ PeruutaKysymysTallennus
  <2>1. ~muokkaustila' /\ UNCHANGED <<aktiivinen, originals, kysymystoimia>> /\ UNCHANGED ryhmalahetykset
    BY <1>7 DEF TallennaKysymys, PeruutaKysymysTallennus, SuljeEditori
  <2>2. kysymykset' \in Kysymyslistat /\ \A i \in DOMAIN kysymykset' : Siisti(kysymykset'[i])
    BY <1>7, TallennusSiistii, PeruutusSiistii
  <2> QED BY <1>1, <1>2, <2>1, <2>2, KiinniKunnossa
<1>8. CASE MuutaListaa
  <2>1. /\ ~muokkaustila /\ ~muokkaustila' /\ kysymystoimia' = kysymystoimia + 1
        /\ UNCHANGED <<aktiivinen, originals>> /\ UNCHANGED ryhmalahetykset
    BY <1>8 DEF MuutaListaa, Kysymystoimi
  <2>2. PICK i \in DOMAIN kysymykset :
          \/ kysymykset' = [kysymykset EXCEPT ![i].poistetaan = ~@]
          \/ \E j \in DOMAIN kysymykset :
               kysymykset' = InsertAt(RemoveAt(kysymykset, i), j, kysymykset[i])
    BY <1>8 DEF MuutaListaa
  <2>3. CASE kysymykset' = [kysymykset EXCEPT ![i].poistetaan = ~@]
    <3> DEFINE k == kysymykset[i]
               b == ~k.poistetaan
               c == [k EXCEPT !.poistetaan = b]
    <3>1. k \in Kysymystyyppi /\ Siisti(k) /\ b \in BOOLEAN
      BY <1>1, <1>3, <2>1, Kysymyslista
    <3>2. kysymykset' = [kysymykset EXCEPT ![i] = c]
      BY <2>3
    <3> HIDE DEF k, b
    <3>3. c \in Kysymystyyppi /\ Siisti(c)
      BY <3>1 DEF Kysymystyyppi, Siisti
    <3> HIDE DEF c
    <3> DEFINE L == [kysymykset EXCEPT ![i] = c]
    <3>4. /\ L \in Kysymyslistat /\ DOMAIN L = DOMAIN kysymykset
          /\ \A j \in DOMAIN kysymykset : L[j] = IF j = i THEN c ELSE kysymykset[j]
      BY <1>1, <3>3, VaihdettuLista
    <3>5. kysymykset' = L
      BY <3>2
    <3> HIDE DEF L
    <3>6. kysymykset' \in Kysymyslistat /\ \A j \in DOMAIN kysymykset' : Siisti(kysymykset'[j])
      BY <1>3, <2>1, <3>3, <3>4, <3>5
    <3> QED BY <1>1, <1>2, <2>1, <3>6, KiinniKunnossa
  <2>4. ASSUME NEW j \in DOMAIN kysymykset,
               kysymykset' = InsertAt(RemoveAt(kysymykset, i), j, kysymykset[i])
        PROVE  RyhmaInv'
    <3>1. /\ kysymykset' \in Kysymyslistat /\ Len(kysymykset') = Len(kysymykset)
          /\ Samat(kysymykset', kysymykset)
      BY <1>1, <2>4, SiirrettyOikein DEF Kysymyslistat
    <3>2. DOMAIN kysymykset' = DOMAIN kysymykset
      BY <1>1, <3>1, Kysymyslista
    <3>3. \A k \in DOMAIN kysymykset' : \E l \in DOMAIN kysymykset : kysymykset'[k] = kysymykset[l]
      BY <3>1, <3>2 DEF Samat
    <3>4. \A k \in DOMAIN kysymykset' : Siisti(kysymykset'[k])
      BY <1>3, <2>1, <3>3
    <3> QED BY <1>1, <1>2, <2>1, <3>1, <3>4, KiinniKunnossa
  <2> QED BY <2>2, <2>3, <2>4
<1>9. CASE TallennaKysymysryhma
  <2> DEFINE I == {i \in DOMAIN kysymykset : ~kysymykset[i].poistetaan}
             ks == Kohdista(kysymykset, I)
  <2>1. /\ ~muokkaustila /\ ~muokkaustila' /\ kysymystoimia' = kysymystoimia + 1
        /\ UNCHANGED <<aktiivinen, originals>> /\ kysymykset' = ks
        /\ \A i \in DOMAIN kysymykset : kysymykset[i].vastaustyyppi # "asteikko"
    BY <1>9 DEF TallennaKysymysryhma, Kysymystoimi, TallennusSallittu, SisaltaaAsteikkokysymyksen,
                PoistaKysymykset, Poimi
  <2>2. \A p \in ryhmalahetykset' : p \in ryhmalahetykset \/ p.kysymykset = kysymykset'
    BY <1>9 DEF TallennaKysymysryhma
  <2>3. /\ ks \in Kysymyslistat /\ \A n \in DOMAIN ks : \E i \in I : ks[n] = kysymykset[i]
    <3>1. I \in SUBSET DOMAIN kysymykset
      OBVIOUS
    <3> HIDE DEF I
    <3> QED BY <1>1, <3>1, PoimitutKysymykset
  <2> HIDE DEF ks
  <2>4. \A n \in DOMAIN ks : Siisti(ks[n]) /\ ~ks[n].poistetaan /\ ks[n].vastaustyyppi # "asteikko"
    BY <1>3, <2>1, <2>3
  <2>6. \A n \in DOMAIN ks : Ehja(Tallentuva(ks[n]))
    BY <2>3, <2>4, Kysymyslista, TallentuvaEhja
  <2>5. LahetettyKunnossa'
    BY <2>1, <2>2, <2>4, <2>6 DEF RyhmaInv, LahetettyKunnossa
  <2> QED BY <1>1, <2>1, <2>3, <2>4, <2>5, KiinniKunnossa
<1>10. CASE PeruutaRyhma \/ \E p \in ryhmalahetykset : RyhmaTallennettu(p)
  <2>1. /\ UNCHANGED <<kysymykset, aktiivinen, muokkaustila, originals, ennen, kysymystoimia>>
        /\ ryhmalahetykset' \subseteq ryhmalahetykset
    BY <1>10 DEF PeruutaRyhma, RyhmaTallennettu
  <2> QED
    BY <2>1 DEF RyhmaInv, EditoriKunnossa, ListatKunnossa, EnnenMuistissa, LahetettyKunnossa
<1> QED
  BY <1>4, <1>5, <1>6, <1>7, <1>8, <1>9, <1>10 DEF KysymysryhmalomakeNext

\* The group form's invariant holds on every page
LEMMA RyhmaAina == Spec => []RyhmaInv
<1>1. Init => RyhmaInv
  BY RyhmaAlku DEF Init
<1>2. RyhmaInv /\ [Next]_muuttujat => RyhmaInv'
  <2>1. ASSUME RyhmaInv, UNCHANGED ryhmanMuuttujat PROVE RyhmaInv'
    BY <2>1 DEF ryhmanMuuttujat, RyhmaInv, EditoriKunnossa, ListatKunnossa, EnnenMuistissa,
       LahetettyKunnossa
  <2> QED BY <2>1, RyhmanAskel, RyhmaSailyy
<1> QED BY <1>1, <1>2, PTL DEF Spec

\* Whatever was done in the editor and in which order, the questions of a group
\* that is sent are stored without fields of another type, also a follow-up
\* question ticked before the type was changed, and none is marked or of the old
\* type
THEOREM LahetettyAinaKunnossa == Spec => []LahetettyKunnossa
<1>1. RyhmaInv => LahetettyKunnossa
  BY DEF RyhmaInv
<1> QED BY <1>1, RyhmaAina, PTL

\* A cancel puts back the list of when the editor opened
LEMMA PeruutusPalauttaa ==
  ASSUME RyhmaInv, PeruutaKysymysTallennus, ennen # Maaraamaton PROVE kysymykset' = ennen
<1> DEFINE n == Len(ennen)
<1>1. /\ muokkaustila /\ aktiivinen.paikka # 0
      /\ ennen \in Kysymyslistat /\ \A i \in DOMAIN ennen : Siisti(ennen[i])
      /\ \A i \in DOMAIN ennen : i # aktiivinen.paikka => kysymykset[i] = ennen[i]
  BY DEF PeruutaKysymysTallennus, SuljeEditori, RyhmaInv, EnnenMuistissa
<1>2. /\ kysymykset \in Kysymyslistat /\ aktiivinen.uusi \in BOOLEAN
      /\ n \in Nat /\ DOMAIN ennen = 1 .. n
      /\ Len(kysymykset) \in Nat /\ DOMAIN kysymykset = 1 .. Len(kysymykset)
  BY <1>1, Kysymyslista DEF RyhmaInv, EditoriKunnossa, ListatKunnossa
<1>3. CASE aktiivinen.uusi
  <2> DEFINE I == {i \in DOMAIN kysymykset : ~kysymykset[i].uusi}
  <2>1. kysymykset' = Kohdista(kysymykset, I)
    BY <1>3 DEF PeruutaKysymysTallennus, Poimi
  <2>2. aktiivinen.paikka = n + 1 /\ Len(kysymykset) = n + 1
    BY <1>1, <1>3 DEF RyhmaInv, EnnenMuistissa
  <2>3. kysymykset[n + 1].uusi
    BY <1>1, <1>2, <1>3, <2>2 DEF RyhmaInv, EditoriKunnossa
  <2>4. \A i \in 1 .. n : kysymykset[i] = ennen[i] /\ ~kysymykset[i].uusi
    BY <1>1, <1>2, <2>2 DEF Siisti
  <2>5. I = 1 .. n
    BY <1>2, <2>2, <2>3, <2>4
  <2> HIDE DEF I
  <2>6. n \in 0 .. Len(kysymykset)
    BY <1>2, <2>2
  <2>7. /\ kysymykset' \in Kysymyslistat /\ Len(kysymykset') = n
        /\ \A i \in 1 .. n : kysymykset'[i] = kysymykset[i]
    BY <1>2, <2>1, <2>5, <2>6, KohdistaAlku DEF Kysymyslistat
  <2> QED BY <1>1, <2>4, <2>7, SeqEqual DEF Kysymyslistat
<1>4. CASE ~aktiivinen.uusi
  <2>1. originals = ennen
    BY <1>1, <1>4 DEF RyhmaInv, EnnenMuistissa
  <2>2. kysymykset' = Kohdista(ennen, {i \in DOMAIN ennen : ~ennen[i].uusi})
    BY <1>4, <2>1 DEF PeruutaKysymysTallennus, Poimi
  <2>3. {i \in DOMAIN ennen : ~ennen[i].uusi} = DOMAIN ennen
    BY <1>1 DEF Siisti
  <2> QED BY <1>1, <2>2, <2>3, KohdistaKaikki DEF Kysymyslistat
<1> QED BY <1>2, <1>3, <1>4

\* A step that closes the editor changes at most the question in it
LEMMA EditorinAskel ==
  ASSUME RyhmaInv, [KysymysryhmalomakeNext]_ryhmanMuuttujat,
         muokkaustila, ~muokkaustila', ennen # Maaraamaton
  PROVE  \/ kysymykset' = ennen
         \/ /\ Len(kysymykset') >= Len(ennen)
            /\ \A i \in DOMAIN ennen : i # aktiivinen.paikka => kysymykset'[i] = ennen[i]
<1>1. TallennaKysymys \/ PeruutaKysymysTallennus
  <2>1. ~UNCHANGED ryhmanMuuttujat
    BY DEF ryhmanMuuttujat
  <2>2. ~RyhmaSaapuu /\ ~LisaaKysymys /\ ~\E i \in DOMAIN kysymykset : Muokkaa(i)
    BY DEF RyhmaSaapuu, LisaaKysymys, Muokkaa, AvaaEditori
  <2>3. ~MuokkaaKysymysta
    BY DEF MuokkaaKysymysta, MuutaAktiivista
  <2>4. ~MuutaListaa /\ ~TallennaKysymysryhma /\ ~PeruutaRyhma /\ ~\E p : RyhmaTallennettu(p)
    BY DEF MuutaListaa, TallennaKysymysryhma, PeruutaRyhma, RyhmaTallennettu
  <2> QED BY <2>1, <2>2, <2>3, <2>4 DEF KysymysryhmalomakeNext
<1>2. CASE TallennaKysymys
  <2>1. /\ ennen \in Kysymyslistat /\ kysymykset \in Kysymyslistat
        /\ \A i \in DOMAIN ennen : i # aktiivinen.paikka => kysymykset[i] = ennen[i]
    BY DEF RyhmaInv, EnnenMuistissa, ListatKunnossa
  <2>2. Len(kysymykset) = Len(ennen) + 1 \/ Len(kysymykset) = Len(ennen)
    BY DEF RyhmaInv, EnnenMuistissa
  <2>3. Len(kysymykset) \in Nat /\ Len(ennen) \in Nat
    BY <2>1, Kysymyslista
  <2>4. Len(kysymykset) >= Len(ennen)
    BY <2>2, <2>3
  <2>5. DOMAIN ennen \subseteq DOMAIN kysymykset
    <3>1. DOMAIN ennen = 1 .. Len(ennen) /\ DOMAIN kysymykset = 1 .. Len(kysymykset)
      BY <2>1, Kysymyslista
    <3> QED BY <2>3, <2>4, <3>1
  <2> QED BY <1>2, <2>1, <2>4, <2>5, TallennusSiistii
<1> QED BY <1>1, <1>2, PeruutusPalauttaa

\* Closing the editor changes nothing but the question that was in it, and a
\* cancel puts the list back
THEOREM EditoriAinaMuuttaaYhta == Spec => EditoriMuuttaaYhta
<1>1. RyhmaInv /\ [Next]_muuttujat =>
        [muokkaustila /\ ~muokkaustila' /\ ennen # Maaraamaton =>
           \/ kysymykset' = ennen
           \/ /\ Len(kysymykset') >= Len(ennen)
              /\ \A i \in DOMAIN ennen :
                   i # aktiivinen.paikka => kysymykset'[i] = ennen[i]]_ryhmanMuuttujat
  BY RyhmanAskel, EditorinAskel
<1> QED BY <1>1, RyhmaAina, PTL DEF Spec, EditoriMuuttaaYhta
=============================================================================
