--------------------------- MODULE LuetteloProofs ---------------------------
(***************************************************************************)
(* Theorems about the two lists of module Selain that requests in flight   *)
(* change row by row: the list of surveys and the codes of a round.  Each  *)
(* says that when the requests have been answered the list has what the    *)
(* server has; the invariants say what the answers still on their way are  *)
(* the difference between the two.                                         *)
(***************************************************************************)
EXTENDS SivutProofs, PoimintaProofs

(***************************************************************************)
(* The list of surveys                                                     *)
(***************************************************************************)

\* What a row shows, and what the server has of a survey
Kyselytoimet == Tilatoimet \cup {"poistaKysely"}
Kyselykerrat == UNION {Luettelokyselyt[k] : k \in DOMAIN Luettelokyselyt}
Kyselyrivi == [kyselyid : DOMAIN Luettelokyselyt, open : BOOLEAN, tila : Tilat,
               poistettavissa : BOOLEAN, kerrat : SUBSET Kyselykerrat, eiKertoja : BOOLEAN,
               poistettavat : SUBSET Kyselykerrat, lukitut : SUBSET Kyselykerrat, haku : Nat]
Kyselytieto == [tila : Tilat, kerrat : SUBSET Kyselykerrat, lukitut : SUBSET Kyselykerrat,
                vastatut : SUBSET Kyselykerrat]
Kyselyvastaus == [tila : Tilat, poistettavissa : BOOLEAN]
Vastaukset == {<<>>} \cup {<<v>> : v \in Kyselyvastaus}
KantaOikein(kanta) ==
  /\ DOMAIN kanta \subseteq DOMAIN Luettelokyselyt
  /\ \A k \in DOMAIN kanta : kanta[k] \in Kyselytieto /\ kanta[k].kerrat \subseteq Luettelokyselyt[k]
Kyselytoimi == [nro : Nat, toimi : Kertatoimet \cup Kyselytoimet, kysely : DOMAIN Luettelokyselyt,
                kerta : Kyselykerrat \cup DOMAIN Luettelokyselyt, indeksi : Nat, rivi : Nat,
                tehty : BOOLEAN, vastaus : Vastaukset]

Historiatyyppi ==
  [limittain : SUBSET DOMAIN Luettelokyselyt, haussa : BOOLEAN, katkos : BOOLEAN]

LuettelonTyypit ==
  /\ rivit \in Seq(Kyselyrivi)
  /\ KantaOikein(kyselykanta) /\ (luettelohaku # <<>> => KantaOikein(luettelohaku[1]))
  /\ toimet \subseteq Kyselytoimi /\ \A p \in toimet : p.tehty => p.vastaus # <<>>
  /\ hakuja \in Nat /\ tehtyja \in Nat
  /\ historia \in Historiatyyppi

\* Rounds stay with their survey
KerratKyselylla ==
  /\ \A i \in DOMAIN rivit : rivit[i].kerrat \subseteq Luettelokyselyt[rivit[i].kyselyid]
  /\ \A p \in toimet : p.toimi \in Kertatoimet => p.kerta \in Luettelokyselyt[p.kysely]

\* While the list is fetched nothing changes but by answers, and requests are
\* about rows of the last fetch
Tuore(kanta) ==
  /\ DOMAIN kanta = DOMAIN kyselykanta
  /\ \A k \in DOMAIN kanta :
       /\ kanta[k].tila = kyselykanta[k].tila /\ kanta[k].kerrat = kyselykanta[k].kerrat
       /\ kanta[k].lukitut = kyselykanta[k].lukitut
       /\ kanta[k].vastatut \subseteq kyselykanta[k].vastatut
HakuTuore ==
  /\ luettelohaku # <<>> => toimet = {} /\ Tuore(luettelohaku[1])
  /\ \A i, j \in DOMAIN rivit : rivit[i].haku = rivit[j].haku
  /\ \A p \in toimet : \A i \in DOMAIN rivit : p.rivi = rivit[i].haku

\* Of the rounds the rows have the server's, and those whose deletion has been
\* done and not yet answered; no round is deleted twice
Poistetut(k) == {p.kerta : p \in {q \in toimet : q.kysely = k /\ q.tehty /\ q.toimi = "poistaKerta"}}
KerratTiedossa ==
  /\ \A i \in DOMAIN rivit : rivit[i].kyselyid \in DOMAIN kyselykanta =>
       rivit[i].kerrat = kyselykanta[rivit[i].kyselyid].kerrat \cup Poistetut(rivit[i].kyselyid)
  /\ \A p \in toimet : p.tehty /\ p.toimi = "poistaKerta" =>
       /\ p.kysely \in DOMAIN kyselykanta => p.kerta \notin kyselykanta[p.kysely].kerrat
       /\ \A q \in toimet : q.tehty /\ q.toimi = "poistaKerta" /\ q.kysely = p.kysely
                              /\ q.kerta = p.kerta => p = q

\* A survey that never had two requests has at most one; the state, the delete
\* button and the locks of its row differ from the server's by what that one has
\* done and been answered
YksiToimi ==
  \A p, q \in toimet : p.kysely = q.kysely /\ p.kysely \notin historia.limittain => p = q
Tehty(k, laji) == \E p \in toimet : p.kysely = k /\ p.tehty /\ p.toimi \in laji
Lukot(lukitut, r) == lukitut \cap r.kerrat
RiviTiedossa(r) ==
  LET k == r.kyselyid
  IN  /\ ~Tehty(k, Tilatoimet) => Ajantasalla(r, kyselykanta[k])
      /\ ~Tehty(k, {"lukitse", "avaa"}) => Lukot(r.lukitut, r) = Lukot(kyselykanta[k].lukitut, r)
      /\ \A p \in toimet : p.kysely = k /\ p.tehty =>
           /\ p.toimi \in Tilatoimet => Ajantasalla(p.vastaus[1], kyselykanta[k])
           /\ p.toimi = "lukitse" =>
                Lukot(r.lukitut \cup {p.kerta}, r) = Lukot(kyselykanta[k].lukitut, r)
           /\ p.toimi = "avaa" =>
                Lukot(r.lukitut \ {p.kerta}, r) = Lukot(kyselykanta[k].lukitut, r)
RivitTiedossa ==
  \A i \in DOMAIN rivit :
    rivit[i].kyselyid \in DOMAIN kyselykanta \ historia.limittain => RiviTiedossa(rivit[i])

KannastaTiedossa == HakuTuore /\ KerratTiedossa /\ YksiToimi /\ RivitTiedossa

LuetteloInv ==
  /\ LuettelonTyypit /\ KerratKyselylla
  /\ ~historia.haussa /\ ~historia.katkos => KannastaTiedossa

LEMMA LuettelonAskel == [Next]_muuttujat => [KyselyluetteloNext]_luettelonMuuttujat
  BY DEF Next, Levossa, muuttujat, luettelonMuuttujat

\* The page opens with what the server has on its way
LEMMA LuetteloAlku == KyselyluetteloInit => LuetteloInv
<1> SUFFICES ASSUME KyselyluetteloInit PROVE LuetteloInv
  OBVIOUS
<1>0. PICK tilat \in [DOMAIN Luettelokyselyt -> Tilat] : kyselykanta = Kanta0(tilat)
  BY DEF KyselyluetteloInit, Alkutilat
<1>1. rivit = <<>> /\ DOMAIN rivit = {} /\ toimet = {} /\ DOMAIN kyselykanta = DOMAIN Luettelokyselyt
      /\ luettelohaku = <<kyselykanta>>
  BY <1>0 DEF KyselyluetteloInit, Kanta0
<1>2. \A k \in DOMAIN kyselykanta :
        kyselykanta[k] = [tila |-> tilat[k], kerrat |-> Luettelokyselyt[k], lukitut |-> {},
                          vastatut |-> {}]
  BY <1>0 DEF Kanta0
<1>3. LuettelonTyypit
  <2>1. KantaOikein(kyselykanta)
    <3> SUFFICES ASSUME NEW k \in DOMAIN Luettelokyselyt
                 PROVE  /\ kyselykanta[k] \in Kyselytieto
                        /\ kyselykanta[k].kerrat \subseteq Luettelokyselyt[k]
      BY <1>1 DEF KantaOikein
    <3>1. Luettelokyselyt[k] \in SUBSET Kyselykerrat
      BY DEF Kyselykerrat
    <3> QED BY <1>1, <1>2, <3>1 DEF Kyselytieto
  <2>2. historia \in Historiatyyppi
    BY DEF KyselyluetteloInit, Historiatyyppi
  <2> QED BY <1>1, <2>1, <2>2 DEF LuettelonTyypit, KyselyluetteloInit
<1>4. KerratKyselylla
  BY <1>1, <1>2 DEF KerratKyselylla
<1>5. KannastaTiedossa
  BY <1>1 DEF KannastaTiedossa, HakuTuore, Tuore, KerratTiedossa, YksiToimi, RivitTiedossa
<1> QED BY <1>3, <1>4, <1>5 DEF LuetteloInv

\* Two rows that differ at most in being open
SamaRivi(r, s) ==
  /\ s.kyselyid = r.kyselyid /\ s.tila = r.tila /\ s.kerrat = r.kerrat
  /\ s.poistettavissa = r.poistettavissa /\ s.lukitut = r.lukitut /\ s.haku = r.haku
Periytyvat(rs, qs) == \A i \in DOMAIN qs : \E j \in DOMAIN rs : SamaRivi(rs[j], qs[i])

\* Rows that go, open or close, and requests whose answer changes nothing else,
\* leave every other row as it was
LEMMA RivitPeriytyvat ==
  ASSUME LuetteloInv, NEW P \in SUBSET toimet,
         rivit' \in Seq(Kyselyrivi), Periytyvat(rivit, rivit'),
         toimet' = toimet \ P, UNCHANGED <<luettelohaku, hakuja, tehtyja, kyselykanta>>,
         historia' \in Historiatyyppi, historia'.limittain = historia.limittain,
         historia'.haussa = historia.haussa, historia.katkos => historia'.katkos,
         historia'.katkos \/ \A p \in P : ~p.tehty \/ p.toimi = "poistaKysely"
  PROVE  LuetteloInv'
<1>1. LuettelonTyypit'
  BY DEF LuetteloInv, LuettelonTyypit
<1>2. ASSUME NEW i \in DOMAIN rivit'
      PROVE  \E j \in DOMAIN rivit : SamaRivi(rivit[j], rivit'[i])
  BY <1>2 DEF Periytyvat
<1>3. KerratKyselylla'
  <2>1. \A i \in DOMAIN rivit' : rivit'[i].kerrat \subseteq Luettelokyselyt[rivit'[i].kyselyid]
    BY <1>2 DEF LuetteloInv, KerratKyselylla, SamaRivi
  <2> QED BY <2>1 DEF LuetteloInv, KerratKyselylla
<1>4. ASSUME ~historia'.haussa, ~historia'.katkos PROVE KannastaTiedossa'
  <2>1. KannastaTiedossa /\ \A p \in P : ~p.tehty \/ p.toimi = "poistaKysely"
    BY <1>4 DEF LuetteloInv
  <2>2. HakuTuore'
    BY <1>2, <2>1 DEF KannastaTiedossa, HakuTuore, Tuore, SamaRivi
  <2>3. \A k : Poistetut(k)' = Poistetut(k)
    BY <2>1 DEF Poistetut
  <2>4. KerratTiedossa'
    BY <1>2, <2>1, <2>3 DEF KannastaTiedossa, KerratTiedossa, SamaRivi
  <2>5. YksiToimi'
    BY <2>1 DEF KannastaTiedossa, YksiToimi
  <2>6. ASSUME NEW i \in DOMAIN rivit', rivit'[i].kyselyid \in DOMAIN kyselykanta' \ historia'.limittain
        PROVE  RiviTiedossa(rivit[i])'
    <3>1. PICK j \in DOMAIN rivit : SamaRivi(rivit[j], rivit'[i])
      BY <1>2
    <3>2. RiviTiedossa(rivit[j])
      BY <2>1, <2>6, <3>1 DEF KannastaTiedossa, RivitTiedossa, SamaRivi
    <3>3. "poistaKysely" \notin Tilatoimet \cup {"lukitse", "avaa"}
      BY DEF Tilatoimet
    <3>4. \A k : /\ Tehty(k, Tilatoimet)' <=> Tehty(k, Tilatoimet)
                 /\ Tehty(k, {"lukitse", "avaa"})' <=> Tehty(k, {"lukitse", "avaa"})
      BY <2>1, <3>3 DEF Tehty
    <3>5. \A u : Ajantasalla(rivit[j], u) <=> Ajantasalla(rivit'[i], u)
      BY <3>1 DEF SamaRivi, Ajantasalla
    <3> QED BY <3>1, <3>2, <3>4, <3>5 DEF RiviTiedossa, SamaRivi, Lukot
  <2>7. RivitTiedossa'
    BY <2>6 DEF RivitTiedossa
  <2> QED BY <2>2, <2>4, <2>5, <2>7 DEF KannastaTiedossa
<1> QED BY <1>1, <1>3, <1>4 DEF LuetteloInv

\* A fetch is of what the server has when nothing else is in flight
LEMMA HakuSailyttaa ==
  ASSUME LuetteloInv, HaeKyselyt \/ KayMuualla PROVE LuetteloInv'
<1>1. /\ hakuja' \in Nat /\ luettelohaku' = <<kyselykanta>> /\ UNCHANGED <<toimet, tehtyja, kyselykanta>>
      /\ historia' = [historia EXCEPT !.haussa = @ \/ toimet # {}]
      /\ rivit' = rivit \/ rivit' = <<>>
  BY DEF HaeKyselyt, KayMuualla, LahetaHaku, LuetteloInv, LuettelonTyypit
<1>2. /\ historia' \in Historiatyyppi /\ historia'.limittain = historia.limittain
      /\ historia'.katkos = historia.katkos
      /\ ~historia'.haussa => ~historia.haussa /\ toimet = {}
  BY <1>1 DEF LuetteloInv, LuettelonTyypit, Historiatyyppi
<1>3. rivit' \in Seq(Kyselyrivi) /\ \A i \in DOMAIN rivit' : i \in DOMAIN rivit /\ rivit'[i] = rivit[i]
  <2>1. CASE rivit' = rivit
    BY <2>1 DEF LuetteloInv, LuettelonTyypit
  <2>2. CASE rivit' = <<>>
    BY <2>2
  <2> QED BY <1>1, <2>1, <2>2
<1>4. LuettelonTyypit'
  BY <1>1, <1>2, <1>3 DEF LuetteloInv, LuettelonTyypit
<1>5. KerratKyselylla'
  BY <1>1, <1>3 DEF LuetteloInv, KerratKyselylla
<1>6. ASSUME ~historia'.haussa, ~historia'.katkos PROVE KannastaTiedossa'
  <2>1. KannastaTiedossa /\ toimet = {} /\ toimet' = {}
    BY <1>1, <1>2, <1>6 DEF LuetteloInv
  <2>2. HakuTuore'
    BY <1>1, <1>3, <2>1 DEF KannastaTiedossa, HakuTuore, Tuore
  <2>3. \A k : Poistetut(k) = {} /\ Poistetut(k)' = {}
    BY <2>1 DEF Poistetut
  <2>4. KerratTiedossa'
    BY <1>1, <1>3, <2>1, <2>3 DEF KannastaTiedossa, KerratTiedossa
  <2>5. YksiToimi'
    BY <2>1 DEF YksiToimi
  <2>6. ASSUME NEW i \in DOMAIN rivit', rivit'[i].kyselyid \in DOMAIN kyselykanta' \ historia'.limittain
        PROVE  RiviTiedossa(rivit[i])'
    <3>1. RiviTiedossa(rivit[i])
      BY <1>1, <1>2, <1>3, <2>1, <2>6 DEF KannastaTiedossa, RivitTiedossa
    <3> QED BY <1>1, <1>3, <2>1, <3>1 DEF RiviTiedossa, Tehty, Lukot
  <2>7. RivitTiedossa'
    BY <2>6 DEF RivitTiedossa
  <2> QED BY <2>2, <2>4, <2>5, <2>7 DEF KannastaTiedossa
<1> QED BY <1>4, <1>5, <1>6 DEF LuetteloInv

\* The rows of an answer
LEMMA RivitSaapuvat ==
  ASSUME LuetteloInv, NEW kanta, KantaOikein(kanta), NEW jarjestys \in SetToSeqs(DOMAIN kanta),
         rivit' = [i \in 1 .. Len(jarjestys) |-> Rivi(kanta, jarjestys[i])]
  PROVE  /\ rivit' \in Seq(Kyselyrivi)
         /\ \A i \in DOMAIN rivit' :
              /\ rivit'[i].kyselyid \in DOMAIN kanta /\ rivit'[i].haku = hakuja
              /\ rivit'[i].tila = kanta[rivit'[i].kyselyid].tila
              /\ rivit'[i].poistettavissa = KyselyPoistettavissa(kanta[rivit'[i].kyselyid])
              /\ rivit'[i].kerrat = kanta[rivit'[i].kyselyid].kerrat
              /\ rivit'[i].lukitut = kanta[rivit'[i].kyselyid].lukitut
<1> DEFINE n == Cardinality(DOMAIN kanta)
<1>1. n \in Nat
  BY KyselyluetteloOletus, FS_Subset, FS_CardinalityType DEF KantaOikein
<1>2. jarjestys \in [1 .. n -> DOMAIN kanta]
  BY DEF SetToSeqs
<1> HIDE DEF n
<1>3. Len(jarjestys) = n
  BY <1>1, <1>2
<1>4. ASSUME NEW i \in 1 .. n
      PROVE  /\ jarjestys[i] \in DOMAIN kanta /\ rivit'[i] = Rivi(kanta, jarjestys[i])
             /\ Rivi(kanta, jarjestys[i]) \in Kyselyrivi
  <2>1. jarjestys[i] \in DOMAIN kanta /\ rivit'[i] = Rivi(kanta, jarjestys[i])
    BY <1>2, <1>3
  <2>2. kanta[jarjestys[i]] \in Kyselytieto /\ jarjestys[i] \in DOMAIN Luettelokyselyt
    BY <2>1 DEF KantaOikein
  <2>3. /\ hakuja \in Nat /\ (jarjestys[i] \in muistetut) \in BOOLEAN
        /\ KyselyPoistettavissa(kanta[jarjestys[i]]) \in BOOLEAN
        /\ (kanta[jarjestys[i]].kerrat = {}) \in BOOLEAN
    BY DEF LuetteloInv, LuettelonTyypit, KyselyPoistettavissa
  <2> QED BY <2>1, <2>2, <2>3 DEF Rivi, Kyselyrivi, Kyselytieto
<1>5. rivit' \in Seq(Kyselyrivi) /\ DOMAIN rivit' = 1 .. n
  BY <1>1, <1>3, <1>4
<1> QED BY <1>4, <1>5 DEF Rivi

\* An answer to the fetch is what the server has, or changes no row
LEMMA SaapuminenSailyttaa ==
  ASSUME LuetteloInv, KyselytSaapuvat PROVE LuetteloInv'
<1>1. /\ luettelohaku' = <<>> /\ luettelohaku # <<>>
      /\ UNCHANGED <<hakuja, toimet, tehtyja, kyselykanta, historia>>
  BY DEF KyselytSaapuvat
<1>2. CASE rivit' = rivit
  <2>1. LuettelonTyypit'
    BY <1>1, <1>2 DEF LuetteloInv, LuettelonTyypit
  <2>2. KerratKyselylla'
    BY <1>1, <1>2 DEF LuetteloInv, KerratKyselylla
  <2>3. ASSUME KannastaTiedossa PROVE KannastaTiedossa'
    <3>1. HakuTuore'
      BY <1>1, <1>2, <2>3 DEF KannastaTiedossa, HakuTuore, Tuore
    <3>2. KerratTiedossa' /\ YksiToimi' /\ RivitTiedossa'
      BY <1>1, <1>2, <2>3 DEF KannastaTiedossa, KerratTiedossa, YksiToimi, RivitTiedossa,
           RiviTiedossa, Poistetut, Tehty, Lukot
    <3> QED BY <3>1, <3>2 DEF KannastaTiedossa
  <2> QED BY <1>1, <2>1, <2>2, <2>3 DEF LuetteloInv
<1>3. ASSUME NEW kanta \in {luettelohaku[1], kyselykanta}, NEW jarjestys \in SetToSeqs(DOMAIN kanta),
             rivit' = [i \in 1 .. Len(jarjestys) |-> Rivi(kanta, jarjestys[i])]
      PROVE  LuetteloInv'
  <2>1. KantaOikein(kanta)
    BY <1>1 DEF LuetteloInv, LuettelonTyypit
  <2>2. /\ rivit' \in Seq(Kyselyrivi)
        /\ \A i \in DOMAIN rivit' :
             /\ rivit'[i].kyselyid \in DOMAIN kanta /\ rivit'[i].haku = hakuja
             /\ rivit'[i].tila = kanta[rivit'[i].kyselyid].tila
             /\ rivit'[i].poistettavissa = KyselyPoistettavissa(kanta[rivit'[i].kyselyid])
             /\ rivit'[i].kerrat = kanta[rivit'[i].kyselyid].kerrat
             /\ rivit'[i].lukitut = kanta[rivit'[i].kyselyid].lukitut
    BY <1>3, <2>1, RivitSaapuvat
  <2>3. LuettelonTyypit'
    BY <1>1, <2>2 DEF LuetteloInv, LuettelonTyypit
  <2>4. KerratKyselylla'
    BY <1>1, <2>1, <2>2 DEF LuetteloInv, KerratKyselylla, KantaOikein
  <2>5. ASSUME KannastaTiedossa PROVE KannastaTiedossa'
    <3>1. toimet = {} /\ toimet' = {} /\ Tuore(kanta) /\ luettelohaku' = <<>>
      BY <1>1, <1>3, <2>5 DEF KannastaTiedossa, HakuTuore, Tuore
    <3>2. HakuTuore'
      BY <2>2, <3>1 DEF HakuTuore
    <3>3. KerratTiedossa' /\ YksiToimi'
      BY <1>1, <2>2, <3>1 DEF Tuore, KerratTiedossa, YksiToimi, Poistetut
    <3>4. \A i \in DOMAIN rivit' : Ajantasalla(rivit'[i], kyselykanta[rivit'[i].kyselyid])
      BY <2>2, <3>1 DEF Tuore, Ajantasalla, KyselyPoistettavissa
    <3>5. RivitTiedossa'
      BY <1>1, <2>2, <3>1, <3>4 DEF Tuore, RivitTiedossa, RiviTiedossa, Tehty, Lukot
    <3> QED BY <3>2, <3>3, <3>5 DEF KannastaTiedossa
  <2> QED BY <1>1, <2>3, <2>4, <2>5 DEF LuetteloInv
<1> QED BY <1>2, <1>3 DEF KyselytSaapuvat

\* A list changed member by member
LEMMA Kohdittain ==
  ASSUME NEW S, NEW s \in Seq(S), NEW t, t = [i \in DOMAIN s |-> t[i]],
         \A i \in DOMAIN s : t[i] \in S
  PROVE  t \in Seq(S) /\ DOMAIN t = DOMAIN s /\ Len(t) = Len(s)
<1>1. DOMAIN s = 1 .. Len(s) /\ Len(s) \in Nat
  OBVIOUS
<1>2. t \in [1 .. Len(s) -> S]
  BY <1>1
<1> QED BY <1>1, <1>2

\* The row of a survey that is shown
LEMMA RivinPaikka ==
  ASSUME LuetteloInv, NEW k, Nakyy(k)
  PROVE  /\ RivinIndeksi(k) \in DOMAIN rivit /\ rivit[RivinIndeksi(k)].kyselyid = k
         /\ RivinIndeksi(k) \in Nat /\ rivit[RivinIndeksi(k)] \in Kyselyrivi
<1>1. RivinIndeksi(k) \in DOMAIN rivit /\ rivit[RivinIndeksi(k)].kyselyid = k
  BY DEF Nakyy, RivinIndeksi
<1> QED BY <1>1 DEF LuetteloInv, LuettelonTyypit

\* Rows that open and close are otherwise as they were
LEMMA AvausSailyttaa ==
  ASSUME LuetteloInv, NEW k, Nakyy(k), AvaaTaiSulje(k) PROVE LuetteloInv'
<1> DEFINE auki == ~rivit[RivinIndeksi(k)].open
<1>1. auki \in BOOLEAN
  BY RivinPaikka DEF Kyselyrivi
<1>2. /\ rivit' = [i \in DOMAIN rivit |-> [rivit[i] EXCEPT !.open = auki /\ rivit[i].kyselyid = k]]
      /\ UNCHANGED <<luettelohaku, hakuja, toimet, tehtyja, kyselykanta, historia>>
  BY DEF AvaaTaiSulje
<1> HIDE DEF auki
<1>3. ASSUME NEW i \in DOMAIN rivit
      PROVE  rivit[i] \in Kyselyrivi /\ rivit'[i] \in Kyselyrivi /\ SamaRivi(rivit[i], rivit'[i])
  <2>1. rivit[i] \in Kyselyrivi
    BY DEF LuetteloInv, LuettelonTyypit
  <2>2. (auki /\ rivit[i].kyselyid = k) \in BOOLEAN
    BY <1>1
  <2>3. PICK b \in BOOLEAN : rivit'[i] = [rivit[i] EXCEPT !.open = b]
    BY <1>2, <2>2
  <2> QED BY <2>1, <2>3 DEF Kyselyrivi, SamaRivi
<1>4. rivit' \in Seq(Kyselyrivi) /\ DOMAIN rivit' = DOMAIN rivit
  <2>1. rivit \in Seq(Kyselyrivi) /\ rivit' = [i \in DOMAIN rivit |-> rivit'[i]]
    BY <1>2 DEF LuetteloInv, LuettelonTyypit
  <2> QED BY <1>3, <2>1, Kohdittain
<1>5. Periytyvat(rivit, rivit')
  BY <1>3, <1>4 DEF Periytyvat
<1>6. historia' \in Historiatyyppi /\ toimet' = toimet \ {}
  BY <1>2 DEF LuetteloInv, LuettelonTyypit
<1> QED BY <1>2, <1>4, <1>5, <1>6, RivitPeriytyvat

\* A request more: if the survey had one it is from now on one of those with two
LEMMA PyyntoSailyttaaLuettelon ==
  ASSUME LuetteloInv, NEW k \in DOMAIN Luettelokyselyt, Nakyy(k),
         NEW toimi \in Kertatoimet \cup Kyselytoimet,
         NEW kerta \in Kyselykerrat \cup DOMAIN Luettelokyselyt,
         toimi \in Kertatoimet => kerta \in rivit[RivinIndeksi(k)].kerrat,
         Pyyda(toimi, k, kerta)
  PROVE  LuetteloInv'
<1> DEFINE i0 == RivinIndeksi(k)
           p0 == [nro |-> tehtyja, toimi |-> toimi, kysely |-> k, kerta |-> kerta,
                  indeksi |-> i0, rivi |-> rivit[i0].haku, tehty |-> FALSE, vastaus |-> <<>>]
           K == {p.kysely : p \in {q \in toimet : q.kysely = k}}
<1>0. /\ i0 \in DOMAIN rivit /\ rivit[i0].kyselyid = k /\ i0 \in Nat /\ rivit[i0].haku \in Nat
      /\ tehtyja \in Nat
  BY RivinPaikka DEF Kyselyrivi, LuetteloInv, LuettelonTyypit
<1>1. /\ toimet' = toimet \cup {p0} /\ tehtyja' = tehtyja + 1
      /\ historia' = [historia EXCEPT !.limittain = @ \cup K, !.haussa = @ \/ luettelohaku # <<>>]
      /\ UNCHANGED <<rivit, luettelohaku, hakuja, kyselykanta>>
  BY DEF Pyyda
<1>2. p0 \in Kyselytoimi
  BY <1>0 DEF Kyselytoimi, Vastaukset
<1>3. /\ p0.toimi = toimi /\ p0.kysely = k /\ p0.kerta = kerta /\ p0.rivi = rivit[i0].haku
      /\ p0.tehty = FALSE
  OBVIOUS
<1> HIDE DEF p0, i0
<1>4. K \subseteq {k} /\ \A p \in toimet : p.kysely = k => k \in K
  OBVIOUS
<1> HIDE DEF K
<1>5. /\ historia' \in Historiatyyppi /\ historia'.limittain = historia.limittain \cup K
      /\ historia'.katkos = historia.katkos
      /\ ~historia'.haussa => ~historia.haussa /\ luettelohaku = <<>>
  BY <1>1, <1>4 DEF LuetteloInv, LuettelonTyypit, Historiatyyppi
<1>6. LuettelonTyypit'
  BY <1>0, <1>1, <1>2, <1>3, <1>5 DEF LuetteloInv, LuettelonTyypit
<1>7. KerratKyselylla'
  <2>1. toimi \in Kertatoimet => kerta \in Luettelokyselyt[k]
    BY <1>0 DEF LuetteloInv, KerratKyselylla, i0
  <2> QED BY <1>1, <1>3, <2>1 DEF LuetteloInv, KerratKyselylla
<1>8. ASSUME ~historia'.haussa, ~historia'.katkos PROVE KannastaTiedossa'
  <2>1. KannastaTiedossa /\ luettelohaku' = <<>>
    BY <1>1, <1>5, <1>8 DEF LuetteloInv
  <2>2. HakuTuore'
    BY <1>0, <1>1, <1>3, <2>1 DEF KannastaTiedossa, HakuTuore
  <2>3. \A l : Poistetut(l)' = Poistetut(l)
    BY <1>1, <1>3 DEF Poistetut
  <2>4. KerratTiedossa'
    BY <1>1, <1>3, <2>1, <2>3 DEF KannastaTiedossa, KerratTiedossa
  <2>5. YksiToimi'
    BY <1>1, <1>3, <1>4, <1>5, <2>1 DEF KannastaTiedossa, YksiToimi
  <2>6. ASSUME NEW i \in DOMAIN rivit', rivit'[i].kyselyid \in DOMAIN kyselykanta' \ historia'.limittain
        PROVE  RiviTiedossa(rivit[i])'
    <3>1. RiviTiedossa(rivit[i])
      BY <1>1, <1>5, <2>1, <2>6 DEF KannastaTiedossa, RivitTiedossa
    <3>2. \A l, laji : Tehty(l, laji)' <=> Tehty(l, laji)
      BY <1>1, <1>3 DEF Tehty
    <3> QED BY <1>1, <1>3, <3>1, <3>2 DEF RiviTiedossa, Lukot
  <2>7. RivitTiedossa'
    BY <2>6 DEF RivitTiedossa
  <2> QED BY <2>2, <2>4, <2>5, <2>7 DEF KannastaTiedossa
<1> QED BY <1>6, <1>7, <1>8 DEF LuetteloInv

\* A refusal changes nothing; a lost answer is remembered as one
LEMMA EpaonnistuminenSailyttaa ==
  ASSUME LuetteloInv, NEW p \in toimet, ToimiEpaonnistui(p) PROVE LuetteloInv'
<1>1. p.tehty \in BOOLEAN
  BY DEF LuetteloInv, LuettelonTyypit, Kyselytoimi
<1>2. /\ historia' \in Historiatyyppi /\ historia'.limittain = historia.limittain
      /\ historia'.haussa = historia.haussa /\ (historia.katkos => historia'.katkos)
      /\ historia'.katkos \/ ~p.tehty
  BY <1>1 DEF ToimiEpaonnistui, LuetteloInv, LuettelonTyypit, Historiatyyppi
<1>3. Periytyvat(rivit, rivit)
  BY DEF Periytyvat, SamaRivi
<1>4. rivit' = rivit /\ rivit \in Seq(Kyselyrivi) /\ toimet' = toimet \ {p}
  BY DEF ToimiEpaonnistui, LuetteloInv, LuettelonTyypit
<1>5. UNCHANGED <<luettelohaku, hakuja, tehtyja, kyselykanta>>
  BY DEF ToimiEpaonnistui
<1> QED BY <1>2, <1>3, <1>4, <1>5, RivitPeriytyvat

\* The row whose deletion has been done goes
LEMMA KyselyPoistuu ==
  ASSUME LuetteloInv, NEW p \in toimet, p.toimi = "poistaKysely", ToimiOnnistui(p) PROVE LuetteloInv'
<1>1. /\ rivit' = KyselyPoistetaan(rivit, p) /\ toimet' = toimet \ {p}
      /\ UNCHANGED <<luettelohaku, hakuja, tehtyja, kyselykanta, historia>>
  BY DEF ToimiOnnistui
<1>2. rivit \in Seq(Kyselyrivi) /\ historia \in Historiatyyppi
  BY DEF LuetteloInv, LuettelonTyypit
<1>3. rivit' \in Seq(Kyselyrivi) /\ \A i \in DOMAIN rivit' : \E j \in DOMAIN rivit : rivit'[i] = rivit[j]
  BY <1>1, <1>2, IlmanYhta DEF KyselyPoistetaan
<1>4. Periytyvat(rivit, rivit')
  BY <1>3 DEF Periytyvat, SamaRivi
<1> QED BY <1>1, <1>2, <1>3, <1>4, RivitPeriytyvat

\* An answer is up to date with what it was made of
LEMMA VastausAjantasalla ==
  ASSUME NEW u \in Kyselytieto
  PROVE  HaeKysely(u) \in Kyselyvastaus /\ Ajantasalla(HaeKysely(u), u)
BY DEF HaeKysely, KyselyPoistettavissa, Kyselyvastaus, Kyselytieto, Ajantasalla

\* What a request makes of a survey
LEMMA KyselynMuutos ==
  ASSUME NEW u \in Kyselytieto, NEW p \in Kyselytoimi, ToimiSallittu(u, p)
  PROVE  LET w == KyselyMuutettu(u, p)
         IN  /\ w \in Kyselytieto /\ w.vastatut = u.vastatut
             /\ w.kerrat = IF p.toimi = "poistaKerta" THEN u.kerrat \ {p.kerta} ELSE u.kerrat
             /\ p.toimi \notin Tilatoimet => w.tila = u.tila
             /\ w.lukitut = IF p.toimi = "lukitse" THEN u.lukitut \cup {p.kerta}
                            ELSE IF p.toimi = "avaa" THEN u.lukitut \ {p.kerta}
                            ELSE u.lukitut
<1>1. CASE p.toimi = "poistaKerta"
  BY <1>1 DEF KyselyMuutettu, Kyselytieto
<1>2. CASE p.toimi \in {"lukitse", "avaa"}
  <2>1. p.kerta \in Kyselykerrat
    BY <1>2 DEF ToimiSallittu, Kertatoimet, Kyselytieto
  <2> QED BY <1>2, <2>1 DEF KyselyMuutettu, Kyselytieto, Tilatoimet
<1>3. CASE p.toimi \notin Kertatoimet
  <2>1. UusiTila(p.toimi, u.tila) \in Tilat
    BY DEF UusiTila, Tilat, Kyselytieto
  <2>2. p.toimi \notin Tilatoimet => UusiTila(p.toimi, u.tila) = u.tila
    BY DEF UusiTila, Tilatoimet
  <2>3. KyselyMuutettu(u, p) = [u EXCEPT !.tila = UusiTila(p.toimi, u.tila)]
    BY <1>3 DEF KyselyMuutettu, Kertatoimet
  <2> QED BY <1>3, <2>1, <2>2, <2>3 DEF Kyselytieto, Kertatoimet
<1> QED BY <1>1, <1>2, <1>3 DEF Kertatoimet

\* What carrying out a request does to its survey, and leaves of the others
LEMMA KannanMuutos ==
  ASSUME LuetteloInv, NEW p \in toimet, PalvelinTekee(p)
  PROVE  LET k == p.kysely
             e == kyselykanta[k]
             w == KyselyMuutettu(e, p)
         IN  /\ k \in DOMAIN kyselykanta /\ KantaOikein(kyselykanta')
             /\ p.toimi = "poistaKerta" => p.kerta \in e.kerrat
             /\ e \in Kyselytieto /\ w \in Kyselytieto /\ ToimiSallittu(e, p)
             /\ DOMAIN kyselykanta' \subseteq DOMAIN kyselykanta
             /\ \A l \in DOMAIN kyselykanta' : l # k => kyselykanta'[l] = kyselykanta[l]
             /\ k \in DOMAIN kyselykanta' =>
                  /\ kyselykanta'[k] = w
                  /\ kyselykanta'[k].vastatut = kyselykanta[k].vastatut
                  /\ kyselykanta'[k].kerrat = IF p.toimi = "poistaKerta" THEN kyselykanta[k].kerrat \ {p.kerta}
                                              ELSE kyselykanta[k].kerrat
                  /\ p.toimi \notin Tilatoimet => kyselykanta'[k].tila = kyselykanta[k].tila
                  /\ kyselykanta'[k].lukitut = IF p.toimi = "lukitse" THEN kyselykanta[k].lukitut \cup {p.kerta}
                                               ELSE IF p.toimi = "avaa" THEN kyselykanta[k].lukitut \ {p.kerta}
                                               ELSE kyselykanta[k].lukitut
<1> DEFINE k == p.kysely
           e == kyselykanta[k]
           w == KyselyMuutettu(e, p)
<1>1. /\ k \in DOMAIN kyselykanta /\ KantaOikein(kyselykanta) /\ e \in Kyselytieto
      /\ e.kerrat \subseteq Luettelokyselyt[k] /\ p \in Kyselytoimi
      /\ ToimiSallittu(e, p)
  BY DEF PalvelinTekee, LuetteloInv, LuettelonTyypit, KantaOikein
<1>2. /\ w \in Kyselytieto /\ w.vastatut = e.vastatut
      /\ w.kerrat = IF p.toimi = "poistaKerta" THEN e.kerrat \ {p.kerta} ELSE e.kerrat
      /\ p.toimi \notin Tilatoimet => w.tila = e.tila
      /\ w.lukitut = IF p.toimi = "lukitse" THEN e.lukitut \cup {p.kerta}
                     ELSE IF p.toimi = "avaa" THEN e.lukitut \ {p.kerta}
                     ELSE e.lukitut
  BY <1>1, KyselynMuutos
<1>3. p.toimi = "poistaKerta" => p.kerta \in e.kerrat
  BY <1>1 DEF ToimiSallittu, Kertatoimet
<1>4. CASE p.toimi = "poistaKysely"
  <2>1. kyselykanta' = [l \in DOMAIN kyselykanta \ {k} |-> kyselykanta[l]]
    BY <1>4 DEF PalvelinTekee
  <2> HIDE DEF w, e
  <2>2. KantaOikein(kyselykanta')
    BY <1>1, <2>1 DEF KantaOikein
  <2> QED BY <1>1, <1>2, <1>3, <2>1, <2>2 DEF e, w
<1>5. CASE p.toimi # "poistaKysely"
  <2>1. kyselykanta' = [kyselykanta EXCEPT ![k] = w]
    BY <1>5 DEF PalvelinTekee
  <2> HIDE DEF w
  <2>2. /\ DOMAIN kyselykanta' = DOMAIN kyselykanta /\ kyselykanta'[k] = w
        /\ \A l \in DOMAIN kyselykanta' : l # k => kyselykanta'[l] = kyselykanta[l]
    BY <1>1, <2>1
  <2>3. w.kerrat \subseteq Luettelokyselyt[k]
    BY <1>1, <1>2
  <2>4. KantaOikein(kyselykanta')
    BY <1>1, <1>2, <2>2, <2>3 DEF KantaOikein
  <2> QED BY <1>1, <1>2, <1>3, <2>2, <2>4 DEF w
<1> QED BY <1>4, <1>5

\* The server's work is the difference its answer will make
LEMMA TyoSailyttaa ==
  ASSUME LuetteloInv, NEW p \in toimet, PalvelinTekee(p) PROVE LuetteloInv'
<1> DEFINE k == p.kysely
           w == KyselyMuutettu(kyselykanta[k], p)
           h == HaeKysely(w)
           p1 == [p EXCEPT !.tehty = TRUE, !.vastaus = <<h>>]
<1>0. /\ w \in Kyselytieto /\ h \in Kyselyvastaus /\ Ajantasalla(h, w)
      /\ k \in DOMAIN kyselykanta' => kyselykanta'[k] = w
      /\ p.toimi = "poistaKerta" => p.kerta \in kyselykanta[k].kerrat
  BY KannanMuutos, VastausAjantasalla
<1>1. /\ p \in Kyselytoimi /\ p.tehty = FALSE
      /\ p.toimi = "poistaKerta" => p.kerta \in kyselykanta[k].kerrat
      /\ toimet' = (toimet \ {p}) \cup {p1}
      /\ UNCHANGED <<rivit, luettelohaku, hakuja, tehtyja, historia>>
  BY <1>0 DEF PalvelinTekee, LuetteloInv, LuettelonTyypit, Kyselytoimi
<1> HIDE DEF w, h
<1>2. /\ p1 \in Kyselytoimi /\ p1.kysely = k /\ p1.toimi = p.toimi /\ p1.kerta = p.kerta
      /\ p1.rivi = p.rivi /\ p1.tehty /\ p1.vastaus = <<h>> /\ <<h>> # <<>>
  <2>1. <<h>> \in Vastaukset
    BY <1>0 DEF Vastaukset
  <2> QED BY <1>1, <2>1 DEF Kyselytoimi
<1> HIDE DEF p1
<1>3. LuettelonTyypit'
  <2>1. KantaOikein(kyselykanta')
    BY KannanMuutos
  <2>2. toimet' \subseteq Kyselytoimi /\ \A q \in toimet' : q.tehty => q.vastaus # <<>>
    BY <1>1, <1>2 DEF LuetteloInv, LuettelonTyypit
  <2>3. luettelohaku' # <<>> => KantaOikein(luettelohaku'[1])
    BY <1>1 DEF LuetteloInv, LuettelonTyypit
  <2> QED BY <1>1, <2>1, <2>2, <2>3 DEF LuetteloInv, LuettelonTyypit
<1>4. KerratKyselylla'
  BY <1>1, <1>2 DEF LuetteloInv, KerratKyselylla
<1>5. ASSUME KannastaTiedossa PROVE KannastaTiedossa'
  <2>1. HakuTuore'
    BY <1>1, <1>2, <1>5 DEF KannastaTiedossa, HakuTuore
  <2>2. YksiToimi'
    BY <1>1, <1>2, <1>5 DEF KannastaTiedossa, YksiToimi
  <2>3. \A l : Poistetut(l)' = IF l = k /\ p.toimi = "poistaKerta" THEN Poistetut(l) \cup {p.kerta}
                               ELSE Poistetut(l)
    BY <1>1, <1>2 DEF Poistetut
  <2>4. ASSUME NEW i \in DOMAIN rivit, rivit[i].kyselyid \in DOMAIN kyselykanta'
        PROVE  rivit[i].kerrat = kyselykanta'[rivit[i].kyselyid].kerrat \cup Poistetut(rivit[i].kyselyid)'
    <3>1. /\ rivit[i].kyselyid \in DOMAIN kyselykanta
          /\ rivit[i].kerrat = kyselykanta[rivit[i].kyselyid].kerrat \cup Poistetut(rivit[i].kyselyid)
      BY <1>5, <2>4, KannanMuutos DEF KannastaTiedossa, KerratTiedossa
    <3> QED BY <1>1, <2>3, <2>4, <3>1, KannanMuutos
  <2>5. ASSUME NEW q \in toimet', q.tehty, q.toimi = "poistaKerta"
        PROVE  /\ q.kysely \in DOMAIN kyselykanta' => q.kerta \notin kyselykanta'[q.kysely].kerrat
               /\ \A s \in toimet' : s.tehty /\ s.toimi = "poistaKerta" /\ s.kysely = q.kysely
                                       /\ s.kerta = q.kerta => q = s
    <3>1. \A s \in toimet : s.tehty /\ s.toimi = "poistaKerta" =>
            /\ s.kysely \in DOMAIN kyselykanta => s.kerta \notin kyselykanta[s.kysely].kerrat
            /\ \A r \in toimet : r.tehty /\ r.toimi = "poistaKerta" /\ r.kysely = s.kysely
                                    /\ r.kerta = s.kerta => s = r
      BY <1>5 DEF KannastaTiedossa, KerratTiedossa
    <3>2. CASE q = p1
      <4>1. p.toimi = "poistaKerta" /\ q.kysely = k /\ q.kerta = p.kerta /\ k \in DOMAIN kyselykanta
        BY <1>2, <2>5, <3>2, KannanMuutos
      <4>2. k \in DOMAIN kyselykanta' => kyselykanta'[k].kerrat = kyselykanta[k].kerrat \ {p.kerta}
        BY <4>1, KannanMuutos
      <4>3. ASSUME NEW s \in toimet', s.tehty, s.toimi = "poistaKerta", s.kysely = q.kysely,
                   s.kerta = q.kerta, s # p1
            PROVE  FALSE
        <5>1. s \in toimet
          BY <1>1, <4>3
        <5>2. p.kerta \notin kyselykanta[k].kerrat
          BY <3>1, <4>1, <4>3, <5>1
        <5> QED BY <1>1, <4>1, <5>2
      <4> QED BY <3>2, <4>1, <4>2, <4>3
    <3>3. CASE q # p1
      <4>1. q \in toimet
        BY <1>1, <3>3
      <4>2. /\ k \in DOMAIN kyselykanta
            /\ q.kysely \in DOMAIN kyselykanta' =>
                 /\ q.kysely \in DOMAIN kyselykanta
                 /\ kyselykanta'[q.kysely].kerrat \subseteq kyselykanta[q.kysely].kerrat
        BY KannanMuutos
      <4>3. ASSUME NEW s \in toimet', s.tehty, s.toimi = "poistaKerta", s.kysely = q.kysely,
                   s.kerta = q.kerta
            PROVE  q = s
        <5>1. s # p1
          BY <1>1, <1>2, <2>5, <3>1, <4>1, <4>2, <4>3
        <5> QED BY <1>1, <2>5, <3>1, <4>1, <4>3, <5>1
      <4> QED BY <2>5, <3>1, <4>1, <4>2, <4>3
    <3> QED BY <3>2, <3>3
  <2>6. KerratTiedossa'
    BY <1>1, <2>4, <2>5 DEF KerratTiedossa
  <2>7. ASSUME NEW i \in DOMAIN rivit, rivit[i].kyselyid \in DOMAIN kyselykanta' \ historia.limittain
        PROVE  RiviTiedossa(rivit[i])'
    <3> DEFINE r == rivit[i]
               l == r.kyselyid
    <3>1. RiviTiedossa(r) /\ l \in DOMAIN kyselykanta
      BY <1>5, <2>7, KannanMuutos DEF KannastaTiedossa, RivitTiedossa
    <3>2. CASE l # k
      <4>1. kyselykanta'[l] = kyselykanta[l]
        BY <2>7, <3>2, KannanMuutos
      <4>2. \A laji : Tehty(l, laji)' <=> Tehty(l, laji)
        BY <1>1, <1>2, <3>2 DEF Tehty
      <4>3. \A q \in toimet' : q.kysely = l => q \in toimet
        BY <1>1, <1>2, <3>2
      <4> QED BY <1>1, <3>1, <4>1, <4>2, <4>3 DEF RiviTiedossa, Lukot
    <3>3. CASE l = k
      <4>1. \A q \in toimet : q.kysely = k => q = p
        BY <1>5, <2>7, <3>3 DEF KannastaTiedossa, YksiToimi
      <4>2. \A laji : ~Tehty(k, laji)
        BY <1>1, <4>1 DEF Tehty
      <4>3. Ajantasalla(r, kyselykanta[k]) /\ Lukot(r.lukitut, r) = Lukot(kyselykanta[k].lukitut, r)
        BY <3>1, <3>3, <4>2 DEF RiviTiedossa
      <4>4. \A q \in toimet' : q.kysely = k => q = p1
        BY <1>1, <1>2, <4>1
      <4>5. \A laji : Tehty(k, laji)' <=> p.toimi \in laji
        BY <1>1, <1>2, <4>4 DEF Tehty
      <4>6. k \in DOMAIN kyselykanta'
        BY <2>7, <3>3
      <4>7. /\ p.toimi \notin Tilatoimet => /\ kyselykanta'[k].tila = kyselykanta[k].tila
                                            /\ kyselykanta'[k].vastatut = kyselykanta[k].vastatut
            /\ Ajantasalla(h, kyselykanta'[k])
            /\ kyselykanta'[k].lukitut =
                 IF p.toimi = "lukitse" THEN kyselykanta[k].lukitut \cup {p.kerta}
                 ELSE IF p.toimi = "avaa" THEN kyselykanta[k].lukitut \ {p.kerta}
                 ELSE kyselykanta[k].lukitut
        BY <1>0, <4>6, KannanMuutos
      <4>8. rivit'[i] = r /\ r.kyselyid = k
        BY <1>1, <3>3
      <4> DEFINE u == kyselykanta'[k]
                 e == kyselykanta[k]
      <4> HIDE DEF r, l, k
      <4>9. p.toimi \notin Tilatoimet => Ajantasalla(r, u)
        BY <4>3, <4>7 DEF Ajantasalla, KyselyPoistettavissa
      <4>10. /\ p.toimi \notin {"lukitse", "avaa"} => Lukot(r.lukitut, r) = Lukot(u.lukitut, r)
             /\ p.toimi = "lukitse" => Lukot(r.lukitut \cup {p.kerta}, r) = Lukot(u.lukitut, r)
             /\ p.toimi = "avaa" => Lukot(r.lukitut \ {p.kerta}, r) = Lukot(u.lukitut, r)
        BY <4>3, <4>7 DEF Lukot
      <4>11. Ajantasalla(h, u)
        BY <4>7
      <4> HIDE DEF u, e
      <4>12. \A q \in toimet' : q.kysely = k =>
               q.toimi = p.toimi /\ q.kerta = p.kerta /\ q.vastaus[1] = h
        BY <1>2, <4>4
      <4> QED BY <4>5, <4>8, <4>9, <4>10, <4>11, <4>12 DEF RiviTiedossa, Lukot, u
    <3> QED BY <3>2, <3>3
  <2>8. RivitTiedossa'
    BY <1>1, <2>7 DEF RivitTiedossa
  <2> QED BY <2>1, <2>2, <2>6, <2>8 DEF KannastaTiedossa
<1> QED BY <1>1, <1>3, <1>4, <1>5 DEF LuetteloInv

\* An answer adds to the rounds answered in, and only there: what is shown is as
\* up to date as it was
LEMMA VastausSailyttaa ==
  ASSUME LuetteloInv, NEW k, NEW c \in UNION Range(Luettelokyselyt), VastausTallentuu(k, c)
  PROVE  LuetteloInv'
<1> DEFINE e == kyselykanta[k]
           w == [e EXCEPT !.vastatut = @ \cup {c}]
<1>1. /\ k \in DOMAIN kyselykanta /\ kyselykanta' = [kyselykanta EXCEPT ![k] = w]
      /\ UNCHANGED <<rivit, luettelohaku, hakuja, toimet, tehtyja, historia>>
  BY DEF VastausTallentuu
<1>2. e \in Kyselytieto /\ KantaOikein(kyselykanta) /\ e.kerrat \subseteq Luettelokyselyt[k]
  BY <1>1 DEF LuetteloInv, LuettelonTyypit, KantaOikein
<1>3. c \in Kyselykerrat
  BY <1>2 DEF VastausTallentuu, Kyselytieto
<1>4. /\ w \in Kyselytieto /\ w.tila = e.tila /\ w.kerrat = e.kerrat /\ w.lukitut = e.lukitut
      /\ e.vastatut \subseteq w.vastatut
  BY <1>2, <1>3 DEF Kyselytieto
<1> HIDE DEF w
<1>5. /\ DOMAIN kyselykanta' = DOMAIN kyselykanta /\ kyselykanta'[k] = w
      /\ \A l \in DOMAIN kyselykanta : l # k => kyselykanta'[l] = kyselykanta[l]
  BY <1>1
<1>6. ASSUME NEW l \in DOMAIN kyselykanta
      PROVE  /\ kyselykanta'[l].tila = kyselykanta[l].tila
             /\ kyselykanta'[l].kerrat = kyselykanta[l].kerrat
             /\ kyselykanta'[l].lukitut = kyselykanta[l].lukitut
             /\ kyselykanta[l].vastatut \subseteq kyselykanta'[l].vastatut
  BY <1>4, <1>5
<1>7. KantaOikein(kyselykanta')
  BY <1>2, <1>4, <1>5 DEF KantaOikein
<1>8. ASSUME NEW l \in DOMAIN kyselykanta, NEW n, Ajantasalla(n, kyselykanta[l])
      PROVE  Ajantasalla(n, kyselykanta'[l])
  BY <1>6, <1>8 DEF Ajantasalla, KyselyPoistettavissa
<1>9. LuettelonTyypit' /\ KerratKyselylla'
  BY <1>1, <1>7 DEF LuetteloInv, LuettelonTyypit, KerratKyselylla
<1>10. ASSUME KannastaTiedossa PROVE KannastaTiedossa'
  <2>1. HakuTuore'
    BY <1>1, <1>5, <1>6, <1>10 DEF KannastaTiedossa, HakuTuore, Tuore
  <2>2. KerratTiedossa' /\ YksiToimi'
    BY <1>1, <1>5, <1>6, <1>10 DEF KannastaTiedossa, KerratTiedossa, YksiToimi, Poistetut
  <2>3. ASSUME NEW i \in DOMAIN rivit, rivit[i].kyselyid \in DOMAIN kyselykanta \ historia.limittain
        PROVE  RiviTiedossa(rivit[i])'
    <3>1. RiviTiedossa(rivit[i])
      BY <1>10, <2>3 DEF KannastaTiedossa, RivitTiedossa
    <3>2. \A l, laji : Tehty(l, laji)' <=> Tehty(l, laji)
      BY <1>1 DEF Tehty
    <3> QED BY <1>1, <1>6, <1>8, <2>3, <3>1, <3>2 DEF RiviTiedossa, Lukot
  <2>4. RivitTiedossa'
    BY <1>1, <1>5, <2>3 DEF RivitTiedossa
  <2> QED BY <2>1, <2>2, <2>4 DEF KannastaTiedossa
<1> QED BY <1>1, <1>9, <1>10 DEF LuetteloInv

\* A round goes from the row that has it, and from no other
LEMMA KertaPoistuu ==
  ASSUME LuetteloInv, NEW p \in toimet, p.toimi = "poistaKerta", ToimiOnnistui(p) PROVE LuetteloInv'
<1> DEFINE k == p.kysely
<1>1. /\ p \in Kyselytoimi /\ p.tehty /\ p.kerta \in Luettelokyselyt[k] /\ k \in DOMAIN Luettelokyselyt
      /\ toimet' = toimet \ {p}
      /\ UNCHANGED <<luettelohaku, hakuja, tehtyja, kyselykanta, historia>>
      /\ rivit' = [i \in DOMAIN rivit |-> [rivit[i] EXCEPT !.kerrat = @ \ {p.kerta}]]
  <2>1. p \in Kyselytoimi /\ p.kerta \in Luettelokyselyt[k]
    BY DEF LuetteloInv, LuettelonTyypit, KerratKyselylla, Kertatoimet
  <2>2. k \in DOMAIN Luettelokyselyt
    BY <2>1 DEF Kyselytoimi
  <2> QED BY <2>1, <2>2 DEF ToimiOnnistui, KertaPoistetaan
<1>2. ASSUME NEW i \in DOMAIN rivit
      PROVE  /\ rivit'[i] \in Kyselyrivi /\ rivit'[i].kyselyid = rivit[i].kyselyid
             /\ rivit'[i].kerrat = rivit[i].kerrat \ {p.kerta}
             /\ rivit'[i].tila = rivit[i].tila /\ rivit'[i].lukitut = rivit[i].lukitut
             /\ rivit'[i].poistettavissa = rivit[i].poistettavissa
             /\ rivit'[i].haku = rivit[i].haku
  <2>1. rivit[i] \in Kyselyrivi /\ rivit'[i] = [rivit[i] EXCEPT !.kerrat = @ \ {p.kerta}]
    BY <1>1 DEF LuetteloInv, LuettelonTyypit
  <2> QED BY <2>1 DEF Kyselyrivi
<1>3. rivit' \in Seq(Kyselyrivi) /\ DOMAIN rivit' = DOMAIN rivit
  <2>1. rivit \in Seq(Kyselyrivi) /\ rivit' = [i \in DOMAIN rivit |-> rivit'[i]]
    BY <1>1 DEF LuetteloInv, LuettelonTyypit
  <2> QED BY <1>2, <2>1, Kohdittain
<1>4. LuettelonTyypit'
  BY <1>1, <1>3 DEF LuetteloInv, LuettelonTyypit
<1>5. ASSUME NEW i \in DOMAIN rivit, rivit[i].kyselyid # k PROVE rivit'[i].kerrat = rivit[i].kerrat
  <2>1. rivit[i].kyselyid \in DOMAIN Luettelokyselyt
    <3>1. rivit[i] \in Kyselyrivi
      BY DEF LuetteloInv, LuettelonTyypit
    <3> QED BY <3>1 DEF Kyselyrivi
  <2>2. Luettelokyselyt[rivit[i].kyselyid] \cap Luettelokyselyt[k] = {}
    BY <1>1, <1>5, <2>1, KyselyluetteloOletus
  <2>3. rivit[i].kerrat \subseteq Luettelokyselyt[rivit[i].kyselyid]
    BY DEF LuetteloInv, KerratKyselylla
  <2>4. p.kerta \notin rivit[i].kerrat
    BY <1>1, <2>2, <2>3
  <2> QED BY <1>2, <2>4
<1>6. KerratKyselylla'
  <2>1. \A i \in DOMAIN rivit' : rivit'[i].kerrat \subseteq Luettelokyselyt[rivit'[i].kyselyid]
    BY <1>2, <1>3 DEF LuetteloInv, KerratKyselylla
  <2> QED BY <1>1, <2>1 DEF LuetteloInv, KerratKyselylla
<1>7. ASSUME KannastaTiedossa PROVE KannastaTiedossa'
  <2>1. HakuTuore'
    <3>1. luettelohaku' = <<>>
      BY <1>1, <1>7 DEF KannastaTiedossa, HakuTuore
    <3>2. \A i, j \in DOMAIN rivit' : rivit'[i].haku = rivit'[j].haku
      BY <1>2, <1>3, <1>7 DEF KannastaTiedossa, HakuTuore
    <3>3. ASSUME NEW q \in toimet', NEW i \in DOMAIN rivit' PROVE q.rivi = rivit'[i].haku
      <4>1. q \in toimet /\ i \in DOMAIN rivit /\ rivit'[i].haku = rivit[i].haku
        BY <1>1, <1>2, <1>3
      <4> QED BY <1>7, <4>1 DEF KannastaTiedossa, HakuTuore
    <3> QED BY <3>1, <3>2, <3>3 DEF HakuTuore
  <2>2. YksiToimi'
    BY <1>1, <1>7 DEF KannastaTiedossa, YksiToimi
  <2>3. \A s \in toimet : s.tehty /\ s.toimi = "poistaKerta" =>
          /\ s.kysely \in DOMAIN kyselykanta => s.kerta \notin kyselykanta[s.kysely].kerrat
          /\ \A r \in toimet : r.tehty /\ r.toimi = "poistaKerta" /\ r.kysely = s.kysely
                                  /\ r.kerta = s.kerta => s = r
    BY <1>7 DEF KannastaTiedossa, KerratTiedossa
  <2>4. \A l : l # k => Poistetut(l)' = Poistetut(l)
    BY <1>1 DEF Poistetut
  <2>5. Poistetut(k)' = Poistetut(k) \ {p.kerta}
    BY <1>1, <2>3 DEF Poistetut
  <2>6. ASSUME NEW i \in DOMAIN rivit', rivit'[i].kyselyid \in DOMAIN kyselykanta'
        PROVE  rivit'[i].kerrat = kyselykanta'[rivit'[i].kyselyid].kerrat \cup Poistetut(rivit[i].kyselyid)'
    <3>1. rivit[i].kerrat = kyselykanta[rivit[i].kyselyid].kerrat \cup Poistetut(rivit[i].kyselyid)
      BY <1>1, <1>2, <1>3, <1>7, <2>6 DEF KannastaTiedossa, KerratTiedossa
    <3>2. rivit'[i].kyselyid = rivit[i].kyselyid /\ i \in DOMAIN rivit
      BY <1>2, <1>3
    <3>3. CASE rivit[i].kyselyid # k
      BY <1>1, <1>5, <2>4, <3>1, <3>2, <3>3
    <3>4. CASE rivit[i].kyselyid = k
      BY <1>1, <1>2, <2>3, <2>5, <2>6, <3>1, <3>2, <3>4
    <3> QED BY <3>3, <3>4
  <2>7. KerratTiedossa'
    BY <1>1, <2>3, <2>6 DEF KerratTiedossa
  <2>8. ASSUME NEW i \in DOMAIN rivit', rivit'[i].kyselyid \in DOMAIN kyselykanta' \ historia'.limittain
        PROVE  RiviTiedossa(rivit[i])'
    <3>0. PICK l : l = rivit[i].kyselyid
      OBVIOUS
    <3>1. i \in DOMAIN rivit /\ rivit'[i].kyselyid = l /\ rivit'[i].kerrat \subseteq rivit[i].kerrat
      BY <1>2, <1>3, <3>0
    <3>2. RiviTiedossa(rivit[i]) /\ \A u : Ajantasalla(rivit[i], u) => Ajantasalla(rivit'[i], u)
      BY <1>1, <1>2, <1>7, <2>8, <3>0, <3>1 DEF KannastaTiedossa, RivitTiedossa, Ajantasalla
    <3>3. CASE l # k
      <4>1. rivit'[i].kerrat = rivit[i].kerrat
        BY <1>5, <3>0, <3>1, <3>3
      <4>2. \A laji : Tehty(l, laji)' <=> Tehty(l, laji)
        BY <1>1, <3>3 DEF Tehty
      <4>3. /\ \A L : Lukot(L, rivit'[i]) = Lukot(L, rivit[i])
            /\ rivit'[i].lukitut = rivit[i].lukitut
        BY <1>2, <3>1, <4>1 DEF Lukot
      <4>4. toimet' \subseteq toimet /\ kyselykanta' = kyselykanta
        BY <1>1
      <4> QED BY <3>0, <3>1, <3>2, <4>2, <4>3, <4>4 DEF RiviTiedossa
    <3>4. CASE l = k
      <4>1. \A q \in toimet : q.kysely = k => q = p
        BY <1>1, <1>7, <2>8, <3>1, <3>4 DEF KannastaTiedossa, YksiToimi
      <4>2. ~Tehty(k, Tilatoimet) /\ ~Tehty(k, {"lukitse", "avaa"})
        BY <4>1 DEF Tehty, Tilatoimet
      <4>3. Ajantasalla(rivit[i], kyselykanta[k])
            /\ Lukot(rivit[i].lukitut, rivit[i]) = Lukot(kyselykanta[k].lukitut, rivit[i])
        BY <3>0, <3>2, <3>4, <4>2 DEF RiviTiedossa
      <4>4. \A q \in toimet' : q.kysely # k
        BY <1>1, <4>1
      <4>5. /\ Ajantasalla(rivit'[i], kyselykanta[k])
            /\ Lukot(rivit'[i].lukitut, rivit'[i]) = Lukot(kyselykanta[k].lukitut, rivit'[i])
        BY <1>2, <3>1, <3>2, <4>3 DEF Lukot
      <4>6. rivit'[i].kyselyid = k /\ kyselykanta' = kyselykanta
        BY <1>1, <3>1, <3>4
      <4> QED BY <4>4, <4>5, <4>6 DEF RiviTiedossa
    <3> QED BY <3>3, <3>4
  <2>9. RivitTiedossa'
    BY <2>8 DEF RivitTiedossa
  <2> QED BY <2>1, <2>2, <2>7, <2>9 DEF KannastaTiedossa
<1> QED BY <1>1, <1>4, <1>6, <1>7 DEF LuetteloInv

\* What an answer puts onto a row
Sijoitettu(r, p) ==
  IF r.kyselyid # p.kysely \/ r.haku # p.rivi THEN r
  ELSE CASE p.toimi = "lukitse" -> [r EXCEPT !.lukitut = @ \cup ({p.kerta} \cap r.kerrat)]
         [] p.toimi = "avaa" -> [r EXCEPT !.lukitut = @ \ {p.kerta}]
         [] OTHER -> [r EXCEPT !.tila = p.vastaus[1].tila,
                               !.poistettavissa = p.vastaus[1].poistettavissa]

LEMMA RiviSijoitettu ==
  ASSUME NEW r \in Kyselyrivi, NEW p \in Kyselytoimi, p.vastaus # <<>>,
         p.toimi \notin {"poistaKysely", "poistaKerta"}
  PROVE  LET s == Sijoitettu(r, p)
         IN  /\ s \in Kyselyrivi /\ s.kyselyid = r.kyselyid /\ s.kerrat = r.kerrat /\ s.haku = r.haku
             /\ r.kyselyid # p.kysely => s = r
             /\ r.kyselyid = p.kysely /\ r.haku = p.rivi =>
                  /\ s.tila = IF p.toimi \in Tilatoimet THEN p.vastaus[1].tila ELSE r.tila
                  /\ s.poistettavissa = IF p.toimi \in Tilatoimet THEN p.vastaus[1].poistettavissa
                                        ELSE r.poistettavissa
                  /\ s.lukitut = IF p.toimi = "lukitse" THEN r.lukitut \cup ({p.kerta} \cap r.kerrat)
                                 ELSE IF p.toimi = "avaa" THEN r.lukitut \ {p.kerta}
                                 ELSE r.lukitut
<1>1. CASE p.toimi = "lukitse"
  BY <1>1 DEF Sijoitettu, Kyselyrivi, Tilatoimet
<1>2. CASE p.toimi = "avaa"
  BY <1>2 DEF Sijoitettu, Kyselyrivi, Tilatoimet
<1>3. CASE p.toimi \in Tilatoimet
  <2>1. p.vastaus[1] \in Kyselyvastaus /\ p.toimi \notin {"lukitse", "avaa"}
    BY <1>3 DEF Kyselytoimi, Vastaukset, Tilatoimet
  <2>2. p.vastaus[1].tila \in Tilat /\ p.vastaus[1].poistettavissa \in BOOLEAN
    BY <2>1 DEF Kyselyvastaus
  <2> QED BY <1>3, <2>1, <2>2 DEF Sijoitettu, Kyselyrivi
<1> QED BY <1>1, <1>2, <1>3 DEF Kyselytoimi, Kertatoimet, Kyselytoimet, Tilatoimet

\* The row gets what was done to its survey, and no other row does
LEMMA RiviSaaVastauksen ==
  ASSUME LuetteloInv, NEW p \in toimet, p.toimi \notin {"poistaKysely", "poistaKerta"},
         ToimiOnnistui(p)
  PROVE  LuetteloInv'
<1> DEFINE k == p.kysely
<1>1. /\ p \in Kyselytoimi /\ p.tehty /\ p.vastaus # <<>> /\ toimet' = toimet \ {p}
      /\ UNCHANGED <<luettelohaku, hakuja, tehtyja, kyselykanta, historia>>
      /\ rivit' = [i \in DOMAIN rivit |-> Sijoitettu(rivit[i], p)]
  BY DEF ToimiOnnistui, RivilleSijoitetaan, Sijoitettu, LuetteloInv, LuettelonTyypit
<1>2. ASSUME NEW i \in DOMAIN rivit
      PROVE  /\ rivit'[i] \in Kyselyrivi /\ rivit'[i].kyselyid = rivit[i].kyselyid
             /\ rivit'[i].kerrat = rivit[i].kerrat /\ rivit'[i].haku = rivit[i].haku
             /\ rivit[i].kyselyid # k => rivit'[i] = rivit[i]
             /\ rivit[i].kyselyid = k /\ rivit[i].haku = p.rivi =>
                  /\ rivit'[i].tila = IF p.toimi \in Tilatoimet THEN p.vastaus[1].tila
                                      ELSE rivit[i].tila
                  /\ rivit'[i].poistettavissa = IF p.toimi \in Tilatoimet
                                                THEN p.vastaus[1].poistettavissa
                                                ELSE rivit[i].poistettavissa
                  /\ rivit'[i].lukitut = IF p.toimi = "lukitse"
                                         THEN rivit[i].lukitut \cup ({p.kerta} \cap rivit[i].kerrat)
                                         ELSE IF p.toimi = "avaa" THEN rivit[i].lukitut \ {p.kerta}
                                         ELSE rivit[i].lukitut
  <2>1. rivit[i] \in Kyselyrivi /\ rivit'[i] = Sijoitettu(rivit[i], p)
    BY <1>1 DEF LuetteloInv, LuettelonTyypit
  <2> QED BY <1>1, <2>1, RiviSijoitettu
<1>3. rivit' \in Seq(Kyselyrivi) /\ DOMAIN rivit' = DOMAIN rivit
  <2>1. rivit \in Seq(Kyselyrivi) /\ rivit' = [i \in DOMAIN rivit |-> rivit'[i]]
    BY <1>1 DEF LuetteloInv, LuettelonTyypit
  <2> QED BY <1>2, <2>1, Kohdittain
<1>4. LuettelonTyypit'
  BY <1>1, <1>3 DEF LuetteloInv, LuettelonTyypit
<1>5. KerratKyselylla'
  <2>1. \A i \in DOMAIN rivit' : rivit'[i].kerrat \subseteq Luettelokyselyt[rivit'[i].kyselyid]
    BY <1>2, <1>3 DEF LuetteloInv, KerratKyselylla
  <2> QED BY <1>1, <2>1 DEF LuetteloInv, KerratKyselylla
<1>6. ASSUME KannastaTiedossa PROVE KannastaTiedossa'
  <2>0. luettelohaku' = <<>> /\ \A i \in DOMAIN rivit : rivit[i].haku = p.rivi
    BY <1>1, <1>6 DEF KannastaTiedossa, HakuTuore
  <2>1. HakuTuore'
    <3>1. ASSUME NEW q \in toimet', NEW i \in DOMAIN rivit' PROVE q.rivi = rivit'[i].haku
      <4>1. q \in toimet /\ i \in DOMAIN rivit /\ rivit'[i].haku = rivit[i].haku
        BY <1>1, <1>2, <1>3
      <4> QED BY <1>6, <4>1 DEF KannastaTiedossa, HakuTuore
    <3>2. \A i \in DOMAIN rivit' : rivit'[i].haku = p.rivi
      BY <1>2, <1>3, <2>0
    <3> QED BY <2>0, <3>1, <3>2 DEF HakuTuore
  <2>2. YksiToimi'
    BY <1>1, <1>6 DEF KannastaTiedossa, YksiToimi
  <2>3. \A l : Poistetut(l)' = Poistetut(l)
    BY <1>1 DEF Poistetut
  <2>4. KerratTiedossa'
    <3>1. ASSUME NEW i \in DOMAIN rivit', rivit'[i].kyselyid \in DOMAIN kyselykanta'
          PROVE  rivit'[i].kerrat = kyselykanta'[rivit'[i].kyselyid].kerrat
                                    \cup Poistetut(rivit[i].kyselyid)'
      <4>1. PICK l : l = rivit[i].kyselyid
        OBVIOUS
      <4>2. i \in DOMAIN rivit /\ rivit'[i].kyselyid = l /\ rivit'[i].kerrat = rivit[i].kerrat
        BY <1>2, <1>3, <4>1
      <4>3. rivit[i].kerrat = kyselykanta[l].kerrat \cup Poistetut(l)
        BY <1>1, <1>6, <3>1, <4>1, <4>2 DEF KannastaTiedossa, KerratTiedossa
      <4> QED BY <1>1, <2>3, <4>2, <4>3
    <3>2. \A q \in toimet' : q.tehty /\ q.toimi = "poistaKerta" =>
            /\ q.kysely \in DOMAIN kyselykanta' => q.kerta \notin kyselykanta'[q.kysely].kerrat
            /\ \A s \in toimet' : s.tehty /\ s.toimi = "poistaKerta" /\ s.kysely = q.kysely
                                    /\ s.kerta = q.kerta => q = s
      BY <1>1, <1>6 DEF KannastaTiedossa, KerratTiedossa
    <3> QED BY <3>1, <3>2 DEF KerratTiedossa
  <2>5. ASSUME NEW i \in DOMAIN rivit', rivit'[i].kyselyid \in DOMAIN kyselykanta' \ historia'.limittain
        PROVE  RiviTiedossa(rivit[i])'
    <3>0. PICK l : l = rivit[i].kyselyid
      OBVIOUS
    <3>1. i \in DOMAIN rivit /\ rivit'[i].kyselyid = l
      BY <1>2, <1>3, <3>0
    <3>2. RiviTiedossa(rivit[i])
      BY <1>1, <1>6, <2>5, <3>0, <3>1 DEF KannastaTiedossa, RivitTiedossa
    <3>3. CASE l # k
      <4>1. rivit'[i] = rivit[i]
        BY <1>2, <3>0, <3>1, <3>3
      <4>2. \A laji : Tehty(l, laji)' <=> Tehty(l, laji)
        BY <1>1, <3>3 DEF Tehty
      <4> QED BY <1>1, <3>0, <3>1, <3>2, <4>1, <4>2 DEF RiviTiedossa, Lukot
    <3>4. CASE l = k
      <4>1. \A q \in toimet : q.kysely = k => q = p
        BY <1>1, <1>6, <2>5, <3>1, <3>4 DEF KannastaTiedossa, YksiToimi
      <4>2. \A q \in toimet' : q.kysely # k
        BY <1>1, <4>1
      <4>3. \A laji : Tehty(k, laji) <=> p.toimi \in laji
        BY <1>1, <4>1 DEF Tehty
      <4> DEFINE r == rivit[i]
                 s == rivit'[i]
                 e == kyselykanta[k]
      <4>4. /\ r.kyselyid = k /\ r.haku = p.rivi /\ s.kyselyid = k /\ s.kerrat = r.kerrat
            /\ s.tila = IF p.toimi \in Tilatoimet THEN p.vastaus[1].tila ELSE r.tila
            /\ s.poistettavissa = IF p.toimi \in Tilatoimet THEN p.vastaus[1].poistettavissa
                                  ELSE r.poistettavissa
            /\ s.lukitut = IF p.toimi = "lukitse" THEN r.lukitut \cup ({p.kerta} \cap r.kerrat)
                           ELSE IF p.toimi = "avaa" THEN r.lukitut \ {p.kerta}
                           ELSE r.lukitut
        BY <1>2, <2>0, <3>0, <3>1, <3>4
      <4>5. /\ p.toimi \in Tilatoimet => Ajantasalla(p.vastaus[1], e)
            /\ p.toimi \notin Tilatoimet => Ajantasalla(r, e)
            /\ p.toimi \notin {"lukitse", "avaa"} => Lukot(r.lukitut, r) = Lukot(e.lukitut, r)
            /\ p.toimi = "lukitse" => Lukot(r.lukitut \cup {p.kerta}, r) = Lukot(e.lukitut, r)
            /\ p.toimi = "avaa" => Lukot(r.lukitut \ {p.kerta}, r) = Lukot(e.lukitut, r)
        BY <1>1, <3>2, <4>3, <4>4 DEF RiviTiedossa
      <4>6. e = kyselykanta'[k]
        BY <1>1
      <4> HIDE DEF e, r
      <4>7. Ajantasalla(s, e)
        BY <4>4, <4>5 DEF Ajantasalla
      <4>8. Lukot(s.lukitut, s) = Lukot(e.lukitut, s)
        BY <4>4, <4>5 DEF Lukot
      <4> QED BY <4>2, <4>4, <4>6, <4>7, <4>8 DEF RiviTiedossa
    <3> QED BY <3>3, <3>4
  <2>6. RivitTiedossa'
    BY <2>5 DEF RivitTiedossa
  <2> QED BY <2>1, <2>2, <2>4, <2>6 DEF KannastaTiedossa
<1> QED BY <1>1, <1>4, <1>5, <1>6 DEF LuetteloInv

\* Every step of the page
LEMMA LuetteloSailyy ==
  ASSUME LuetteloInv, KyselyluetteloNext PROVE LuetteloInv'
<1>1. ASSUME NEW k \in DOMAIN Luettelokyselyt, Nakyy(k),
             \/ JulkaiseKysely(k) \/ PoistaKysely(k) \/ SuljeKysely(k)
             \/ PalautaLuonnokseksi(k)
      PROVE  LuetteloInv'
  <2>1. PICK toimi \in Kyselytoimet : Pyyda(toimi, k, k)
    BY <1>1 DEF JulkaiseKysely, PoistaKysely, SuljeKysely, PalautaLuonnokseksi, Kyselytoimet,
                Tilatoimet
  <2>2. toimi \notin Kertatoimet
    BY <2>1 DEF Kyselytoimet, Tilatoimet, Kertatoimet
  <2> QED BY <1>1, <2>1, <2>2, PyyntoSailyttaaLuettelon
<1>2. ASSUME NEW k \in DOMAIN Luettelokyselyt, Nakyy(k), NEW c \in rivit[RivinIndeksi(k)].kerrat,
             PoistaKyselykerta(k, c) \/ LukitseKyselykerta(k, c) \/ AvaaKyselykerta(k, c)
      PROVE  LuetteloInv'
  <2>1. PICK toimi \in Kertatoimet : Pyyda(toimi, k, c)
    BY <1>2 DEF PoistaKyselykerta, LukitseKyselykerta, AvaaKyselykerta, Kertatoimet
  <2>2. c \in Kyselykerrat
    BY <1>2, RivinPaikka DEF Kyselyrivi
  <2> QED BY <1>2, <2>1, <2>2, PyyntoSailyttaaLuettelon
<1>3. ASSUME NEW p \in toimet, PalvelinTekee(p) \/ ToimiOnnistui(p) \/ ToimiEpaonnistui(p)
      PROVE  LuetteloInv'
  BY <1>3, TyoSailyttaa, EpaonnistuminenSailyttaa, KyselyPoistuu, KertaPoistuu, RiviSaaVastauksen
<1> QED BY <1>1, <1>2, <1>3, HakuSailyttaa, SaapuminenSailyttaa, AvausSailyttaa,
           VastausSailyttaa DEF KyselyluetteloNext

\* When every request has been answered the rows shown are the server's
THEOREM RivitAinaKannasta == Spec => []RivitKannasta
<1>1. Init => LuetteloInv
  BY LuetteloAlku DEF Init
<1>2. LuetteloInv /\ [Next]_muuttujat => LuetteloInv'
  <2> SUFFICES ASSUME LuetteloInv, [KyselyluetteloNext]_luettelonMuuttujat PROVE LuetteloInv'
    BY LuettelonAskel
  <2>1. CASE UNCHANGED luettelonMuuttujat
    <3>1. /\ UNCHANGED <<rivit, luettelohaku, hakuja, toimet, tehtyja, kyselykanta, historia>>
          /\ toimet' = toimet \ {} /\ rivit \in Seq(Kyselyrivi) /\ historia \in Historiatyyppi
      BY <2>1 DEF luettelonMuuttujat, LuetteloInv, LuettelonTyypit
    <3>2. Periytyvat(rivit, rivit)
      BY DEF Periytyvat, SamaRivi
    <3> QED BY <3>1, <3>2, RivitPeriytyvat
  <2> QED BY <2>1, LuetteloSailyy
<1>3. LuetteloInv => RivitKannasta
  <2> SUFFICES ASSUME LuetteloInv, toimet = {}, ~historia.katkos, ~historia.haussa,
                      NEW i \in DOMAIN rivit, rivit[i].kyselyid \in DOMAIN kyselykanta
               PROVE  LET k == rivit[i].kyselyid IN
                      /\ rivit[i].kerrat = kyselykanta[k].kerrat
                      /\ k \notin historia.limittain =>
                           /\ Ajantasalla(rivit[i], kyselykanta[k])
                           /\ rivit[i].lukitut \cap rivit[i].kerrat
                                = kyselykanta[k].lukitut \cap rivit[i].kerrat
    BY DEF RivitKannasta
  <2>1. KannastaTiedossa
    BY DEF LuetteloInv
  <2>2. \A l, laji : Poistetut(l) = {} /\ ~Tehty(l, laji)
    BY DEF Poistetut, Tehty
  <2> DEFINE k == rivit[i].kyselyid
  <2>3. rivit[i].kerrat = kyselykanta[k].kerrat
    BY <2>1, <2>2 DEF KannastaTiedossa, KerratTiedossa
  <2>4. k \notin historia.limittain => RiviTiedossa(rivit[i])
    BY <2>1 DEF KannastaTiedossa, RivitTiedossa
  <2>5. k \notin historia.limittain =>
          /\ Ajantasalla(rivit[i], kyselykanta[k])
          /\ rivit[i].lukitut \cap rivit[i].kerrat = kyselykanta[k].lukitut \cap rivit[i].kerrat
    BY <2>2, <2>4 DEF RiviTiedossa, Lukot
  <2> QED BY <2>3, <2>5
<1> QED BY <1>1, <1>2, <1>3, PTL DEF Spec

(***************************************************************************)
(* The codes of a round                                                    *)
(***************************************************************************)

\* Requests about codes, and what they are answered with
Koodintoimet == {"poista", "maara", "lukitse", "avaa"}
Erat == UudetTunnukset \cup {<<>>}
Koodipyynto ==
  [nro : Nat, toimi : {"luo"}, id : {EiMitaan}, olio : {"luotu"}, arvo : {1},
   vastaus : Koodityyppi \cup {EiMitaan}, tunnukset : Erat]
  \cup
  [nro : Nat, toimi : Koodintoimet, id : Koodisto, olio : {"haettu", "luotu"}, arvo : Nat,
   vastaus : Koodityyppi \cup {EiMitaan}, tunnukset : {<<>>}]
Kulkutyyppi == [limittain : SUBSET Koodisto, haussa : BOOLEAN, katkos : BOOLEAN, ohitus : BOOLEAN,
                annetut : SUBSET Koodisto]
Koodit(kanta) == DOMAIN kanta \subseteq kulku.annetut /\ \A id \in DOMAIN kanta : kanta[id] \in Koodityyppi

TunnustenTyypit ==
  /\ kertatoimia \in Nat
  /\ kulku \in Kulkutyyppi /\ IsFiniteSet(kulku.annetut)
  /\ Koodit(koodikanta) /\ (tunnushaku # EiMitaan => Koodit(tunnushaku))
  /\ rivilista # EiMitaan => rivilista \in Seq(Tunnusrivityyppi)
  /\ koodipyynnot \subseteq Koodipyynto

\* Requests about codes come from rows, and codes from the server
TunnuksetAnnettu ==
  /\ rivilista # EiMitaan => \A i \in DOMAIN rivilista : rivilista[i].id \in kulku.annetut
  /\ \A p \in koodipyynnot :
       /\ p.toimi \in Koodintoimet => rivilista # EiMitaan /\ p.id \in kulku.annetut
       /\ p.toimi = "luo" /\ p.vastaus # EiMitaan => ToSet(p.tunnukset) \subseteq kulku.annetut

\* While the codes are fetched only respondents change them
KoodihakuTuore ==
  tunnushaku # EiMitaan =>
    /\ koodipyynnot = {} /\ DOMAIN tunnushaku = DOMAIN koodikanta
    /\ \A id \in DOMAIN koodikanta :
         tunnushaku[id].lkm = koodikanta[id].lkm /\ tunnushaku[id].lukittu = koodikanta[id].lukittu

\* Requests whose answer is on its way
Vastatut(laji) == {p \in koodipyynnot : p.toimi \in laji /\ p.vastaus # EiMitaan}

\* New codes of which the page does not know: nothing has been done to them
LuodutErikseen ==
  \A p \in Vastatut({"luo"}) : \A id \in ToSet(p.tunnukset) :
    /\ id \in DOMAIN koodikanta /\ koodikanta[id].lkm = 1 /\ ~koodikanta[id].lukittu
    /\ rivilista # EiMitaan => \A i \in DOMAIN rivilista : rivilista[i].id # id
    /\ \A q \in koodipyynnot : q.id # id \/ q.toimi = "luo"
    /\ \A q \in Vastatut({"luo"}) : id \in ToSet(q.tunnukset) => p = q

\* Deleted codes that the page still shows, each deleted once
PoistetutErikseen ==
  \A p \in Vastatut({"poista"}) :
    p.id \notin DOMAIN koodikanta /\ \A q \in Vastatut({"poista"}) : q.id = p.id => p = q

\* A row for each code but those on their way, and for those whose deletion is
Rivitunnukset(rs) == {rs[i].id : i \in DOMAIN rs}
Tulossa == UNION {ToSet(p.tunnukset) : p \in Vastatut({"luo"})}
Lahdossa == {p.id : p \in Vastatut({"poista"})}
RivitKoodeista ==
  rivilista # EiMitaan =>
    /\ \A i, j \in DOMAIN rivilista : i # j => rivilista[i].id # rivilista[j].id
    /\ Rivitunnukset(rivilista) = (DOMAIN koodikanta \ Tulossa) \cup Lahdossa

\* Requests are about the rows there are, and one at a time about a code that
\* never had two
PyynnotRiveilta ==
  /\ rivilista # EiMitaan => \A i \in DOMAIN rivilista : \A p \in koodipyynnot :
       p.toimi \in Koodintoimet /\ p.id = rivilista[i].id => p.olio = rivilista[i].olio
  /\ \A p, q \in koodipyynnot :
       p.toimi \in Koodintoimet /\ q.toimi \in Koodintoimet /\ p.id = q.id
         /\ p.id \notin kulku.limittain => p = q

\* The number and the lock of a row are the server's, or will be when the answer
\* on its way has been put onto the row
SamaKoodi(r, k) == r.lkm = k.lkm /\ r.lukittu = k.lukittu
RivitAjanTasalla ==
  rivilista # EiMitaan => \A i \in DOMAIN rivilista :
    rivilista[i].id \in DOMAIN koodikanta \ kulku.limittain =>
      /\ \/ SamaKoodi(rivilista[i], koodikanta[rivilista[i].id])
         \/ \E p \in Vastatut(Koodintoimet) : p.id = rivilista[i].id
      /\ \A p \in Vastatut(Koodintoimet) : p.id = rivilista[i].id =>
           SamaKoodi(RivilleVastaus(rivilista[i], p), koodikanta[rivilista[i].id])

KoodeistaTiedossa ==
  /\ KoodihakuTuore /\ LuodutErikseen /\ PoistetutErikseen /\ RivitKoodeista
  /\ PyynnotRiveilta /\ RivitAjanTasalla

TunnusInv ==
  /\ TunnustenTyypit /\ TunnuksetAnnettu
  /\ ~kulku.haussa /\ ~kulku.katkos => KoodeistaTiedossa

\* What is undefined is no row list
LEMMA Rivilista ==
  ASSUME TunnusInv, rivilista # EiMitaan
  PROVE  /\ rivilista \in Seq(Tunnusrivityyppi) /\ Len(rivilista) \in Nat
         /\ DOMAIN rivilista = 1 .. Len(rivilista)
         /\ \A i \in DOMAIN rivilista :
              rivilista[i] \in Tunnusrivityyppi /\ rivilista[i].id \in Koodisto
<1>1. rivilista \in Seq(Tunnusrivityyppi)
  BY DEF TunnusInv, TunnustenTyypit
<1>2. ASSUME NEW i \in DOMAIN rivilista
      PROVE  rivilista[i] \in Tunnusrivityyppi /\ rivilista[i].id \in Koodisto
  <2>1. rivilista[i] \in Tunnusrivityyppi
    BY <1>1
  <2> QED BY <2>1 DEF Tunnusrivityyppi
<1> QED BY <1>1, <1>2

\* The codes of a list are finitely many
LEMMA ListanKoodit ==
  ASSUME NEW S, NEW s \in Seq(S)
  PROVE  ToSet(s) \in SUBSET S /\ IsFiniteSet(ToSet(s))
<1>1. DOMAIN s = 1 .. Len(s) /\ Len(s) \in Nat /\ \A i \in DOMAIN s : s[i] \in S
  OBVIOUS
<1>2. ToSet(s) = {s[i] : i \in DOMAIN s} /\ s \in [DOMAIN s -> ToSet(s)]
  BY <1>1 DEF ToSet, Range
<1>3. s \in Surjection(DOMAIN s, ToSet(s))
  BY <1>2 DEF Surjection
<1>4. IsFiniteSet(DOMAIN s)
  BY <1>1, FS_Interval
<1>5. IsFiniteSet(ToSet(s))
  BY <1>3, <1>4, FS_Surjection
<1> QED BY <1>1, <1>2, <1>5

\* A new round has no codes; of another they are on their way
LEMMA TunnusAlku == KyselykertasivuInit => TunnusInv
<1> SUFFICES ASSUME KyselykertasivuInit PROVE TunnusInv
  OBVIOUS
<1>1. /\ koodipyynnot = {} /\ kertatoimia = 0 /\ DOMAIN koodikanta \subseteq ToSet(Tunnukset)
      /\ \A id \in DOMAIN koodikanta : koodikanta[id] = Koodi(MaxVastaajia)
      /\ kulku = [limittain |-> {}, haussa |-> FALSE, katkos |-> FALSE, ohitus |-> FALSE,
                  annetut |-> DOMAIN koodikanta]
      /\ tunnushaku = EiMitaan \/ tunnushaku = koodikanta
  BY DEF KyselykertasivuInit
<1>2. rivilista # EiMitaan => rivilista = <<>> /\ DOMAIN koodikanta = {}
  BY DEF KyselykertasivuInit
<1>3. Koodi(MaxVastaajia) \in Koodityyppi
  BY KyselykertasivuOletus DEF Koodi, Koodityyppi
<1>4. DOMAIN koodikanta \subseteq Koodisto
  BY <1>1 DEF Koodisto
<1>5. kulku \in Kulkutyyppi
  BY <1>1, <1>4 DEF Kulkutyyppi
<1>6. TunnustenTyypit
  <2>1. kulku.annetut = DOMAIN koodikanta
    BY <1>1
  <2>2. Koodit(koodikanta)
    BY <1>1, <1>3, <2>1 DEF Koodit
  <2>3. <<>> \in Seq(Tunnusrivityyppi)
    OBVIOUS
  <2>4. kertatoimia \in Nat /\ koodipyynnot \subseteq Koodipyynto
    BY <1>1
  <2>5. tunnushaku # EiMitaan => Koodit(tunnushaku)
    BY <1>1, <2>2
  <2>6. IsFiniteSet(kulku.annetut)
    BY <1>1, <2>1, KyselykertasivuOletus, ListanKoodit, FS_Subset
  <2> QED BY <1>2, <1>5, <2>2, <2>3, <2>4, <2>5, <2>6 DEF TunnustenTyypit
<1>7. TunnuksetAnnettu
  BY <1>1, <1>2 DEF TunnuksetAnnettu
<1>8. \A laji : Vastatut(laji) = {}
  BY <1>1 DEF Vastatut
<1>9. Tulossa = {} /\ Lahdossa = {}
  BY <1>8 DEF Tulossa, Lahdossa
<1>10. KoodihakuTuore /\ LuodutErikseen /\ PoistetutErikseen
  BY <1>1, <1>8 DEF KoodihakuTuore, LuodutErikseen, PoistetutErikseen
<1>11. RivitKoodeista
  <2>1. rivilista = <<>> => Rivitunnukset(rivilista) = {} /\ DOMAIN rivilista = {}
    BY DEF Rivitunnukset
  <2> QED BY <1>2, <1>9, <2>1 DEF RivitKoodeista
<1>12. PyynnotRiveilta /\ RivitAjanTasalla
  BY <1>1, <1>2 DEF PyynnotRiveilta, RivitAjanTasalla
<1> QED BY <1>6, <1>7, <1>10, <1>11, <1>12 DEF TunnusInv, KoodeistaTiedossa

\* A step that is not about the codes, or a request refused
LEMMA MuutSailyttavat ==
  ASSUME TunnusInv, NEW P \in SUBSET koodipyynnot, koodipyynnot' = koodipyynnot \ P,
         UNCHANGED <<rivilista, tunnushaku, koodikanta>>,
         kertatoimia' \in Nat, kulku' \in Kulkutyyppi,
         kulku'.limittain = kulku.limittain, kulku'.annetut = kulku.annetut,
         kulku'.haussa = kulku.haussa, kulku.katkos => kulku'.katkos,
         kulku'.katkos \/ \A p \in P : p.vastaus = EiMitaan
  PROVE  TunnusInv'
<1>1. TunnustenTyypit'
  BY DEF TunnusInv, TunnustenTyypit, Koodit
<1>2. TunnuksetAnnettu'
  BY DEF TunnusInv, TunnuksetAnnettu
<1>3. ASSUME ~kulku'.haussa, ~kulku'.katkos PROVE KoodeistaTiedossa'
  <2>1. KoodeistaTiedossa /\ \A p \in P : p.vastaus = EiMitaan
    BY <1>3 DEF TunnusInv
  <2>2. \A laji : Vastatut(laji)' = Vastatut(laji)
    BY <2>1 DEF Vastatut
  <2>3. KoodihakuTuore'
    BY <2>1 DEF KoodeistaTiedossa, KoodihakuTuore
  <2>4. LuodutErikseen'
    BY <2>1, <2>2 DEF KoodeistaTiedossa, LuodutErikseen
  <2>5. PoistetutErikseen'
    BY <2>1, <2>2 DEF KoodeistaTiedossa, PoistetutErikseen
  <2>6. RivitKoodeista'
    BY <2>1, <2>2 DEF KoodeistaTiedossa, RivitKoodeista, Tulossa, Lahdossa
  <2>7. PyynnotRiveilta'
    BY <2>1 DEF KoodeistaTiedossa, PyynnotRiveilta
  <2>8. RivitAjanTasalla'
    BY <2>1, <2>2 DEF KoodeistaTiedossa, RivitAjanTasalla
  <2> QED BY <2>3, <2>4, <2>5, <2>6, <2>7, <2>8 DEF KoodeistaTiedossa
<1> QED BY <1>1, <1>2, <1>3 DEF TunnusInv

\* Respondents change neither the numbers of the codes nor their locks
LEMMA VastaajaSailyttaa ==
  ASSUME TunnusInv, NEW id \in DOMAIN koodikanta, VastaajaVastaa(id) PROVE TunnusInv'
<1> DEFINE k == koodikanta[id]
           n == k.vastauksia + 1
           c == [k EXCEPT !.vastauksia = n]
<1>1. /\ koodikanta' = [koodikanta EXCEPT ![id] = c] /\ k \in Koodityyppi
      /\ UNCHANGED <<rivilista, tunnushaku, koodipyynnot, kertatoimia, kulku>>
  BY DEF VastaajaVastaa, TunnusInv, TunnustenTyypit, Koodit
<1>2. c \in Koodityyppi /\ c.lkm = k.lkm /\ c.lukittu = k.lukittu
  BY <1>1 DEF Koodityyppi
<1> HIDE DEF c
<1>3. /\ DOMAIN koodikanta' = DOMAIN koodikanta
      /\ \A d \in DOMAIN koodikanta :
           /\ koodikanta[d] \in Koodityyppi => koodikanta'[d] \in Koodityyppi
           /\ koodikanta'[d].lkm = koodikanta[d].lkm /\ koodikanta'[d].lukittu = koodikanta[d].lukittu
  BY <1>1, <1>2
<1>4. TunnustenTyypit' /\ TunnuksetAnnettu'
  BY <1>1, <1>3 DEF TunnusInv, TunnustenTyypit, TunnuksetAnnettu, Koodit
<1>5. ASSUME KoodeistaTiedossa PROVE KoodeistaTiedossa'
  <2>1. \A laji : Vastatut(laji)' = Vastatut(laji)
    BY <1>1 DEF Vastatut
  <2>2. KoodihakuTuore'
    BY <1>1, <1>3, <1>5 DEF KoodeistaTiedossa, KoodihakuTuore
  <2>3. LuodutErikseen'
    BY <1>1, <1>3, <1>5, <2>1 DEF KoodeistaTiedossa, LuodutErikseen
  <2>4. PoistetutErikseen'
    BY <1>1, <1>3, <1>5, <2>1 DEF KoodeistaTiedossa, PoistetutErikseen
  <2>5. RivitKoodeista'
    BY <1>1, <1>3, <1>5, <2>1 DEF KoodeistaTiedossa, RivitKoodeista, Tulossa, Lahdossa
  <2>6. PyynnotRiveilta'
    BY <1>1, <1>5 DEF KoodeistaTiedossa, PyynnotRiveilta
  <2>7. RivitAjanTasalla'
    BY <1>1, <1>3, <1>5, <2>1 DEF KoodeistaTiedossa, RivitAjanTasalla, SamaKoodi
  <2> QED BY <2>2, <2>3, <2>4, <2>5, <2>6, <2>7 DEF KoodeistaTiedossa
<1> QED BY <1>1, <1>4, <1>5 DEF TunnusInv

\* The rows of an answer: one for each code
LEMMA TunnusrivitSaapuvat ==
  ASSUME NEW kanta, IsFiniteSet(DOMAIN kanta), DOMAIN kanta \subseteq Koodisto,
         \A id \in DOMAIN kanta : kanta[id] \in Koodityyppi,
         NEW jarjestys \in SetToSeqs(DOMAIN kanta), NEW rs,
         rs = [i \in DOMAIN jarjestys |-> Tunnusrivi(jarjestys[i], "haettu", kanta[jarjestys[i]])]
  PROVE  /\ rs \in Seq(Tunnusrivityyppi) /\ rs # EiMitaan
         /\ \A i, j \in DOMAIN rs : i # j => rs[i].id # rs[j].id
         /\ Rivitunnukset(rs) = DOMAIN kanta
         /\ \A i \in DOMAIN rs : rs[i].id \in DOMAIN kanta /\ SamaKoodi(rs[i], kanta[rs[i].id])
<1> DEFINE n == Cardinality(DOMAIN kanta)
<1>1. n \in Nat
  BY FS_CardinalityType
<1>2. /\ jarjestys \in [1 .. n -> DOMAIN kanta]
      /\ \A i, j \in 1 .. n : i # j => jarjestys[i] # jarjestys[j]
  BY DEF SetToSeqs
<1> HIDE DEF n
<1>3. ASSUME NEW i \in 1 .. n
      PROVE  /\ rs[i] \in Tunnusrivityyppi /\ rs[i].id = jarjestys[i] /\ jarjestys[i] \in DOMAIN kanta
             /\ SamaKoodi(rs[i], kanta[rs[i].id])
  <2>1. /\ rs[i] = Tunnusrivi(jarjestys[i], "haettu", kanta[jarjestys[i]])
        /\ jarjestys[i] \in DOMAIN kanta /\ kanta[jarjestys[i]] \in Koodityyppi
    BY <1>2
  <2> DEFINE k == kanta[jarjestys[i]]
  <2>2. k.lkm \in Nat /\ k.vastauksia \in Nat /\ k.lukittu \in BOOLEAN
    BY <2>1 DEF Koodityyppi
  <2>3. rs[i] = [id |-> jarjestys[i], olio |-> "haettu", lkm |-> k.lkm,
                 vastauksia |-> k.vastauksia, lukittu |-> k.lukittu]
    BY <2>1 DEF Tunnusrivi
  <2>4. jarjestys[i] \in Koodisto
    BY <2>1
  <2>5. rs[i].id = jarjestys[i] /\ rs[i].lkm = k.lkm /\ rs[i].lukittu = k.lukittu
    BY <2>3
  <2>6. rs[i] \in Tunnusrivityyppi
    BY <2>2, <2>3, <2>4 DEF Tunnusrivityyppi
  <2>7. SamaKoodi(rs[i], kanta[rs[i].id])
    BY <2>5 DEF SamaKoodi
  <2> QED BY <2>1, <2>5, <2>6, <2>7
<1>4. rs \in Seq(Tunnusrivityyppi) /\ DOMAIN rs = 1 .. n
  <2>1. rs \in [1 .. n -> Tunnusrivityyppi]
    BY <1>2, <1>3
  <2> QED BY <1>1, <2>1
<1>5. rs # EiMitaan
  BY <1>4, KyselykertasivuOletus
<1>6. Rivitunnukset(rs) = DOMAIN kanta
  <2>1. Rivitunnukset(rs) = {jarjestys[i] : i \in 1 .. n}
    BY <1>3, <1>4 DEF Rivitunnukset
  <2>2. ASSUME NEW id \in DOMAIN kanta PROVE \E i \in 1 .. n : jarjestys[i] = id
    <3>1. jarjestys \in Injection(1 .. n, DOMAIN kanta)
      <4>1. \A a, b \in 1 .. n : jarjestys[a] = jarjestys[b] => a = b
        BY <1>2
      <4>2. DOMAIN jarjestys = 1 .. n
        BY <1>2
      <4> QED BY <1>2, <4>1, <4>2 DEF Injection, IsInjective
    <3>2. Cardinality(1 .. n) = Cardinality(DOMAIN kanta)
      BY <1>1, FS_Interval DEF n
    <3>3. jarjestys \in Surjection(1 .. n, DOMAIN kanta)
      BY <3>1, <3>2, FS_Injection
    <3> QED BY <3>3 DEF Surjection
  <2>3. \A i \in 1 .. n : jarjestys[i] \in DOMAIN kanta
    BY <1>2
  <2> QED BY <2>1, <2>2, <2>3
<1> QED BY <1>2, <1>3, <1>4, <1>5, <1>6

\* The codes fetched are the codes there are
LEMMA HakuSaapuu == ASSUME TunnusInv, TunnuksetSaapuvat PROVE TunnusInv'
<1>1. /\ tunnushaku # EiMitaan /\ tunnushaku' = EiMitaan
      /\ UNCHANGED <<koodikanta, koodipyynnot, kertatoimia, kulku>>
  BY DEF TunnuksetSaapuvat
<1>2. ASSUME rivilista' = rivilista PROVE TunnusInv'
  <2>1. TunnustenTyypit' /\ TunnuksetAnnettu'
    BY <1>1, <1>2 DEF TunnusInv, TunnustenTyypit, TunnuksetAnnettu, Koodit
  <2>2. ASSUME KoodeistaTiedossa PROVE KoodeistaTiedossa'
    <3>1. \A laji : Vastatut(laji)' = Vastatut(laji)
      BY <1>1 DEF Vastatut
    <3>2. KoodihakuTuore'
      BY <1>1 DEF KoodihakuTuore
    <3>3. LuodutErikseen' /\ PoistetutErikseen'
      BY <1>1, <1>2, <2>2, <3>1 DEF KoodeistaTiedossa, LuodutErikseen, PoistetutErikseen
    <3>4. RivitKoodeista'
      BY <1>1, <1>2, <2>2, <3>1 DEF KoodeistaTiedossa, RivitKoodeista, Tulossa, Lahdossa
    <3>5. PyynnotRiveilta'
      BY <1>1, <1>2, <2>2 DEF KoodeistaTiedossa, PyynnotRiveilta
    <3>6. RivitAjanTasalla'
      BY <1>1, <1>2, <2>2, <3>1 DEF KoodeistaTiedossa, RivitAjanTasalla
    <3> QED BY <3>2, <3>3, <3>4, <3>5, <3>6 DEF KoodeistaTiedossa
  <2> QED BY <1>1, <2>1, <2>2 DEF TunnusInv
<1>3. ASSUME NEW kanta \in {tunnushaku, koodikanta}, NEW jarjestys \in SetToSeqs(DOMAIN kanta),
             rivilista' = [i \in DOMAIN jarjestys |->
                             Tunnusrivi(jarjestys[i], "haettu", kanta[jarjestys[i]])]
      PROVE  TunnusInv'
  <2>1. /\ DOMAIN kanta \subseteq kulku.annetut /\ IsFiniteSet(DOMAIN kanta)
        /\ DOMAIN kanta \subseteq Koodisto /\ \A id \in DOMAIN kanta : kanta[id] \in Koodityyppi
    <3>1. Koodit(kanta) /\ kulku \in Kulkutyyppi /\ IsFiniteSet(kulku.annetut)
      BY <1>1 DEF TunnusInv, TunnustenTyypit
    <3>2. kulku.annetut \subseteq Koodisto
      BY <3>1 DEF Kulkutyyppi
    <3> QED BY <3>1, <3>2, FS_Subset DEF Koodit
  <2>2. /\ rivilista' \in Seq(Tunnusrivityyppi) /\ rivilista' # EiMitaan
        /\ \A i, j \in DOMAIN rivilista' : i # j => rivilista'[i].id # rivilista'[j].id
        /\ Rivitunnukset(rivilista') = DOMAIN kanta
        /\ \A i \in DOMAIN rivilista' :
             rivilista'[i].id \in DOMAIN kanta /\ SamaKoodi(rivilista'[i], kanta[rivilista'[i].id])
    BY <1>3, <2>1, TunnusrivitSaapuvat
  <2>3. TunnustenTyypit'
    BY <1>1, <2>2 DEF TunnusInv, TunnustenTyypit, Koodit
  <2>4. TunnuksetAnnettu'
    BY <1>1, <2>1, <2>2 DEF TunnusInv, TunnuksetAnnettu
  <2>5. ASSUME KoodeistaTiedossa PROVE KoodeistaTiedossa'
    <3>1. /\ koodipyynnot = {} /\ koodipyynnot' = {} /\ DOMAIN kanta = DOMAIN koodikanta
          /\ \A id \in DOMAIN koodikanta :
               kanta[id].lkm = koodikanta[id].lkm /\ kanta[id].lukittu = koodikanta[id].lukittu
      BY <1>1, <1>3, <2>5 DEF KoodeistaTiedossa, KoodihakuTuore
    <3>2. \A laji : Vastatut(laji)' = {}
      BY <3>1 DEF Vastatut
    <3>3. Tulossa' = {} /\ Lahdossa' = {}
      BY <3>2 DEF Tulossa, Lahdossa
    <3>4. KoodihakuTuore' /\ LuodutErikseen' /\ PoistetutErikseen'
      BY <1>1, <3>2 DEF KoodihakuTuore, LuodutErikseen, PoistetutErikseen
    <3>5. RivitKoodeista'
      BY <1>1, <2>2, <3>1, <3>3 DEF RivitKoodeista
    <3>6. PyynnotRiveilta'
      BY <3>1 DEF PyynnotRiveilta
    <3>7. RivitAjanTasalla'
      BY <1>1, <2>2, <3>1, <3>2 DEF RivitAjanTasalla, SamaKoodi
    <3> QED BY <3>4, <3>5, <3>6, <3>7 DEF KoodeistaTiedossa
  <2> QED BY <1>1, <2>3, <2>4, <2>5 DEF TunnusInv
<1> QED BY <1>2, <1>3 DEF TunnuksetSaapuvat

\* A request about the code of a row
LEMMA PyyntoSailyttaaTunnukset ==
  ASSUME TunnusInv, rivilista # EiMitaan, NEW i0 \in DOMAIN rivilista, NEW toimi \in Koodintoimet,
         NEW arvo \in Nat, PyydaTunnuksesta(toimi, rivilista[i0], arvo)
  PROVE  TunnusInv'
<1> DEFINE r0 == rivilista[i0]
           id0 == r0.id
           p0 == [nro |-> kertatoimia, toimi |-> toimi, id |-> id0, olio |-> r0.olio, arvo |-> arvo,
                  vastaus |-> EiMitaan, tunnukset |-> <<>>]
           K == {p.id : p \in {q \in koodipyynnot : q.id = id0}}
<1>1. /\ koodipyynnot' = koodipyynnot \cup {p0} /\ kertatoimia' = kertatoimia + 1
      /\ kulku' = [kulku EXCEPT !.limittain = @ \cup K, !.haussa = @ \/ tunnushaku # EiMitaan]
      /\ UNCHANGED <<rivilista, tunnushaku, koodikanta>>
  BY DEF PyydaTunnuksesta, Kertatoimi
<1>2. r0 \in Tunnusrivityyppi /\ id0 \in Koodisto /\ kertatoimia \in Nat /\ id0 \in kulku.annetut
  BY Rivilista DEF TunnusInv, TunnustenTyypit, TunnuksetAnnettu
<1>3. p0 \in Koodipyynto
  BY <1>2 DEF Koodipyynto, Tunnusrivityyppi
<1>4. p0.toimi = toimi /\ p0.id = id0 /\ p0.olio = r0.olio /\ p0.vastaus = EiMitaan
  OBVIOUS
<1> HIDE DEF p0
<1>5. K \subseteq {id0} /\ \A p \in koodipyynnot : p.id = id0 => id0 \in K
  OBVIOUS
<1> HIDE DEF K, id0
<1>6. /\ kulku' \in Kulkutyyppi /\ kulku'.limittain = kulku.limittain \cup K
      /\ kulku'.katkos = kulku.katkos /\ kulku'.annetut = kulku.annetut
      /\ ~kulku'.haussa => ~kulku.haussa /\ tunnushaku = EiMitaan
  BY <1>1, <1>2, <1>5 DEF TunnusInv, TunnustenTyypit, Kulkutyyppi
<1>7. TunnustenTyypit'
  BY <1>1, <1>2, <1>3, <1>6 DEF TunnusInv, TunnustenTyypit, Koodit
<1>8. TunnuksetAnnettu'
  BY <1>1, <1>2, <1>4, <1>6 DEF TunnusInv, TunnuksetAnnettu
<1>9. ASSUME ~kulku'.haussa, ~kulku'.katkos PROVE KoodeistaTiedossa'
  <2>1. KoodeistaTiedossa /\ tunnushaku' = EiMitaan
    BY <1>1, <1>6, <1>9 DEF TunnusInv
  <2>2. \A laji : Vastatut(laji)' = Vastatut(laji)
    BY <1>1, <1>4 DEF Vastatut
  <2>3. KoodihakuTuore'
    BY <2>1 DEF KoodihakuTuore
  <2>4. LuodutErikseen'
    <3>1. \A p \in Vastatut({"luo"}) : id0 \notin ToSet(p.tunnukset)
      BY <2>1 DEF KoodeistaTiedossa, LuodutErikseen, id0
    <3> QED BY <1>1, <1>4, <2>1, <2>2, <3>1 DEF KoodeistaTiedossa, LuodutErikseen
  <2>5. PoistetutErikseen'
    BY <1>1, <2>1, <2>2 DEF KoodeistaTiedossa, PoistetutErikseen
  <2>6. RivitKoodeista'
    BY <1>1, <2>1, <2>2 DEF KoodeistaTiedossa, RivitKoodeista, Tulossa, Lahdossa
  <2>7. ASSUME NEW i \in DOMAIN rivilista, rivilista[i].id = id0 PROVE i = i0
    BY <2>1, <2>7 DEF KoodeistaTiedossa, RivitKoodeista, id0
  <2>8. PyynnotRiveilta'
    <3>1. \A i \in DOMAIN rivilista : \A p \in koodipyynnot' :
            p.toimi \in Koodintoimet /\ p.id = rivilista[i].id => p.olio = rivilista[i].olio
      BY <1>1, <1>4, <2>1, <2>7 DEF KoodeistaTiedossa, PyynnotRiveilta
    <3>2. \A p, q \in koodipyynnot' :
            p.toimi \in Koodintoimet /\ q.toimi \in Koodintoimet /\ p.id = q.id
              /\ p.id \notin kulku'.limittain => p = q
      BY <1>1, <1>4, <1>5, <1>6, <2>1 DEF KoodeistaTiedossa, PyynnotRiveilta
    <3> QED BY <1>1, <3>1, <3>2 DEF PyynnotRiveilta
  <2>9. RivitAjanTasalla'
    BY <1>1, <1>6, <2>1, <2>2 DEF KoodeistaTiedossa, RivitAjanTasalla
  <2> QED BY <2>3, <2>4, <2>5, <2>6, <2>8, <2>9 DEF KoodeistaTiedossa
<1> QED BY <1>7, <1>8, <1>9 DEF TunnusInv

\* Creating codes is asked for: the new request is about no code there is
LEMMA LuontiSailyttaaTunnukset == ASSUME TunnusInv, LuoTunnuksia PROVE TunnusInv'
<1> DEFINE p0 == [nro |-> kertatoimia, toimi |-> "luo", id |-> EiMitaan, olio |-> "luotu",
                  arvo |-> 1, vastaus |-> EiMitaan, tunnukset |-> <<>>]
<1>1. /\ koodipyynnot' = koodipyynnot \cup {p0} /\ kertatoimia' = kertatoimia + 1
      /\ kulku' = [kulku EXCEPT !.haussa = @ \/ tunnushaku # EiMitaan]
      /\ UNCHANGED <<rivilista, tunnushaku, koodikanta>>
  BY DEF LuoTunnuksia, Dialogissa, Kertatoimi
<1>2. p0 \in Koodipyynto /\ kertatoimia' \in Nat
  BY <1>1 DEF Koodipyynto, Erat, TunnusInv, TunnustenTyypit
<1>3. p0.toimi = "luo" /\ p0.toimi \notin Koodintoimet /\ p0.vastaus = EiMitaan
  BY DEF Koodintoimet
<1> HIDE DEF p0
<1>4. /\ kulku' \in Kulkutyyppi /\ kulku'.limittain = kulku.limittain
      /\ kulku'.katkos = kulku.katkos /\ kulku'.annetut = kulku.annetut
      /\ ~kulku'.haussa => ~kulku.haussa /\ tunnushaku = EiMitaan
  BY <1>1 DEF TunnusInv, TunnustenTyypit, Kulkutyyppi
<1>5. TunnustenTyypit'
  BY <1>1, <1>2, <1>4 DEF TunnusInv, TunnustenTyypit, Koodit
<1>6. TunnuksetAnnettu'
  BY <1>1, <1>3, <1>4 DEF TunnusInv, TunnuksetAnnettu
<1>7. ASSUME ~kulku'.haussa, ~kulku'.katkos PROVE KoodeistaTiedossa'
  <2>1. KoodeistaTiedossa /\ tunnushaku' = EiMitaan
    BY <1>1, <1>4, <1>7 DEF TunnusInv
  <2>2. \A laji : Vastatut(laji)' = Vastatut(laji)
    BY <1>1, <1>3 DEF Vastatut
  <2>3. KoodihakuTuore'
    BY <2>1 DEF KoodihakuTuore
  <2>4. LuodutErikseen' /\ PoistetutErikseen'
    BY <1>1, <1>3, <2>1, <2>2 DEF KoodeistaTiedossa, LuodutErikseen, PoistetutErikseen
  <2>5. RivitKoodeista'
    BY <1>1, <2>1, <2>2 DEF KoodeistaTiedossa, RivitKoodeista, Tulossa, Lahdossa
  <2>6. PyynnotRiveilta'
    BY <1>1, <1>3, <1>4, <2>1 DEF KoodeistaTiedossa, PyynnotRiveilta
  <2>7. RivitAjanTasalla'
    BY <1>1, <1>4, <2>1, <2>2 DEF KoodeistaTiedossa, RivitAjanTasalla
  <2> QED BY <2>3, <2>4, <2>5, <2>6, <2>7 DEF KoodeistaTiedossa
<1> QED BY <1>5, <1>6, <1>7 DEF TunnusInv

\* A request answered is the same request
LEMMA Vastattu ==
  ASSUME NEW p \in Koodipyynto, NEW v \in Koodityyppi,
         NEW p1, p1 = [p EXCEPT !.vastaus = v]
  PROVE  /\ v # EiMitaan /\ p1 \in Koodipyynto /\ p1.vastaus = v
         /\ p1.toimi = p.toimi /\ p1.id = p.id /\ p1.olio = p.olio /\ p1.arvo = p.arvo
<1>1. v # EiMitaan
  BY KyselykertasivuOletus
<1> QED BY <1>1 DEF Koodipyynto

\* What a request is about, by its kind
LEMMA Pyynnonlaji ==
  ASSUME NEW p \in Koodipyynto
  PROVE  /\ p.toimi = "luo" => p.tunnukset \in Erat /\ p.arvo = 1
         /\ p.toimi # "luo" => /\ p.toimi \in Koodintoimet /\ p.id \in Koodisto /\ p.arvo \in Nat
                               /\ p.vastaus # EiMitaan => p.vastaus \in Koodityyppi
<1>1. CASE p.toimi = "luo"
  <2>1. p.toimi \notin Koodintoimet
    BY <1>1 DEF Koodintoimet
  <2> QED BY <1>1, <2>1 DEF Koodipyynto
<1>2. CASE p.toimi # "luo"
  BY <1>2 DEF Koodipyynto
<1> QED BY <1>1, <1>2

\* A batch made: its codes are new to the requests, the rows and the server
LEMMA LuontiTehty ==
  ASSUME TunnusInv, NEW p \in koodipyynnot, NEW era \in UudetTunnukset, PalvelinLuo(p, era)
  PROVE  TunnusInv'
<1> DEFINE p1 == [p EXCEPT !.vastaus = Koodi(1), !.tunnukset = era]
           E == ToSet(era)
<1>0. p \in Koodipyynto /\ p.arvo = 1
  BY Pyynnonlaji DEF TunnusInv, TunnustenTyypit, PalvelinLuo
<1>1. /\ p.toimi = "luo" /\ p.vastaus = EiMitaan /\ E \cap kulku.annetut = {}
      /\ koodikanta' = [id \in DOMAIN koodikanta \cup E |->
                          IF id \in E THEN Koodi(1) ELSE koodikanta[id]]
      /\ koodipyynnot' = (koodipyynnot \ {p}) \cup {p1}
      /\ kulku' = [kulku EXCEPT !.annetut = @ \cup E]
      /\ UNCHANGED <<rivilista, tunnushaku, kertatoimia>>
  BY <1>0 DEF PalvelinLuo
<1>2. Koodi(1) \in Koodityyppi /\ Koodi(1).lkm = 1 /\ ~Koodi(1).lukittu
  BY DEF Koodi, Koodityyppi
<1>3. /\ p1 \in Koodipyynto /\ p1.vastaus = Koodi(1) /\ Koodi(1) # EiMitaan
      /\ p1.tunnukset = era /\ p1.toimi = "luo"
  <2>1. PICK v \in Koodityyppi : v = Koodi(1)
    BY <1>2
  <2>2. era \in Erat /\ p.toimi = "luo"
    BY <1>1 DEF Erat
  <2> DEFINE p2 == [p EXCEPT !.vastaus = v, !.tunnukset = era]
  <2>3. /\ p2 \in Koodipyynto /\ p2.vastaus = v /\ p2.tunnukset = era /\ p2.toimi = "luo"
    BY <1>0, <2>2 DEF Koodipyynto, Koodintoimet
  <2>4. p1 = p2
    BY <2>1
  <2>5. v # EiMitaan
    BY KyselykertasivuOletus
  <2> HIDE DEF p1, p2
  <2> QED BY <2>1, <2>3, <2>4, <2>5
<1>4. E \subseteq Koodisto /\ IsFiniteSet(E)
  BY ListanKoodit, KyselykertasivuOletus
<1> HIDE DEF p1, E
<1>5. /\ DOMAIN koodikanta \subseteq kulku.annetut /\ IsFiniteSet(kulku.annetut)
      /\ DOMAIN koodikanta' = DOMAIN koodikanta \cup E
      /\ \A id \in DOMAIN koodikanta : koodikanta'[id] = koodikanta[id] /\ koodikanta[id] \in Koodityyppi
      /\ \A id \in E : koodikanta'[id] = Koodi(1)
  BY <1>1 DEF TunnusInv, TunnustenTyypit, Koodit
<1>7. /\ kulku' \in Kulkutyyppi /\ kulku'.annetut = kulku.annetut \cup E
      /\ kulku'.limittain = kulku.limittain /\ kulku'.katkos = kulku.katkos
      /\ kulku'.haussa = kulku.haussa
  BY <1>1, <1>4 DEF TunnusInv, TunnustenTyypit, Kulkutyyppi
<1>8. TunnustenTyypit'
  <2>1. IsFiniteSet(kulku'.annetut)
    <3>1. PICK A : A = kulku.annetut
      OBVIOUS
    <3>2. IsFiniteSet(A \cup E)
      BY <1>4, <1>5, <3>1, FS_Union
    <3> QED BY <1>7, <3>1, <3>2
  <2>2. Koodit(koodikanta)'
    BY <1>5, <1>2, <1>7 DEF Koodit
  <2>3. tunnushaku' # EiMitaan => Koodit(tunnushaku)'
    BY <1>1, <1>7 DEF TunnusInv, TunnustenTyypit, Koodit
  <2> QED BY <1>1, <1>3, <1>7, <2>1, <2>2, <2>3 DEF TunnusInv, TunnustenTyypit
<1>9. TunnuksetAnnettu'
  BY <1>1, <1>3, <1>7 DEF TunnusInv, TunnuksetAnnettu, Koodintoimet, E
<1>10. ASSUME ~kulku'.haussa, ~kulku'.katkos PROVE KoodeistaTiedossa'
  <2>1. KoodeistaTiedossa /\ tunnushaku' = EiMitaan
    BY <1>1, <1>7, <1>10 DEF TunnusInv, KoodeistaTiedossa, KoodihakuTuore
  <2>2. Vastatut({"luo"})' = Vastatut({"luo"}) \cup {p1}
    BY <1>1, <1>3 DEF Vastatut
  <2>3. Vastatut({"poista"})' = Vastatut({"poista"}) /\ Vastatut(Koodintoimet)' = Vastatut(Koodintoimet)
    BY <1>1, <1>3 DEF Vastatut, Koodintoimet
  <2>4. KoodihakuTuore'
    BY <2>1 DEF KoodihakuTuore
  <2>5. /\ rivilista # EiMitaan => \A i \in DOMAIN rivilista : rivilista[i].id \notin E
        /\ \A q \in koodipyynnot' : q.toimi \in Koodintoimet => q.id \notin E
        /\ \A q \in Vastatut({"luo"}) : ToSet(q.tunnukset) \cap E = {} /\ q \in koodipyynnot
    <3>1. \A q \in Vastatut({"luo"}) : q \in koodipyynnot
      BY DEF Vastatut
    <3> QED BY <1>1, <1>3, <1>5, <2>1, <3>1
            DEF TunnusInv, TunnuksetAnnettu, KoodeistaTiedossa, LuodutErikseen, Koodintoimet
  <2>6. LuodutErikseen'
    <3>1. ASSUME NEW q \in Vastatut({"luo"}), NEW id \in ToSet(q.tunnukset)
          PROVE  /\ id \in DOMAIN koodikanta' /\ koodikanta'[id].lkm = 1 /\ ~koodikanta'[id].lukittu
                 /\ rivilista' # EiMitaan => \A i \in DOMAIN rivilista' : rivilista'[i].id # id
                 /\ \A r \in koodipyynnot' : r.id # id \/ r.toimi = "luo"
                 /\ \A r \in Vastatut({"luo"})' : id \in ToSet(r.tunnukset) => q = r
      BY <1>1, <1>3, <1>5, <2>1, <2>2, <2>5, <3>1 DEF KoodeistaTiedossa, LuodutErikseen, E
    <3>2. ASSUME NEW id \in E
          PROVE  /\ id \in DOMAIN koodikanta' /\ koodikanta'[id].lkm = 1 /\ ~koodikanta'[id].lukittu
                 /\ rivilista' # EiMitaan => \A i \in DOMAIN rivilista' : rivilista'[i].id # id
                 /\ \A r \in koodipyynnot' : r.id # id \/ r.toimi = "luo"
                 /\ \A r \in Vastatut({"luo"})' : id \in ToSet(r.tunnukset) => p1 = r
      <4>1. \A r \in koodipyynnot' : r.toimi = "luo" \/ r.toimi \in Koodintoimet
        BY <1>1, <1>3, Pyynnonlaji DEF TunnusInv, TunnustenTyypit
      <4> QED BY <1>1, <1>5, <1>2, <2>2, <2>5, <4>1
    <3> QED BY <1>3, <2>2, <3>1, <3>2 DEF LuodutErikseen, E
  <2>7. PoistetutErikseen'
    <3>1. \A q \in Vastatut({"poista"}) : q \in koodipyynnot' /\ q.toimi \in Koodintoimet
      BY <1>1 DEF Vastatut, Koodintoimet
    <3> QED BY <1>5, <2>1, <2>3, <2>5, <3>1 DEF KoodeistaTiedossa, PoistetutErikseen
  <2>8. RivitKoodeista'
    <3>1. Tulossa' = Tulossa \cup E
      BY <1>3, <2>2 DEF Tulossa, E
    <3>2. Lahdossa' = Lahdossa
      BY <2>3 DEF Lahdossa
    <3>3. DOMAIN koodikanta' \ Tulossa' = DOMAIN koodikanta \ Tulossa
      BY <1>1, <1>5, <3>1
    <3> QED BY <1>1, <2>1, <3>2, <3>3 DEF KoodeistaTiedossa, RivitKoodeista
  <2>9. PyynnotRiveilta'
    BY <1>1, <1>3, <1>7, <2>1 DEF KoodeistaTiedossa, PyynnotRiveilta, Koodintoimet
  <2>10. RivitAjanTasalla'
    BY <1>1, <1>5, <1>7, <2>1, <2>3, <2>5 DEF KoodeistaTiedossa, RivitAjanTasalla
  <2> QED BY <2>4, <2>6, <2>7, <2>8, <2>9, <2>10 DEF KoodeistaTiedossa
<1> QED BY <1>8, <1>9, <1>10 DEF TunnusInv

\* What the server does about a code: the answer is the code as it then is
LEMMA TyoTehty ==
  ASSUME TunnusInv, NEW p \in koodipyynnot, PalvelinVastaa(p) PROVE TunnusInv'
<1> DEFINE id == p.id
           k == koodikanta[id]
           v == IF p.toimi \in {"lukitse", "avaa"} THEN koodikanta'[id] ELSE Koodi(p.arvo)
           p1 == [p EXCEPT !.vastaus = v]
<1>1. /\ p.toimi # "luo" /\ p.vastaus = EiMitaan /\ id \in DOMAIN koodikanta
      /\ koodikanta' =
           CASE p.toimi = "poista" -> [d \in DOMAIN koodikanta \ {id} |-> koodikanta[d]]
             [] p.toimi = "maara" -> [koodikanta EXCEPT ![id].lkm = p.arvo]
             [] OTHER -> [koodikanta EXCEPT ![id].lukittu = (p.toimi = "lukitse")]
      /\ koodipyynnot' = (koodipyynnot \ {p}) \cup {p1}
      /\ UNCHANGED <<rivilista, tunnushaku, kertatoimia, kulku>>
  BY DEF PalvelinVastaa
<1>2. p \in Koodipyynto /\ k \in Koodityyppi /\ p.arvo \in Nat /\ p.toimi \in Koodintoimet
  BY <1>1, Pyynnonlaji DEF TunnusInv, TunnustenTyypit, Koodit
<1>3. /\ DOMAIN koodikanta' = IF p.toimi = "poista" THEN DOMAIN koodikanta \ {id} ELSE DOMAIN koodikanta
      /\ \A d \in DOMAIN koodikanta : d # id => koodikanta'[d] = koodikanta[d]
      /\ p.toimi = "maara" => koodikanta'[id] = [k EXCEPT !.lkm = p.arvo]
      /\ p.toimi \in {"lukitse", "avaa"} => koodikanta'[id] = [k EXCEPT !.lukittu = (p.toimi = "lukitse")]
  <2>1. CASE p.toimi = "poista"
    BY <1>1, <2>1
  <2>2. CASE p.toimi = "maara"
    BY <1>1, <2>2
  <2>3. CASE p.toimi \in {"lukitse", "avaa"}
    BY <1>1, <2>3
  <2> QED BY <1>2, <2>1, <2>2, <2>3 DEF Koodintoimet
<1>4. p.toimi # "poista" => koodikanta'[id] \in Koodityyppi
  <2>1. CASE p.toimi = "maara"
    BY <1>2, <1>3, <2>1 DEF Koodityyppi
  <2>2. CASE p.toimi \in {"lukitse", "avaa"}
    BY <1>2, <1>3, <2>2 DEF Koodityyppi
  <2> QED BY <1>2, <2>1, <2>2 DEF Koodintoimet
<1>5. v \in Koodityyppi
  <2>1. CASE p.toimi \in {"lukitse", "avaa"}
    BY <1>4, <2>1
  <2>2. CASE p.toimi \notin {"lukitse", "avaa"}
    BY <1>2, <2>2 DEF Koodi, Koodityyppi
  <2> QED BY <2>1, <2>2
<1>6. /\ p1 \in Koodipyynto /\ p1.vastaus = v /\ v # EiMitaan
      /\ p1.toimi = p.toimi /\ p1.id = id /\ p1.olio = p.olio /\ p1.arvo = p.arvo
  <2> HIDE DEF v
  <2>1. p1 = [p EXCEPT !.vastaus = v]
    OBVIOUS
  <2> HIDE DEF p1
  <2> QED BY <1>2, <1>5, <2>1, Vastattu
<1> HIDE DEF v, p1
<1>7. /\ DOMAIN koodikanta \subseteq kulku.annetut
      /\ \A d \in DOMAIN koodikanta : koodikanta[d] \in Koodityyppi
  BY DEF TunnusInv, TunnustenTyypit, Koodit
<1>8. TunnustenTyypit'
  <2>1. Koodit(koodikanta)'
    BY <1>1, <1>3, <1>4, <1>7 DEF Koodit
  <2>2. tunnushaku' # EiMitaan => Koodit(tunnushaku)'
    BY <1>1 DEF TunnusInv, TunnustenTyypit, Koodit
  <2> QED BY <1>1, <1>6, <2>1, <2>2 DEF TunnusInv, TunnustenTyypit
<1>9. TunnuksetAnnettu'
  BY <1>1, <1>6, <1>7 DEF TunnusInv, TunnuksetAnnettu
<1>10. ASSUME ~kulku'.haussa, ~kulku'.katkos PROVE KoodeistaTiedossa'
  <2>1. KoodeistaTiedossa /\ tunnushaku' = EiMitaan
    BY <1>1, <1>10 DEF TunnusInv, KoodeistaTiedossa, KoodihakuTuore
  <2>2. Vastatut({"luo"})' = Vastatut({"luo"})
    BY <1>1, <1>6 DEF Vastatut
  <2>3. Vastatut({"poista"})' = Vastatut({"poista"}) \cup (IF p.toimi = "poista" THEN {p1} ELSE {})
    BY <1>1, <1>6 DEF Vastatut
  <2>4. Vastatut(Koodintoimet)' = Vastatut(Koodintoimet) \cup {p1}
    BY <1>1, <1>2, <1>6 DEF Vastatut
  <2>5. KoodihakuTuore'
    BY <2>1 DEF KoodihakuTuore
  <2>6. \A q \in Vastatut({"luo"}) : id \notin ToSet(q.tunnukset)
    BY <1>1, <2>1 DEF KoodeistaTiedossa, LuodutErikseen
  <2>7. LuodutErikseen'
    <3>1. ASSUME NEW q \in Vastatut({"luo"}), NEW d \in ToSet(q.tunnukset)
          PROVE  /\ d \in DOMAIN koodikanta' /\ koodikanta'[d].lkm = 1 /\ ~koodikanta'[d].lukittu
                 /\ rivilista' # EiMitaan => \A i \in DOMAIN rivilista' : rivilista'[i].id # d
                 /\ \A r \in koodipyynnot' : r.id # d \/ r.toimi = "luo"
                 /\ \A r \in Vastatut({"luo"})' : d \in ToSet(r.tunnukset) => q = r
      <4>1. /\ d \in DOMAIN koodikanta /\ koodikanta[d].lkm = 1 /\ ~koodikanta[d].lukittu
            /\ rivilista # EiMitaan => \A i \in DOMAIN rivilista : rivilista[i].id # d
            /\ \A r \in koodipyynnot : r.id # d \/ r.toimi = "luo"
            /\ \A r \in Vastatut({"luo"}) : d \in ToSet(r.tunnukset) => q = r
        BY <2>1, <3>1 DEF KoodeistaTiedossa, LuodutErikseen
      <4>2. d # id
        BY <2>6, <3>1
      <4>3. d \in DOMAIN koodikanta' /\ koodikanta'[d] = koodikanta[d]
        BY <1>3, <4>1, <4>2
      <4>4. \A r \in koodipyynnot' : r.id # d \/ r.toimi = "luo"
        BY <1>1, <1>6, <4>1, <4>2
      <4> QED BY <1>1, <2>2, <4>1, <4>3, <4>4
    <3> QED BY <2>2, <3>1 DEF LuodutErikseen
  <2>8. PoistetutErikseen'
    <3>1. \A q \in Vastatut({"poista"}) : q.id # id
      BY <1>1, <2>1 DEF KoodeistaTiedossa, PoistetutErikseen
    <3> QED BY <1>3, <1>6, <2>1, <2>3, <3>1 DEF KoodeistaTiedossa, PoistetutErikseen
  <2>9. RivitKoodeista'
    <3>1. Tulossa' = Tulossa /\ id \notin Tulossa
      BY <2>2, <2>6 DEF Tulossa
    <3>2. Lahdossa' = Lahdossa \cup (IF p.toimi = "poista" THEN {id} ELSE {})
      BY <1>6, <2>3 DEF Lahdossa
    <3>3. (DOMAIN koodikanta' \ Tulossa') \cup Lahdossa' = (DOMAIN koodikanta \ Tulossa) \cup Lahdossa
      BY <1>1, <1>3, <3>1, <3>2
    <3> QED BY <1>1, <2>1, <3>3 DEF KoodeistaTiedossa, RivitKoodeista
  <2>10. PyynnotRiveilta'
    <3>1. rivilista' # EiMitaan => \A i \in DOMAIN rivilista' : \A q \in koodipyynnot' :
            q.toimi \in Koodintoimet /\ q.id = rivilista'[i].id => q.olio = rivilista'[i].olio
      BY <1>1, <1>2, <1>6, <2>1 DEF KoodeistaTiedossa, PyynnotRiveilta
    <3>2. \A r, q \in koodipyynnot' :
            r.toimi \in Koodintoimet /\ q.toimi \in Koodintoimet /\ r.id = q.id
              /\ r.id \notin kulku'.limittain => r = q
      BY <1>1, <1>2, <1>6, <2>1 DEF KoodeistaTiedossa, PyynnotRiveilta
    <3> QED BY <3>1, <3>2 DEF PyynnotRiveilta
  <2>11. ASSUME rivilista # EiMitaan, NEW i \in DOMAIN rivilista,
                rivilista[i].id \in DOMAIN koodikanta' \ kulku.limittain
         PROVE  LET r == rivilista[i] IN
                /\ \/ SamaKoodi(r, koodikanta'[r.id])
                   \/ \E q \in Vastatut(Koodintoimet)' : q.id = r.id
                /\ \A q \in Vastatut(Koodintoimet)' : q.id = r.id =>
                     SamaKoodi(RivilleVastaus(r, q), koodikanta'[r.id])
    <3> DEFINE r == rivilista[i]
    <3>1. r.id \in DOMAIN koodikanta \ kulku.limittain
      BY <1>3, <2>11
    <3>2. /\ SamaKoodi(r, koodikanta[r.id]) \/ \E q \in Vastatut(Koodintoimet) : q.id = r.id
          /\ \A q \in Vastatut(Koodintoimet) : q.id = r.id =>
               SamaKoodi(RivilleVastaus(r, q), koodikanta[r.id])
      BY <2>1, <2>11, <3>1 DEF KoodeistaTiedossa, RivitAjanTasalla
    <3>3. CASE r.id # id
      BY <1>3, <1>6, <2>4, <3>1, <3>2, <3>3
    <3>4. CASE r.id = id
      <4>1. \A q \in koodipyynnot : q.toimi \in Koodintoimet /\ q.id = id => q = p
        BY <1>2, <2>1, <3>1, <3>4 DEF KoodeistaTiedossa, PyynnotRiveilta
      <4>2. \A q \in Vastatut(Koodintoimet) : q.id # id
        BY <1>1, <4>1 DEF Vastatut
      <4>3. \A q \in Vastatut(Koodintoimet)' : q.id = id => q = p1
        BY <2>4, <4>2
      <4>4. SamaKoodi(r, k) /\ r.olio = p.olio /\ r \in Tunnusrivityyppi
        <5>1. r.olio = p.olio
          BY <1>2, <2>1, <2>11, <3>4 DEF KoodeistaTiedossa, PyynnotRiveilta
        <5>2. r \in Tunnusrivityyppi
          BY <2>11, Rivilista
        <5> QED BY <3>2, <3>4, <4>2, <5>1, <5>2
      <4>5. p.toimi # "poista"
        BY <1>3, <2>11, <3>4
      <4> HIDE DEF r, k
      <4>6. SamaKoodi(RivilleVastaus(r, p1), koodikanta'[id])
        <5>1. CASE p.toimi = "maara"
          <6>1. RivilleVastaus(r, p1) = [r EXCEPT !.lkm = p.arvo]
            BY <1>6, <3>4, <4>4, <5>1 DEF RivilleVastaus
          <6> QED BY <1>2, <1>3, <4>4, <5>1, <6>1 DEF SamaKoodi, Tunnusrivityyppi, Koodityyppi
        <5>2. CASE p.toimi \in {"lukitse", "avaa"}
          <6>1. RivilleVastaus(r, p1) = Tunnusrivi(r.id, r.olio, koodikanta'[id])
            BY <1>6, <3>4, <4>4, <5>2 DEF RivilleVastaus, v
          <6> QED BY <6>1 DEF SamaKoodi, Tunnusrivi
        <5> QED BY <1>2, <4>5, <5>1, <5>2 DEF Koodintoimet
      <4> QED BY <1>6, <2>4, <3>4, <4>3, <4>6 DEF r
    <3> QED BY <3>3, <3>4
  <2>12. RivitAjanTasalla'
    BY <1>1, <2>11 DEF RivitAjanTasalla
  <2> QED BY <2>5, <2>7, <2>8, <2>9, <2>10, <2>12 DEF KoodeistaTiedossa
<1> QED BY <1>1, <1>8, <1>9, <1>10 DEF TunnusInv

\* A list with a batch in front
LEMMA UudetRivitOikein ==
  ASSUME NEW era \in Erat, NEW rs \in Seq(Tunnusrivityyppi), rs # EiMitaan
  PROVE  LET t == UudetRivit(rs, era)
         IN  /\ t \in Seq(Tunnusrivityyppi) /\ t # EiMitaan
             /\ Rivitunnukset(t) = ToSet(era) \cup Rivitunnukset(rs)
             /\ \A i \in DOMAIN t : \/ \E j \in DOMAIN rs : t[i] = rs[j]
                                    \/ t[i].id \in ToSet(era) /\ SamaKoodi(t[i], Koodi(1))
             /\ (\A i, j \in DOMAIN rs : i # j => rs[i].id # rs[j].id)
                /\ (\A i \in DOMAIN rs : rs[i].id \notin ToSet(era))
                => \A i, j \in DOMAIN t : i # j => t[i].id # t[j].id
<1> DEFINE n == Len(era)
           m == Len(rs)
           t == UudetRivit(rs, era)
           u == [i \in DOMAIN era |-> Tunnusrivi(Reverse(era)[i], "luotu", Koodi(1))]
<1>1. /\ n \in Nat /\ DOMAIN era = 1 .. n /\ \A i \in 1 .. n : era[i] \in Koodisto
      /\ \A i, j \in 1 .. n : i # j => era[i] # era[j]
  <2>1. CASE era = <<>>
    BY <2>1
  <2>2. CASE era \in UudetTunnukset
    BY <2>2, KyselykertasivuOletus
  <2> QED BY <2>1, <2>2 DEF Erat
<1>2. m \in Nat /\ DOMAIN rs = 1 .. m /\ \A j \in 1 .. m : rs[j] \in Tunnusrivityyppi
  OBVIOUS
<1>3. Koodi(1) \in Koodityyppi
  BY DEF Koodi, Koodityyppi
<1>4. ASSUME NEW i \in 1 .. n
      PROVE  /\ n - i + 1 \in 1 .. n /\ u[i].id = era[n - i + 1] /\ u[i] \in Tunnusrivityyppi
             /\ SamaKoodi(u[i], Koodi(1))
  <2>1. n - i + 1 \in 1 .. n /\ Reverse(era)[i] = era[n - i + 1]
    BY <1>1 DEF Reverse
  <2>2. u[i] = Tunnusrivi(era[n - i + 1], "luotu", Koodi(1)) /\ era[n - i + 1] \in Koodisto
    BY <1>1, <2>1
  <2> QED BY <1>3, <2>1, <2>2 DEF Tunnusrivi, Tunnusrivityyppi, Koodityyppi, SamaKoodi
<1>5. u \in Seq(Tunnusrivityyppi) /\ Len(u) = n
  <2>1. u \in [1 .. n -> Tunnusrivityyppi]
    BY <1>1, <1>4
  <2> QED BY <1>1, <2>1
<1>6. t = u \o rs
  BY DEF UudetRivit
<1> HIDE DEF u, t
<1>7. /\ t \in Seq(Tunnusrivityyppi) /\ DOMAIN t = 1 .. n + m
      /\ \A i \in 1 .. n : t[i] = u[i]
      /\ \A i \in DOMAIN t : i \notin 1 .. n => i - n \in 1 .. m /\ t[i] = rs[i - n]
      /\ \A j \in 1 .. m : n + j \in DOMAIN t /\ t[n + j] = rs[j]
  <2>1. t \in Seq(Tunnusrivityyppi) /\ Len(t) = n + m
    BY <1>2, <1>5, <1>6
  <2>2. DOMAIN t = 1 .. n + m
    BY <2>1
  <2>3. ASSUME NEW i \in 1 .. n + m PROVE t[i] = IF i <= n THEN u[i] ELSE rs[i - n]
    BY <1>1, <1>2, <1>5, <1>6, <2>3
  <2>4. ASSUME NEW i \in 1 .. n PROVE t[i] = u[i]
    BY <1>1, <1>2, <2>3
  <2>5. ASSUME NEW i \in DOMAIN t, i \notin 1 .. n PROVE i - n \in 1 .. m /\ t[i] = rs[i - n]
    BY <1>1, <1>2, <2>2, <2>3, <2>5
  <2>6. ASSUME NEW j \in 1 .. m PROVE n + j \in DOMAIN t /\ t[n + j] = rs[j]
    <3>1. n + j \in 1 .. n + m /\ ~(n + j <= n) /\ n + j - n = j
      BY <1>1, <1>2
    <3> QED BY <2>2, <2>3, <3>1
  <2> QED BY <2>1, <2>2, <2>4, <2>5, <2>6
<1>8. t # EiMitaan
  BY <1>7, KyselykertasivuOletus
<1>9. \A d : d \in ToSet(era) <=> \E i \in 1 .. n : d = u[i].id
  <2>1. \A d : d \in ToSet(era) <=> \E i \in 1 .. n : d = era[i]
    BY <1>1 DEF ToSet, Range
  <2>2. \A i \in 1 .. n : n - i + 1 \in 1 .. n /\ n - (n - i + 1) + 1 = i
    BY <1>1
  <2> QED BY <1>4, <2>1, <2>2
<1>10. Rivitunnukset(t) = ToSet(era) \cup Rivitunnukset(rs)
  <2>1. ASSUME NEW d \in ToSet(era) PROVE \E i \in DOMAIN t : t[i].id = d
    <3>1. PICK i \in 1 .. n : d = u[i].id
      BY <1>9
    <3>2. i \in DOMAIN t /\ t[i].id = d
      BY <1>1, <1>2, <1>7, <3>1
    <3> QED BY <3>2
  <2>2. ASSUME NEW j \in DOMAIN rs PROVE \E i \in DOMAIN t : t[i].id = rs[j].id
    BY <1>2, <1>7
  <2>3. ASSUME NEW i \in DOMAIN t PROVE t[i].id \in ToSet(era) \/ \E j \in DOMAIN rs : rs[j].id = t[i].id
    BY <1>2, <1>7, <1>9
  <2> QED BY <2>1, <2>2, <2>3 DEF Rivitunnukset
<1>11. \A i \in DOMAIN t : \/ \E j \in DOMAIN rs : t[i] = rs[j]
                           \/ t[i].id \in ToSet(era) /\ SamaKoodi(t[i], Koodi(1))
  BY <1>2, <1>4, <1>7, <1>9
<1>12. ASSUME \A i, j \in DOMAIN rs : i # j => rs[i].id # rs[j].id,
              \A i \in DOMAIN rs : rs[i].id \notin ToSet(era),
              NEW i \in DOMAIN t, NEW j \in DOMAIN t, i # j
       PROVE  t[i].id # t[j].id
  <2>1. CASE i \in 1 .. n /\ j \in 1 .. n
    <3>1. n - i + 1 # n - j + 1
      BY <1>1, <1>12, <2>1
    <3>2. /\ n - i + 1 \in 1 .. n /\ n - j + 1 \in 1 .. n
          /\ t[i].id = era[n - i + 1] /\ t[j].id = era[n - j + 1]
      BY <1>4, <1>7, <2>1
    <3> QED BY <1>1, <3>1, <3>2
  <2>2. CASE i \notin 1 .. n /\ j \notin 1 .. n
    <3>1. i - n # j - n
      BY <1>1, <1>7, <1>12
    <3> QED BY <1>2, <1>7, <1>12, <2>2, <3>1
  <2>3. CASE i \in 1 .. n /\ j \notin 1 .. n
    BY <1>2, <1>7, <1>9, <1>12, <2>3
  <2>4. CASE i \notin 1 .. n /\ j \in 1 .. n
    BY <1>2, <1>7, <1>9, <1>12, <2>4
  <2> QED BY <2>1, <2>2, <2>3, <2>4
<1> QED BY <1>7, <1>8, <1>10, <1>11, <1>12 DEF t

\* A list without a code
RivitIlman(t, rs, p) ==
  /\ t \in Seq(Tunnusrivityyppi) /\ t # EiMitaan
  /\ Rivitunnukset(t) = Rivitunnukset(rs) \ {p.id}
  /\ \A i \in DOMAIN t : \E j \in DOMAIN rs : t[i] = rs[j] /\ rs[j].id # p.id
  /\ (\A i, j \in DOMAIN rs : i # j => rs[i].id # rs[j].id)
     => \A i, j \in DOMAIN t : i # j => t[i].id # t[j].id

LEMMA PoistaRivitOikein ==
  ASSUME NEW rs \in Seq(Tunnusrivityyppi), NEW p, NEW t, t = PoistaRivit(rs, p)
  PROVE  RivitIlman(t, rs, p)
<1> DEFINE I == {i \in DOMAIN rs : rs[i].id # p.id}
<1>1. t = Kohdista(rs, I) /\ I \in SUBSET DOMAIN rs
  BY DEF PoistaRivit, Poimi
<1>2. \A i : i \in I <=> i \in DOMAIN rs /\ rs[i].id # p.id
  OBVIOUS
<1> HIDE DEF I
<1>3. /\ t \in Seq(Tunnusrivityyppi) /\ Cardinality(I) \in Nat /\ DOMAIN t = 1 .. Cardinality(I)
      /\ \A n \in 1 .. Cardinality(I) : Kohta(I, n) \in I /\ t[n] = rs[Kohta(I, n)]
      /\ \A n, k \in 1 .. Cardinality(I) : n < k => Kohta(I, n) < Kohta(I, k)
      /\ \A i \in I : \E n \in 1 .. Cardinality(I) : Kohta(I, n) = i
  BY <1>1, KohdistaOikein
<1>4. t # EiMitaan
  BY <1>3, KyselykertasivuOletus
<1>5. Rivitunnukset(t) = Rivitunnukset(rs) \ {p.id}
  <2>1. ASSUME NEW n \in DOMAIN t
        PROVE  t[n].id \in {rs[i].id : i \in DOMAIN rs} /\ t[n].id # p.id
    <3>1. Kohta(I, n) \in I /\ t[n] = rs[Kohta(I, n)]
      BY <1>3, <2>1
    <3> QED BY <1>2, <3>1
  <2>2. ASSUME NEW i \in DOMAIN rs, rs[i].id # p.id
        PROVE  \E n \in DOMAIN t : t[n].id = rs[i].id
    <3>1. PICK n \in 1 .. Cardinality(I) : Kohta(I, n) = i
      BY <1>2, <1>3, <2>2
    <3>2. n \in DOMAIN t /\ t[n] = rs[i]
      BY <1>3, <3>1
    <3> QED BY <3>2
  <2> QED BY <2>1, <2>2 DEF Rivitunnukset
<1>6. ASSUME \A i, j \in DOMAIN rs : i # j => rs[i].id # rs[j].id,
             NEW i \in DOMAIN t, NEW j \in DOMAIN t, i # j
      PROVE  t[i].id # t[j].id
  <2>1. Kohta(I, i) \in DOMAIN rs /\ Kohta(I, j) \in DOMAIN rs
    BY <1>2, <1>3
  <2>2. Kohta(I, i) # Kohta(I, j)
    <3>1. i < j \/ j < i
      BY <1>3, <1>6
    <3>2. Kohta(I, i) < Kohta(I, j) \/ Kohta(I, j) < Kohta(I, i)
      BY <1>3, <3>1
    <3> QED BY <2>1, <3>2
  <2> QED BY <1>3, <1>6, <2>1, <2>2
<1> QED BY <1>2, <1>3, <1>4, <1>5, <1>6 DEF RivitIlman

\* A row with an answer about its code
LEMMA RivilleVastausOikein ==
  ASSUME NEW r \in Tunnusrivityyppi, NEW p \in Koodipyynto, p.toimi \notin {"luo", "poista"},
         p.vastaus # EiMitaan
  PROVE  LET s == RivilleVastaus(r, p)
         IN  s \in Tunnusrivityyppi /\ s.id = r.id /\ s.olio = r.olio /\ (r.id # p.id => s = r)
<1>1. p.arvo \in Nat /\ p.vastaus \in Koodityyppi
  BY Pyynnonlaji
<1>2. Tunnusrivi(r.id, r.olio, p.vastaus) \in Tunnusrivityyppi
  BY <1>1 DEF Tunnusrivi, Tunnusrivityyppi, Koodityyppi
<1> QED BY <1>1, <1>2 DEF RivilleVastaus, Tunnusrivityyppi, Tunnusrivi

\* What is left of the answers when one has been put onto the page
LEMMA MuutVastaukset ==
  ASSUME NEW p \in koodipyynnot, p.vastaus # EiMitaan, koodipyynnot' = koodipyynnot \ {p}
  PROVE  /\ \A laji : p.toimi \in laji => p \in Vastatut(laji) /\ Vastatut(laji)' = Vastatut(laji) \ {p}
         /\ \A laji : p.toimi \notin laji => Vastatut(laji)' = Vastatut(laji)
BY DEF Vastatut

\* A batch put onto the page
LEMMA LuodutSaapuvat ==
  ASSUME TunnusInv, NEW p \in koodipyynnot, p.toimi = "luo", PyyntoValmis(p) PROVE TunnusInv'
<1> DEFINE era == p.tunnukset
           E == ToSet(era)
<1>1. /\ p.vastaus # EiMitaan /\ koodipyynnot' = koodipyynnot \ {p}
      /\ rivilista' = UudetRivit(rivilista, era)
      /\ UNCHANGED <<tunnushaku, koodikanta, kertatoimia, kulku>>
  BY DEF PyyntoValmis
<1>2. era \in Erat
  BY <1>1, Pyynnonlaji DEF TunnusInv, TunnustenTyypit
<1>3. rivilista = EiMitaan => rivilista' = EiMitaan
  BY <1>1 DEF UudetRivit
<1>4. ASSUME rivilista # EiMitaan
      PROVE  /\ rivilista' \in Seq(Tunnusrivityyppi) /\ rivilista' # EiMitaan
             /\ Rivitunnukset(rivilista') = E \cup Rivitunnukset(rivilista)
             /\ \A i \in DOMAIN rivilista' :
                  \/ \E j \in DOMAIN rivilista : rivilista'[i] = rivilista[j]
                  \/ rivilista'[i].id \in E /\ SamaKoodi(rivilista'[i], Koodi(1))
             /\ (\A i, j \in DOMAIN rivilista : i # j => rivilista[i].id # rivilista[j].id)
                /\ (\A i \in DOMAIN rivilista : rivilista[i].id \notin E)
                => \A i, j \in DOMAIN rivilista' : i # j => rivilista'[i].id # rivilista'[j].id
  <2>1. rivilista \in Seq(Tunnusrivityyppi)
    BY <1>4, Rivilista
  <2> HIDE DEF era
  <2> QED BY <1>1, <1>2, <1>4, <2>1, UudetRivitOikein
<1> HIDE DEF era, E
<1>5. /\ p \in Vastatut({"luo"}) /\ Vastatut({"luo"})' = Vastatut({"luo"}) \ {p}
      /\ Vastatut({"poista"})' = Vastatut({"poista"}) /\ Vastatut(Koodintoimet)' = Vastatut(Koodintoimet)
  <2>1. p.toimi \notin {"poista"} /\ p.toimi \notin Koodintoimet
    BY DEF Koodintoimet
  <2> QED BY <1>1, <2>1, MuutVastaukset DEF era
<1>6. ASSUME KoodeistaTiedossa
      PROVE  /\ E \subseteq DOMAIN koodikanta
             /\ \A d \in E : koodikanta[d].lkm = 1 /\ ~koodikanta[d].lukittu
             /\ rivilista # EiMitaan => \A i \in DOMAIN rivilista : rivilista[i].id \notin E
             /\ \A q \in koodipyynnot : q.toimi \in Koodintoimet => q.id \notin E
             /\ \A q \in Vastatut({"luo"})' : ToSet(q.tunnukset) \cap E = {}
  <2>1. ASSUME NEW d \in E
        PROVE  /\ d \in DOMAIN koodikanta /\ koodikanta[d].lkm = 1 /\ ~koodikanta[d].lukittu
               /\ rivilista # EiMitaan => \A i \in DOMAIN rivilista : rivilista[i].id # d
               /\ \A q \in koodipyynnot : q.id # d \/ q.toimi = "luo"
               /\ \A q \in Vastatut({"luo"}) : d \in ToSet(q.tunnukset) => p = q
    BY <1>5, <1>6 DEF KoodeistaTiedossa, LuodutErikseen, E, era
  <2>2. "luo" \notin Koodintoimet
    BY DEF Koodintoimet
  <2> QED BY <1>5, <2>1, <2>2
<1>7. TunnustenTyypit'
  BY <1>1, <1>3, <1>4 DEF TunnusInv, TunnustenTyypit, Koodit
<1>8. TunnuksetAnnettu'
  <2>1. E \subseteq kulku.annetut
    BY <1>1 DEF TunnusInv, TunnuksetAnnettu, E, era
  <2> QED BY <1>1, <1>3, <1>4, <2>1 DEF TunnusInv, TunnuksetAnnettu
<1>9. ASSUME KoodeistaTiedossa PROVE KoodeistaTiedossa'
  <2>1. KoodihakuTuore'
    BY <1>1, <1>9 DEF KoodeistaTiedossa, KoodihakuTuore
  <2>2. LuodutErikseen'
    <3>1. rivilista' # EiMitaan => \A i \in DOMAIN rivilista' :
            \/ \E j \in DOMAIN rivilista : rivilista'[i] = rivilista[j]
            \/ rivilista'[i].id \in E
      BY <1>3, <1>4
    <3> QED BY <1>1, <1>3, <1>5, <1>6, <1>9, <3>1 DEF KoodeistaTiedossa, LuodutErikseen
  <2>3. PoistetutErikseen'
    BY <1>1, <1>5, <1>9 DEF KoodeistaTiedossa, PoistetutErikseen
  <2>4. RivitKoodeista'
    <3>1. Tulossa' = Tulossa \ E /\ E \subseteq Tulossa
      BY <1>5, <1>6, <1>9 DEF Tulossa, E, era
    <3>2. Lahdossa' = Lahdossa
      BY <1>5 DEF Lahdossa
    <3>3. DOMAIN koodikanta' \ Tulossa' = E \cup (DOMAIN koodikanta \ Tulossa)
      BY <1>1, <1>6, <1>9, <3>1
    <3> QED BY <1>3, <1>4, <1>6, <1>9, <3>2, <3>3 DEF KoodeistaTiedossa, RivitKoodeista
  <2>5. PyynnotRiveilta'
    BY <1>1, <1>3, <1>4, <1>6, <1>9 DEF KoodeistaTiedossa, PyynnotRiveilta
  <2>6. RivitAjanTasalla'
    <3>1. ASSUME rivilista' # EiMitaan, NEW i \in DOMAIN rivilista',
                 rivilista'[i].id \in DOMAIN koodikanta \ kulku.limittain
          PROVE  LET r == rivilista'[i] IN
                 /\ \/ SamaKoodi(r, koodikanta[r.id])
                    \/ \E q \in Vastatut(Koodintoimet) : q.id = r.id
                 /\ \A q \in Vastatut(Koodintoimet) : q.id = r.id =>
                      SamaKoodi(RivilleVastaus(r, q), koodikanta[r.id])
      <4>1. CASE \E j \in DOMAIN rivilista : rivilista'[i] = rivilista[j]
        BY <1>3, <1>9, <3>1, <4>1 DEF KoodeistaTiedossa, RivitAjanTasalla
      <4>2. CASE rivilista'[i].id \in E /\ SamaKoodi(rivilista'[i], Koodi(1))
        <5>1. \A q \in Vastatut(Koodintoimet) : q.id # rivilista'[i].id
          BY <1>6, <1>9, <4>2 DEF Vastatut
        <5>2. SamaKoodi(rivilista'[i], koodikanta[rivilista'[i].id])
          <6>1. PICK r : r = rivilista'[i]
            OBVIOUS
          <6>2. r.lkm = 1 /\ r.lukittu = FALSE
            BY <4>2, <6>1 DEF SamaKoodi, Koodi
          <6>3. koodikanta[r.id].lkm = 1 /\ koodikanta[r.id].lukittu = FALSE
            <7>1. koodikanta[r.id] \in Koodityyppi
              BY <1>6, <1>9, <4>2, <6>1 DEF TunnusInv, TunnustenTyypit, Koodit
            <7> QED BY <1>6, <1>9, <4>2, <6>1, <7>1 DEF Koodityyppi
          <6> QED BY <6>1, <6>2, <6>3 DEF SamaKoodi
        <5> QED BY <5>1, <5>2
      <4> QED BY <1>3, <1>4, <3>1, <4>1, <4>2
    <3> QED BY <1>1, <1>5, <3>1 DEF RivitAjanTasalla
  <2> QED BY <2>1, <2>2, <2>3, <2>4, <2>5, <2>6 DEF KoodeistaTiedossa
<1> QED BY <1>1, <1>7, <1>8, <1>9 DEF TunnusInv

\* A code deleted goes from the page
LEMMA PoistettuPoistuu ==
  ASSUME TunnusInv, NEW p \in koodipyynnot, p.toimi = "poista", PyyntoValmis(p) PROVE TunnusInv'
<1>1. /\ p.vastaus # EiMitaan /\ koodipyynnot' = koodipyynnot \ {p}
      /\ rivilista' = PoistaRivit(rivilista, p)
      /\ UNCHANGED <<tunnushaku, koodikanta, kertatoimia, kulku>>
  BY DEF PyyntoValmis
<1>2. rivilista # EiMitaan /\ p.toimi \in Koodintoimet
  BY DEF TunnusInv, TunnuksetAnnettu, Koodintoimet
<1>3. /\ rivilista' \in Seq(Tunnusrivityyppi) /\ rivilista' # EiMitaan
      /\ Rivitunnukset(rivilista') = Rivitunnukset(rivilista) \ {p.id}
      /\ \A i \in DOMAIN rivilista' :
           \E j \in DOMAIN rivilista : rivilista'[i] = rivilista[j] /\ rivilista[j].id # p.id
      /\ (\A i, j \in DOMAIN rivilista : i # j => rivilista[i].id # rivilista[j].id)
         => \A i, j \in DOMAIN rivilista' : i # j => rivilista'[i].id # rivilista'[j].id
  <2>1. rivilista \in Seq(Tunnusrivityyppi)
    BY <1>2, Rivilista
  <2>2. RivitIlman(rivilista', rivilista, p)
    BY <1>1, <2>1, PoistaRivitOikein
  <2> QED BY <2>2 DEF RivitIlman
<1>4. /\ p \in Vastatut({"poista"}) /\ Vastatut({"poista"})' = Vastatut({"poista"}) \ {p}
      /\ Vastatut({"luo"})' = Vastatut({"luo"})
      /\ Vastatut(Koodintoimet)' = Vastatut(Koodintoimet) \ {p}
  BY <1>1, <1>2, MuutVastaukset
<1>5. TunnustenTyypit'
  BY <1>1, <1>3 DEF TunnusInv, TunnustenTyypit, Koodit
<1>6. TunnuksetAnnettu'
  BY <1>1, <1>2, <1>3 DEF TunnusInv, TunnuksetAnnettu
<1>7. ASSUME KoodeistaTiedossa PROVE KoodeistaTiedossa'
  <2>1. KoodihakuTuore'
    BY <1>1, <1>7 DEF KoodeistaTiedossa, KoodihakuTuore
  <2>2. LuodutErikseen'
    <3>1. \A i \in DOMAIN rivilista' : \E j \in DOMAIN rivilista : rivilista'[i].id = rivilista[j].id
      BY <1>3
    <3> QED BY <1>1, <1>2, <1>4, <1>7, <3>1 DEF KoodeistaTiedossa, LuodutErikseen
  <2>3. PoistetutErikseen'
    BY <1>1, <1>4, <1>7 DEF KoodeistaTiedossa, PoistetutErikseen
  <2>4. RivitKoodeista'
    <3>1. Tulossa' = Tulossa
      BY <1>4 DEF Tulossa
    <3>2. Lahdossa' = Lahdossa \ {p.id} /\ p.id \notin DOMAIN koodikanta
      BY <1>4, <1>7 DEF Lahdossa, KoodeistaTiedossa, PoistetutErikseen
    <3> QED BY <1>1, <1>2, <1>3, <1>7, <3>1, <3>2 DEF KoodeistaTiedossa, RivitKoodeista
  <2>5. PyynnotRiveilta'
    BY <1>1, <1>2, <1>3, <1>7 DEF KoodeistaTiedossa, PyynnotRiveilta
  <2>6. RivitAjanTasalla'
    <3>1. ASSUME NEW i \in DOMAIN rivilista',
                 rivilista'[i].id \in DOMAIN koodikanta \ kulku.limittain
          PROVE  LET r == rivilista'[i] IN
                 /\ \/ SamaKoodi(r, koodikanta[r.id])
                    \/ \E q \in Vastatut(Koodintoimet) \ {p} : q.id = r.id
                 /\ \A q \in Vastatut(Koodintoimet) \ {p} : q.id = r.id =>
                      SamaKoodi(RivilleVastaus(r, q), koodikanta[r.id])
      <4>1. PICK j \in DOMAIN rivilista : rivilista'[i] = rivilista[j] /\ rivilista[j].id # p.id
        BY <1>3, <3>1
      <4>2. /\ \/ SamaKoodi(rivilista[j], koodikanta[rivilista[j].id])
               \/ \E q \in Vastatut(Koodintoimet) : q.id = rivilista[j].id
            /\ \A q \in Vastatut(Koodintoimet) : q.id = rivilista[j].id =>
                 SamaKoodi(RivilleVastaus(rivilista[j], q), koodikanta[rivilista[j].id])
        BY <1>2, <1>7, <3>1, <4>1 DEF KoodeistaTiedossa, RivitAjanTasalla
      <4> QED BY <4>1, <4>2
    <3> QED BY <1>1, <1>4, <3>1 DEF RivitAjanTasalla
  <2> QED BY <2>1, <2>2, <2>3, <2>4, <2>5, <2>6 DEF KoodeistaTiedossa
<1> QED BY <1>1, <1>5, <1>6, <1>7 DEF TunnusInv

\* A code changed is put onto its row
LEMMA MuutettuSaapuu ==
  ASSUME TunnusInv, NEW p \in koodipyynnot, p.toimi \notin {"luo", "poista"}, PyyntoValmis(p)
  PROVE  TunnusInv'
<1>1. /\ p.vastaus # EiMitaan /\ koodipyynnot' = koodipyynnot \ {p}
      /\ rivilista' = [i \in DOMAIN rivilista |-> RivilleVastaus(rivilista[i], p)]
      /\ UNCHANGED <<tunnushaku, koodikanta, kertatoimia, kulku>>
  BY DEF PyyntoValmis
<1>2. p \in Koodipyynto /\ p.toimi \in Koodintoimet /\ rivilista # EiMitaan
  BY Pyynnonlaji DEF TunnusInv, TunnustenTyypit, TunnuksetAnnettu
<1>3. ASSUME NEW i \in DOMAIN rivilista
      PROVE  /\ rivilista'[i] \in Tunnusrivityyppi /\ rivilista'[i] = RivilleVastaus(rivilista[i], p)
             /\ rivilista'[i].id = rivilista[i].id /\ rivilista'[i].olio = rivilista[i].olio
             /\ rivilista[i].id # p.id => rivilista'[i] = rivilista[i]
  <2>1. rivilista[i] \in Tunnusrivityyppi /\ rivilista'[i] = RivilleVastaus(rivilista[i], p)
    BY <1>1, <1>2, Rivilista
  <2> QED BY <1>1, <1>2, <2>1, RivilleVastausOikein
<1>4. rivilista' \in Seq(Tunnusrivityyppi) /\ DOMAIN rivilista' = DOMAIN rivilista
  <2>1. rivilista \in Seq(Tunnusrivityyppi)
    BY <1>2, Rivilista
  <2>2. rivilista' = [i \in DOMAIN rivilista |-> rivilista'[i]]
    BY <1>1
  <2> QED BY <1>3, <2>1, <2>2, Kohdittain
<1>5. rivilista' # EiMitaan
  BY <1>4, KyselykertasivuOletus
<1>6. /\ p \in Vastatut(Koodintoimet) /\ Vastatut(Koodintoimet)' = Vastatut(Koodintoimet) \ {p}
      /\ Vastatut({"luo"})' = Vastatut({"luo"}) /\ Vastatut({"poista"})' = Vastatut({"poista"})
  BY <1>1, <1>2, MuutVastaukset
<1>7. TunnustenTyypit'
  BY <1>1, <1>4 DEF TunnusInv, TunnustenTyypit, Koodit
<1>8. TunnuksetAnnettu'
  BY <1>1, <1>2, <1>3, <1>4, <1>5 DEF TunnusInv, TunnuksetAnnettu
<1>9. ASSUME KoodeistaTiedossa PROVE KoodeistaTiedossa'
  <2>1. KoodihakuTuore'
    BY <1>1, <1>9 DEF KoodeistaTiedossa, KoodihakuTuore
  <2>2. LuodutErikseen'
    <3>1. \A i \in DOMAIN rivilista' : i \in DOMAIN rivilista /\ rivilista'[i].id = rivilista[i].id
      BY <1>3, <1>4
    <3> QED BY <1>1, <1>2, <1>6, <1>9, <3>1 DEF KoodeistaTiedossa, LuodutErikseen
  <2>3. PoistetutErikseen'
    BY <1>1, <1>6, <1>9 DEF KoodeistaTiedossa, PoistetutErikseen
  <2>4. RivitKoodeista'
    <3>1. Tulossa' = Tulossa /\ Lahdossa' = Lahdossa
      BY <1>6 DEF Tulossa, Lahdossa
    <3>2. Rivitunnukset(rivilista') = Rivitunnukset(rivilista)
      BY <1>3, <1>4 DEF Rivitunnukset
    <3>3. \A i, j \in DOMAIN rivilista' : i # j => rivilista'[i].id # rivilista'[j].id
      BY <1>2, <1>3, <1>4, <1>9 DEF KoodeistaTiedossa, RivitKoodeista
    <3> QED BY <1>1, <1>2, <1>9, <3>1, <3>2, <3>3 DEF KoodeistaTiedossa, RivitKoodeista
  <2>5. PyynnotRiveilta'
    BY <1>1, <1>2, <1>3, <1>4, <1>9 DEF KoodeistaTiedossa, PyynnotRiveilta
  <2>6. RivitAjanTasalla'
    <3>1. ASSUME NEW i \in DOMAIN rivilista,
                 rivilista[i].id \in DOMAIN koodikanta \ kulku.limittain
          PROVE  LET s == rivilista'[i]
                     d == rivilista[i].id
                 IN  /\ \/ SamaKoodi(s, koodikanta[d])
                        \/ \E q \in Vastatut(Koodintoimet) \ {p} : q.id = d
                     /\ \A q \in Vastatut(Koodintoimet) \ {p} : q.id = d =>
                          SamaKoodi(RivilleVastaus(s, q), koodikanta[d])
      <4> DEFINE d == rivilista[i].id
      <4>1. /\ SamaKoodi(rivilista[i], koodikanta[d]) \/ \E q \in Vastatut(Koodintoimet) : q.id = d
            /\ \A q \in Vastatut(Koodintoimet) : q.id = d =>
                 SamaKoodi(RivilleVastaus(rivilista[i], q), koodikanta[d])
        BY <1>2, <1>9, <3>1 DEF KoodeistaTiedossa, RivitAjanTasalla
      <4>2. CASE d # p.id
        BY <1>3, <4>1, <4>2
      <4>3. CASE d = p.id
        <5>1. \A q \in Vastatut(Koodintoimet) : q.id = d => q = p
          BY <1>2, <1>9, <3>1, <4>3 DEF KoodeistaTiedossa, PyynnotRiveilta, Vastatut
        <5>2. SamaKoodi(rivilista'[i], koodikanta[d])
          BY <1>3, <1>6, <4>1, <4>3
        <5> QED BY <5>1, <5>2
      <4> QED BY <4>2, <4>3
    <3> QED BY <1>1, <1>3, <1>4, <1>6, <3>1 DEF RivitAjanTasalla
  <2> QED BY <2>1, <2>2, <2>3, <2>4, <2>5, <2>6 DEF KoodeistaTiedossa
<1> QED BY <1>1, <1>7, <1>8, <1>9 DEF TunnusInv

\* Every step of the page
LEMMA TunnuksetSailyvat ==
  ASSUME TunnusInv, [KyselykertasivuNext]_kyselykerranMuuttujat PROVE TunnusInv'
<1>1. kertatoimia \in Nat /\ kertatoimia + 1 \in Nat /\ kulku \in Kulkutyyppi
  BY DEF TunnusInv, TunnustenTyypit
\* A step that leaves the codes, their requests and the list alone
<1>2. ASSUME UNCHANGED <<rivilista, tunnushaku, koodikanta, koodipyynnot>>,
             kertatoimia' \in {kertatoimia, kertatoimia + 1},
             kulku' = kulku \/ \E b \in BOOLEAN : kulku' = [kulku EXCEPT !.ohitus = b]
      PROVE  TunnusInv'
  <2>1. /\ kulku' \in Kulkutyyppi /\ kulku'.limittain = kulku.limittain
        /\ kulku'.annetut = kulku.annetut /\ kulku'.haussa = kulku.haussa
        /\ kulku'.katkos = kulku.katkos
    BY <1>1, <1>2 DEF Kulkutyyppi
  <2>2. PICK P : P = {}
    OBVIOUS
  <2>3. /\ P \in SUBSET koodipyynnot /\ \A p \in P : p.vastaus = EiMitaan
        /\ koodipyynnot' = koodipyynnot \ P /\ kertatoimia' \in Nat
        /\ UNCHANGED <<rivilista, tunnushaku, koodikanta>>
    BY <1>1, <1>2, <2>2
  <2> QED BY <2>1, <2>3, MuutSailyttavat
<1>3. CASE UNCHANGED kyselykerranMuuttujat
  BY <1>2, <1>3 DEF kyselykerranMuuttujat
<1>4. CASE KyselySaapui \/ KertaSaapui
  BY <1>2, <1>4 DEF KyselySaapui, KertaSaapui, Saapuu
<1>5. CASE MuutaKertaa \/ TallennaKerta \/ \E n \in kerranLahetykset : KertaTallennettu(n)
  BY <1>2, <1>5 DEF MuutaKertaa, TallennaKerta, KertaTallennettu, Kertatoimi
<1>6. CASE LuoTunnuksiaDialogi
  BY <1>2, <1>6 DEF LuoTunnuksiaDialogi, Kertatoimi
<1>7. CASE PeruutaDialogi
  BY <1>2, <1>7 DEF PeruutaDialogi, Dialogissa
<1>8. CASE \/ \E j \in DOMAIN Koulut : ValitseJarjestaja(j)
           \/ \E o \in dialogi.oppilaitokset : ValitseOppilaitos(o)
  BY <1>2, <1>8 DEF ValitseJarjestaja, ValitseOppilaitos, Dialogissa, Kertatoimi
<1>9. ASSUME NEW h \in kouluhaut, OppilaitoksetTulivat(h) PROVE TunnusInv'
  <2>1. kulku' = [kulku EXCEPT !.ohitus = TRUE]
        \/ kulku' = [kulku EXCEPT !.ohitus = @ \/ \E g \in kouluhaut : g.nro < h.nro]
    BY <1>9 DEF OppilaitoksetTulivat
  <2>2. \E b \in BOOLEAN : kulku' = [kulku EXCEPT !.ohitus = b]
    <3>1. CASE kulku' = [kulku EXCEPT !.ohitus = TRUE]
      BY <3>1
    <3>2. CASE kulku' = [kulku EXCEPT !.ohitus = @ \/ \E g \in kouluhaut : g.nro < h.nro]
      <4> DEFINE b == kulku.ohitus \/ \E g \in kouluhaut : g.nro < h.nro
      <4>1. b \in BOOLEAN /\ kulku' = [kulku EXCEPT !.ohitus = b]
        BY <3>2
      <4> HIDE DEF b
      <4> QED BY <4>1
    <3> QED BY <2>1, <3>1, <3>2
  <2> QED BY <1>2, <1>9, <2>2 DEF OppilaitoksetTulivat, Dialogissa
<1>10. ASSUME TunnuksenToimi PROVE TunnusInv'
  <2>1. PICK i \in DOMAIN rivilista : \/ MuokkaaVastaajienMaaraa(rivilista[i])
                                      \/ PoistaTunnus(rivilista[i])
                                      \/ LukitseTunnus(rivilista[i])
    BY <1>10 DEF TunnuksenToimi
  <2>2. PICK toimi \in Koodintoimet, arvo \in Nat : PyydaTunnuksesta(toimi, rivilista[i], arvo)
    <3>1. CASE MuokkaaVastaajienMaaraa(rivilista[i])
      <4>1. PICK n \in 1 .. MaxVastaajia : PyydaTunnuksesta("maara", rivilista[i], n)
        BY <3>1 DEF MuokkaaVastaajienMaaraa
      <4>2. n \in Nat /\ "maara" \in Koodintoimet
        BY KyselykertasivuOletus DEF Koodintoimet
      <4> QED BY <4>1, <4>2
    <3>2. CASE PoistaTunnus(rivilista[i])
      <4>1. PyydaTunnuksesta("poista", rivilista[i], 0) /\ "poista" \in Koodintoimet
        BY <3>2 DEF PoistaTunnus, Koodintoimet
      <4> QED BY <4>1
    <3>3. CASE LukitseTunnus(rivilista[i])
      <4> DEFINE toimi == IF rivilista[i].lukittu THEN "avaa" ELSE "lukitse"
      <4>1. PyydaTunnuksesta(toimi, rivilista[i], 0) /\ toimi \in Koodintoimet
        BY <3>3 DEF LukitseTunnus, Koodintoimet
      <4> HIDE DEF toimi
      <4> QED BY <4>1
    <3> QED BY <2>1, <3>1, <3>2, <3>3
  <2>3. rivilista # EiMitaan
    BY <1>10 DEF TunnuksenToimi
  <2> QED BY <2>2, <2>3, PyyntoSailyttaaTunnukset
<1>11. ASSUME NEW p \in koodipyynnot, PyyntoKatkeaa(p) PROVE TunnusInv'
  <2>1. /\ koodipyynnot' = koodipyynnot \ {p} /\ kertatoimia' \in Nat
        /\ UNCHANGED <<rivilista, tunnushaku, koodikanta>>
        /\ kulku' = [kulku EXCEPT !.katkos = @ \/ p.vastaus # EiMitaan]
    BY <1>1, <1>11 DEF PyyntoKatkeaa
  <2>2. /\ kulku' \in Kulkutyyppi /\ kulku'.limittain = kulku.limittain
        /\ kulku'.annetut = kulku.annetut /\ kulku'.haussa = kulku.haussa
        /\ kulku'.katkos = (kulku.katkos \/ p.vastaus # EiMitaan)
    BY <1>1, <2>1 DEF Kulkutyyppi
  <2> QED BY <2>1, <2>2, MuutSailyttavat
<1>12. ASSUME NEW p \in koodipyynnot, PyyntoValmis(p) PROVE TunnusInv'
  BY <1>12, LuodutSaapuvat, PoistettuPoistuu, MuutettuSaapuu
<1> QED BY <1>3, <1>4, <1>5, <1>6, <1>7, <1>8, <1>9, <1>10, <1>11, <1>12, HakuSaapuu,
           LuontiSailyttaaTunnukset, TyoTehty, LuontiTehty, VastaajaSailyttaa
        DEF KyselykertasivuNext

\* When the requests have been answered the list has the codes the server has,
\* each once, with their numbers and locks
THEOREM TunnuksetAinaKannasta == Spec => []TunnuksetKannasta
<1>1. Init => TunnusInv
  BY TunnusAlku DEF Init
<1>2. TunnusInv /\ [Next]_muuttujat => TunnusInv'
  BY KertasivunAskel, TunnuksetSailyvat
<1>3. TunnusInv => TunnuksetKannasta
  <2> SUFFICES ASSUME TunnusInv, koodipyynnot = {}, rivilista # EiMitaan, ~kulku.katkos, ~kulku.haussa
               PROVE  /\ Rivitunnukset(rivilista) = DOMAIN koodikanta
                      /\ Len(rivilista) = Cardinality(DOMAIN koodikanta)
                      /\ \A i \in DOMAIN rivilista : rivilista[i].id \notin kulku.limittain =>
                           SamaKoodi(rivilista[i], koodikanta[rivilista[i].id])
    BY DEF TunnuksetKannasta, Rivitunnukset, SamaKoodi
  <2>1. KoodeistaTiedossa
    BY DEF TunnusInv
  <2>2. \A laji : Vastatut(laji) = {}
    BY DEF Vastatut
  <2>3. Tulossa = {} /\ Lahdossa = {}
    BY <2>2 DEF Tulossa, Lahdossa
  <2>4. /\ Rivitunnukset(rivilista) = DOMAIN koodikanta
        /\ \A i, j \in DOMAIN rivilista : i # j => rivilista[i].id # rivilista[j].id
    BY <2>1, <2>3 DEF KoodeistaTiedossa, RivitKoodeista
  <2>5. Len(rivilista) = Cardinality(DOMAIN koodikanta)
    <3> DEFINE n == Len(rivilista)
               f == [i \in 1 .. n |-> rivilista[i].id]
    <3>1. n \in Nat /\ DOMAIN rivilista = 1 .. n
      BY Rivilista
    <3>2. f \in [1 .. n -> DOMAIN koodikanta]
      BY <2>4, <3>1 DEF Rivitunnukset
    <3>3. \A d \in DOMAIN koodikanta : \E i \in 1 .. n : f[i] = d
      BY <2>4, <3>1 DEF Rivitunnukset
    <3>4. \A i, j \in 1 .. n : f[i] = f[j] => i = j
      BY <2>4, <3>1
    <3> HIDE DEF n, f
    <3>5. f \in Surjection(1 .. n, DOMAIN koodikanta)
      BY <3>2, <3>3 DEF Surjection
    <3>6. f \in Injection(1 .. n, DOMAIN koodikanta)
      <4>1. DOMAIN f = 1 .. n
        BY <3>2
      <4> QED BY <3>2, <3>4, <4>1 DEF Injection, IsInjective
    <3>7. IsFiniteSet(1 .. n) /\ Cardinality(1 .. n) = n
      BY <3>1, FS_Interval
    <3> QED BY <3>5, <3>6, <3>7, FS_Surjection DEF n
  <2>6. \A i \in DOMAIN rivilista : rivilista[i].id \notin kulku.limittain =>
          SamaKoodi(rivilista[i], koodikanta[rivilista[i].id])
    BY <2>1, <2>2, <2>4 DEF KoodeistaTiedossa, RivitAjanTasalla, Rivitunnukset
  <2> QED BY <2>4, <2>5, <2>6
<1> QED BY <1>1, <1>2, <1>3, PTL DEF Spec
=============================================================================
