--------------------------- MODULE RaporttiProofs ---------------------------
(***************************************************************************)
(* Proofs about the report page, for any data the server may hold and any  *)
(* number of requests in flight.                                           *)
(***************************************************************************)
EXTENDS Raporttisivu, FiniteSetTheorems, TLAPS

(***************************************************************************)
(* Types                                                                   *)
(***************************************************************************)

\* What the browser may assume of the server
LEMMA AineistonOletukset ==
  ASSUME RaporttisivuOK
  PROVE  /\ MaxHaut \in Nat /\ aineisto.raportteja \in Nat
         /\ aineisto.valilehdet \subseteq Valilehdet
         /\ aineisto.alku \in aineisto.valilehdet
         /\ Ei \notin Kohteista /\ Ei \notin aineisto.ryhmat
  BY AineistoOletus DEF RaporttisivuOK, Kohteista

\* A request joins its queue
LEMMA JonoonTyyppi ==
  ASSUME RaporttisivuOK, aineisto' = aineisto, NEW x,
         \/ Jonoon("tiedot", x) /\ x \in Kohteista
         \/ Jonoon("taustat", x) /\ x \in aineisto.ryhmat
  PROVE  JonotOK'
<1> USE DEF RaporttisivuOK, JonotOK, Jonoon, Jonotyyppi, Muistityyppi, Kohteista
<1>1. CASE Jonoon("tiedot", x) /\ x \in Kohteista
  <2>1. /\ Append(jonot.tiedot, x) \in Seq(Kohteista)
        /\ Len(Append(jonot.tiedot, x)) <= MaxHaut
    BY <1>1, AineistonOletukset
  <2>2. jonot' = [jonot EXCEPT !.tiedot = Append(jonot.tiedot, x)]
    BY <1>1
  <2>3. muisti' \in Muistityyppi
    BY <1>1
  <2> QED BY <2>1, <2>2, <2>3
<1>2. CASE Jonoon("taustat", x) /\ x \in aineisto.ryhmat
  <2>1. /\ Append(jonot.taustat, x) \in Seq(aineisto.ryhmat)
        /\ Len(Append(jonot.taustat, x)) <= MaxHaut
    BY <1>2, AineistonOletukset
  <2>2. jonot' = [jonot EXCEPT !.taustat = Append(jonot.taustat, x)]
    BY <1>2
  <2>3. muisti' \in Muistityyppi
    BY <1>2
  <2> QED BY <2>1, <2>2, <2>3
<1> QED BY <1>1, <1>2

\* Of a sequence without its i:th element
LEMMA RemoveAtSeq ==
  ASSUME NEW S, NEW s \in Seq(S), NEW i \in DOMAIN s
  PROVE  /\ RemoveAt(s, i) \in Seq(S)
         /\ Len(RemoveAt(s, i)) = Len(s) - 1
         /\ RemoveAt(s, 1) # <<>> => Last(RemoveAt(s, 1)) = Last(s)
         /\ RemoveAt(s, 1) = <<>> => Last(s) = s[1]
<1> DEFINE alku == SubSeq(s, 1, i - 1)
           loppu == SubSeq(s, i + 1, Len(s))
<1>1. /\ alku \in Seq(S) /\ Len(alku) = i - 1
      /\ loppu \in Seq(S) /\ Len(loppu) = Len(s) - i
  OBVIOUS
<1> HIDE DEF alku, loppu
<1>2. alku \o loppu \in Seq(S) /\ Len(alku \o loppu) = Len(s) - 1
  BY <1>1
<1>3. RemoveAt(s, i) = alku \o loppu
  BY DEF RemoveAt, alku, loppu
<1>4. SubSeq(s, 1, 1 - 1) = <<>>
  OBVIOUS
<1>5. RemoveAt(s, 1) = SubSeq(s, 2, Len(s))
  BY <1>4 DEF RemoveAt
<1> QED BY <1>2, <1>3, <1>5 DEF Last

\* A request leaves its queue
LEMMA JonostaTyyppi ==
  ASSUME RaporttisivuOK, aineisto' = aineisto, NEW i, NEW onnistui \in BOOLEAN,
         \/ Jonosta("tiedot", i, onnistui) /\ i \in DOMAIN jonot.tiedot
         \/ Jonosta("taustat", i, onnistui) /\ i \in DOMAIN jonot.taustat
  PROVE  JonotOK'
<1> USE DEF RaporttisivuOK, JonotOK, Jonosta, Jonotyyppi, Muistityyppi, Kohteista
<1>1. CASE Jonosta("tiedot", i, onnistui) /\ i \in DOMAIN jonot.tiedot
  <2>1. /\ RemoveAt(jonot.tiedot, i) \in Seq(Kohteista)
        /\ Len(RemoveAt(jonot.tiedot, i)) <= MaxHaut
    BY <1>1, AineistonOletukset, RemoveAtSeq
  <2>2. jonot' = [jonot EXCEPT !.tiedot = RemoveAt(jonot.tiedot, i)]
    BY <1>1
  <2>3. muisti' \in Muistityyppi
    BY <1>1
  <2> QED BY <2>1, <2>2, <2>3
<1>2. CASE Jonosta("taustat", i, onnistui) /\ i \in DOMAIN jonot.taustat
  <2>1. /\ RemoveAt(jonot.taustat, i) \in Seq(aineisto.ryhmat)
        /\ Len(RemoveAt(jonot.taustat, i)) <= MaxHaut
    BY <1>2, AineistonOletukset, RemoveAtSeq, SMTT(15)
  <2>2. jonot' = [jonot EXCEPT !.taustat = RemoveAt(jonot.taustat, i)]
    BY <1>2
  <2>3. muisti' \in Muistityyppi
    BY <1>2
  <2> QED BY <2>1, <2>2, <2>3
<1> QED BY <1>1, <1>2

\* Clearing the fields empties the three levels and leaves the other lists
LEMMA TyhjaaTyyppi ==
  ASSUME NEW A, NEW v, NEW S, v \in [S -> SUBSET A], Tasot \subseteq S
  PROVE  /\ TyhjaaAlat(v) \in [S -> SUBSET A]
         /\ \A t \in S : TyhjaaAlat(v)[t] = IF t \in Tasot THEN {} ELSE v[t]
         /\ PoistaTutkintoValinnat(v) \in [S -> SUBSET A]
         /\ \A t \in S : PoistaTutkintoValinnat(v)[t] = IF t = "tutkinto" THEN {} ELSE v[t]
  BY DEF TyhjaaAlat, PoistaKoulutusalaValinnat, PoistaOpintoalaValinnat,
         PoistaTutkintoValinnat, Tasot

\* The page starts with what the server holds
LEMMA AlkuTyyppi == Init => RaporttisivuOK
<1> SUFFICES ASSUME Init PROVE RaporttisivuOK
  OBVIOUS
<1>1. /\ MaxHaut \in Nat /\ aineisto.raportteja \in Nat
      /\ aineisto.valilehdet \subseteq Valilehdet
      /\ aineisto.alku \in aineisto.valilehdet
  BY AineistoOletus DEF Init
<1>2. Valilehti = aineisto.alku
  BY <1>1 DEF Init, Valilehti, Valilehdet
<1>3. raportti \in Raporttityyppi
  BY <1>1 DEF Init, Raporttityyppi, Tyypit, Tasot
<1>4. merkityt \in Merkkityyppi
  BY DEF Init, Merkkityyppi
<1>5. ValinnatOK
  BY <1>1, <1>2, <1>3, <1>4 DEF Init, ValinnatOK
<1>6. HautOK
  BY <1>1 DEF Init, HautOK, Taustatyyppi
<1>7. JonotOK
  BY <1>1 DEF Init, JonotOK, Jonotyyppi, Muistityyppi
<1>8. RaportitOK
  BY <1>1 DEF Init, SeurantaInit, RaportitOK
<1> QED
  BY <1>5, <1>6, <1>7, <1>8 DEF Init, RaporttisivuOK

\* The types change with the data only
LEMMA Samat ==
  ASSUME aineisto' = aineisto
  PROVE  /\ Alat' = Alat /\ Kohteista' = Kohteista /\ Jarjestajat' = Jarjestajat
         /\ Raporttityyppi' = Raporttityyppi /\ Merkkityyppi' = Merkkityyppi
         /\ Taustatyyppi' = Taustatyyppi
         /\ Jonotyyppi' = Jonotyyppi /\ Muistityyppi' = Muistityyppi
  BY DEF Alat, Kohteista, Jarjestajat, Raporttityyppi, Merkkityyppi, Taustatyyppi,
         Jonotyyppi, Muistityyppi

\* Unchanged parts of the state keep their types
LEMMA ValinnatEnnallaan ==
  ASSUME ValinnatOK, UNCHANGED <<aineisto, raportti, merkityt, suodatin>> PROVE ValinnatOK'
  BY Samat DEF ValinnatOK, Valilehti
\* A step that touches no organiser and no survey leaves the searches consistent
LEMMA HautEnnallaan ==
  ASSUME HautOK, UNCHANGED <<aineisto, oppilaitokset, koulumerkit, oppilaitoshaut, tiedot, taustat>>
  PROVE  HautOK'
  BY Samat DEF HautOK
\* A step that touches no queue leaves both queues consistent
LEMMA JonotEnnallaan ==
  ASSUME JonotOK, UNCHANGED <<aineisto, jonot, muisti>> PROVE JonotOK'
  BY Samat DEF JonotOK
\* A step that touches no report request leaves the requests consistent
LEMMA RaportitEnnallaan ==
  ASSUME RaportitOK, UNCHANGED <<aineisto, raportinMuuttujat>> PROVE RaportitOK'
  BY DEF RaportitOK, raportinMuuttujat

\* Every step of the page keeps the types
LEMMA AskelTyyppi == RaporttisivuOK /\ [Next]_muuttujat => RaporttisivuOK'
<1> SUFFICES ASSUME RaporttisivuOK, [Next]_muuttujat PROVE RaporttisivuOK'
  OBVIOUS
<1> USE DEF haunMuuttujat, Valilehti
<1>0. /\ aineisto' = aineisto /\ ladattu' \subseteq aineisto.listat
      /\ ValinnatOK /\ HautOK /\ JonotOK /\ RaportitOK
  BY DEF RaporttisivuOK, muuttujat, Next, Lataa, VaihdaTyyppi, VaihdaTaso, Valitse,
    VaihdaEiTutkintoa, VaihdaKetjutus, VaihdaKoulutustoimija, OppilaitoksetSaapuvat,
    VaihdaOppilaitos, Suodata, ValitseKohde, TiedotSaapuvat, VaihdaJarjestaja,
    ValitseTaustaryhma, TaustatSaapuvat, MerkitseVaihtoehto, MuodostaRaportti,
    RaporttiVastaus, RaporttiSaapuu, RaporttiEpaonnistuu
<1> SUFFICES ValinnatOK' /\ HautOK' /\ JonotOK' /\ RaportitOK'
  BY <1>0 DEF RaporttisivuOK
<1> USE <1>0, Samat, ValinnatEnnallaan, HautEnnallaan, JonotEnnallaan, RaportitEnnallaan,
        AineistonOletukset
<1> DEFINE Hyva == ValinnatOK' /\ HautOK' /\ JonotOK' /\ RaportitOK'
<1>1. CASE UNCHANGED muuttujat
  BY <1>1 DEF muuttujat
<1>2. ASSUME NEW lista \in Listat, Lataa(lista) PROVE Hyva
  <2>1. JonotOK'
    BY <1>2, JonoonTyyppi DEF Lataa
  <2>2. ValinnatOK'
    BY <1>2 DEF Lataa, ValinnatOK, Raporttityyppi
  <2> QED BY <1>2, <2>1, <2>2 DEF Lataa
<1>3. ASSUME NEW tyyppi \in Valilehdet, VaihdaTyyppi(tyyppi) PROVE Hyva
  <2>1. raportti' \in Raporttityyppi
    BY <1>3, TyhjaaTyyppi, ZenonT(30) DEF VaihdaTyyppi, PoistaKyselyValinnat, PoistaKyselykertaValinnat,
       ValinnatOK, Raporttityyppi, Tyypit, Tasot
  <2>2. merkityt' \in Merkkityyppi
    BY <1>3, TyhjaaTyyppi DEF VaihdaTyyppi, ValinnatOK, Merkkityyppi, Kentat
  <2>3. Valilehti' \in aineisto.valilehdet
    BY <1>3 DEF VaihdaTyyppi, PoistaKyselyValinnat, PoistaKyselykertaValinnat,
       ValinnatOK, Raporttityyppi, Valilehdet
  <2>4. HautOK'
    BY <1>3 DEF VaihdaTyyppi, HautOK, Taustatyyppi
  <2> QED BY <1>3, <2>1, <2>2, <2>3, <2>4 DEF VaihdaTyyppi, ValinnatOK
<1>4. ASSUME NEW taso \in Tasot, VaihdaTaso(taso) PROVE Hyva
  <2>1. ValinnatOK'
    BY <1>4 DEF VaihdaTaso, ValinnatOK, Raporttityyppi
  <2> QED BY <1>4, <2>1 DEF VaihdaTaso
<1>5. ASSUME NEW taso \in Tasot, NEW x \in aineisto.alat[taso], Valitse(taso, x) PROVE Hyva
  <2>1. x \in Alat
    BY DEF Alat
  <2>2. /\ Xor(Aiemmat(raportti.valitut, taso, x), x) \subseteq Alat
        /\ Xor(Aiemmat(merkityt, taso, x), x)
             \subseteq Alat \cup aineisto.koulutustoimijat \cup Kohteista
    BY <2>1 DEF Aiemmat, Xor, ValinnatOK, Raporttityyppi, Merkkityyppi
  <2>3. raportti' \in Raporttityyppi /\ raportti'.tyyppi = raportti.tyyppi
    BY <1>5, <2>2 DEF Valitse, ValinnatOK, Raporttityyppi
  <2>4. merkityt' \in Merkkityyppi
    BY <1>5, <2>2 DEF Valitse, ValinnatOK, Merkkityyppi
  <2> QED BY <1>5, <2>3, <2>4 DEF Valitse, ValinnatOK
<1>6. CASE VaihdaEiTutkintoa
  <2>1. raportti' \in Raporttityyppi /\ raportti'.tyyppi = raportti.tyyppi
    BY <1>6, TyhjaaTyyppi DEF VaihdaEiTutkintoa, ValinnatOK, Raporttityyppi
  <2>2. merkityt' \in Merkkityyppi
    BY <1>6 DEF VaihdaEiTutkintoa, PoistaTutkintoValinnat, ValinnatOK, Merkkityyppi
  <2> QED BY <1>6, <2>1, <2>2 DEF VaihdaEiTutkintoa, ValinnatOK
<1>7. CASE VaihdaKetjutus
  <2>1. ValinnatOK'
    BY <1>7 DEF VaihdaKetjutus, ValinnatOK, Raporttityyppi, Tyypit
  <2> QED BY <1>7, <2>1 DEF VaihdaKetjutus
<1>8. ASSUME NEW k \in aineisto.koulutustoimijat, VaihdaKoulutustoimija(k) PROVE Hyva
  <2>1. raportti' \in Raporttityyppi /\ raportti'.tyyppi = raportti.tyyppi
    BY <1>8 DEF VaihdaKoulutustoimija, Xor, ValinnatOK, Raporttityyppi
  <2>2. merkityt' \in Merkkityyppi
    BY <1>8 DEF VaihdaKoulutustoimija, ValinnatOK, Merkkityyppi
  <2>3. HautOK'
    BY <1>8 DEF VaihdaKoulutustoimija, HautOK
  <2>4. JonotOK'
    BY <1>8 DEF VaihdaKoulutustoimija, JonotOK, Muistityyppi
  <2> QED BY <1>8, <2>1, <2>2, <2>3, <2>4 DEF VaihdaKoulutustoimija, ValinnatOK
<1>9. ASSUME NEW k \in aineisto.koulutustoimijat, OppilaitoksetSaapuvat(k) PROVE Hyva
  <2>1. HautOK'
    BY <1>9 DEF OppilaitoksetSaapuvat, HautOK
  <2>2. JonotOK'
    BY <1>9 DEF OppilaitoksetSaapuvat, JonotOK, Muistityyppi
  <2> QED BY <1>9, <2>1, <2>2 DEF OppilaitoksetSaapuvat
<1>10. ASSUME NEW k \in aineisto.koulutustoimijat, NEW i \in 1 .. oppilaitokset[k],
              VaihdaOppilaitos(k, i)
       PROVE  Hyva
  <2>1. ValinnatOK'
    BY <1>10 DEF VaihdaOppilaitos, Xor, ValinnatOK, Raporttityyppi
  <2>2. i \in Nat \ {0}
    BY DEF HautOK
  <2>3. koulumerkit' \in [aineisto.koulutustoimijat -> SUBSET (Nat \ {0})]
    BY <1>10, <2>2 DEF VaihdaOppilaitos, HautOK
  <2>4. HautOK'
    BY <1>10, <2>3 DEF VaihdaOppilaitos, HautOK
  <2> QED BY <1>10, <2>1, <2>4 DEF VaihdaOppilaitos
<1>11. ASSUME NEW f \in Kentat, NEW tila \in {"auki", "kiinni", "kaikki"}, Suodata(f, tila)
       PROVE  Hyva
  <2>1. ValinnatOK'
    BY <1>11 DEF Suodata, ValinnatOK
  <2> QED BY <1>11, <2>1 DEF Suodata
<1>12. ASSUME NEW f \in Kentat, NEW x \in Kohteet(f), ValitseKohde(f, x) PROVE Hyva
  <2>1. x \in Kohteista /\ (f = "kyselyid" => x \in aineisto.kyselyt)
        /\ (f = "kyselykertaid" => x \in aineisto.kyselykerrat)
    BY DEF Kohteet, Kohteista, Kentat
  <2>2. raportti' \in Raporttityyppi /\ raportti'.tyyppi = raportti.tyyppi
    <3>1. CASE f = "kyselyid"
      <4>1. \/ raportti' = [raportti EXCEPT !.kyselyid = Ei]
            \/ raportti' = [raportti EXCEPT !.kyselyid = x, !.jarjestajat = {}, !.jakso = x]
        BY <1>12, <3>1 DEF ValitseKohde
      <4>2. CASE raportti' = [raportti EXCEPT !.kyselyid = Ei]
        BY <4>2 DEF ValinnatOK, Raporttityyppi
      <4>3. CASE raportti' = [raportti EXCEPT !.kyselyid = x, !.jarjestajat = {}, !.jakso = x]
        BY <2>1, <3>1, <4>3 DEF ValinnatOK, Raporttityyppi
      <4> QED BY <4>1, <4>2, <4>3
    <3>2. CASE f = "kyselykertaid"
      <4>1. \/ raportti' = [raportti EXCEPT !.kyselykertaid = Ei]
            \/ raportti' = [raportti EXCEPT !.kyselykertaid = x, !.jarjestajat = {}, !.jakso = x]
        BY <1>12, <3>2 DEF ValitseKohde
      <4>2. CASE raportti' = [raportti EXCEPT !.kyselykertaid = Ei]
        BY <4>2 DEF ValinnatOK, Raporttityyppi
      <4>3. CASE raportti' = [raportti EXCEPT !.kyselykertaid = x, !.jarjestajat = {}, !.jakso = x]
        BY <2>1, <3>2, <4>3 DEF ValinnatOK, Raporttityyppi
      <4> QED BY <4>1, <4>2, <4>3
    <3> QED BY <3>1, <3>2 DEF Kentat
  <2>3. merkityt' \in Merkkityyppi
    <3>1. CASE x \in merkityt[f]
      BY <1>12, <2>1, <3>1, ZenonT(30) DEF ValitseKohde, ValinnatOK, Merkkityyppi
    <3>2. CASE x \notin merkityt[f]
      <4>1. {x} \subseteq Alat \cup aineisto.koulutustoimijat \cup Kohteista
        BY <2>1
      <4>2. merkityt' = [merkityt EXCEPT ![f] = {x}]
        BY <1>12, <3>2 DEF ValitseKohde
      <4> QED BY <4>1, <4>2 DEF ValinnatOK, Merkkityyppi
    <3> QED BY <3>1, <3>2
  <2>4. HautOK'
    BY <1>12 DEF ValitseKohde, HautOK
  <2>5. JonotOK'
    BY <1>12, <2>1, JonoonTyyppi DEF ValitseKohde
  <2> QED BY <1>12, <2>2, <2>3, <2>4, <2>5 DEF ValitseKohde, ValinnatOK
<1>13. ASSUME NEW i \in DOMAIN jonot.tiedot, TiedotSaapuvat(i) PROVE Hyva
  <2>1. jonot.tiedot[i] \in Kohteista
    BY DEF JonotOK, Jonotyyppi
  <2>2. HautOK'
    BY <1>13, <2>1 DEF TiedotSaapuvat, HautOK
  <2>3. JonotOK'
    BY <1>13, JonostaTyyppi DEF TiedotSaapuvat
  <2> QED BY <1>13, <2>2, <2>3 DEF TiedotSaapuvat
<1>14. ASSUME NEW j \in Jarjestajat, VaihdaJarjestaja(j) PROVE Hyva
  <2>1. ValinnatOK'
    BY <1>14 DEF VaihdaJarjestaja, Xor, ValinnatOK, Raporttityyppi
  <2> QED BY <1>14, <2>1 DEF VaihdaJarjestaja
<1>15. ASSUME NEW g \in aineisto.ryhmat, ValitseTaustaryhma(g) PROVE Hyva
  <2>1. ValinnatOK'
    BY <1>15 DEF ValitseTaustaryhma, ValinnatOK, Raporttityyppi
  <2>2. JonotOK'
    BY <1>15, JonoonTyyppi DEF ValitseTaustaryhma
  <2> QED BY <1>15, <2>1, <2>2 DEF ValitseTaustaryhma
<1>16. ASSUME NEW i \in DOMAIN jonot.taustat, TaustatSaapuvat(i) PROVE Hyva
  <2>1. jonot.taustat[i] \in aineisto.ryhmat
    BY DEF JonotOK, Jonotyyppi
  <2>2. HautOK'
    BY <1>16, <2>1 DEF TaustatSaapuvat, HautOK, Taustatyyppi
  <2>3. JonotOK'
    BY <1>16, JonostaTyyppi DEF TaustatSaapuvat
  <2> QED BY <1>16, <2>2, <2>3 DEF TaustatSaapuvat
<1>17. ASSUME NEW v \in aineisto.vaihtoehdot, MerkitseVaihtoehto(v) PROVE Hyva
  <2>1. HautOK'
    BY <1>17 DEF MerkitseVaihtoehto, Xor, HautOK, Taustatyyppi
  <2> QED BY <1>17, <2>1 DEF MerkitseVaihtoehto
<1>18. CASE MuodostaRaportti
  <2>1. lahetetty' = lahetetty + 1 /\ lahetetty' \in 0 .. aineisto.raportteja
    BY <1>18 DEF MuodostaRaportti, RaportitOK
  <2>2. lataus' \in [MetodiIdt -> [valmis : BOOLEAN, ok : BOOLEAN]] /\ virheessa' = virheessa
    BY <1>18 DEF MuodostaRaportti, AsetaLatausIndikaattori, RaportitOK
  <2>3. naytto' \in [tulos : 0 .. lahetetty', raportit : 0 .. lahetetty']
    BY <1>18, <2>1 DEF MuodostaRaportti, RaportitOK
  <2>4. Palvelu \in Kyselytyypit \cup {"valtakunnallinen"}
    BY DEF Palvelu
  <2>5. raporttihaut' \subseteq
          [nro : 1 .. lahetetty', palvelu : Kyselytyypit \cup {"valtakunnallinen"}]
    BY <1>18, <2>1, <2>4 DEF MuodostaRaportti, RaportitOK
  <2>6. RaportitOK'
    BY <2>1, <2>2, <2>3, <2>5 DEF RaportitOK
  <2> QED BY <1>18, <2>6 DEF MuodostaRaportti
<1>19. CASE RaporttiVastaus
  <2>1. PICK haku \in raporttihaut : RaporttiSaapuu(haku) \/ RaporttiEpaonnistuu(haku)
    BY <1>19 DEF RaporttiVastaus
  <2>2. haku.nro \in 1 .. lahetetty
    BY DEF RaportitOK
  <2>3. /\ lahetetty' = lahetetty /\ raporttihaut' \subseteq raporttihaut
        /\ naytto' \in [tulos : 0 .. lahetetty, raportit : 0 .. lahetetty]
    <3>1. CASE RaporttiSaapuu(haku)
      BY <2>2, <3>1 DEF RaporttiSaapuu, RaportitOK
    <3>2. CASE RaporttiEpaonnistuu(haku)
      BY <3>2 DEF RaporttiEpaonnistuu, RaportitOK
    <3> QED BY <2>1, <3>1, <3>2
  <2>4. /\ lataus' \in [MetodiIdt -> [valmis : BOOLEAN, ok : BOOLEAN]]
        /\ virheessa' \subseteq Ilmaisimet
    <3>1. CASE RaporttiSaapuu(haku)
      BY <3>1 DEF RaporttiSaapuu, PyyntoOnnistui, RaportitOK
    <3>2. CASE RaporttiEpaonnistuu(haku)
      BY <3>2 DEF RaporttiEpaonnistuu, PyyntoEpaonnistui, RaportitOK
    <3> QED BY <2>1, <3>1, <3>2
  <2>5. RaportitOK'
    BY <2>3, <2>4 DEF RaportitOK
  <2> QED BY <2>1, <2>5 DEF RaporttiSaapuu, RaporttiEpaonnistuu
<1> QED
  BY <1>1, <1>2, <1>3, <1>4, <1>5, <1>6, <1>7, <1>8, <1>9, <1>10, <1>11, <1>12, <1>13,
     <1>14, <1>15, <1>16, <1>17, <1>18, <1>19 DEF Next

\* Every part of the page's state has its shape, whatever the server holds
THEOREM RaporttisivuTyypit == Spec => []RaporttisivuOK
  BY AlkuTyyppi, AskelTyyppi, PTL DEF Spec

(***************************************************************************)
(* Choices.  What is shown chosen, what one report may take and what a tab *)
(* allows hold together: a level is emptied in both or in neither, and the *)
(* limit of one degree is kept by looking at what is shown.                *)
(***************************************************************************)
ValinnatKunnossa == ListatVastaavat /\ YksiTutkinto /\ TyypinRajaukset

\* Organisers, schools and background questions are no part of it
LEMMA MuutKentat ==
  ASSUME ValinnatKunnossa, UNCHANGED <<raportti.tyyppi, raportti.taso, raportti.valitut,
           raportti.jarjestajat, raportti.kyselyid, raportti.kyselykertaid,
           raportti.jakso, raportti.eiTutkintoa>>,
         \A l \in Tasot \cup Kentat : merkityt'[l] = merkityt[l],
         merkityt'["koulutustoimijat"] = raportti'.koulutustoimijat
  PROVE  ValinnatKunnossa'
  BY DEF ValinnatKunnossa, ListatVastaavat, YksiTutkinto, TyypinRajaukset, Kohde, Kentat

\* A step keeps them
LEMMA ValinnatAskel ==
  ASSUME RaporttisivuOK, ValinnatKunnossa, [Next]_muuttujat
  PROVE  ValinnatKunnossa'
<1> USE DEF haunMuuttujat
<1>0. ValinnatOK /\ raportti \in Raporttityyppi /\ merkityt \in Merkkityyppi
  BY DEF RaporttisivuOK, ValinnatOK
<1>1. CASE UNCHANGED <<raportti, merkityt>>
  BY <1>1, MuutKentat DEF ValinnatKunnossa, ListatVastaavat
<1>2. ASSUME NEW lista \in Listat, Lataa(lista) PROVE ValinnatKunnossa'
  BY <1>0, <1>2, MuutKentat DEF Lataa, Raporttityyppi, ValinnatKunnossa, ListatVastaavat
<1>3. ASSUME NEW tyyppi \in Valilehdet, VaihdaTyyppi(tyyppi) PROVE ValinnatKunnossa'
  <2>1. /\ raportti'.tyyppi = tyyppi /\ raportti'.kyselyid = Ei /\ raportti'.kyselykertaid = Ei
        /\ raportti'.jarjestajat = {} /\ raportti'.jakso = Ei
        /\ raportti'.eiTutkintoa = raportti.eiTutkintoa
        /\ raportti'.koulutustoimijat = raportti.koulutustoimijat
        /\ tyyppi \in Kyselytyypit => raportti'.taso = "tutkinto"
    BY <1>0, <1>3 DEF VaihdaTyyppi, PoistaKyselyValinnat, PoistaKyselykertaValinnat, Raporttityyppi
  <2>2. \A t \in Tasot : raportti'.valitut[t] = {}
    <3>1. raportti'.valitut = TyhjaaAlat(raportti.valitut)
      BY <1>0, <1>3 DEF VaihdaTyyppi, PoistaKyselyValinnat, PoistaKyselykertaValinnat,
         Raporttityyppi
    <3>2. raportti.valitut \in [Tasot -> SUBSET Alat]
      BY <1>0 DEF Raporttityyppi
    <3> QED
      BY <3>1, <3>2 DEF TyhjaaAlat, PoistaKoulutusalaValinnat, PoistaOpintoalaValinnat,
         PoistaTutkintoValinnat, Tasot
  <2>3. /\ \A t \in Tasot \cup Kentat : merkityt'[t] = {}
        /\ merkityt'["koulutustoimijat"] = merkityt["koulutustoimijat"]
    BY <1>0, <1>3 DEF VaihdaTyyppi, TyhjaaAlat, PoistaKoulutusalaValinnat,
       PoistaOpintoalaValinnat, PoistaTutkintoValinnat, Merkkityyppi, Kentat, Tasot
  <2> QED
    BY <2>1, <2>2, <2>3 DEF ValinnatKunnossa, ListatVastaavat, YksiTutkinto,
       TyypinRajaukset, Kohde, Kentat, Tasot
<1>4. ASSUME NEW taso \in Tasot, VaihdaTaso(taso) PROVE ValinnatKunnossa'
  <2>1. /\ raportti' = [raportti EXCEPT !.taso = taso] /\ merkityt' = merkityt
        /\ raportti.tyyppi \notin Kyselytyypit
    BY <1>4 DEF VaihdaTaso, PiilotaTutkintorakenneVaihto
  <2> QED
    BY <1>0, <2>1 DEF Raporttityyppi, ValinnatKunnossa, ListatVastaavat, YksiTutkinto,
       TyypinRajaukset, Kohde, Kentat
<1>5. ASSUME NEW taso \in Tasot, NEW x \in aineisto.alat[taso], Valitse(taso, x)
      PROVE  ValinnatKunnossa'
  <2> DEFINE uudet == Xor(Aiemmat(raportti.valitut, taso, x), x)
  <2>1. merkityt[taso] = raportti.valitut[taso]
    BY DEF ValinnatKunnossa, ListatVastaavat
  <2>2. uudet = Xor(Aiemmat(merkityt, taso, x), x)
    BY <2>1 DEF Aiemmat
  <2>3. /\ raportti' = [raportti EXCEPT !.valitut[taso] = uudet]
        /\ merkityt' = [merkityt EXCEPT ![taso] = uudet]
        /\ ~raportti.eiTutkintoa /\ raportti.taso = taso
    BY <1>5, <2>2 DEF Valitse
  <2>4. raportti.tyyppi \in {"koulutustoimijat", "kyselykerta"} =>
          \A y, z \in uudet : y = z
    BY <2>1 DEF ValinnatKunnossa, YksiTutkinto, Aiemmat, Xor, VoikoValitaUseita
  <2> HIDE DEF uudet
  <2>5. /\ UNCHANGED <<raportti.tyyppi, raportti.taso, raportti.koulutustoimijat,
             raportti.jarjestajat, raportti.kyselyid, raportti.kyselykertaid,
             raportti.jakso, raportti.eiTutkintoa>>
        /\ \A t \in Tasot : raportti'.valitut[t] = IF t = taso THEN uudet ELSE raportti.valitut[t]
    BY <1>0, <2>3 DEF Raporttityyppi
  <2>6. /\ \A t \in Tasot : merkityt'[t] = IF t = taso THEN uudet ELSE merkityt[t]
        /\ \A l \in Kentat \cup {"koulutustoimijat"} : merkityt'[l] = merkityt[l]
    BY <1>0, <2>3 DEF Merkkityyppi, Kentat, Tasot
  <2>7. ListatVastaavat'
    BY <2>5, <2>6 DEF ValinnatKunnossa, ListatVastaavat, Kentat
  <2>8. YksiTutkinto'
    BY <2>4, <2>5 DEF ValinnatKunnossa, YksiTutkinto
  <2>9. TyypinRajaukset'
    BY <2>3, <2>5 DEF ValinnatKunnossa, TyypinRajaukset, Kohde, Tasot
  <2> QED BY <2>7, <2>8, <2>9 DEF ValinnatKunnossa
<1>6. CASE VaihdaEiTutkintoa
  <2>1. /\ raportti.tyyppi \in Kyselytyypit
        /\ UNCHANGED <<raportti.tyyppi, raportti.taso, raportti.koulutustoimijat,
             raportti.jarjestajat, raportti.kyselyid, raportti.kyselykertaid, raportti.jakso>>
        /\ raportti'.eiTutkintoa = ~raportti.eiTutkintoa
        /\ raportti'.valitut = IF raportti.eiTutkintoa THEN raportti.valitut
                                 ELSE PoistaTutkintoValinnat(raportti.valitut)
        /\ merkityt' = IF raportti.eiTutkintoa THEN merkityt
                         ELSE PoistaTutkintoValinnat(merkityt)
    BY <1>0, <1>6 DEF VaihdaEiTutkintoa, Raporttityyppi
  <2>2. CASE raportti.eiTutkintoa
    BY <2>1, <2>2 DEF ValinnatKunnossa, ListatVastaavat, YksiTutkinto, TyypinRajaukset,
       Kohde, Kentat
  <2>3. CASE ~raportti.eiTutkintoa
    <3>1. \A t \in Tasot : raportti'.valitut[t]
                             = IF t = "tutkinto" THEN {} ELSE raportti.valitut[t]
      BY <1>0, <2>1, <2>3 DEF PoistaTutkintoValinnat, Raporttityyppi
    <3>2. \A l \in Tasot \cup Kentat \cup {"koulutustoimijat"} :
            merkityt'[l] = IF l = "tutkinto" THEN {} ELSE merkityt[l]
      BY <1>0, <2>1, <2>3 DEF PoistaTutkintoValinnat, Merkkityyppi
    <3>3. ListatVastaavat'
      BY <2>1, <3>1, <3>2 DEF ValinnatKunnossa, ListatVastaavat, Kentat
    <3>4. YksiTutkinto'
      BY <2>1, <3>1 DEF ValinnatKunnossa, YksiTutkinto
    <3>5. TyypinRajaukset'
      BY <2>1, <3>1 DEF ValinnatKunnossa, TyypinRajaukset, Kohde, Tasot
    <3> QED BY <3>3, <3>4, <3>5 DEF ValinnatKunnossa
  <2> QED BY <2>2, <2>3
<1>7. CASE VaihdaKetjutus
  <2>1. /\ raportti.tyyppi \in {"kehitys", "kehitys-ketjutettu"}
        /\ raportti'.tyyppi \in {"kehitys", "kehitys-ketjutettu"}
        /\ UNCHANGED <<raportti.valitut, raportti.koulutustoimijat, raportti.jarjestajat,
             raportti.kyselyid, raportti.kyselykertaid, raportti.jakso, raportti.eiTutkintoa>>
        /\ merkityt' = merkityt
    BY <1>0, <1>7 DEF VaihdaKetjutus, Valilehti, Raporttityyppi
  <2>2. ListatVastaavat' /\ YksiTutkinto'
    BY <2>1 DEF ValinnatKunnossa, ListatVastaavat, YksiTutkinto, Kentat
  <2>3. TyypinRajaukset'
    BY <2>1 DEF ValinnatKunnossa, TyypinRajaukset, Kohde, Kyselytyypit
  <2> QED BY <2>2, <2>3 DEF ValinnatKunnossa
<1>8. ASSUME NEW k \in aineisto.koulutustoimijat, VaihdaKoulutustoimija(k)
      PROVE  ValinnatKunnossa'
  <2>1. raportti'.koulutustoimijat = Xor(raportti.koulutustoimijat, k)
    BY <1>0, <1>8 DEF VaihdaKoulutustoimija, Raporttityyppi
  <2>2. UNCHANGED <<raportti.tyyppi, raportti.taso, raportti.valitut,
           raportti.jarjestajat, raportti.kyselyid, raportti.kyselykertaid,
           raportti.jakso, raportti.eiTutkintoa>>
    BY <1>0, <1>8 DEF VaihdaKoulutustoimija, Raporttityyppi
  <2>3. merkityt["koulutustoimijat"] = raportti.koulutustoimijat
    BY DEF ValinnatKunnossa, ListatVastaavat
  <2>4. merkityt'["koulutustoimijat"] = Xor(raportti.koulutustoimijat, k)
    BY <1>0, <1>8, <2>3 DEF VaihdaKoulutustoimija, Merkkityyppi, Xor
  <2>5. \A l \in Tasot \cup Kentat : merkityt'[l] = merkityt[l]
    BY <1>0, <1>8 DEF VaihdaKoulutustoimija, Merkkityyppi, Tasot, Kentat
  <2> QED BY <2>1, <2>2, <2>4, <2>5, MuutKentat
<1>10. ASSUME NEW k \in aineisto.koulutustoimijat, NEW i, VaihdaOppilaitos(k, i) PROVE ValinnatKunnossa'
  BY <1>0, <1>10, MuutKentat DEF VaihdaOppilaitos, Raporttityyppi, ValinnatKunnossa, ListatVastaavat
<1>12. ASSUME NEW f \in Kentat, NEW x \in Kohteet(f), ValitseKohde(f, x) PROVE ValinnatKunnossa'
  <2>1. x # Ei
    BY AineistonOletukset DEF Kohteet, Kohteista, Kentat
  <2>2. PICK g \in Kentat : {f, g} = Kentat /\ f # g
    BY DEF Kentat
  <2>3. raportti[g] = Ei /\ raportti.tyyppi \in Kyselytyypit
    BY <1>12, <2>2 DEF ValitseKohde, ValinnatKunnossa, TyypinRajaukset, Kentta, Kentat
  <2>4. raportti[f] \in {Ei, x} \/ x \notin merkityt[f]
    BY DEF ValinnatKunnossa, ListatVastaavat
  <2>5. /\ UNCHANGED <<raportti.tyyppi, raportti.taso, raportti.valitut,
             raportti.koulutustoimijat, raportti.eiTutkintoa>>
        /\ raportti'[g] = Ei
        /\ raportti'[f] = IF x \in merkityt[f] THEN Ei ELSE x
    <3>1. CASE f = "kyselyid"
      BY <1>0, <1>12, <2>2, <2>3, <3>1 DEF ValitseKohde, Raporttityyppi, Kentat
    <3>2. CASE f = "kyselykertaid"
      BY <1>0, <1>12, <2>2, <2>3, <3>2 DEF ValitseKohde, Raporttityyppi, Kentat
    <3> QED BY <3>1, <3>2 DEF Kentat
  <2>6. /\ \A l \in Tasot \cup {"koulutustoimijat", g} : merkityt'[l] = merkityt[l]
        /\ merkityt'[f] = IF x \in merkityt[f] THEN merkityt[f] \ {x} ELSE {x}
    BY <1>0, <1>12, <2>2 DEF ValitseKohde, Merkkityyppi, Tasot, Kentat
  <2>7. ListatVastaavat'
    BY <2>1, <2>2, <2>3, <2>4, <2>5, <2>6 DEF ValinnatKunnossa, ListatVastaavat
  <2>8. YksiTutkinto'
    BY <2>5 DEF ValinnatKunnossa, YksiTutkinto
  <2>9. TyypinRajaukset'
    <3>1. raportti.tyyppi = IF f = "kyselyid" THEN "kysely" ELSE "kyselykerta"
      BY <1>12 DEF ValitseKohde, Kentta, Kentat, Kyselytyypit
    <3>2. /\ f = "kyselyid" => raportti'.kyselykertaid = Ei
          /\ f = "kyselykertaid" => raportti'.kyselyid = Ei
      BY <2>2, <2>5 DEF Kentat
    <3>3. raportti.tyyppi \in Kyselytyypit /\ raportti'.tyyppi = raportti.tyyppi
      BY <2>3, <2>5
    <3>4. /\ raportti'.tyyppi # "kysely" => raportti'.kyselyid = Ei
          /\ raportti'.tyyppi # "kyselykerta" => raportti'.kyselykertaid = Ei
      BY <2>5, <3>1, <3>2 DEF Kentat
    <3>5. /\ raportti'.taso = "tutkinto" /\ raportti'.valitut = raportti.valitut
          /\ raportti'.valitut["koulutusala"] = {} /\ raportti'.valitut["opintoala"] = {}
          /\ raportti'.eiTutkintoa => \A t \in Tasot : raportti'.valitut[t] = {}
      BY <2>5, <3>3 DEF ValinnatKunnossa, TyypinRajaukset
    <3> QED BY <3>3, <3>4, <3>5 DEF TyypinRajaukset
  <2> QED BY <2>7, <2>8, <2>9 DEF ValinnatKunnossa
<1>14. ASSUME NEW j \in Jarjestajat, VaihdaJarjestaja(j) PROVE ValinnatKunnossa'
  <2>1. /\ raportti.tyyppi \in Kyselytyypit /\ merkityt' = merkityt
        /\ UNCHANGED <<raportti.tyyppi, raportti.taso, raportti.valitut,
             raportti.koulutustoimijat, raportti.kyselyid, raportti.kyselykertaid,
             raportti.jakso, raportti.eiTutkintoa>>
    BY <1>0, <1>14 DEF VaihdaJarjestaja, Raporttityyppi
  <2> QED
    BY <2>1 DEF ValinnatKunnossa, ListatVastaavat, YksiTutkinto, TyypinRajaukset, Kohde, Kentat
<1>15. ASSUME NEW g \in aineisto.ryhmat, ValitseTaustaryhma(g) PROVE ValinnatKunnossa'
  BY <1>0, <1>15, MuutKentat DEF ValitseTaustaryhma, Raporttityyppi, ValinnatKunnossa, ListatVastaavat
<1> QED
  <2>1. CASE UNCHANGED muuttujat
    BY <1>1, <2>1 DEF muuttujat
  <2>2. CASE \/ \E k \in aineisto.koulutustoimijat : OppilaitoksetSaapuvat(k)
             \/ \E f \in Kentat, tila \in {"auki", "kiinni", "kaikki"} : Suodata(f, tila)
             \/ \E i \in DOMAIN jonot.tiedot : TiedotSaapuvat(i)
             \/ \E i \in DOMAIN jonot.taustat : TaustatSaapuvat(i)
             \/ \E v \in aineisto.vaihtoehdot : MerkitseVaihtoehto(v)
             \/ MuodostaRaportti \/ RaporttiVastaus
    BY <1>1, <2>2 DEF OppilaitoksetSaapuvat, Suodata, TiedotSaapuvat, TaustatSaapuvat,
       MerkitseVaihtoehto, MuodostaRaportti, RaporttiVastaus, RaporttiSaapuu, RaporttiEpaonnistuu
  <2> QED
    BY <1>2, <1>3, <1>4, <1>5, <1>6, <1>7, <1>8, <1>10, <1>12, <1>14, <1>15, <2>1, <2>2 DEF Next

\* To begin with nothing is chosen, so nothing hidden is
LEMMA AlkuValinnat == Init => ValinnatKunnossa
  BY DEF Init, ValinnatKunnossa, ListatVastaavat, YksiTutkinto, TyypinRajaukset, Kohde,
     Kentat, Tasot

\* Reports that take one degree get one
THEOREM AinaYksiTutkinto == Spec => []YksiTutkinto
  BY AlkuTyyppi, AskelTyyppi, AlkuValinnat, ValinnatAskel, PTL DEF Spec, ValinnatKunnossa

\* The lists shown for a level are those of the report, so what the server
\* restricts the report to can be seen on the tab
LEMMA NaytettyRajaus ==
  ASSUME raportti \in Raporttityyppi, ListatVastaavat, TyypinRajaukset
  PROVE  RajauksetTyypista
<1>1. raportti.taso \in Tasot /\ merkityt[raportti.taso] = raportti.valitut[raportti.taso]
  BY DEF Raporttityyppi, ListatVastaavat
<1>2. CASE raportti.eiTutkintoa
  BY <1>1, <1>2 DEF RajauksetTyypista, TyypinRajaukset, Tutkintorajaus, NaytettyTutkintorajaus
<1>3. CASE ~raportti.eiTutkintoa
  BY <1>1, <1>3 DEF RajauksetTyypista, TyypinRajaukset, Tutkintorajaus, NaytettyTutkintorajaus
<1> QED BY <1>2, <1>3

\* Nothing of a survey or a round is left in a report of another kind, and the
\* degrees or fields any report is restricted to are those the open tab shows
THEOREM RajauksetAinaTyypista == Spec => []RajauksetTyypista
<1>1. RaporttisivuOK /\ ValinnatKunnossa => RajauksetTyypista
  BY NaytettyRajaus DEF RaporttisivuOK, ValinnatOK, ValinnatKunnossa
<1> QED BY AlkuTyyppi, AskelTyyppi, AlkuValinnat, ValinnatAskel, <1>1, PTL DEF Spec

(***************************************************************************)
(* Organisers and their schools                                            *)
(***************************************************************************)

\* A step leaves every ticked organiser with schools, a request or a failure
LEMMA OppilaitosAskel ==
  ASSUME RaporttisivuOK, OppilaitoksetToimijoille, [Next]_muuttujat
  PROVE  OppilaitoksetToimijoille'
<1> USE DEF haunMuuttujat
<1>0. /\ raportti \in Raporttityyppi /\ muisti \in Muistityyppi
      /\ oppilaitoshaut \in [aineisto.koulutustoimijat -> Nat]
      /\ oppilaitokset \in [aineisto.koulutustoimijat -> Nat]
      /\ raportti.koulutustoimijat \subseteq aineisto.koulutustoimijat
  BY AineistonOletukset DEF RaporttisivuOK, ValinnatOK, JonotOK, HautOK, Raporttityyppi
<1>1. CASE UNCHANGED <<raportti.koulutustoimijat, oppilaitokset, oppilaitoshaut, muisti.hylatyt>>
  BY <1>1 DEF OppilaitoksetToimijoille
<1>2. ASSUME NEW k \in aineisto.koulutustoimijat, VaihdaKoulutustoimija(k)
      PROVE  OppilaitoksetToimijoille'
  <2>1. raportti'.koulutustoimijat = Xor(raportti.koulutustoimijat, k)
    BY <1>0, <1>2 DEF VaihdaKoulutustoimija, Raporttityyppi
  <2>2. CASE k \in raportti.koulutustoimijat
    <3>1. /\ oppilaitokset' = [oppilaitokset EXCEPT ![k] = 0]
          /\ UNCHANGED <<oppilaitoshaut, muisti.hylatyt>>
      BY <1>0, <1>2, <2>2 DEF VaihdaKoulutustoimija, Muistityyppi
    <3> QED BY <1>0, <2>1, <2>2, <3>1 DEF OppilaitoksetToimijoille, Xor
  <2>3. CASE k \notin raportti.koulutustoimijat
    <3>1. /\ oppilaitoshaut' = [oppilaitoshaut EXCEPT ![k] = @ + 1]
          /\ oppilaitokset' = oppilaitokset
          /\ muisti'.hylatyt = muisti.hylatyt \ {k}
      BY <1>0, <1>2, <2>3 DEF VaihdaKoulutustoimija, Muistityyppi
    <3> QED BY <1>0, <2>1, <2>3, <3>1 DEF OppilaitoksetToimijoille, Xor
  <2> QED BY <2>2, <2>3
<1>3. ASSUME NEW k \in aineisto.koulutustoimijat, OppilaitoksetSaapuvat(k)
      PROVE  OppilaitoksetToimijoille'
  <2>1. /\ oppilaitoshaut' = [oppilaitoshaut EXCEPT ![k] = @ - 1]
        /\ raportti' = raportti
        /\ \/ oppilaitokset' = [oppilaitokset EXCEPT ![k] = @ + 1] /\ muisti' = muisti
           \/ /\ muisti'.hylatyt = muisti.hylatyt \cup {k}
              /\ oppilaitokset' = oppilaitokset
    BY <1>0, <1>3 DEF OppilaitoksetSaapuvat, Muistityyppi
  <2> SUFFICES ASSUME NEW j \in raportti.koulutustoimijat
               PROVE  oppilaitokset'[j] > 0 \/ oppilaitoshaut'[j] > 0 \/ j \in muisti'.hylatyt
    BY <2>1 DEF OppilaitoksetToimijoille
  <2>2. oppilaitokset[j] > 0 \/ oppilaitoshaut[j] > 0 \/ j \in muisti.hylatyt
    BY DEF OppilaitoksetToimijoille
  <2>3. CASE j # k
    BY <1>0, <2>1, <2>2, <2>3
  <2>4. CASE j = k
    BY <1>0, <2>1, <2>2, <2>4
  <2> QED BY <2>3, <2>4
<1>4. ASSUME NEW j \in {"tiedot", "taustat"}, NEW x, Jonoon(j, x)
      PROVE  muisti'.hylatyt = muisti.hylatyt
  BY <1>0, <1>4 DEF Jonoon, Muistityyppi
<1>5. ASSUME NEW j \in {"tiedot", "taustat"}, NEW i, NEW onnistui, Jonosta(j, i, onnistui)
      PROVE  muisti'.hylatyt = muisti.hylatyt
  BY <1>0, <1>5 DEF Jonosta, Muistityyppi
<1>6. ASSUME NEW lista \in Listat, Lataa(lista) PROVE OppilaitoksetToimijoille'
  BY <1>0, <1>1, <1>4, <1>6 DEF Lataa, Raporttityyppi
<1>7. ASSUME NEW f \in Kentat, NEW x \in Kohteet(f), ValitseKohde(f, x)
      PROVE  OppilaitoksetToimijoille'
  <2>1. UNCHANGED <<oppilaitokset, oppilaitoshaut>> /\ (muisti' = muisti \/ Jonoon("tiedot", x))
    BY <1>7 DEF ValitseKohde
  <2>2. muisti'.hylatyt = muisti.hylatyt
    BY <1>4, <2>1
  <2>3. raportti'.koulutustoimijat = raportti.koulutustoimijat
    BY <1>0, <1>7 DEF ValitseKohde, Raporttityyppi, Kentat
  <2> QED BY <1>1, <2>1, <2>2, <2>3
<1>8. ASSUME NEW g \in aineisto.ryhmat, ValitseTaustaryhma(g) PROVE OppilaitoksetToimijoille'
  BY <1>0, <1>1, <1>4, <1>8 DEF ValitseTaustaryhma, Raporttityyppi
<1>9. ASSUME NEW i \in DOMAIN jonot.tiedot, TiedotSaapuvat(i) PROVE OppilaitoksetToimijoille'
  BY <1>1, <1>5, <1>9 DEF TiedotSaapuvat
<1>10. ASSUME NEW i \in DOMAIN jonot.taustat, TaustatSaapuvat(i) PROVE OppilaitoksetToimijoille'
  BY <1>1, <1>5, <1>10 DEF TaustatSaapuvat
<1>11. ASSUME \/ \E tyyppi \in Valilehdet : VaihdaTyyppi(tyyppi)
              \/ \E taso \in Tasot : VaihdaTaso(taso)
              \/ VaihdaEiTutkintoa \/ VaihdaKetjutus
       PROVE  OppilaitoksetToimijoille'
  BY <1>0, <1>1, <1>11 DEF VaihdaTyyppi, PoistaKyselyValinnat, PoistaKyselykertaValinnat,
     VaihdaTaso, VaihdaEiTutkintoa, VaihdaKetjutus, Raporttityyppi
<1>12. ASSUME \/ \E taso \in Tasot : \E x \in aineisto.alat[taso] : Valitse(taso, x)
              \/ \E k \in aineisto.koulutustoimijat : \E i \in 1 .. oppilaitokset[k] : VaihdaOppilaitos(k, i)
              \/ \E j \in Jarjestajat : VaihdaJarjestaja(j)
       PROVE  OppilaitoksetToimijoille'
  BY <1>0, <1>1, <1>12 DEF Valitse, VaihdaOppilaitos, VaihdaJarjestaja, Raporttityyppi
<1>13. ASSUME \/ \E f \in Kentat, tila \in {"auki", "kiinni", "kaikki"} : Suodata(f, tila)
              \/ \E v \in aineisto.vaihtoehdot : MerkitseVaihtoehto(v)
              \/ MuodostaRaportti \/ RaporttiVastaus \/ UNCHANGED muuttujat
       PROVE  OppilaitoksetToimijoille'
  BY <1>1, <1>13 DEF Suodata, MerkitseVaihtoehto, MuodostaRaportti, RaporttiVastaus,
     RaporttiSaapuu, RaporttiEpaonnistuu, muuttujat
<1> QED
  BY <1>2, <1>3, <1>6, <1>7, <1>8, <1>9, <1>10, <1>11, <1>12, <1>13 DEF Next

\* Whatever order the schools come in, a ticked organiser has them in the end
THEOREM OppilaitoksetAinaToimijoille == Spec => []OppilaitoksetToimijoille
<1>1. Init => OppilaitoksetToimijoille
  BY DEF Init, OppilaitoksetToimijoille
<1> QED BY AlkuTyyppi, AskelTyyppi, <1>1, OppilaitosAskel, PTL DEF Spec

(***************************************************************************)
(* The marks of the schools.  An organiser that has never been unticked    *)
(* has asked for its schools once, so the list has one copy of each and    *)
(* its mark goes on and off with the school in the report.                 *)
(***************************************************************************)
KouluKunnossa(k) ==
  /\ koulumerkit[k] \subseteq 1 .. oppilaitokset[k]
  /\ k \notin muisti.poistetut =>
       /\ oppilaitokset[k] + oppilaitoshaut[k] <= 1
       /\ k \notin raportti.koulutustoimijat => oppilaitokset[k] + oppilaitoshaut[k] = 0
       /\ koulumerkit[k] # {} <=> k \in raportti.oppilaitokset

KoulutKunnossa == \A k \in aineisto.koulutustoimijat : KouluKunnossa(k)

\* A step keeps them
LEMMA KoulutAskel ==
  ASSUME RaporttisivuOK, KoulutKunnossa, [Next]_muuttujat
  PROVE  KoulutKunnossa'
<1> USE DEF haunMuuttujat
<1>0. /\ raportti \in Raporttityyppi /\ muisti \in Muistityyppi
      /\ oppilaitoshaut \in [aineisto.koulutustoimijat -> Nat]
      /\ oppilaitokset \in [aineisto.koulutustoimijat -> Nat]
      /\ koulumerkit \in [aineisto.koulutustoimijat -> SUBSET (Nat \ {0})]
  BY AineistonOletukset DEF RaporttisivuOK, ValinnatOK, JonotOK, HautOK
<1>1. ASSUME UNCHANGED <<aineisto, raportti.koulutustoimijat, raportti.oppilaitokset, oppilaitokset,
                         koulumerkit, oppilaitoshaut, muisti.poistetut>>
      PROVE  KoulutKunnossa'
  BY <1>1 DEF KoulutKunnossa, KouluKunnossa
<1>2. ASSUME NEW k \in aineisto.koulutustoimijat, VaihdaKoulutustoimija(k)
      PROVE  KoulutKunnossa'
  <2>1. /\ aineisto' = aineisto
        /\ raportti'.koulutustoimijat = Xor(raportti.koulutustoimijat, k)
        /\ raportti'.oppilaitokset = raportti.oppilaitokset
    BY <1>0, <1>2 DEF VaihdaKoulutustoimija, Raporttityyppi
  <2> SUFFICES ASSUME NEW j \in aineisto.koulutustoimijat PROVE KouluKunnossa(j)'
    BY <2>1 DEF KoulutKunnossa
  <2>0. KouluKunnossa(j)
    BY DEF KoulutKunnossa
  <2>2. CASE k \in raportti.koulutustoimijat
    <3>1. /\ oppilaitokset' = [oppilaitokset EXCEPT ![k] = 0]
          /\ koulumerkit' = [koulumerkit EXCEPT ![k] = {}]
          /\ oppilaitoshaut' = oppilaitoshaut
          /\ muisti'.poistetut = muisti.poistetut \cup {k}
      BY <1>0, <1>2, <2>2 DEF VaihdaKoulutustoimija, Muistityyppi
    <3>2. CASE j # k
      BY <1>0, <2>0, <2>1, <3>1, <3>2 DEF KouluKunnossa, Xor
    <3>3. CASE j = k
      BY <1>0, <2>0, <2>1, <3>1, <3>3 DEF KouluKunnossa
    <3> QED BY <3>2, <3>3
  <2>3. CASE k \notin raportti.koulutustoimijat
    <3>1. /\ oppilaitoshaut' = [oppilaitoshaut EXCEPT ![k] = @ + 1]
          /\ UNCHANGED <<oppilaitokset, koulumerkit>>
          /\ muisti'.poistetut = muisti.poistetut
      BY <1>0, <1>2, <2>3 DEF VaihdaKoulutustoimija, Muistityyppi
    <3>2. CASE j # k
      BY <1>0, <2>0, <2>1, <3>1, <3>2 DEF KouluKunnossa, Xor
    <3>3. CASE j = k
      BY <1>0, <2>0, <2>1, <2>3, <3>1, <3>3 DEF KouluKunnossa, Xor
    <3> QED BY <3>2, <3>3
  <2> QED BY <2>2, <2>3
<1>3. ASSUME NEW k \in aineisto.koulutustoimijat, OppilaitoksetSaapuvat(k)
      PROVE  KoulutKunnossa'
  <2>1. /\ UNCHANGED <<aineisto, raportti, koulumerkit>>
        /\ oppilaitoshaut[k] > 0 /\ oppilaitoshaut' = [oppilaitoshaut EXCEPT ![k] = @ - 1]
        /\ muisti'.poistetut = muisti.poistetut
        /\ oppilaitokset' \in {oppilaitokset, [oppilaitokset EXCEPT ![k] = @ + 1]}
    BY <1>0, <1>3 DEF OppilaitoksetSaapuvat, Muistityyppi
  <2> SUFFICES ASSUME NEW j \in aineisto.koulutustoimijat PROVE KouluKunnossa(j)'
    BY <2>1 DEF KoulutKunnossa
  <2>0. KouluKunnossa(j)
    BY DEF KoulutKunnossa
  <2>2. CASE j # k
    BY <1>0, <2>0, <2>1, <2>2 DEF KouluKunnossa
  <2>3. CASE j = k
    <3>1. /\ oppilaitoshaut'[k] = oppilaitoshaut[k] - 1
          /\ oppilaitokset'[k] \in {oppilaitokset[k], oppilaitokset[k] + 1}
      BY <1>0, <2>1
    <3>2. koulumerkit[k] \subseteq 1 .. oppilaitokset'[k]
      BY <1>0, <2>0, <2>3, <3>1 DEF KouluKunnossa
    <3> QED BY <1>0, <2>0, <2>1, <2>3, <3>1, <3>2 DEF KouluKunnossa
  <2> QED BY <2>2, <2>3
<1>4. ASSUME NEW k \in aineisto.koulutustoimijat, NEW i \in 1 .. oppilaitokset[k],
             VaihdaOppilaitos(k, i)
      PROVE  KoulutKunnossa'
  <2>1. /\ UNCHANGED <<aineisto, oppilaitokset, oppilaitoshaut, muisti,
                       raportti.koulutustoimijat>>
        /\ raportti'.oppilaitokset = Xor(raportti.oppilaitokset, k)
        /\ koulumerkit' = [koulumerkit EXCEPT ![k] = IF k \in raportti.oppilaitokset
                                                      THEN @ \ {i} ELSE @ \cup {i}]
    BY <1>0, <1>4 DEF VaihdaOppilaitos, Raporttityyppi
  <2> SUFFICES ASSUME NEW j \in aineisto.koulutustoimijat PROVE KouluKunnossa(j)'
    BY <2>1 DEF KoulutKunnossa
  <2>0. KouluKunnossa(j)
    BY DEF KoulutKunnossa
  <2>2. CASE j # k
    BY <1>0, <2>0, <2>1, <2>2 DEF KouluKunnossa, Xor
  <2>3. CASE j = k
    <3>1. koulumerkit'[k] = IF k \in raportti.oppilaitokset
                              THEN koulumerkit[k] \ {i} ELSE koulumerkit[k] \cup {i}
      BY <1>0, <2>1
    <3>2. k \notin muisti.poistetut => oppilaitokset[k] = 1 /\ i = 1 /\ koulumerkit[k] \subseteq {1}
      BY <1>0, <2>0, <2>3 DEF KouluKunnossa
    <3>3. koulumerkit'[k] \subseteq 1 .. oppilaitokset[k]
      BY <2>0, <2>3, <3>1 DEF KouluKunnossa
    <3>4. k \notin muisti.poistetut => (koulumerkit'[k] # {} <=> k \in raportti'.oppilaitokset)
      BY <2>1, <3>1, <3>2 DEF Xor
    <3> QED BY <2>0, <2>1, <2>3, <3>3, <3>4 DEF KouluKunnossa
  <2> QED BY <2>2, <2>3
<1>5. ASSUME NEW j \in {"tiedot", "taustat"}, NEW x, Jonoon(j, x)
      PROVE  muisti'.poistetut = muisti.poistetut
  BY <1>0, <1>5 DEF Jonoon, Muistityyppi
<1>6. ASSUME NEW j \in {"tiedot", "taustat"}, NEW i, NEW onnistui, Jonosta(j, i, onnistui)
      PROVE  muisti'.poistetut = muisti.poistetut
  BY <1>0, <1>6 DEF Jonosta, Muistityyppi
<1>7. ASSUME NEW lista \in Listat, Lataa(lista) PROVE KoulutKunnossa'
  BY <1>0, <1>1, <1>5, <1>7 DEF Lataa, Raporttityyppi
<1>8. ASSUME NEW f \in Kentat, NEW x \in Kohteet(f), ValitseKohde(f, x) PROVE KoulutKunnossa'
  <2>1. /\ UNCHANGED <<aineisto, oppilaitokset, koulumerkit, oppilaitoshaut>>
        /\ muisti' = muisti \/ Jonoon("tiedot", x)
    BY <1>8 DEF ValitseKohde
  <2>2. UNCHANGED <<raportti.koulutustoimijat, raportti.oppilaitokset>>
    BY <1>0, <1>8 DEF ValitseKohde, Raporttityyppi, Kentat
  <2> QED BY <1>1, <1>5, <2>1, <2>2
<1>9. ASSUME NEW g \in aineisto.ryhmat, ValitseTaustaryhma(g) PROVE KoulutKunnossa'
  BY <1>0, <1>1, <1>5, <1>9 DEF ValitseTaustaryhma, Raporttityyppi
<1>10. ASSUME NEW i \in DOMAIN jonot.tiedot, TiedotSaapuvat(i) PROVE KoulutKunnossa'
  BY <1>1, <1>6, <1>10 DEF TiedotSaapuvat
<1>11. ASSUME NEW i \in DOMAIN jonot.taustat, TaustatSaapuvat(i) PROVE KoulutKunnossa'
  BY <1>1, <1>6, <1>11 DEF TaustatSaapuvat
<1>12. ASSUME \/ \E tyyppi \in Valilehdet : VaihdaTyyppi(tyyppi)
              \/ \E taso \in Tasot : VaihdaTaso(taso)
              \/ VaihdaEiTutkintoa \/ VaihdaKetjutus
       PROVE  KoulutKunnossa'
  <2>1. /\ UNCHANGED <<aineisto, oppilaitokset, koulumerkit, oppilaitoshaut, muisti>>
        /\ \/ \E tyyppi \in Valilehdet : VaihdaTyyppi(tyyppi)
           \/ \E taso \in Tasot : VaihdaTaso(taso)
           \/ VaihdaEiTutkintoa \/ VaihdaKetjutus
    BY <1>12 DEF VaihdaTyyppi, VaihdaTaso, VaihdaEiTutkintoa, VaihdaKetjutus
  <2>2. UNCHANGED <<raportti.koulutustoimijat, raportti.oppilaitokset>>
    BY <1>0, <2>1 DEF VaihdaTyyppi, PoistaKyselyValinnat, PoistaKyselykertaValinnat,
       VaihdaTaso, VaihdaEiTutkintoa, VaihdaKetjutus, Raporttityyppi
  <2> QED BY <1>1, <2>1, <2>2
<1>13. ASSUME \/ \E taso \in Tasot : \E x \in aineisto.alat[taso] : Valitse(taso, x)
              \/ \E j \in Jarjestajat : VaihdaJarjestaja(j)
       PROVE  KoulutKunnossa'
  BY <1>0, <1>1, <1>13 DEF Valitse, VaihdaJarjestaja, Raporttityyppi
<1>14. ASSUME \/ \E f \in Kentat, tila \in {"auki", "kiinni", "kaikki"} : Suodata(f, tila)
              \/ \E v \in aineisto.vaihtoehdot : MerkitseVaihtoehto(v)
              \/ MuodostaRaportti \/ RaporttiVastaus \/ UNCHANGED muuttujat
       PROVE  KoulutKunnossa'
  BY <1>1, <1>14 DEF Suodata, MerkitseVaihtoehto, MuodostaRaportti, RaporttiVastaus,
     RaporttiSaapuu, RaporttiEpaonnistuu, muuttujat
<1> QED
  BY <1>2, <1>3, <1>4, <1>7, <1>8, <1>9, <1>10, <1>11, <1>12, <1>13, <1>14 DEF Next

\* The marks on the lists are those of the report: of fields and degrees,
\* organisers, surveys and rounds always, of schools as long as their organiser
\* has not been unticked
THEOREM MerkinnatAinaVastaavat == Spec => []MerkinnatVastaavat
<1>1. Init => KoulutKunnossa
  BY DEF Init, KoulutKunnossa, KouluKunnossa
<1>2. ListatVastaavat /\ KoulutKunnossa => MerkinnatVastaavat
  BY DEF MerkinnatVastaavat, KoulutVastaavat, KoulutKunnossa, KouluKunnossa
<1> QED
  BY AlkuTyyppi, AskelTyyppi, AlkuValinnat, ValinnatAskel, <1>1, KoulutAskel, <1>2, PTL
  DEF Spec, ValinnatKunnossa

(***************************************************************************)
(* Organisers of respondents and background questions.  As long as answers *)
(* come in order and none fails, the last request is for what is chosen.   *)
(***************************************************************************)
TiedotTulossa ==
  (jonot.tiedot # <<>> /\ muisti.tiedot /\ Kohde # Ei) => Last(jonot.tiedot) = Kohde

TaustatTulossa ==
  (jonot.taustat # <<>> /\ muisti.taustat) => Last(jonot.taustat) = raportti.taustaryhma

\* A request becomes the last of its queue and leaves the other queue alone
LEMMA JonoonPaa ==
  ASSUME RaporttisivuOK, NEW x
  PROVE  /\ Jonoon("tiedot", x) =>
              /\ jonot'.tiedot # <<>> /\ Last(jonot'.tiedot) = x
              /\ UNCHANGED <<jonot.taustat, muisti.taustat>>
         /\ Jonoon("taustat", x) =>
              /\ jonot'.taustat # <<>> /\ Last(jonot'.taustat) = x
              /\ UNCHANGED <<jonot.tiedot, muisti.tiedot>>
<1>0. /\ jonot \in Jonotyyppi /\ muisti \in Muistityyppi
      /\ jonot.tiedot \in Seq(Kohteista) /\ jonot.taustat \in Seq(aineisto.ryhmat)
  BY DEF RaporttisivuOK, JonotOK, Jonotyyppi
<1>1. ASSUME NEW S, NEW s \in Seq(S)
      PROVE  Append(s, x) # <<>> /\ Last(Append(s, x)) = x
  BY <1>1 DEF Last
<1>2. ASSUME Jonoon("tiedot", x)
      PROVE  /\ jonot'.tiedot = Append(jonot.tiedot, x)
             /\ UNCHANGED <<jonot.taustat, muisti.taustat>>
  BY <1>0, <1>2 DEF Jonoon, Jonotyyppi, Muistityyppi
<1>3. ASSUME Jonoon("taustat", x)
      PROVE  /\ jonot'.taustat = Append(jonot.taustat, x)
             /\ UNCHANGED <<jonot.tiedot, muisti.tiedot>>
  BY <1>0, <1>3 DEF Jonoon, Jonotyyppi, Muistityyppi
<1> QED BY <1>0, <1>1, <1>2, <1>3

\* An answer in order takes the oldest request; the last stays unless alone
LEMMA JonostaPaa ==
  ASSUME RaporttisivuOK, NEW i, NEW onnistui \in BOOLEAN
  PROVE  /\ Jonosta("tiedot", i, onnistui) /\ i \in DOMAIN jonot.tiedot =>
              /\ UNCHANGED <<jonot.taustat, muisti.taustat>>
              /\ muisti'.tiedot =>
                   /\ muisti.tiedot /\ onnistui
                   /\ jonot'.tiedot # <<>> => Last(jonot'.tiedot) = Last(jonot.tiedot)
                   /\ jonot'.tiedot = <<>> => Last(jonot.tiedot) = jonot.tiedot[i]
         /\ Jonosta("taustat", i, onnistui) /\ i \in DOMAIN jonot.taustat =>
              /\ UNCHANGED <<jonot.tiedot, muisti.tiedot>>
              /\ muisti'.taustat =>
                   /\ muisti.taustat /\ onnistui
                   /\ jonot'.taustat # <<>> => Last(jonot'.taustat) = Last(jonot.taustat)
                   /\ jonot'.taustat = <<>> => Last(jonot.taustat) = jonot.taustat[i]
<1>0. /\ jonot \in Jonotyyppi /\ muisti \in Muistityyppi
      /\ jonot.tiedot \in Seq(Kohteista) /\ jonot.taustat \in Seq(aineisto.ryhmat)
  BY DEF RaporttisivuOK, JonotOK, Jonotyyppi
<1>1. ASSUME Jonosta("tiedot", i, onnistui), i \in DOMAIN jonot.tiedot
      PROVE  /\ UNCHANGED <<jonot.taustat, muisti.taustat>>
             /\ jonot'.tiedot = RemoveAt(jonot.tiedot, i)
             /\ muisti'.tiedot = (muisti.tiedot /\ i = 1 /\ onnistui)
  BY <1>0, <1>1 DEF Jonosta, Jonotyyppi, Muistityyppi
<1>2. ASSUME Jonosta("taustat", i, onnistui), i \in DOMAIN jonot.taustat
      PROVE  /\ UNCHANGED <<jonot.tiedot, muisti.tiedot>>
             /\ jonot'.taustat = RemoveAt(jonot.taustat, i)
             /\ muisti'.taustat = (muisti.taustat /\ i = 1 /\ onnistui)
  BY <1>0, <1>2 DEF Jonosta, Jonotyyppi, Muistityyppi
<1> QED BY <1>0, <1>1, <1>2, RemoveAtSeq

\* A step keeps what is shown, or coming, in accord with what is chosen
LEMMA TiedotAskel ==
  ASSUME RaporttisivuOK, TyypinRajaukset, TiedotKohteesta, TiedotTulossa, [Next]_muuttujat
  PROVE  (TiedotKohteesta /\ TiedotTulossa)'
<1> USE DEF TiedotKohteesta, TiedotTulossa, haunMuuttujat
<1>0. raportti \in Raporttityyppi
  BY DEF RaporttisivuOK, ValinnatOK
<1>1. ASSUME UNCHANGED <<raportti.kyselyid, raportti.kyselykertaid, tiedot,
                         jonot.tiedot, muisti.tiedot>>
      PROVE  (TiedotKohteesta /\ TiedotTulossa)'
  BY <1>1 DEF Kohde
<1>2. ASSUME NEW lista \in Listat, Lataa(lista) PROVE (TiedotKohteesta /\ TiedotTulossa)'
  <2>1. /\ UNCHANGED <<raportti.kyselyid, raportti.kyselykertaid, tiedot>>
        /\ Jonoon("taustat", raportti'.taustaryhma) \/ UNCHANGED <<jonot, muisti>>
    BY <1>0, <1>2 DEF Lataa, Raporttityyppi
  <2> QED BY <1>1, <2>1, JonoonPaa
<1>3. ASSUME NEW tyyppi \in Valilehdet, VaihdaTyyppi(tyyppi)
      PROVE  (TiedotKohteesta /\ TiedotTulossa)'
  <2>1. raportti'.kyselyid = Ei /\ raportti'.kyselykertaid = Ei
    BY <1>0, <1>3 DEF VaihdaTyyppi, PoistaKyselyValinnat, PoistaKyselykertaValinnat, Raporttityyppi
  <2> QED BY <2>1 DEF Kohde
<1>4. ASSUME NEW f \in Kentat, NEW x \in Kohteet(f), ValitseKohde(f, x)
      PROVE  (TiedotKohteesta /\ TiedotTulossa)'
  <2>1. CASE x \in merkityt[f]
    <3>1. raportti' = [raportti EXCEPT ![f] = Ei]
      BY <1>4, <2>1 DEF ValitseKohde
    <3>2. raportti'.kyselyid = Ei /\ raportti'.kyselykertaid = Ei
      <4>1. CASE f = "kyselyid"
        BY <1>0, <1>4, <3>1, <4>1 DEF ValitseKohde, TyypinRajaukset, Kentta, Kyselytyypit, Raporttityyppi
      <4>2. CASE f = "kyselykertaid"
        BY <1>0, <1>4, <3>1, <4>2 DEF ValitseKohde, TyypinRajaukset, Kentta, Kyselytyypit, Raporttityyppi
      <4> QED BY <4>1, <4>2 DEF Kentat
    <3> QED BY <3>2 DEF Kohde
  <2>2. CASE x \notin merkityt[f]
    <3>1. /\ raportti' = [raportti EXCEPT ![f] = x, !.jarjestajat = {}, !.jakso = x]
          /\ Jonoon("tiedot", x)
      BY <1>4, <2>2 DEF ValitseKohde
    <3>2. x # Ei
      BY AineistonOletukset DEF Kohteet, Kohteista, Kentat
    <3>3. Kohde' = x
      <4>1. CASE f = "kyselyid"
        BY <1>0, <3>1, <3>2, <4>1 DEF Kohde, Raporttityyppi
      <4>2. CASE f = "kyselykertaid"
        <5>1. raportti.kyselyid = Ei
          BY <1>4, <4>2 DEF ValitseKohde, TyypinRajaukset, Kentta, Kyselytyypit
        <5> QED BY <1>0, <3>1, <4>2, <5>1 DEF Kohde, Raporttityyppi
      <4> QED BY <4>1, <4>2 DEF Kentat
    <3> QED BY <3>1, <3>3, JonoonPaa
  <2> QED BY <2>1, <2>2
<1>5. ASSUME NEW i \in DOMAIN jonot.tiedot, TiedotSaapuvat(i)
      PROVE  (TiedotKohteesta /\ TiedotTulossa)'
  <2>1. PICK onnistui \in BOOLEAN :
          /\ Jonosta("tiedot", i, onnistui)
          /\ tiedot' = IF onnistui THEN jonot.tiedot[i] ELSE tiedot
    BY <1>5 DEF TiedotSaapuvat
  <2>2. Kohde' = Kohde
    BY <1>5 DEF TiedotSaapuvat, Kohde
  <2>3. jonot.tiedot # <<>>
    BY DEF RaporttisivuOK, JonotOK, Jonotyyppi
  <2> SUFFICES ASSUME muisti'.tiedot, Kohde # Ei
               PROVE  IF jonot'.tiedot = <<>> THEN tiedot' = Kohde
                                              ELSE Last(jonot'.tiedot) = Kohde
    BY <2>2
  <2>4. /\ muisti.tiedot /\ onnistui
        /\ jonot'.tiedot # <<>> => Last(jonot'.tiedot) = Last(jonot.tiedot)
        /\ jonot'.tiedot = <<>> => Last(jonot.tiedot) = jonot.tiedot[i]
    BY <2>1, JonostaPaa
  <2> QED BY <2>1, <2>3, <2>4
<1>6. ASSUME NEW g \in aineisto.ryhmat, ValitseTaustaryhma(g)
      PROVE  (TiedotKohteesta /\ TiedotTulossa)'
  BY <1>0, <1>1, <1>6, JonoonPaa DEF ValitseTaustaryhma, Raporttityyppi
<1>7. ASSUME NEW i \in DOMAIN jonot.taustat, TaustatSaapuvat(i)
      PROVE  (TiedotKohteesta /\ TiedotTulossa)'
  BY <1>1, <1>7, JonostaPaa DEF TaustatSaapuvat
<1>8. ASSUME \/ \E taso \in Tasot : VaihdaTaso(taso)
             \/ \E taso \in Tasot : \E x \in aineisto.alat[taso] : Valitse(taso, x)
             \/ VaihdaEiTutkintoa \/ VaihdaKetjutus
             \/ \E k \in aineisto.koulutustoimijat : \E i \in 1 .. oppilaitokset[k] : VaihdaOppilaitos(k, i)
             \/ \E j \in Jarjestajat : VaihdaJarjestaja(j)
      PROVE  (TiedotKohteesta /\ TiedotTulossa)'
  BY <1>0, <1>1, <1>8 DEF VaihdaTaso, Valitse, VaihdaEiTutkintoa, VaihdaKetjutus,
     VaihdaOppilaitos, VaihdaJarjestaja, Raporttityyppi
<1>9. ASSUME NEW k \in aineisto.koulutustoimijat,
             VaihdaKoulutustoimija(k) \/ OppilaitoksetSaapuvat(k)
      PROVE  (TiedotKohteesta /\ TiedotTulossa)'
  <2>1. muisti'.tiedot = muisti.tiedot /\ UNCHANGED <<tiedot, jonot>>
    BY <1>9 DEF VaihdaKoulutustoimija, OppilaitoksetSaapuvat, RaporttisivuOK, JonotOK, Muistityyppi
  <2>2. UNCHANGED <<raportti.kyselyid, raportti.kyselykertaid>>
    BY <1>0, <1>9 DEF VaihdaKoulutustoimija, OppilaitoksetSaapuvat, Raporttityyppi
  <2> QED BY <1>1, <2>1, <2>2
<1>10. ASSUME \/ \E f \in Kentat, tila \in {"auki", "kiinni", "kaikki"} : Suodata(f, tila)
              \/ \E v \in aineisto.vaihtoehdot : MerkitseVaihtoehto(v)
              \/ MuodostaRaportti \/ RaporttiVastaus \/ UNCHANGED muuttujat
       PROVE  (TiedotKohteesta /\ TiedotTulossa)'
  BY <1>1, <1>10 DEF Suodata, MerkitseVaihtoehto, MuodostaRaportti, RaporttiVastaus,
     RaporttiSaapuu, RaporttiEpaonnistuu, muuttujat
<1> QED BY <1>2, <1>3, <1>4, <1>5, <1>6, <1>7, <1>8, <1>9, <1>10 DEF Next

\* The organisers shown are those of the chosen survey, answers in order
THEOREM TiedotAinaKohteesta == Spec => []TiedotKohteesta
<1>1. Init => TiedotKohteesta /\ TiedotTulossa
  BY DEF Init, TiedotKohteesta, TiedotTulossa, Kohde
<1> QED
  BY AlkuTyyppi, AskelTyyppi, AlkuValinnat, ValinnatAskel, <1>1, TiedotAskel, PTL
  DEF Spec, ValinnatKunnossa

\* The same of the background questions and their group
LEMMA TaustatAskel ==
  ASSUME RaporttisivuOK, TaustatValitusta, TaustatTulossa, [Next]_muuttujat
  PROVE  (TaustatValitusta /\ TaustatTulossa)'
<1> USE DEF TaustatValitusta, TaustatTulossa, Ladattu, haunMuuttujat
<1>0. raportti \in Raporttityyppi /\ taustat \in Taustatyyppi
  BY DEF RaporttisivuOK, ValinnatOK, HautOK
<1>1. ASSUME UNCHANGED <<raportti.taustaryhma, taustat.ryhma, jonot.taustat, muisti.taustat>>,
             "taustaryhmat" \in ladattu' => "taustaryhmat" \in ladattu
      PROVE  (TaustatValitusta /\ TaustatTulossa)'
  BY <1>1
<1>2. ASSUME NEW lista \in Listat, Lataa(lista) PROVE (TaustatValitusta /\ TaustatTulossa)'
  <2>1. CASE lista = "taustaryhmat"
    <3>1. PICK g \in aineisto.ryhmat :
            raportti' = [raportti EXCEPT !.taustaryhma = g] /\ Jonoon("taustat", g)
      BY <1>2, <2>1 DEF Lataa
    <3> QED BY <1>0, <3>1, JonoonPaa DEF Raporttityyppi
  <2>2. CASE lista # "taustaryhmat"
    BY <1>1, <1>2, <2>2 DEF Lataa
  <2> QED BY <2>1, <2>2
<1>3. ASSUME NEW g \in aineisto.ryhmat, ValitseTaustaryhma(g)
      PROVE  (TaustatValitusta /\ TaustatTulossa)'
  <2>1. raportti'.taustaryhma = g /\ Jonoon("taustat", g)
    BY <1>0, <1>3 DEF ValitseTaustaryhma, Raporttityyppi
  <2> QED BY <2>1, JonoonPaa
<1>4. ASSUME NEW i \in DOMAIN jonot.taustat, TaustatSaapuvat(i)
      PROVE  (TaustatValitusta /\ TaustatTulossa)'
  <2>1. PICK onnistui \in BOOLEAN :
          /\ Jonosta("taustat", i, onnistui)
          /\ taustat' = IF onnistui THEN [ryhma |-> jonot.taustat[i], valitut |-> {}]
                                    ELSE taustat
          /\ UNCHANGED <<raportti, ladattu>>
    BY <1>4 DEF TaustatSaapuvat
  <2>2. jonot.taustat # <<>>
    BY DEF RaporttisivuOK, JonotOK, Jonotyyppi
  <2> SUFFICES ASSUME muisti'.taustat
               PROVE  IF jonot'.taustat = <<>> THEN taustat'.ryhma = raportti.taustaryhma
                                               ELSE Last(jonot'.taustat) = raportti.taustaryhma
    BY <2>1
  <2>3. /\ muisti.taustat /\ onnistui
        /\ jonot'.taustat # <<>> => Last(jonot'.taustat) = Last(jonot.taustat)
        /\ jonot'.taustat = <<>> => Last(jonot.taustat) = jonot.taustat[i]
    BY <2>1, JonostaPaa
  <2> QED BY <2>1, <2>2, <2>3
<1>5. ASSUME NEW v \in aineisto.vaihtoehdot, MerkitseVaihtoehto(v)
      PROVE  (TaustatValitusta /\ TaustatTulossa)'
  BY <1>0, <1>1, <1>5 DEF MerkitseVaihtoehto, Taustatyyppi
<1>6. ASSUME NEW tyyppi \in Valilehdet, VaihdaTyyppi(tyyppi)
      PROVE  (TaustatValitusta /\ TaustatTulossa)'
  BY <1>0, <1>1, <1>6 DEF VaihdaTyyppi, PoistaKyselyValinnat, PoistaKyselykertaValinnat,
     Raporttityyppi, Taustatyyppi
<1>7. ASSUME NEW f \in Kentat, NEW x \in Kohteet(f), ValitseKohde(f, x)
      PROVE  (TaustatValitusta /\ TaustatTulossa)'
  <2>1. /\ UNCHANGED <<taustat, ladattu>>
        /\ UNCHANGED <<jonot, muisti>> \/ Jonoon("tiedot", x)
    BY <1>7 DEF ValitseKohde
  <2>2. raportti'.taustaryhma = raportti.taustaryhma
    BY <1>0, <1>7 DEF ValitseKohde, Raporttityyppi, Kentat
  <2> QED BY <1>1, <2>1, <2>2, JonoonPaa
<1>8. ASSUME NEW i \in DOMAIN jonot.tiedot, TiedotSaapuvat(i)
      PROVE  (TaustatValitusta /\ TaustatTulossa)'
  BY <1>1, <1>8, JonostaPaa DEF TiedotSaapuvat
<1>9. ASSUME NEW k \in aineisto.koulutustoimijat,
             VaihdaKoulutustoimija(k) \/ OppilaitoksetSaapuvat(k)
      PROVE  (TaustatValitusta /\ TaustatTulossa)'
  <2>1. muisti'.taustat = muisti.taustat /\ UNCHANGED <<taustat, jonot, ladattu>>
    BY <1>9 DEF VaihdaKoulutustoimija, OppilaitoksetSaapuvat, RaporttisivuOK, JonotOK, Muistityyppi
  <2>2. raportti'.taustaryhma = raportti.taustaryhma
    BY <1>0, <1>9 DEF VaihdaKoulutustoimija, OppilaitoksetSaapuvat, Raporttityyppi
  <2> QED BY <1>1, <2>1, <2>2
<1>10. ASSUME \/ \E taso \in Tasot : VaihdaTaso(taso)
              \/ \E taso \in Tasot : \E x \in aineisto.alat[taso] : Valitse(taso, x)
              \/ VaihdaEiTutkintoa \/ VaihdaKetjutus
              \/ \E k \in aineisto.koulutustoimijat : \E i \in 1 .. oppilaitokset[k] : VaihdaOppilaitos(k, i)
              \/ \E j \in Jarjestajat : VaihdaJarjestaja(j)
       PROVE  (TaustatValitusta /\ TaustatTulossa)'
  BY <1>0, <1>1, <1>10 DEF VaihdaTaso, Valitse, VaihdaEiTutkintoa, VaihdaKetjutus,
     VaihdaOppilaitos, VaihdaJarjestaja, Raporttityyppi
<1>11. ASSUME \/ \E f \in Kentat, tila \in {"auki", "kiinni", "kaikki"} : Suodata(f, tila)
              \/ MuodostaRaportti \/ RaporttiVastaus \/ UNCHANGED muuttujat
       PROVE  (TaustatValitusta /\ TaustatTulossa)'
  BY <1>1, <1>11 DEF Suodata, MuodostaRaportti, RaporttiVastaus, RaporttiSaapuu,
     RaporttiEpaonnistuu, muuttujat
<1> QED BY <1>2, <1>3, <1>4, <1>5, <1>6, <1>7, <1>8, <1>9, <1>10, <1>11 DEF Next

\* The background questions shown are those of the chosen group, answers in order
THEOREM TaustatAinaValitusta == Spec => []TaustatValitusta
<1>1. Init => TaustatValitusta /\ TaustatTulossa
  BY DEF Init, TaustatValitusta, TaustatTulossa, Ladattu
<1> QED BY AlkuTyyppi, AskelTyyppi, <1>1, TaustatAskel, PTL DEF Spec

(***************************************************************************)
(* Report requests.  The one request in flight is for the last report      *)
(* asked for, and no report as late is shown yet.                          *)
(***************************************************************************)
YksiPyynto ==
  /\ \A h, j \in raporttihaut : h = j
  /\ lataus["raportinMuodostus"].valmis <=> raporttihaut = {}

UusinPyynto == \A haku \in raporttihaut :
  haku.nro = lahetetty /\ naytto.tulos < lahetetty /\ naytto.raportit < lahetetty

PyynnotKunnossa == YksiPyynto /\ UusinPyynto

\* A step keeps both, and shows no report over a later one
LEMMA PyyntoAskel ==
  ASSUME RaporttisivuOK, PyynnotKunnossa, [Next]_muuttujat
  PROVE  /\ PyynnotKunnossa'
         /\ naytto'.tulos # naytto.tulos => Uudempi(naytto'.tulos)
         /\ naytto'.raportit # naytto.raportit => Uudempi(naytto'.raportit)
<1> DEFINE Hyva == /\ PyynnotKunnossa'
                   /\ naytto'.tulos # naytto.tulos => Uudempi(naytto'.tulos)
                   /\ naytto'.raportit # naytto.raportit => Uudempi(naytto'.raportit)
<1> USE DEF PyynnotKunnossa, YksiPyynto, UusinPyynto
<1>0. /\ RaportitOK /\ lahetetty \in Nat /\ naytto.tulos \in 0 .. lahetetty
      /\ naytto.raportit \in 0 .. lahetetty
      /\ naytto \in [tulos : 0 .. lahetetty, raportit : 0 .. lahetetty]
      /\ lataus \in [MetodiIdt -> [valmis : BOOLEAN, ok : BOOLEAN]]
  BY AineistonOletukset DEF RaporttisivuOK, RaportitOK
<1>a. "raportinMuodostus" \in MetodiIdt
  BY DEF MetodiIdt, MetodiId, Ilmaisimet, Valilehdet
<1>1. CASE UNCHANGED raportinMuuttujat
  BY <1>1 DEF raportinMuuttujat
<1>2. CASE MuodostaRaportti
  <2>1. Valilehti \in Valilehdet
    BY AineistonOletukset DEF RaporttisivuOK, ValinnatOK
  <2>2. raporttihaut = {}
    BY <1>2, <2>1 DEF MuodostaRaportti, NayttaaSisallon, NayttaaVirheen, MetodiId
  <2>3. /\ lahetetty' = lahetetty + 1 /\ naytto' = naytto
        /\ raporttihaut' = {[nro |-> lahetetty + 1, palvelu |-> Palvelu]}
        /\ lataus' = [lataus EXCEPT !["raportinMuodostus"] = [valmis |-> FALSE, ok |-> FALSE]]
    BY <1>2, <2>2 DEF MuodostaRaportti, AsetaLatausIndikaattori
  <2>4. ~lataus'["raportinMuodostus"].valmis
    BY <1>0, <1>a, <2>3
  <2>5. YksiPyynto'
    BY <2>3, <2>4
  <2>6. UusinPyynto'
    BY <1>0, <2>3
  <2> QED BY <2>3, <2>5, <2>6
<1>3. CASE RaporttiVastaus
  <2>1. PICK haku \in raporttihaut : RaporttiSaapuu(haku) \/ RaporttiEpaonnistuu(haku)
    BY <1>3 DEF RaporttiVastaus
  <2>2. /\ raporttihaut' = {} /\ haku.nro = lahetetty /\ lahetetty' = lahetetty
    BY <2>1 DEF RaporttiSaapuu, RaporttiEpaonnistuu
  <2>3. lataus' = [lataus EXCEPT !["raportinMuodostus"] = [valmis |-> TRUE, ok |-> TRUE]]
    BY <2>1 DEF RaporttiSaapuu, RaporttiEpaonnistuu, PyyntoOnnistui, PyyntoEpaonnistui
  <2>4. lataus'["raportinMuodostus"].valmis
    BY <1>0, <1>a, <2>3
  <2>5. /\ naytto'.tulos \in {naytto.tulos, 0, lahetetty}
        /\ naytto'.raportit \in {naytto.raportit, 0, lahetetty}
    <3>1. CASE RaporttiSaapuu(haku)
      BY <1>0, <2>2, <3>1 DEF RaporttiSaapuu
    <3>2. CASE RaporttiEpaonnistuu(haku)
      BY <3>2 DEF RaporttiEpaonnistuu
    <3> QED BY <2>1, <3>1, <3>2
  <2>6. PyynnotKunnossa'
    BY <2>2, <2>4
  <2>7. naytto.tulos < lahetetty /\ naytto.raportit < lahetetty
    BY <2>1, <2>2
  <2> QED BY <1>0, <2>5, <2>6, <2>7 DEF Uudempi
<1>4. CASE UNCHANGED muuttujat
  BY <1>1, <1>4 DEF muuttujat
<1>5. CASE ~MuodostaRaportti /\ ~RaporttiVastaus /\ Next
  BY <1>1, <1>5 DEF Next, Lataa, VaihdaTyyppi, VaihdaTaso, Valitse, VaihdaEiTutkintoa,
     VaihdaKetjutus, VaihdaKoulutustoimija, OppilaitoksetSaapuvat, VaihdaOppilaitos, Suodata,
     ValitseKohde, TiedotSaapuvat, VaihdaJarjestaja, ValitseTaustaryhma, TaustatSaapuvat,
     MerkitseVaihtoehto
<1> QED BY <1>2, <1>3, <1>4, <1>5

\* At first nothing has been asked for
LEMMA AlkuPyynnot == Init => PyynnotKunnossa
<1>1. "raportinMuodostus" \in MetodiIdt
  BY DEF MetodiIdt, MetodiId, Ilmaisimet, Valilehdet
<1> QED BY <1>1 DEF Init, SeurantaInit, PyynnotKunnossa, YksiPyynto, UusinPyynto

\* However the user moves between the tabs, one report is made at a time
THEOREM AinaYksiRaporttipyynto == Spec => []YksiRaporttipyynto
<1>1. YksiPyynto => YksiRaporttipyynto
  <2> SUFFICES ASSUME YksiPyynto PROVE YksiRaporttipyynto
    OBVIOUS
  <2>1. raporttihaut = {} \/ \E h : raporttihaut = {h}
    <3> SUFFICES ASSUME raporttihaut # {} PROVE \E h : raporttihaut = {h}
      OBVIOUS
    <3>1. PICK h \in raporttihaut : TRUE
      OBVIOUS
    <3>2. raporttihaut = {h}
      BY DEF YksiPyynto
    <3> QED BY <3>2
  <2>2. Cardinality(raporttihaut) = 0 \/ Cardinality(raporttihaut) = 1
    BY <2>1, FS_EmptySet, FS_Singleton, Zenon
  <2>3. Cardinality(raporttihaut) <= 1
    BY <2>2
  <2> QED BY <2>3 DEF YksiPyynto, YksiRaporttipyynto
<1> QED
  BY AlkuTyyppi, AskelTyyppi, AlkuPyynnot, PyyntoAskel, <1>1, PTL DEF Spec, PyynnotKunnossa

\* No report is shown over one asked for later
THEOREM NaytettyAinaUusin == Spec => NaytettyUusin
<1>1. RaporttisivuOK /\ PyynnotKunnossa /\ [Next]_muuttujat =>
        [ /\ naytto'.tulos # naytto.tulos => Uudempi(naytto'.tulos)
          /\ naytto'.raportit # naytto.raportit => Uudempi(naytto'.raportit) ]_naytto
  BY PyyntoAskel
<1> QED
  BY AlkuTyyppi, AskelTyyppi, AlkuPyynnot, PyyntoAskel, <1>1, PTL DEF Spec, NaytettyUusin
=============================================================================
