---------------------------- MODULE SarjaProofs ----------------------------
(***************************************************************************)
(* Proofs of the rules of a survey's life when administration requests are *)
(* served one at a time, with any number of answering pages beside them.   *)
(* What one worker has checked is still so when it writes, because nobody  *)
(* else writes the tables it has read (Tarkistukset); the rest follows     *)
(* operation by operation.                                                 *)
(***************************************************************************)
EXTENDS VastausProofs, FiniteSetTheorems

\* One request of the administration is served at a time
YksiKasittelija == \A g, h \in Kasittelijat : g = h

\* What a request has read of the tables when it is about to write
Tarkistettu(h) ==
  LET p == pyynto[h] IN
  /\ askel[h] = "valtuutettu" => p.toimi \in Tarkistettavat
  /\ askel[h] = "tarkistettu" =>
       /\ p.toimi = "luoKerta" => KyselynTilaOn(p.kysely, "julkaistu")
       /\ p.toimi = "palautaLuonnokseksi" => KyselynKerrat(p.kysely) = {}
       /\ p.toimi = "muokkaaKertaa" => ~kerta[p.kerta].lukittu
       /\ p.toimi = "muokkaaKyselya" => KyselynTilaOn(p.kysely, "luonnos")
  /\ askel[h] \in {"ryhmatPoistettu", "kysymyksetPoistettu"} =>
       /\ KyselynTilaOn(p.kysely, "luonnos")
       /\ poistuvat[h].ryhmat = kysely[p.kysely].ryhmat
  /\ askel[h] = "kysymyksetPoistettu" =>
       poistuvat[h].kysymykset = kysely[p.kysely].kysymykset

Tarkistukset == \A h \in Kasittelijat : Tarkistettu(h)

\* The rules of the tables; the rounds are finitely many, so that counting
\* none of a survey means there are none
Saannot ==
  /\ IsFiniteSet(DOMAIN kerta)
  /\ LuonnoksellaEiKertoja
  /\ EiPoistettavatKysytaan

SarjaInv == VastausInv /\ Saannot /\ Tarkistukset

-----------------------------------------------------------------------------
\* The empty database follows the rules
LEMMA AlkuSarja == Init => Saannot /\ Tarkistukset
<1>1. Init => Saannot
  BY FS_EmptySet DEF Init, KantaInit, Saannot, LuonnoksellaEiKertoja, EiPoistettavatKysytaan
<1>2. Init => Tarkistukset
  BY DEF Init, HallintaInit, Tarkistukset, Tarkistettu
<1> QED BY <1>1, <1>2

\* Steps that write none of the administration's tables keep the rules
LEMMA SaannotEnnallaan ==
  ASSUME Saannot, UNCHANGED <<kysely, kerta>>
  PROVE  Saannot'
  BY DEF Saannot, LuonnoksellaEiKertoja, EiPoistettavatKysytaan, KyselynTilaOn

\* The same with what has been checked
LEMMA TarkistuksetEnnallaan ==
  ASSUME Tarkistukset, UNCHANGED <<kysely, kerta, hallintamuuttujat>>
  PROVE  Tarkistukset'
  BY DEF Tarkistukset, Tarkistettu, hallintamuuttujat, KyselynTilaOn, KyselynKerrat

\* A worker that is free has nothing checked
LEMMA VapaaTarkistettu ==
  ASSUME YksiKasittelija, TypeOK, NEW h \in Kasittelijat, Vapaudu(h)
  PROVE  Tarkistukset'
<1>1. \A g \in Kasittelijat : askel'[g] = "vapaa"
  BY DEF YksiKasittelija, Vapaudu, TypeOK, HallintaTyyppi
<1> QED BY <1>1 DEF Tarkistukset, Tarkistettu

\* A request arrives, is checked or refused: the rules stay, and what was
\* read is what the tables have
LEMMA TarkistusSarja ==
  ASSUME YksiKasittelija, SarjaInv, NEW h \in Kasittelijat,
         Saapuu(h) \/ Valtuuta(h) \/ Tarkista(h) \/ Hylkaa(h)
  PROVE  Saannot' /\ Tarkistukset'
<1> USE DEF SarjaInv, VastausInv, TypeOK, HallintaTyyppi
<1>1. Saannot'
  BY SaannotEnnallaan DEF Saapuu, Valtuuta, Tarkista, Hylkaa, Etene, kanta
<1> SUFFICES Tarkistukset'
  BY <1>1
<1>2. CASE Hylkaa(h)
  BY <1>2, VapaaTarkistettu DEF Hylkaa
<1>3. ASSUME NEW a \in {"saapunut", "valtuutettu"}, askel' = [askel EXCEPT ![h] = a],
             a = "valtuutettu" => pyynto'[h].toimi \in Tarkistettavat
      PROVE  Tarkistukset'
  BY <1>3 DEF YksiKasittelija, Tarkistukset, Tarkistettu
<1>4. CASE Saapuu(h)
  BY <1>3, <1>4 DEF Saapuu
<1>5. CASE Valtuuta(h) /\ ~Hylkaa(h)
  <2>1. Oikeus(pyynto[h]) /\ UNCHANGED <<pyynto, poistuvat, kanta>>
    BY <1>5 DEF Valtuuta, Etene
  <2>2. CASE pyynto[h].toimi \in Tarkistettavat
    BY <1>3, <1>5, <2>2 DEF Valtuuta, Etene
  <2>3. CASE pyynto[h].toimi \notin Tarkistettavat
    <3>1. askel' = [askel EXCEPT ![h] = "tarkistettu"]
      BY <1>5, <2>3 DEF Valtuuta, Etene
    <3>2. pyynto[h].toimi # "palautaLuonnokseksi"
      BY <2>3 DEF Tarkistettavat
    <3>3. /\ pyynto[h].toimi = "luoKerta" => KyselynTilaOn(pyynto[h].kysely, "julkaistu")
          /\ pyynto[h].toimi = "muokkaaKertaa" => ~kerta[pyynto[h].kerta].lukittu
          /\ pyynto[h].toimi = "muokkaaKyselya" => KyselynTilaOn(pyynto[h].kysely, "luonnos")
      BY <2>1 DEF Oikeus, KyselyMuokkaus, KyselykertaLuonti, KyselykertaMuokkaus
    <3>4. Tarkistettu(h)'
      BY <2>1, <3>1, <3>2, <3>3 DEF Tarkistettu, KyselynTilaOn, kanta
    <3> QED BY <3>4 DEF YksiKasittelija, Tarkistukset
  <2> QED BY <2>2, <2>3
<1>6. CASE Tarkista(h) /\ ~Hylkaa(h)
  <2>1. /\ Ehto(pyynto[h])
        /\ UNCHANGED <<pyynto, poistuvat, kanta>>
        /\ askel' = [askel EXCEPT ![h] = "tarkistettu"]
    BY <1>6 DEF Tarkista, Etene
  <2>2. ASSUME pyynto[h].toimi = "palautaLuonnokseksi"
        PROVE  KyselynKerrat(pyynto[h].kysely) = {}
    <3>1. LaskeKyselykerrat(pyynto[h].kysely) = 0
      BY <2>1, <2>2 DEF Ehto
    <3>2. IsFiniteSet(KyselynKerrat(pyynto[h].kysely))
      BY FS_Subset DEF Saannot, KyselynKerrat
    <3> QED BY <3>1, <3>2, FS_EmptySet DEF LaskeKyselykerrat
  <2>3. pyynto[h].toimi \notin {"luoKerta", "muokkaaKertaa", "muokkaaKyselya"}
      BY <1>6 DEF Tarkista, Tarkistukset, Tarkistettu, Tarkistettavat
  <2> QED
    BY <2>1, <2>2, <2>3
    DEF YksiKasittelija, Tarkistukset, Tarkistettu, KyselynKerrat, kanta
<1> QED BY <1>2, <1>4, <1>5, <1>6

-----------------------------------------------------------------------------
\* What a write leaves as it is: the code's round, the round's survey, a lock
\* that the request is not about, and the content of all but drafts
Pysyy(h) ==
  /\ \A t \in DOMAIN tunnus \cap DOMAIN tunnus' : tunnus'[t].kerta = tunnus[t].kerta
  /\ \A c \in DOMAIN kerta \cap DOMAIN kerta' :
       /\ kerta'[c].kysely = kerta[c].kysely
       /\ kerta[c].lukittu /\ ~kerta'[c].lukittu =>
            askel[h] # "vapaa" /\ pyynto[h].toimi = "lukitseKerta"
  /\ \A k \in DOMAIN kysely \cap DOMAIN kysely' :
       kysely[k].tila # "luonnos" =>
         kysely'[k].kysymykset = kysely[k].kysymykset /\ kysely'[k].ryhmat = kysely[k].ryhmat

\* New rows change nothing of the old ones
LEMMA LisaysPysyy ==
  ASSUME NEW h,
         \A t \in DOMAIN tunnus : tunnus'[t] = tunnus[t],
         \A c \in DOMAIN kerta : kerta'[c] = kerta[c],
         \A k \in DOMAIN kysely : kysely'[k] = kysely[k]
  PROVE  Pysyy(h)
  BY DEF Pysyy

\* A change of state leaves the content; a survey with rounds is not made a draft
LEMMA TilaSarja ==
  ASSUME TypeOK, Saannot, NEW h, NEW k, NEW tila, AsetaTila(k, tila),
         tila = "luonnos" => KyselynKerrat(k) = {}
  PROVE  Saannot' /\ Pysyy(h)
<1>1. /\ DOMAIN kysely' = DOMAIN kysely
      /\ UNCHANGED <<kerta, tunnus>>
      /\ \A x \in DOMAIN kysely :
           /\ kysely'[x].ryhmat = kysely[x].ryhmat
           /\ kysely'[x].kysymykset = kysely[x].kysymykset
           /\ kysely'[x].tila = IF x = k THEN tila ELSE kysely[x].tila
  BY DEF AsetaTila, TypeOK, KantaTyyppi, Kyselyrivi
<1>2. Pysyy(h)
  BY <1>1 DEF Pysyy
<1>3. LuonnoksellaEiKertoja'
  BY <1>1 DEF Saannot, LuonnoksellaEiKertoja, KyselynTilaOn, KyselynKerrat
<1>4. EiPoistettavatKysytaan'
  BY <1>1 DEF Saannot, EiPoistettavatKysytaan
<1> QED BY <1>1, <1>2, <1>3, <1>4 DEF Saannot

\* A deletion takes rows and changes none
LEMMA PoistoSarja ==
  ASSUME Saannot, NEW h, NEW K, NEW C, NEW T,
         kysely' = Ilman(kysely, K), kerta' = Ilman(kerta, C), tunnus' = Ilman(tunnus, T)
  PROVE  Saannot' /\ Pysyy(h)
<1>1. /\ DOMAIN kysely' = DOMAIN kysely \ K
      /\ DOMAIN kerta' = DOMAIN kerta \ C
      /\ DOMAIN tunnus' = DOMAIN tunnus \ T
      /\ \A x \in DOMAIN kysely' : kysely'[x] = kysely[x]
      /\ \A x \in DOMAIN kerta' : kerta'[x] = kerta[x]
      /\ \A x \in DOMAIN tunnus' : tunnus'[x] = tunnus[x]
  BY DEF Ilman
<1>2. IsFiniteSet(DOMAIN kerta')
  BY <1>1, FS_Subset DEF Saannot
<1> QED
  BY <1>1, <1>2 DEF Pysyy, Saannot, LuonnoksellaEiKertoja, EiPoistettavatKysytaan, KyselynTilaOn

\* A content that a page sends and lisaa-kysymysryhma! accepts asks all
\* questions of its groups but removable ones
LEMMA SisaltoKysytaan ==
  ASSUME NEW x, SaaPoistaa(x)
  PROVE  \A r \in x.ryhmat : RyhmanKysymykset[r] \ Poistettavat \subseteq SisallonKysymykset(x)
  BY DEF SaaPoistaa, SisallonKysymykset

\* A new survey is a draft, and no round refers to its id
LEMMA LuoKyselySarja ==
  ASSUME SarjaInv, NEW h \in Kasittelijat, LuoKysely(h), ~Hylkaa(h)
  PROVE  Saannot' /\ Pysyy(h)
<1> DEFINE p == pyynto[h]
           rivi == [tila |-> "luonnos", ikkuna |-> p.ikkuna, ryhmat |-> p.sisalto.ryhmat,
                    kysymykset |-> SisallonKysymykset(p.sisalto)]
<1> USE DEF SarjaInv, VastausInv, TypeOK, KantaTyyppi
<1>1. PICK k \in Kyselyt \ kaytetyt :
        kysely' = Lisaten(kysely, k, rivi) /\ UNCHANGED <<kerta, tunnus>>
  BY DEF LuoKysely
<1>2. SaaPoistaa(p.sisalto)
  BY DEF LuoKysely
<1>3. /\ rivi.ryhmat = p.sisalto.ryhmat
      /\ rivi.kysymykset = SisallonKysymykset(p.sisalto)
  OBVIOUS
<1> HIDE DEF rivi
<1>4. /\ DOMAIN kysely' = DOMAIN kysely \cup {k}
      /\ kysely'[k] = rivi
      /\ k \notin DOMAIN kysely
      /\ \A x \in DOMAIN kysely : kysely'[x] = kysely[x]
  BY <1>1 DEF Lisaten
<1>5. LuonnoksellaEiKertoja'
  BY <1>1, <1>4 DEF Saannot, LuonnoksellaEiKertoja, KyselynTilaOn, Eheys, ViiteEheys
<1>6. EiPoistettavatKysytaan'
  BY <1>2, <1>3, <1>4, SisaltoKysytaan DEF Saannot, EiPoistettavatKysytaan
<1>7. Pysyy(h)
  BY <1>1, <1>4, LisaysPysyy
<1> QED BY <1>1, <1>5, <1>6, <1>7 DEF Saannot

\* An edit replaces the whole content of a draft: it deletes what is there,
\* since nobody else has written to it
LEMMA MuokkaaKyselyaSarja ==
  ASSUME SarjaInv, NEW h \in Kasittelijat, MuokkaaKyselya(h), ~Hylkaa(h)
  PROVE  Saannot' /\ Pysyy(h)
<1> DEFINE k == pyynto[h].kysely
           x == pyynto[h].sisalto
<1> USE DEF SarjaInv, VastausInv, TypeOK, KantaTyyppi, Kyselyrivi
<1>1. /\ KyselynTilaOn(k, "luonnos")
      /\ poistuvat[h].ryhmat = kysely[k].ryhmat
      /\ poistuvat[h].kysymykset = kysely[k].kysymykset
  BY DEF MuokkaaKyselya, Tarkistukset, Tarkistettu
<1>2. /\ k \in DOMAIN kysely
      /\ SaaPoistaa(x)
      /\ UNCHANGED <<kerta, tunnus>>
      /\ DOMAIN kysely' = DOMAIN kysely
      /\ \A y \in DOMAIN kysely \ {k} : kysely'[y] = kysely[y]
      /\ kysely'[k].ryhmat = x.ryhmat
      /\ kysely'[k].kysymykset = SisallonKysymykset(x)
  <2> DEFINE vanhat == kysely[k].ryhmat \ poistuvat[h].ryhmat
             kysytyt == kysely[k].kysymykset \ poistuvat[h].kysymykset
             rivi == [tila |-> "luonnos", ikkuna |-> pyynto[h].ikkuna,
                      ryhmat |-> vanhat \cup x.ryhmat,
                      kysymykset |-> kysytyt \cup SisallonKysymykset(x)]
  <2>1. /\ k \in DOMAIN kysely
        /\ SaaPoistaa(x)
        /\ UNCHANGED <<kerta, tunnus>>
        /\ kysely' = [kysely EXCEPT ![k] = rivi]
    BY DEF MuokkaaKyselya
  <2>2. rivi.ryhmat = x.ryhmat /\ rivi.kysymykset = SisallonKysymykset(x)
    BY <1>1
  <2> HIDE DEF rivi
  <2> QED BY <2>1, <2>2
<1>3. LuonnoksellaEiKertoja'
  BY <1>1, <1>2 DEF Saannot, LuonnoksellaEiKertoja, KyselynTilaOn
<1>4. EiPoistettavatKysytaan'
  BY <1>2, SisaltoKysytaan DEF Saannot, EiPoistettavatKysytaan
<1>5. Pysyy(h)
  BY <1>1, <1>2 DEF Pysyy, KyselynTilaOn
<1> QED BY <1>2, <1>3, <1>4, <1>5 DEF Saannot

\* A round is made for a survey that was published when that was checked
LEMMA LuoKertaSarja ==
  ASSUME SarjaInv, NEW h \in Kasittelijat, LuoKerta(h), ~Hylkaa(h)
  PROVE  Saannot' /\ Pysyy(h)
<1> DEFINE p == pyynto[h]
           rivi == [kysely |-> p.kysely, ikkuna |-> p.ikkuna, lukittu |-> FALSE]
<1> USE DEF SarjaInv, VastausInv, TypeOK, KantaTyyppi
<1>1. PICK c \in Kerrat \ kaytetyt :
        kerta' = Lisaten(kerta, c, rivi) /\ UNCHANGED <<kysely, tunnus>>
  BY DEF LuoKerta
<1>2. KyselynTilaOn(p.kysely, "julkaistu") /\ rivi.kysely = p.kysely
  BY DEF LuoKerta, Kirjoitusvuoro, Tarkistukset, Tarkistettu
<1> HIDE DEF rivi
<1>3. /\ DOMAIN kerta' = DOMAIN kerta \cup {c}
      /\ kerta'[c] = rivi
      /\ c \notin DOMAIN kerta
      /\ \A y \in DOMAIN kerta : kerta'[y] = kerta[y]
  BY <1>1 DEF Lisaten
<1>4. IsFiniteSet(DOMAIN kerta')
  BY <1>3, FS_AddElement DEF Saannot
<1>5. LuonnoksellaEiKertoja'
  BY <1>1, <1>2, <1>3 DEF Saannot, LuonnoksellaEiKertoja, KyselynTilaOn
<1>6. EiPoistettavatKysytaan'
  BY <1>1 DEF Saannot, EiPoistettavatKysytaan
<1>7. Pysyy(h)
  BY <1>1, <1>3, LisaysPysyy
<1> QED BY <1>4, <1>5, <1>6, <1>7 DEF Saannot

\* Each write keeps the rules and what they say stays
LEMMA KirjoitusSarja ==
  ASSUME SarjaInv, NEW h \in Kasittelijat, Kirjoita(h)
  PROVE  Saannot' /\ Pysyy(h)
<1> USE DEF SarjaInv, VastausInv, TypeOK, KantaTyyppi
<1>1. ASSUME UNCHANGED <<kysely, kerta, tunnus>> PROVE Saannot' /\ Pysyy(h)
  BY <1>1, SaannotEnnallaan DEF Pysyy
<1>2. CASE Hylkaa(h)
  BY <1>1, <1>2 DEF Hylkaa, kanta
<1>3. CASE PoistaRyhmat(h) \/ PoistaKysymykset(h)
  BY <1>1, <1>3 DEF PoistaRyhmat, PoistaKysymykset, kanta
<1>4. CASE JulkaiseKysely(h) \/ PalautaKysely(h) \/ SuljeKysely(h)
  BY <1>4, TilaSarja DEF JulkaiseKysely, PalautaKysely, SuljeKysely
<1>5. CASE PalautaLuonnokseksi(h)
  <2>1. KyselynKerrat(pyynto[h].kysely) = {}
    BY <1>5 DEF PalautaLuonnokseksi, Kirjoitusvuoro, Tarkistukset, Tarkistettu
  <2> QED BY <1>1, <1>5, <2>1, TilaSarja DEF PalautaLuonnokseksi, hallintataulut
<1>6. CASE (PoistaKysely(h) \/ PoistaKerta(h) \/ PoistaTunnus(h)) /\ ~Hylkaa(h)
  BY <1>6, PoistoSarja DEF PoistaKysely, PoistaKerta, PoistaTunnus, Poista
<1>7. CASE MuokkaaKertaa(h) \/ LukitseKerta(h)
  <2>1. /\ DOMAIN kerta' = DOMAIN kerta
        /\ UNCHANGED <<kysely, tunnus>>
        /\ \A c \in DOMAIN kerta :
             /\ kerta'[c].kysely = kerta[c].kysely
             /\ kerta[c].lukittu /\ ~kerta'[c].lukittu => pyynto[h].toimi = "lukitseKerta"
        /\ askel[h] # "vapaa"
    BY <1>7
    DEF MuokkaaKertaa, LukitseKerta, Kirjoitusvuoro, Kertarivi, Tarkistukset, Tarkistettu
  <2> QED
    BY <2>1
    DEF Pysyy, Saannot, LuonnoksellaEiKertoja, EiPoistettavatKysytaan, KyselynTilaOn
<1>8. CASE LuoTunnukset(h) /\ ~Hylkaa(h)
  <2>1. /\ UNCHANGED <<kysely, kerta>>
        /\ \A t \in DOMAIN tunnus : tunnus'[t] = tunnus[t]
    BY <1>8 DEF LuoTunnukset
  <2> QED BY <2>1, SaannotEnnallaan DEF Pysyy
<1>9. CASE LukitseTunnus(h) \/ MuokkaaLukumaaraa(h)
  <2>1. /\ UNCHANGED <<kysely, kerta>>
        /\ \A t \in DOMAIN tunnus : tunnus'[t].kerta = tunnus[t].kerta
    BY <1>9 DEF LukitseTunnus, MuokkaaLukumaaraa, Tunnusrivi
  <2> QED BY <2>1, SaannotEnnallaan DEF Pysyy
<1> QED
  BY <1>2, <1>3, <1>4, <1>5, <1>6, <1>7, <1>8, <1>9, LuoKyselySarja, MuokkaaKyselyaSarja,
     LuoKertaSarja DEF Kirjoita

\* A write ends the request, or is one of the two deletions that begin an edit
LEMMA KirjoitusTarkistukset ==
  ASSUME YksiKasittelija, SarjaInv, NEW h \in Kasittelijat, Kirjoita(h)
  PROVE  Tarkistukset'
<1> USE DEF SarjaInv, VastausInv, TypeOK
<1>1. ASSUME Vapaudu(h) PROVE Tarkistukset'
  BY <1>1, VapaaTarkistettu
<1>2. CASE PoistaRyhmat(h)
  <2>1. /\ KyselynTilaOn(pyynto[h].kysely, "luonnos")
        /\ UNCHANGED <<pyynto, kysely, kerta>>
        /\ askel' = [askel EXCEPT ![h] = "ryhmatPoistettu"]
        /\ poistuvat' = [poistuvat EXCEPT ![h].ryhmat = kysely[pyynto[h].kysely].ryhmat]
    BY <1>2 DEF PoistaRyhmat, Kirjoitusvuoro, Tarkistukset, Tarkistettu, KyselynTilaOn, kanta
  <2>2. askel'[h] = "ryhmatPoistettu" /\ poistuvat'[h].ryhmat = kysely[pyynto[h].kysely].ryhmat
    BY <2>1 DEF HallintaTyyppi
  <2>3. Tarkistettu(h)'
    BY <2>1, <2>2 DEF Tarkistettu, KyselynTilaOn
  <2> QED BY <2>3 DEF YksiKasittelija, Tarkistukset
<1>3. CASE PoistaKysymykset(h)
  <2>1. /\ KyselynTilaOn(pyynto[h].kysely, "luonnos")
        /\ poistuvat[h].ryhmat = kysely[pyynto[h].kysely].ryhmat
        /\ UNCHANGED <<pyynto, kysely, kerta>>
        /\ askel' = [askel EXCEPT ![h] = "kysymyksetPoistettu"]
        /\ poistuvat' = [poistuvat EXCEPT ![h].kysymykset = kysely[pyynto[h].kysely].kysymykset]
    BY <1>3 DEF PoistaKysymykset, Tarkistukset, Tarkistettu, KyselynTilaOn, kanta
  <2>2. /\ askel'[h] = "kysymyksetPoistettu"
        /\ poistuvat'[h].ryhmat = kysely[pyynto[h].kysely].ryhmat
        /\ poistuvat'[h].kysymykset = kysely[pyynto[h].kysely].kysymykset
    BY <2>1 DEF HallintaTyyppi
  <2>3. Tarkistettu(h)'
    BY <2>1, <2>2 DEF Tarkistettu, KyselynTilaOn
  <2> QED BY <2>3 DEF YksiKasittelija, Tarkistukset
<1>4. CASE LuoKysely(h) \/ MuokkaaKyselya(h) \/ LuoKerta(h) \/ LuoTunnukset(h)
  BY <1>1, <1>4 DEF LuoKysely, MuokkaaKyselya, LuoKerta, LuoTunnukset, Hylkaa, Valmis
<1>5. CASE \/ JulkaiseKysely(h) \/ PalautaKysely(h) \/ SuljeKysely(h) \/ PalautaLuonnokseksi(h)
           \/ MuokkaaKertaa(h) \/ LukitseKerta(h) \/ LukitseTunnus(h) \/ MuokkaaLukumaaraa(h)
  BY <1>1, <1>5
  DEF JulkaiseKysely, PalautaKysely, SuljeKysely, PalautaLuonnokseksi, MuokkaaKertaa,
      LukitseKerta, LukitseTunnus, MuokkaaLukumaaraa, Valmis
<1>6. CASE PoistaKysely(h) \/ PoistaKerta(h) \/ PoistaTunnus(h)
  BY <1>1, <1>6 DEF PoistaKysely, PoistaKerta, PoistaTunnus, Poista, Hylkaa, Valmis
<1> QED BY <1>2, <1>3, <1>4, <1>5, <1>6 DEF Kirjoita

\* Pages write nothing of the administration's, and neither does the clock
LEMMA SivutEivatHallitse ==
  ASSUME \/ VastaaminenNext /\ UNCHANGED hallintamuuttujat
         \/ PaivaVaihtuu /\ UNCHANGED <<vastausmuuttujat, hallintamuuttujat>>
         \/ UNCHANGED vars
  PROVE  UNCHANGED <<hallintataulut, hallintamuuttujat>>
<1>1. ASSUME NEW s \in Istunnot, NEW t, AvaaSivu(s, t) \/ Laheta(s) \/ Keskeytyy(s)
      PROVE  UNCHANGED hallintataulut
  BY <1>1 DEF AvaaSivu, Laheta, Keskeytyy, Peru, kanta, hallintataulut
<1>2. ASSUME NEW s \in Istunnot, Palvele(s) PROVE UNCHANGED hallintataulut
  BY <1>2
  DEF Palvele, TarkistaPaikat, HaeLomake, TarkistaTunnus, LuoVastaaja, LisaaVastaaja, Validoi,
      TallennaVastaus, Vahvista, MerkitseVastanneeksi, Kuittaa, Peru, kanta, hallintataulut
<1> QED
  BY <1>1, <1>2 DEF VastaaminenNext, PaivaVaihtuu, vars, kanta, hallintataulut

\* The rules are inductive relative to VastausInv
LEMMA AskelSarja ==
  ASSUME YksiKasittelija, SarjaInv, [Next]_vars
  PROVE  Saannot' /\ Tarkistukset'
<1>1. CASE HallintaNext
  <2>1. PICK h \in Kasittelijat : Saapuu(h) \/ Kasittele(h) \/ KasittelyKeskeytyy(h)
    BY <1>1 DEF HallintaNext
  <2> QED
    BY <2>1, TarkistusSarja, KirjoitusSarja, KirjoitusTarkistukset
    DEF Kasittele, KasittelyKeskeytyy
<1>2. CASE UNCHANGED <<hallintataulut, hallintamuuttujat>>
  BY <1>2, SaannotEnnallaan, TarkistuksetEnnallaan DEF SarjaInv, hallintataulut
<1> QED BY <1>1, <1>2, SivutEivatHallitse DEF Next

LEMMA SarjaInvSailyy == ASSUME YksiKasittelija PROVE Spec => []SarjaInv
<1>1. Init => SarjaInv
  BY AlkuTyyppi, AlkuEheys, AlkuLahetykset, AlkuSarja DEF SarjaInv, VastausInv
<1>2. SarjaInv /\ [Next]_vars => SarjaInv'
  BY AskelTyyppi, AskelEheys, AskelLahetykset, AskelSarja DEF SarjaInv, VastausInv
<1> QED BY <1>1, <1>2, PTL DEF Spec

(***************************************************************************)
(* kyselykerta-luonti? and the count of rounds in PUT palauta-luonnokseksi *)
(* together keep rounds away from drafts, so nobody answers a survey while *)
(* it is edited.                                                           *)
(***************************************************************************)
THEOREM LuonnoksellaEiKoskaanKertoja ==
  ASSUME YksiKasittelija PROVE Spec => []LuonnoksellaEiKertoja
<1>1. SarjaInv => LuonnoksellaEiKertoja
  BY DEF SarjaInv, Saannot
<1> QED BY <1>1, SarjaInvSailyy, PTL

(***************************************************************************)
(* lisaa-kysymysryhma! and the deletions before it keep a survey's         *)
(* questions those of its groups, but for the removable ones.              *)
(***************************************************************************)
THEOREM EiPoistettavatAinaKysytaan ==
  ASSUME YksiKasittelija PROVE Spec => []EiPoistettavatKysytaan
<1>1. SarjaInv => EiPoistettavatKysytaan
  BY DEF SarjaInv, Saannot
<1> QED BY <1>1, SarjaInvSailyy, PTL

\* Steps of one worker change no content but a draft's, and no lock but by
\* the request to
LEMMA AskelPysyy ==
  ASSUME SarjaInv, [Next]_vars
  PROVE  \/ UNCHANGED <<kysely, kerta, tunnus>>
         \/ \E h \in Kasittelijat : Pysyy(h)
<1>1. CASE HallintaNext
  <2>1. PICK h \in Kasittelijat : Saapuu(h) \/ Kasittele(h) \/ KasittelyKeskeytyy(h)
    BY <1>1 DEF HallintaNext
  <2>2. CASE Kirjoita(h)
    BY <2>2, KirjoitusSarja
  <2>3. CASE ~Kirjoita(h)
    BY <2>1, <2>3
    DEF Saapuu, Kasittele, Valtuuta, Tarkista, Etene, KasittelyKeskeytyy, Hylkaa, kanta
  <2> QED BY <2>2, <2>3
<1>2. CASE UNCHANGED <<hallintataulut, hallintamuuttujat>>
  BY <1>2 DEF hallintataulut
<1> QED BY <1>1, <1>2, SivutEivatHallitse DEF Next

(***************************************************************************)
(* kysely-muokkaus? keeps the content of a published or closed survey from *)
(* changing.                                                               *)
(***************************************************************************)
THEOREM JulkaistuaEiKoskaanMuokata ==
  ASSUME YksiKasittelija PROVE Spec => JulkaistuaEiMuokata
<1> DEFINE Sama == \A k \in DOMAIN kysely \cap DOMAIN kysely' :
       kysely[k].tila # "luonnos" =>
         /\ kysely'[k].kysymykset = kysely[k].kysymykset
         /\ kysely'[k].ryhmat = kysely[k].ryhmat
<1>1. SarjaInv /\ [Next]_vars => Sama
  BY AskelPysyy DEF Pysyy
<1>2. SarjaInv /\ [Next]_vars => [Sama]_vars
  BY <1>1
<1> QED BY <1>2, SarjaInvSailyy, PTL DEF Spec, JulkaistuaEiMuokata

(***************************************************************************)
(* Saving an edited round writes the lock back as it was loaded, but       *)
(* kyselykerta-muokkaus? lets it only when the round is not locked.        *)
(***************************************************************************)
THEOREM LukkoAinaAvataanPyynnosta ==
  ASSUME YksiKasittelija PROVE Spec => LukkoAvataanPyynnosta
<1> DEFINE Pyynnosta == \A c \in DOMAIN kerta \cap DOMAIN kerta' :
       kerta[c].lukittu /\ ~kerta'[c].lukittu =>
         \E h \in Kasittelijat : pyynto[h] # Ei /\ pyynto[h].toimi = "lukitseKerta"
<1>1. SarjaInv /\ [Next]_vars => Pyynnosta
  <2> SUFFICES ASSUME SarjaInv, [Next]_vars PROVE Pyynnosta
    OBVIOUS
  <2>1. \A h \in Kasittelijat : askel[h] # "vapaa" => pyynto[h] # Ei
    BY HallintaOletus DEF SarjaInv, VastausInv, TypeOK, HallintaTyyppi
  <2> QED BY <2>1, AskelPysyy DEF Pysyy
<1>2. SarjaInv /\ [Next]_vars => [Pyynnosta]_vars
  BY <1>1
<1> QED BY <1>2, SarjaInvSailyy, PTL DEF Spec, LukkoAvataanPyynnosta

-----------------------------------------------------------------------------
\* What an open request writes is for the page's code, and the questions it
\* was validated against are still those of the survey
LuettuSisalto == \A s \in Kirjoittavat :
  /\ avoin[s].tunnus = koodi[s]
  /\ vaihe[s] = "tallennus" => luetut[s] = TunnuksenKysymykset(koodi[s])

VastaustenInv == SarjaInv /\ LuettuSisalto /\ VastauksetKyselysta

\* The questions behind a code stay while the code does: its survey has a
\* round, so it is not a draft
LEMMA KysymyksetPysyvat ==
  ASSUME SarjaInv, Eheys', [Next]_vars,
         NEW t \in DOMAIN tunnus \cap DOMAIN tunnus'
  PROVE  TunnuksenKysymykset(t)' = TunnuksenKysymykset(t)
<1> DEFINE c == tunnus[t].kerta
           k == kerta[c].kysely
<1>1. CASE UNCHANGED <<kysely, kerta, tunnus>>
  BY <1>1 DEF TunnuksenKysymykset
<1>2. ASSUME NEW h \in Kasittelijat, Pysyy(h)
      PROVE  TunnuksenKysymykset(t)' = TunnuksenKysymykset(t)
  <2>1. c \in DOMAIN kerta /\ k \in DOMAIN kysely /\ kysely[k].tila # "luonnos"
    BY DEF SarjaInv, VastausInv, Eheys, ViiteEheys, Saannot, LuonnoksellaEiKertoja, KyselynTilaOn
  <2>2. tunnus'[t].kerta = c /\ c \in DOMAIN kerta'
    BY <1>2 DEF Pysyy, Eheys, ViiteEheys
  <2>3. kerta'[c].kysely = k /\ k \in DOMAIN kysely'
    BY <1>2, <2>1, <2>2 DEF Pysyy, Eheys, ViiteEheys
  <2>4. kysely'[k].kysymykset = kysely[k].kysymykset
    BY <1>2, <2>1, <2>3 DEF Pysyy
  <2> QED BY <2>1, <2>2, <2>3, <2>4 DEF TunnuksenKysymykset
<1> QED BY <1>1, <1>2, AskelPysyy

\* The commit adds one respondent, and answers of that one only
LEMMA VahvistaLisaa ==
  ASSUME VastausInv, NEW s \in Istunnot, Vahvista(s)
  PROVE  \E v :
           /\ vastaaja' = vastaaja \cup {v}
           /\ v.tunnus = avoin[s].tunnus
           /\ Vastatut(v.id)' = lahetetyt[s]
           /\ \A w \in vastaaja : Vastatut(w.id)' = Vastatut(w.id)
<1> USE DEF VastausInv, TypeOK, LahetystenEheys
<1>1. PICK v : v = [id |-> avoin[s].id, tunnus |-> avoin[s].tunnus,
                    kerta |-> avoin[s].kerta, vastannut |-> TRUE]
  OBVIOUS
<1>2. /\ vaihe[s] = "tallennus"
      /\ vastaaja' = vastaaja \cup {v}
      /\ vastaus' = vastaus \cup {[vastaaja |-> v.id, kysymys |-> q] : q \in tallennetut[s]}
  BY <1>1 DEF Vahvista, MerkitseVastanneeksi
<1>3. v.id = <<s, yritys[s]>> /\ v.id[1] = s /\ v.tunnus = avoin[s].tunnus
  BY <1>1, <1>2 DEF AvoimetIdt, Kirjoittavat
<1>4. yritys[s] \in 1 .. MaxYrityksia
  BY <1>2, VastaaminenOletus DEF VastaaminenTyyppi, Kesken
<1>5. \A w \in vastaaja : w.id # v.id
  BY <1>2, <1>3, <1>4 DEF UudetIdt, Kesken
<1>6. ASSUME NEW w \in vastaaja PROVE Vastatut(w.id)' = Vastatut(w.id)
  <2>1. {r \in vastaus' : r.vastaaja = w.id} = {r \in vastaus : r.vastaaja = w.id}
    BY <1>2, <1>5
  <2> QED BY <2>1 DEF Vastatut
<1>7. v \in vastaaja' \ vastaaja
  BY <1>2, <1>5
<1>8. Vastatut(v.id)' = lahetetyt[s]
  BY <1>3, <1>7, VahvistaKokonaan DEF VainKokonaisia, Vastatut
<1> QED BY <1>2, <1>3, <1>6, <1>8

\* Steps that leave pages and answers alone
LEMMA MuutVastaukset ==
  ASSUME VastaustenInv, Eheys', [Next]_vars, UNCHANGED <<vastausmuuttujat, vastaustaulut>>
  PROVE  LuettuSisalto' /\ VastauksetKyselysta'
<1> USE DEF VastaustenInv, SarjaInv, VastausInv, vastausmuuttujat, vastaustaulut
<1>1. ASSUME NEW v \in vastaaja
      PROVE  TunnuksenKysymykset(v.tunnus)' = TunnuksenKysymykset(v.tunnus)
  BY <1>1, KysymyksetPysyvat DEF Eheys, ViiteEheys
<1>2. VastauksetKyselysta'
  BY <1>1 DEF VastauksetKyselysta, Vastatut
<1>3. ASSUME NEW s \in Kirjoittavat
      PROVE  TunnuksenKysymykset(avoin[s].tunnus)' = TunnuksenKysymykset(avoin[s].tunnus)
  <2>1. Kirjoittavat' = Kirjoittavat
    BY DEF Kirjoittavat
  <2>2. avoin[s].tunnus \in DOMAIN tunnus \cap DOMAIN tunnus'
    BY <1>3, <2>1 DEF Eheys, KeskeneraistenEheys
  <2> QED BY <2>2, KysymyksetPysyvat
<1>4. LuettuSisalto'
  BY <1>3 DEF LuettuSisalto, Kirjoittavat
<1> QED BY <1>2, <1>4

\* Each step of an answering page
LEMMA SivuVastaukset ==
  ASSUME VastaustenInv, NEW s \in Istunnot,
         \/ \E t \in Tunnukset : AvaaSivu(s, t)
         \/ Laheta(s) \/ Palvele(s) \/ Keskeytyy(s)
  PROVE  LuettuSisalto' /\ VastauksetKyselysta'
<1> USE DEF VastaustenInv, SarjaInv, VastausInv, TypeOK, VastaaminenTyyppi, Siirry
<1>1. ASSUME UNCHANGED <<vastaustaulut, kysely, kerta, tunnus>> PROVE VastauksetKyselysta'
  BY <1>1 DEF VastauksetKyselysta, Vastatut, TunnuksenKysymykset, vastaustaulut
<1>2. ASSUME UNCHANGED <<kysely, kerta, tunnus>>, Kirjoittavat' \subseteq Kirjoittavat,
             \A i \in Kirjoittavat' : UNCHANGED <<vaihe[i], avoin[i], koodi[i], luetut[i]>>
      PROVE  LuettuSisalto'
  BY <1>2 DEF LuettuSisalto, TunnuksenKysymykset
<1>3. ASSUME Peru(s) PROVE LuettuSisalto' /\ VastauksetKyselysta'
  <2>1. /\ Kirjoittavat' \subseteq Kirjoittavat
        /\ \A i \in Kirjoittavat' : UNCHANGED <<vaihe[i], avoin[i], koodi[i], luetut[i]>>
    BY <1>3 DEF Peru, Kirjoittavat
  <2> QED BY <1>1, <1>2, <1>3, <2>1 DEF Peru, kanta, vastaustaulut
<1>4. CASE \/ \E t \in Tunnukset : AvaaSivu(s, t)
           \/ Laheta(s) \/ TarkistaPaikat(s) \/ HaeLomake(s) \/ Kuittaa(s)
           \/ TarkistaTunnus(s) /\ ~Peru(s)
  <2>1. UNCHANGED kanta
    BY <1>4 DEF AvaaSivu, Laheta, TarkistaPaikat, HaeLomake, Kuittaa, TarkistaTunnus
  <2>2. /\ Kirjoittavat' \subseteq Kirjoittavat
        /\ \A i \in Kirjoittavat' : UNCHANGED <<vaihe[i], avoin[i], koodi[i], luetut[i]>>
    BY <1>4
    DEF AvaaSivu, Laheta, TarkistaPaikat, HaeLomake, Kuittaa, TarkistaTunnus, Kirjoittavat
  <2> QED BY <1>1, <1>2, <2>1, <2>2 DEF kanta, vastaustaulut
<1>5. CASE LuoVastaaja(s) /\ ~Peru(s)
  <2>1. UNCHANGED kanta
    BY <1>5 DEF LuoVastaaja, LisaaVastaaja
  <2>2. \A t : TunnuksenKysymykset(t)' = TunnuksenKysymykset(t)
    BY <2>1 DEF TunnuksenKysymykset, kanta
  <2>3. /\ avoin'[s].tunnus = koodi[s] /\ vaihe'[s] = "luotu" /\ UNCHANGED <<koodi, luetut>>
        /\ \A i \in Istunnot \ {s} : UNCHANGED <<vaihe[i], avoin[i]>>
    BY <1>5 DEF LuoVastaaja, LisaaVastaaja
  <2>4. LuettuSisalto'
    BY <2>2, <2>3 DEF LuettuSisalto, Kirjoittavat
  <2> QED BY <1>1, <2>1, <2>4 DEF kanta, vastaustaulut
<1>6. CASE Validoi(s) /\ ~Peru(s)
  <2>1. UNCHANGED kanta
    BY <1>6 DEF Validoi
  <2>2. \A t : TunnuksenKysymykset(t)' = TunnuksenKysymykset(t)
    BY <2>1 DEF TunnuksenKysymykset, kanta
  <2>3. /\ s \in Kirjoittavat /\ UNCHANGED <<avoin, koodi>>
        /\ luetut'[s] = TunnuksenKysymykset(koodi[s])
        /\ \A i \in Istunnot \ {s} : UNCHANGED <<vaihe[i], luetut[i]>>
    BY <1>6 DEF Validoi, Kirjoittavat
  <2>4. LuettuSisalto'
    BY <2>2, <2>3 DEF LuettuSisalto, Kirjoittavat
  <2> QED BY <1>1, <2>1, <2>4 DEF kanta, vastaustaulut
<1>7. CASE TallennaVastaus(s)
  <2>1. UNCHANGED kanta
    BY <1>7 DEF TallennaVastaus
  <2>2. /\ Kirjoittavat' \subseteq Kirjoittavat
        /\ \A i \in Kirjoittavat' : UNCHANGED <<vaihe[i], avoin[i], koodi[i], luetut[i]>>
    BY <1>7 DEF TallennaVastaus, Kirjoittavat
  <2> QED BY <1>1, <1>2, <2>1, <2>2 DEF kanta, vastaustaulut
<1>8. CASE Vahvista(s)
  <2>1. PICK v :
          /\ vastaaja' = vastaaja \cup {v}
          /\ v.tunnus = avoin[s].tunnus
          /\ Vastatut(v.id)' = lahetetyt[s]
          /\ \A w \in vastaaja : Vastatut(w.id)' = Vastatut(w.id)
    BY <1>8, VahvistaLisaa
  <2>2. vaihe[s] = "tallennus" /\ UNCHANGED <<kysely, kerta, tunnus>>
    BY <1>8 DEF Vahvista, MerkitseVastanneeksi, hallintataulut
  <2>3. \A t : TunnuksenKysymykset(t)' = TunnuksenKysymykset(t)
    BY <2>2 DEF TunnuksenKysymykset
  <2>4. Validi(lahetetyt[s], TunnuksenKysymykset(v.tunnus))
    BY <2>1, <2>2 DEF LahetystenEheys, Validoidut, LuettuSisalto, Kirjoittavat
  <2>5. VastauksetKyselysta'
    BY <2>1, <2>3, <2>4, SMTT(15) DEF VastauksetKyselysta, Validi
  <2>6. /\ Kirjoittavat' \subseteq Kirjoittavat
        /\ \A i \in Kirjoittavat' : UNCHANGED <<vaihe[i], avoin[i], koodi[i], luetut[i]>>
    BY <1>8 DEF Vahvista, MerkitseVastanneeksi, Kirjoittavat
  <2> QED BY <1>2, <2>2, <2>5, <2>6
<1>9. CASE Keskeytyy(s)
  BY <1>3, <1>9 DEF Keskeytyy
<1> QED
  BY <1>3, <1>4, <1>5, <1>6, <1>7, <1>8, <1>9 DEF Palvele

(***************************************************************************)
(* An answered survey keeps its questions: every respondent has answered   *)
(* the mandatory ones and nothing else, at every later time.  A request    *)
(* under way is safe too: its code is locked, so the round stays, so the   *)
(* survey is not returned to draft.                                        *)
(***************************************************************************)
THEOREM VastauksetAinaKyselysta ==
  ASSUME YksiKasittelija PROVE Spec => []VastauksetKyselysta
<1>1. Init => VastaustenInv
  <2>1. Init => LuettuSisalto /\ VastauksetKyselysta
    BY DEF Init, KantaInit, VastaaminenInit, LuettuSisalto, VastauksetKyselysta, Kirjoittavat
  <2> QED
    BY <2>1, AlkuTyyppi, AlkuEheys, AlkuLahetykset, AlkuSarja
    DEF VastaustenInv, SarjaInv, VastausInv
<1>2. VastaustenInv /\ [Next]_vars => VastaustenInv'
  <2> SUFFICES ASSUME VastaustenInv, [Next]_vars PROVE VastaustenInv'
    OBVIOUS
  <2>1. SarjaInv'
    BY AskelTyyppi, AskelEheys, AskelLahetykset, AskelSarja
    DEF VastaustenInv, SarjaInv, VastausInv
  <2>2. CASE VastaaminenNext
    BY <2>1, <2>2, SivuVastaukset DEF VastaaminenNext, VastaustenInv
  <2>3. CASE UNCHANGED <<vastausmuuttujat, vastaustaulut>>
    BY <2>1, <2>3, MuutVastaukset DEF VastaustenInv, SarjaInv, VastausInv
  <2> QED BY <2>2, <2>3, MuutMuuttamatta DEF Next
<1>3. VastaustenInv => VastauksetKyselysta
  BY DEF VastaustenInv
<1> QED BY <1>1, <1>2, <1>3, PTL DEF Spec
=============================================================================
