---------------------------- MODULE AipalProofs ----------------------------
(***************************************************************************)
(* Proofs about Aipal for every number of surveys, rounds, codes, groups,  *)
(* questions, answering pages and workers, and every bound.                *)
(*                                                                         *)
(* The invariant is TypeOK /\ ViiteEheys /\ KeskeneraistenEheys.  Type     *)
(* correctness is inductive alone and comes first.  The references are     *)
(* not: a deletion is safe only because an uncommitted respondent row      *)
(* holds locks on its code and its round (KeskeneraistenEheys), and those  *)
(* are there to be locked only because references are kept (ViiteEheys).   *)
(***************************************************************************)
EXTENDS Aipal, TLAPS

\* The fields of a request, by the operation it asks for
LEMMA PyynnonKentat ==
  ASSUME NEW p \in Pyynnot
  PROVE  /\ p.toimi \in {"luoKysely", "muokkaaKyselya"} =>
              p.kysely \in Kyselyt /\ p.ikkuna \in Ikkunat /\ p.sisalto \in Sisallot
         /\ p.toimi = "luoKerta" => p.kysely \in Kyselyt /\ p.ikkuna \in Ikkunat
         /\ p.toimi = "muokkaaKertaa" => p.ikkuna \in Ikkunat
         /\ p.toimi = "lukitseKerta" => p.lukitse \in BOOLEAN
         /\ p.toimi = "luoTunnukset" =>
              /\ p.kerta \in Kerrat
              /\ p.ikkuna \in Ikkunat
              /\ p.lkm \in 1 .. MaxLkm
              /\ p.henkilokohtainen \in BOOLEAN
         /\ p.toimi = "lukitseTunnus" => p.lukitse \in BOOLEAN
         /\ p.toimi = "muokkaaLukumaaraa" => p.lkm \in 1 .. MaxLkm
  BY DEF Pyynnot

\* The empty database and idle servers are well typed
LEMMA AlkuTyyppi == Init => TypeOK
  BY KantaOletus, VastaaminenOletus
  DEF Init, KantaInit, VastaaminenInit, HallintaInit, TypeOK, KantaTyyppi,
      VastaaminenTyyppi, HallintaTyyppi, Vaiheet, Kesken, Kirjoittavat, Paivat,
      Askeleet, EiRiveja

\* A step that leaves the tables of one part of the state alone keeps the
\* types of that part: the database, the answering pages, the workers
LEMMA KantaEnnallaan == KantaTyyppi /\ UNCHANGED kanta => KantaTyyppi'
  BY DEF KantaTyyppi, kanta, Kyselyrivi, Kertarivi, Tunnusrivi, Paivat

\* The same for the answering pages and the tables they write
LEMMA VastausEnnallaan ==
  VastaaminenTyyppi /\ UNCHANGED <<vastausmuuttujat, vastaustaulut>>
    => VastaaminenTyyppi'
  BY DEF VastaaminenTyyppi, vastausmuuttujat, vastaustaulut, Kirjoittavat

\* The same for the workers
LEMMA HallintaEnnallaan ==
  HallintaTyyppi /\ UNCHANGED hallintamuuttujat => HallintaTyyppi'
  BY DEF HallintaTyyppi, hallintamuuttujat

\* A rollback of an answering request keeps the types and the database
LEMMA PeruTyyppi ==
  ASSUME VastaaminenTyyppi, NEW s \in Istunnot, Peru(s)
  PROVE  VastaaminenTyyppi' /\ UNCHANGED kanta
  BY DEF VastaaminenTyyppi, Peru, Siirry, kanta, Kirjoittavat, Kesken, Vaiheet

\* Each step of an answering page keeps the types of what it may change
LEMMA VastausaskelTyyppi ==
  ASSUME KantaTyyppi, VastaaminenTyyppi, NEW s \in Istunnot,
         \/ \E t \in Tunnukset : AvaaSivu(s, t)
         \/ Laheta(s) \/ Palvele(s) \/ Keskeytyy(s)
  PROVE  KantaTyyppi' /\ VastaaminenTyyppi'
<1> USE VastaaminenOletus DEF VastaaminenTyyppi, Vaiheet, Kesken, Siirry, Kirjoittavat, kanta
<1>1. CASE \E t \in Tunnukset : AvaaSivu(s, t)
  BY <1>1, KantaEnnallaan DEF AvaaSivu
<1>2. CASE Laheta(s)
  BY <1>2, KantaEnnallaan DEF Laheta
<1>3. CASE TarkistaPaikat(s)
  BY <1>3, KantaEnnallaan DEF TarkistaPaikat
<1>4. CASE HaeLomake(s)
  <2>1. TunnuksenKysymykset(koodi[s]) \subseteq Kysymykset
    BY DEF TunnuksenKysymykset, KantaTyyppi, Kyselyrivi
  <2> QED BY <1>4, <2>1, KantaEnnallaan DEF HaeLomake
<1>5. CASE TarkistaTunnus(s)
  BY <1>5, KantaEnnallaan, PeruTyyppi DEF TarkistaTunnus
<1>6. CASE LuoVastaaja(s)
  <2>1. CASE LisaaVastaaja(s) /\ koodi[s] \in DOMAIN tunnus
    <3> DEFINE rivi == [id |-> <<s, yritys[s]>>, tunnus |-> koodi[s],
                        kerta |-> tunnus[koodi[s]].kerta, vastannut |-> FALSE]
    <3>1. rivi \in Vastaajarivi
      BY <1>6, <2>1 DEF LuoVastaaja, KantaTyyppi, Tunnusrivi, Vastaajarivi, VastaajaIdt
    <3> QED
      BY <1>6, <2>1, <3>1, KantaEnnallaan DEF LuoVastaaja, LisaaVastaaja
  <2> QED
    BY <1>6, <2>1, KantaEnnallaan, PeruTyyppi DEF LuoVastaaja
<1>7. CASE Validoi(s)
  <2>1. TunnuksenKysymykset(koodi[s]) \subseteq Kysymykset
    BY DEF TunnuksenKysymykset, KantaTyyppi, Kyselyrivi
  <2> QED BY <1>7, <2>1, KantaEnnallaan, PeruTyyppi DEF Validoi
<1>8. CASE TallennaVastaus(s)
  BY <1>8, KantaEnnallaan DEF TallennaVastaus
<1>9. CASE Vahvista(s)
  <2> DEFINE rivi == [id |-> avoin[s].id, tunnus |-> avoin[s].tunnus,
                      kerta |-> avoin[s].kerta, vastannut |-> TRUE]
  <2>1. rivi \in Vastaajarivi
    BY <1>9 DEF Vahvista, Vastaajarivi
  <2>2. \A q \in tallennetut[s] :
          [vastaaja |-> rivi.id, kysymys |-> q] \in Vastausrivi
    BY <2>1 DEF Vastaajarivi, Vastausrivi
  <2>3. /\ vastaaja' = vastaaja \cup {rivi}
        /\ vastaus' = vastaus \cup
             {[vastaaja |-> rivi.id, kysymys |-> q] : q \in tallennetut[s]}
    BY <1>9 DEF Vahvista, MerkitseVastanneeksi
  <2>4. vastaaja' \subseteq Vastaajarivi /\ vastaus' \subseteq Vastausrivi
    BY <2>1, <2>2, <2>3
  <2>5. KantaTyyppi'
    BY <1>9 DEF Vahvista, MerkitseVastanneeksi, KantaTyyppi, hallintataulut,
                Kyselyrivi, Kertarivi, Tunnusrivi, Paivat
  <2> QED
    BY <1>9, <2>4, <2>5 DEF Vahvista, MerkitseVastanneeksi
<1>10. CASE Kuittaa(s)
  BY <1>10, KantaEnnallaan DEF Kuittaa
<1>11. CASE Keskeytyy(s)
  BY <1>11, KantaEnnallaan, PeruTyyppi DEF Keskeytyy
<1> QED
  BY <1>1, <1>2, <1>3, <1>4, <1>5, <1>6, <1>7, <1>8, <1>9, <1>10, <1>11 DEF Palvele

\* A refused administration request keeps the types
LEMMA HylkaaTyyppi ==
  ASSUME TypeOK, NEW h \in Kasittelijat, Hylkaa(h)
  PROVE  TypeOK'
<1>1. HallintaTyyppi'
  BY DEF TypeOK, HallintaTyyppi, Hylkaa, Vapaudu, EiRiveja, Askeleet
<1> QED
  BY <1>1, KantaEnnallaan, VastausEnnallaan DEF TypeOK, Hylkaa, kanta, vastaustaulut

\* A commit of the administration keeps the types outside its own tables
LEMMA ValmisTyyppi ==
  ASSUME TypeOK, NEW h \in Kasittelijat, Valmis(h)
  PROVE  /\ HallintaTyyppi'
         /\ VastaaminenTyyppi'
         /\ paiva' = paiva
<1>1. HallintaTyyppi'
  BY DEF TypeOK, HallintaTyyppi, Valmis, Vapaudu, Askeleet
<1> QED
  BY <1>1, VastausEnnallaan DEF TypeOK, Valmis

\* Each write of the administration keeps the types
LEMMA KirjoitusTyyppi ==
  ASSUME TypeOK, NEW h \in Kasittelijat, Kirjoita(h)
  PROVE  TypeOK'
<1> USE KantaOletus DEF TypeOK, KantaTyyppi, Kyselyrivi, Kertarivi, Tunnusrivi,
                        Tilat, Paivat, hallintataulut
<1> DEFINE p == pyynto[h]
<1>1. ASSUME askel[h] # "vapaa" PROVE p \in Pyynnot
  BY <1>1 DEF HallintaTyyppi
<1>2. CASE LuoKysely(h)
  <2>1. p.ikkuna \in Ikkunat /\ p.sisalto \in Sisallot
    BY <1>1, <1>2, PyynnonKentat DEF LuoKysely, Kirjoitusvuoro
  <2>2. p.sisalto.ryhmat \subseteq Ryhmat /\ SisallonKysymykset(p.sisalto) \subseteq Kysymykset
    BY <2>1 DEF Sisallot, SisallonKysymykset
  <2>3. CASE Hylkaa(h)
    BY <2>3, HylkaaTyyppi
  <2>4. CASE ~Hylkaa(h)
    <3> DEFINE rivi == [tila |-> "luonnos", ikkuna |-> p.ikkuna,
                        ryhmat |-> p.sisalto.ryhmat,
                        kysymykset |-> SisallonKysymykset(p.sisalto)]
    <3>1. rivi \in Kyselyrivi
      BY <2>1, <2>2
    <3>2. PICK k \in Kyselyt :
            /\ kysely' = Lisaten(kysely, k, rivi)
            /\ kaytetyt' = kaytetyt \cup {k}
            /\ UNCHANGED <<kerta, tunnus>>
            /\ Valmis(h)
      BY <1>2, <2>4 DEF LuoKysely
    <3>3. KantaTyyppi'
      <4> HIDE DEF rivi
      <4>1. /\ DOMAIN kysely' = DOMAIN kysely \cup {k}
            /\ \A y \in DOMAIN kysely' : kysely'[y] = IF y = k THEN rivi ELSE kysely[y]
        BY <3>2 DEF Lisaten
      <4> QED BY <3>1, <3>2, <4>1, ValmisTyyppi
    <3> QED BY <3>2, <3>3, ValmisTyyppi
  <2> QED BY <1>2, <2>3, <2>4 DEF LuoKysely
<1>3. CASE PoistaRyhmat(h)
  <2>1. HallintaTyyppi'
    BY <1>3 DEF PoistaRyhmat, Kirjoitusvuoro, HallintaTyyppi, Askeleet
  <2> QED BY <1>3, <2>1, KantaEnnallaan, VastausEnnallaan DEF PoistaRyhmat, kanta, vastaustaulut
<1>4. CASE PoistaKysymykset(h)
  <2>1. HallintaTyyppi'
    BY <1>4 DEF PoistaKysymykset, HallintaTyyppi, Askeleet
  <2> QED BY <1>4, <2>1, KantaEnnallaan, VastausEnnallaan DEF PoistaKysymykset, kanta, vastaustaulut
<1>5. CASE MuokkaaKyselya(h)
  <2>1. p.ikkuna \in Ikkunat /\ p.sisalto \in Sisallot
    BY <1>1, <1>5, PyynnonKentat DEF MuokkaaKyselya, HallintaTyyppi
  <2>2. p.sisalto.ryhmat \subseteq Ryhmat /\ SisallonKysymykset(p.sisalto) \subseteq Kysymykset
    BY <2>1 DEF Sisallot, SisallonKysymykset
  <2>3. CASE Hylkaa(h)
    BY <2>3, HylkaaTyyppi
  <2>4. CASE ~Hylkaa(h)
    <3>1. Poistettu(h) \in [Kasittelijat -> [ryhmat : SUBSET Ryhmat,
                                            kysymykset : SUBSET Kysymykset]]
      BY DEF HallintaTyyppi, Poistettu, EiRiveja
    <3>2. HallintaTyyppi'
      BY <1>5, <2>4, <3>1, ZenonT(30) DEF MuokkaaKyselya, HallintaTyyppi, Vapaudu, Askeleet
    <3>3. VastaaminenTyyppi'
      BY <1>5, <2>4, VastausEnnallaan DEF MuokkaaKyselya
    <3>4. KantaTyyppi'
      BY <1>5, <2>1, <2>2, <2>4 DEF MuokkaaKyselya
    <3> QED BY <3>2, <3>3, <3>4
  <2> QED BY <2>3, <2>4
<1>6. ASSUME NEW k, NEW tila \in Tilat, AsetaTila(k, tila), Valmis(h)
      PROVE  TypeOK'
  <2>1. KantaTyyppi'
    BY <1>6, ValmisTyyppi DEF AsetaTila
  <2> QED BY <1>6, <2>1, ValmisTyyppi
<1>7. CASE JulkaiseKysely(h)
  BY <1>6, <1>7 DEF JulkaiseKysely
<1>8. CASE PalautaKysely(h)
  BY <1>6, <1>8 DEF PalautaKysely
<1>9. CASE SuljeKysely(h)
  BY <1>6, <1>9 DEF SuljeKysely
<1>10. CASE PalautaLuonnokseksi(h)
  BY <1>6, <1>10, ValmisTyyppi DEF PalautaLuonnokseksi
<1>11. ASSUME NEW K, NEW C, NEW T, Poista(h, K, C, T)
       PROVE  TypeOK'
  <2>1. CASE Hylkaa(h)
    BY <2>1, HylkaaTyyppi
  <2>2. CASE ~Hylkaa(h)
    <3>1. KantaTyyppi'
      BY <1>11, <2>2, ValmisTyyppi DEF Poista, Ilman
    <3> QED BY <1>11, <2>2, <3>1, ValmisTyyppi DEF Poista
  <2> QED BY <2>1, <2>2
<1>12. CASE PoistaKysely(h)
  BY <1>11, <1>12 DEF PoistaKysely
<1>13. CASE PoistaKerta(h)
  BY <1>11, <1>13 DEF PoistaKerta
<1>14. CASE PoistaTunnus(h)
  BY <1>11, <1>14 DEF PoistaTunnus
<1>15. CASE LuoKerta(h)
  <2>1. p.kysely \in Kyselyt /\ p.ikkuna \in Ikkunat
    BY <1>1, <1>15, PyynnonKentat DEF LuoKerta, Kirjoitusvuoro
  <2>2. CASE Hylkaa(h)
    BY <2>2, HylkaaTyyppi
  <2>3. CASE ~Hylkaa(h)
    <3> DEFINE rivi == [kysely |-> p.kysely, ikkuna |-> p.ikkuna, lukittu |-> FALSE]
    <3>1. rivi \in Kertarivi
      BY <2>1
    <3>2. PICK c \in Kerrat :
            /\ kerta' = Lisaten(kerta, c, rivi)
            /\ kaytetyt' = kaytetyt \cup {c}
            /\ UNCHANGED <<kysely, tunnus>>
            /\ Valmis(h)
      BY <1>15, <2>3 DEF LuoKerta
    <3>3. KantaTyyppi'
      <4> HIDE DEF rivi
      <4>1. /\ DOMAIN kerta' = DOMAIN kerta \cup {c}
            /\ \A y \in DOMAIN kerta' : kerta'[y] = IF y = c THEN rivi ELSE kerta[y]
        BY <3>2 DEF Lisaten
      <4> QED BY <3>1, <3>2, <4>1, ValmisTyyppi
    <3> QED BY <3>2, <3>3, ValmisTyyppi
  <2> QED BY <1>15, <2>2, <2>3 DEF LuoKerta
<1>16. CASE MuokkaaKertaa(h)
  <2>1. p.ikkuna \in Ikkunat
    BY <1>1, <1>16, PyynnonKentat DEF MuokkaaKertaa, Kirjoitusvuoro
  <2>2. KantaTyyppi'
    BY <1>16, <2>1, ValmisTyyppi, SMTT(15) DEF MuokkaaKertaa
  <2> QED BY <1>16, <2>2, ValmisTyyppi DEF MuokkaaKertaa
<1>17. CASE LukitseKerta(h)
  <2>1. p.lukitse \in BOOLEAN
    BY <1>1, <1>17, PyynnonKentat DEF LukitseKerta, Kirjoitusvuoro
  <2>2. KantaTyyppi'
    BY <1>17, <2>1, ValmisTyyppi DEF LukitseKerta
  <2> QED BY <1>17, <2>2, ValmisTyyppi DEF LukitseKerta
<1>18. CASE LuoTunnukset(h)
  <2>1. /\ p.kerta \in Kerrat
        /\ p.ikkuna \in Ikkunat
        /\ (IF p.henkilokohtainen THEN 1 ELSE p.lkm) \in 1 .. MaxLkm
    BY <1>1, <1>18, PyynnonKentat DEF LuoTunnukset, Kirjoitusvuoro
  <2>2. CASE Hylkaa(h)
    BY <2>2, HylkaaTyyppi
  <2>3. CASE ~Hylkaa(h)
    <3> DEFINE rivi == [kerta |-> p.kerta,
                        lkm |-> IF p.henkilokohtainen THEN 1 ELSE p.lkm,
                        ikkuna |-> p.ikkuna, lukittu |-> FALSE]
    <3>1. rivi \in Tunnusrivi
      BY <2>1
    <3>2. PICK T \in SUBSET (Tunnukset \ kaytetyt) :
            /\ tunnus' = [t \in DOMAIN tunnus \cup T |->
                            IF t \in T THEN rivi ELSE tunnus[t]]
            /\ kaytetyt' = kaytetyt \cup T
            /\ UNCHANGED <<kysely, kerta>>
            /\ Valmis(h)
      BY <1>18, <2>3 DEF LuoTunnukset
    <3>3. KantaTyyppi'
      BY <3>1, <3>2, ValmisTyyppi
    <3> QED BY <3>2, <3>3, ValmisTyyppi
  <2> QED BY <1>18, <2>2, <2>3 DEF LuoTunnukset
<1>19. CASE LukitseTunnus(h)
  <2>1. p.lukitse \in BOOLEAN
    BY <1>1, <1>19, PyynnonKentat DEF LukitseTunnus, Kirjoitusvuoro
  <2>2. KantaTyyppi'
    BY <1>19, <2>1, ValmisTyyppi DEF LukitseTunnus, KerranTunnus
  <2> QED BY <1>19, <2>2, ValmisTyyppi DEF LukitseTunnus
<1>20. CASE MuokkaaLukumaaraa(h)
  <2>1. p.lkm \in 1 .. MaxLkm
    BY <1>1, <1>20, PyynnonKentat DEF MuokkaaLukumaaraa, Kirjoitusvuoro
  <2>2. KantaTyyppi'
    BY <1>20, <2>1, ValmisTyyppi DEF MuokkaaLukumaaraa, KerranTunnus
  <2> QED BY <1>20, <2>2, ValmisTyyppi DEF MuokkaaLukumaaraa
<1> QED
  BY <1>2, <1>3, <1>4, <1>5, <1>7, <1>8, <1>9, <1>10, <1>12, <1>13, <1>14,
     <1>15, <1>16, <1>17, <1>18, <1>19, <1>20 DEF Kirjoita

\* TypeOK is inductive
LEMMA AskelTyyppi == TypeOK /\ [Next]_vars => TypeOK'
<1> SUFFICES ASSUME TypeOK, [Next]_vars PROVE TypeOK'
  OBVIOUS
<1>1. CASE VastaaminenNext /\ UNCHANGED hallintamuuttujat
  BY <1>1, VastausaskelTyyppi, HallintaEnnallaan DEF VastaaminenNext, TypeOK
<1>2. ASSUME NEW h \in Kasittelijat, Saapuu(h) PROVE TypeOK'
  <2>1. HallintaTyyppi'
    BY <1>2 DEF TypeOK, HallintaTyyppi, Saapuu, SallitutPyynnot, Askeleet
  <2> QED
    BY <1>2, <2>1, KantaEnnallaan, VastausEnnallaan DEF TypeOK, Saapuu, kanta, vastaustaulut
<1>3. ASSUME NEW h \in Kasittelijat, NEW a \in {"valtuutettu", "tarkistettu"},
             askel[h] # "vapaa", Etene(h, a)
      PROVE  TypeOK'
  <2>1. HallintaTyyppi'
    BY <1>3 DEF TypeOK, HallintaTyyppi, Etene, Askeleet
  <2> QED
    BY <1>3, <2>1, KantaEnnallaan, VastausEnnallaan DEF TypeOK, Etene, kanta, vastaustaulut
<1>4. ASSUME NEW h \in Kasittelijat, Valtuuta(h) PROVE TypeOK'
  BY <1>3, <1>4, HylkaaTyyppi DEF Valtuuta
<1>5. ASSUME NEW h \in Kasittelijat, Tarkista(h) PROVE TypeOK'
  BY <1>3, <1>5, HylkaaTyyppi DEF Tarkista
<1>6. CASE HallintaNext
  BY <1>2, <1>4, <1>5, <1>6, HylkaaTyyppi, KirjoitusTyyppi
  DEF HallintaNext, Kasittele, KasittelyKeskeytyy
<1>7. CASE PaivaVaihtuu /\ UNCHANGED <<vastausmuuttujat, hallintamuuttujat>>
  <2>1. KantaTyyppi'
    BY <1>7, KantaOletus DEF PaivaVaihtuu, TypeOK, KantaTyyppi, hallintataulut, Paivat,
                Kyselyrivi, Kertarivi, Tunnusrivi
  <2> QED
    BY <1>7, <2>1, VastausEnnallaan, HallintaEnnallaan DEF TypeOK, PaivaVaihtuu
<1>8. CASE UNCHANGED vars
  BY <1>8, KantaEnnallaan, VastausEnnallaan, HallintaEnnallaan
  DEF TypeOK, vars, kanta, vastaustaulut
<1> QED
  BY <1>1, <1>6, <1>7, <1>8 DEF Next

(***************************************************************************)
(* Every state the two backends can reach is well typed: the tables only   *)
(* hold rows of their columns' domains with ids the keys handed out, and   *)
(* an open answering transaction has its own respondent row.               *)
(***************************************************************************)
THEOREM TyyppiSailyy == Spec => []TypeOK
  BY AlkuTyyppi, AskelTyyppi, PTL DEF Spec

-----------------------------------------------------------------------------
\* The part of the invariant that is about references
Eheys == ViiteEheys /\ KeskeneraistenEheys

\* The empty database has no references
LEMMA AlkuEheys == Init => Eheys
  BY DEF Init, KantaInit, VastaaminenInit, Eheys, ViiteEheys, KeskeneraistenEheys, Kirjoittavat

\* Each step of an answering page keeps the references of all rows
LEMMA VastausaskelEheys ==
  ASSUME TypeOK, Eheys, NEW s \in Istunnot,
         \/ \E t \in Tunnukset : AvaaSivu(s, t)
         \/ Laheta(s) \/ Palvele(s) \/ Keskeytyy(s)
  PROVE  Eheys'
<1> USE DEF Eheys, ViiteEheys, KeskeneraistenEheys, Kirjoittavat, Siirry, TypeOK, VastaaminenTyyppi
<1>1. ASSUME UNCHANGED kanta, Kirjoittavat' \subseteq Kirjoittavat,
             \A i \in Kirjoittavat' : avoin'[i] = avoin[i]
      PROVE  Eheys'
  BY <1>1 DEF kanta
<1>2. CASE Peru(s)
  BY <1>1, <1>2 DEF Peru
<1>3. CASE \E t \in Tunnukset : AvaaSivu(s, t)
  BY <1>1, <1>3 DEF AvaaSivu
<1>4. CASE Laheta(s)
  BY <1>1, <1>4 DEF Laheta
<1>5. CASE TarkistaPaikat(s)
  BY <1>1, <1>5 DEF TarkistaPaikat
<1>6. CASE HaeLomake(s)
  BY <1>1, <1>6 DEF HaeLomake
<1>7. CASE TarkistaTunnus(s)
  BY <1>1, <1>2, <1>7 DEF TarkistaTunnus
<1>8. CASE LuoVastaaja(s)
  BY <1>2, <1>8 DEF LuoVastaaja, LisaaVastaaja, kanta
<1>9. CASE Validoi(s)
  BY <1>1, <1>2, <1>9 DEF Validoi
<1>10. CASE TallennaVastaus(s)
  BY <1>1, <1>10 DEF TallennaVastaus
<1>11. CASE Vahvista(s)
  <2> DEFINE rivi == [id |-> avoin[s].id, tunnus |-> avoin[s].tunnus,
                      kerta |-> avoin[s].kerta, vastannut |-> TRUE]
  <2>1. /\ vastaaja' = vastaaja \cup {rivi}
        /\ vastaus' = vastaus \cup
             {[vastaaja |-> rivi.id, kysymys |-> q] : q \in tallennetut[s]}
        /\ UNCHANGED <<kysely, kerta, tunnus>>
    BY <1>11 DEF Vahvista, MerkitseVastanneeksi, hallintataulut
  <2>2. rivi.tunnus \in DOMAIN tunnus /\ tunnus[rivi.tunnus].kerta = rivi.kerta
    BY <1>11 DEF Vahvista
  <2>3. ASSUME NEW r \in vastaus' PROVE \E v \in vastaaja' : v.id = r.vastaaja
    <3>1. CASE r \in vastaus
      BY <2>1, <3>1
    <3>2. CASE r \notin vastaus
      <4>1. r.vastaaja = rivi.id
        BY <2>1, <3>2
      <4> QED BY <2>1, <4>1
    <3> QED BY <3>1, <3>2
  <2>4. ViiteEheys'
    BY <2>1, <2>2, <2>3
  <2>5. KeskeneraistenEheys'
    BY <1>11, <2>1 DEF Vahvista, MerkitseVastanneeksi
  <2> QED BY <2>4, <2>5
<1>12. CASE Kuittaa(s)
  BY <1>1, <1>12 DEF Kuittaa
<1>13. CASE Keskeytyy(s)
  BY <1>2, <1>13 DEF Keskeytyy
<1> QED
  BY <1>3, <1>4, <1>5, <1>6, <1>7, <1>8, <1>9, <1>10, <1>11, <1>12, <1>13 DEF Palvele

\* Whatever keeps every round and code, and the round of each code, keeps
\* the references of respondents, committed or not
LEMMA RivitPysyvat ==
  ASSUME Eheys,
         UNCHANGED <<vastaaja, vastaus, vaihe, avoin>>,
         \A c \in DOMAIN kerta' : kerta'[c].kysely \in DOMAIN kysely',
         \A t \in DOMAIN tunnus' : tunnus'[t].kerta \in DOMAIN kerta',
         DOMAIN kerta \subseteq DOMAIN kerta',
         \A t \in DOMAIN tunnus :
           t \in DOMAIN tunnus' /\ tunnus'[t].kerta = tunnus[t].kerta
  PROVE  Eheys'
  BY DEF Eheys, ViiteEheys, KeskeneraistenEheys, Kirjoittavat

\* Steps that touch neither the tables nor the answering pages
LEMMA KantaEheys ==
  ASSUME Eheys, UNCHANGED <<kanta, vastausmuuttujat>>
  PROVE  Eheys'
  BY DEF Eheys, ViiteEheys, KeskeneraistenEheys, Kirjoittavat, kanta, vastausmuuttujat

\* A deletion that takes the codes with their rounds and the rounds with
\* their survey: the foreign keys refuse it for committed respondents, the
\* key share locks hold it back for uncommitted ones
LEMMA PoistoEheys ==
  ASSUME TypeOK, Eheys, NEW h \in Kasittelijat, NEW K, NEW C, NEW T,
         Poista(h, K, C, T),
         \A c \in DOMAIN kerta : kerta[c].kysely \in K => c \in C,
         \A t \in DOMAIN tunnus : tunnus[t].kerta \in C => t \in T
  PROVE  Eheys'
<1>1. CASE Hylkaa(h)
  BY <1>1, KantaEheys DEF Hylkaa
<1>2. CASE ~Hylkaa(h)
  <2>1. /\ ~Viitattu(C, T)
        /\ kysely' = Ilman(kysely, K)
        /\ kerta' = Ilman(kerta, C)
        /\ tunnus' = Ilman(tunnus, T)
        /\ UNCHANGED <<vastaaja, vastaus, vaihe, avoin>>
    BY <1>2 DEF Poista, Valmis, vastaustaulut, vastausmuuttujat
  <2>2. /\ DOMAIN kysely' = DOMAIN kysely \ K
        /\ DOMAIN kerta' = DOMAIN kerta \ C
        /\ DOMAIN tunnus' = DOMAIN tunnus \ T
        /\ \A c \in DOMAIN kerta' : kerta'[c] = kerta[c]
        /\ \A t \in DOMAIN tunnus' : tunnus'[t] = tunnus[t]
    BY <2>1 DEF Ilman
  <2>3. ViiteEheys'
    BY <2>1, <2>2 DEF Viitattu, Eheys, ViiteEheys
  <2>4. \A s \in Kirjoittavat : avoin[s].tunnus \notin T /\ avoin[s].kerta \notin C
    BY DEF Poista, LukitutKerrat, LukitutTunnukset
  <2>5. KeskeneraistenEheys'
    BY <2>1, <2>2, <2>4 DEF Eheys, KeskeneraistenEheys, Kirjoittavat
  <2> QED BY <2>3, <2>5 DEF Eheys
<1> QED BY <1>1, <1>2

\* Each write of the administration keeps the references
LEMMA KirjoitusEheys ==
  ASSUME TypeOK, Eheys, NEW h \in Kasittelijat, Kirjoita(h)
  PROVE  Eheys'
<1> USE DEF TypeOK, KantaTyyppi
<1>1. CASE Hylkaa(h)
  BY <1>1, KantaEheys DEF Hylkaa
<1>2. ASSUME Valmis(h) PROVE UNCHANGED <<vastaaja, vastaus, vaihe, avoin>>
  BY <1>2 DEF Valmis, vastaustaulut, vastausmuuttujat
<1>3. CASE LuoKysely(h) /\ ~Hylkaa(h)
  <2>1. /\ DOMAIN kysely \subseteq DOMAIN kysely'
        /\ UNCHANGED <<kerta, tunnus>>
        /\ Valmis(h)
    BY <1>3 DEF LuoKysely, Lisaten
  <2> QED BY <1>2, <2>1, RivitPysyvat DEF Eheys, ViiteEheys
<1>4. CASE PoistaRyhmat(h) \/ PoistaKysymykset(h)
  BY <1>4, KantaEheys DEF PoistaRyhmat, PoistaKysymykset
<1>5. CASE MuokkaaKyselya(h) /\ ~Hylkaa(h)
  <2>1. DOMAIN kysely' = DOMAIN kysely
    BY <1>5 DEF MuokkaaKyselya
  <2> QED
    BY <1>5, <2>1, RivitPysyvat
    DEF MuokkaaKyselya, Eheys, ViiteEheys, vastaustaulut, vastausmuuttujat
<1>6. ASSUME NEW k, NEW tila, AsetaTila(k, tila), Valmis(h) PROVE Eheys'
  <2>1. DOMAIN kysely' = DOMAIN kysely /\ UNCHANGED <<kerta, tunnus>>
    BY <1>6 DEF AsetaTila
  <2> QED BY <1>2, <1>6, <2>1, RivitPysyvat DEF Eheys, ViiteEheys
<1>7. CASE JulkaiseKysely(h) \/ PalautaKysely(h) \/ SuljeKysely(h)
  BY <1>6, <1>7 DEF JulkaiseKysely, PalautaKysely, SuljeKysely
<1>8. CASE PalautaLuonnokseksi(h)
  <2>1. CASE UNCHANGED hallintataulut
    BY <1>2, <1>8, <2>1, RivitPysyvat
    DEF PalautaLuonnokseksi, hallintataulut, Eheys, ViiteEheys
  <2> QED BY <1>6, <1>8, <2>1 DEF PalautaLuonnokseksi
<1>9. CASE PoistaKysely(h)
  BY <1>9, PoistoEheys DEF PoistaKysely, KyselynKerrat, KertojenTunnukset
<1>10. CASE PoistaKerta(h)
  BY <1>10, PoistoEheys DEF PoistaKerta, KertojenTunnukset
<1>11. CASE PoistaTunnus(h)
  BY <1>11, PoistoEheys DEF PoistaTunnus, KertojenTunnukset
<1>12. CASE LuoKerta(h) /\ ~Hylkaa(h)
  <2> DEFINE p == pyynto[h]
             rivi == [kysely |-> p.kysely, ikkuna |-> p.ikkuna, lukittu |-> FALSE]
  <2>1. p.kysely \in DOMAIN kysely
    BY <1>12 DEF LuoKerta
  <2>2. PICK c \in Kerrat \ kaytetyt :
          /\ kerta' = Lisaten(kerta, c, rivi)
          /\ UNCHANGED <<kysely, tunnus>>
          /\ Valmis(h)
    BY <1>12 DEF LuoKerta
  <2>3. /\ DOMAIN kerta' = DOMAIN kerta \cup {c}
        /\ \A y \in DOMAIN kerta' : kerta'[y] = IF y = c THEN rivi ELSE kerta[y]
    BY <2>2 DEF Lisaten
  <2>4. \A y \in DOMAIN kerta' : kerta'[y].kysely \in DOMAIN kysely'
    <3>1. rivi.kysely = p.kysely
      OBVIOUS
    <3> HIDE DEF rivi
    <3> QED BY <2>1, <2>2, <2>3, <3>1 DEF Eheys, ViiteEheys
  <2> QED BY <1>2, <2>2, <2>3, <2>4, RivitPysyvat DEF Eheys, ViiteEheys
<1>13. CASE MuokkaaKertaa(h) \/ LukitseKerta(h)
  <2>1. /\ DOMAIN kerta' = DOMAIN kerta
        /\ \A c \in DOMAIN kerta : kerta'[c].kysely = kerta[c].kysely
        /\ UNCHANGED <<kysely, tunnus>>
        /\ Valmis(h)
    BY <1>13 DEF MuokkaaKertaa, LukitseKerta, Kertarivi
  <2> QED BY <1>2, <2>1, RivitPysyvat DEF Eheys, ViiteEheys
<1>14. CASE LuoTunnukset(h) /\ ~Hylkaa(h)
  <2> DEFINE p == pyynto[h]
             rivi == [kerta |-> p.kerta,
                      lkm |-> IF p.henkilokohtainen THEN 1 ELSE p.lkm,
                      ikkuna |-> p.ikkuna, lukittu |-> FALSE]
  <2>1. PICK T \in SUBSET (Tunnukset \ kaytetyt) :
          /\ tunnus' = [t \in DOMAIN tunnus \cup T |->
                          IF t \in T THEN rivi ELSE tunnus[t]]
          /\ UNCHANGED <<kysely, kerta>>
          /\ Valmis(h)
    BY <1>14 DEF LuoTunnukset
  <2>2. p.kerta \in DOMAIN kerta
    BY <1>14 DEF LuoTunnukset
  <2>3. /\ DOMAIN tunnus' = DOMAIN tunnus \cup T
        /\ \A t \in T : tunnus'[t].kerta = p.kerta
        /\ \A t \in DOMAIN tunnus \ T : tunnus'[t] = tunnus[t]
    BY <2>1
  <2>4. \A t \in DOMAIN tunnus : t \notin T
    OBVIOUS
  <2> QED BY <1>2, <2>1, <2>2, <2>3, <2>4, RivitPysyvat DEF Eheys, ViiteEheys
<1>15. CASE LukitseTunnus(h) \/ MuokkaaLukumaaraa(h)
  <2>1. /\ DOMAIN tunnus' = DOMAIN tunnus
        /\ \A t \in DOMAIN tunnus : tunnus'[t].kerta = tunnus[t].kerta
        /\ UNCHANGED <<kysely, kerta>>
        /\ Valmis(h)
    BY <1>15 DEF LukitseTunnus, MuokkaaLukumaaraa, Tunnusrivi
  <2> QED BY <1>2, <2>1, RivitPysyvat DEF Eheys, ViiteEheys
<1> QED
  BY <1>1, <1>3, <1>4, <1>5, <1>7, <1>8, <1>9, <1>10, <1>11, <1>12, <1>13,
     <1>14, <1>15 DEF Kirjoita

\* Eheys is inductive relative to TypeOK
LEMMA AskelEheys == TypeOK /\ Eheys /\ [Next]_vars => Eheys'
<1> SUFFICES ASSUME TypeOK, Eheys, [Next]_vars PROVE Eheys'
  OBVIOUS
<1>1. CASE VastaaminenNext /\ UNCHANGED hallintamuuttujat
  BY <1>1, VastausaskelEheys DEF VastaaminenNext
<1>2. CASE HallintaNext
  <2>1. PICK h \in Kasittelijat :
          Saapuu(h) \/ Kasittele(h) \/ KasittelyKeskeytyy(h)
    BY <1>2 DEF HallintaNext
  <2>2. CASE Kirjoita(h)
    BY <2>2, KirjoitusEheys
  <2>3. CASE ~Kirjoita(h)
    BY <2>1, <2>3, KantaEheys
    DEF Saapuu, Kasittele, Valtuuta, Tarkista, Etene, KasittelyKeskeytyy, Hylkaa
  <2> QED BY <2>2, <2>3
<1>3. CASE PaivaVaihtuu /\ UNCHANGED <<vastausmuuttujat, hallintamuuttujat>>
  BY <1>3, RivitPysyvat
  DEF PaivaVaihtuu, hallintataulut, vastaustaulut, vastausmuuttujat, Eheys, ViiteEheys
<1>4. CASE UNCHANGED vars
  BY <1>4, KantaEheys DEF vars
<1> QED
  BY <1>1, <1>2, <1>3, <1>4 DEF Next

(***************************************************************************)
(* No interleaving of deletions (DELETE of a survey, a round or a code),   *)
(* edits and answers leaves a row that refers to a missing one, or a       *)
(* respondent counted in another round than the one of the code.           *)
(***************************************************************************)
THEOREM ViitteetEheat == Spec => []ViiteEheys
<1>1. Init => TypeOK /\ Eheys
  BY AlkuTyyppi, AlkuEheys
<1>2. (TypeOK /\ Eheys) /\ [Next]_vars => (TypeOK /\ Eheys)'
  BY AskelTyyppi, AskelEheys
<1>3. TypeOK /\ Eheys => ViiteEheys
  BY DEF Eheys
<1> QED
  BY <1>1, <1>2, <1>3, PTL DEF Spec

(***************************************************************************)
(* The code and the round of an answering transaction that has inserted    *)
(* its respondent (luo-vastaaja!) exist until the transaction ends, so its *)
(* later statements and its commit never meet a missing row.               *)
(***************************************************************************)
THEOREM KeskeneraisetEheat == Spec => []KeskeneraistenEheys
<1>1. Init => TypeOK /\ Eheys
  BY AlkuTyyppi, AlkuEheys
<1>2. (TypeOK /\ Eheys) /\ [Next]_vars => (TypeOK /\ Eheys)'
  BY AskelTyyppi, AskelEheys
<1>3. TypeOK /\ Eheys => KeskeneraistenEheys
  BY DEF Eheys
<1> QED
  BY <1>1, <1>2, <1>3, PTL DEF Spec
=============================================================================
