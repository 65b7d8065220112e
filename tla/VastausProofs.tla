--------------------------- MODULE VastausProofs ---------------------------
(***************************************************************************)
(* Proofs that a respondent is stored whole or not at all, and that the    *)
(* backends implement Vastauslupaus.  Both rest on who a respondent is:    *)
(* the ids of stored respondents are of tries whose request is over.       *)
(***************************************************************************)
EXTENDS AipalProofs

(***************************************************************************)
(* The strengthening.  A page that is still to be opened has sent nothing; *)
(* the id of an open respondent row is new; what is being saved has been   *)
(* validated against the questions read.                                   *)
(***************************************************************************)
Avaamattomat ==
  \A s \in Istunnot :
    IF vaihe[s] = "alku" THEN yritys[s] = 0 ELSE koodi[s] \in Tunnukset

UudetIdt ==
  \A v \in vastaaja : \A s \in Istunnot : \A n \in 1 .. MaxYrityksia :
    v.id = <<s, n>> => n <= yritys[s] /\ (n = yritys[s] => vaihe[s] \notin Kesken)

AvoimetIdt == \A s \in Kirjoittavat : avoin[s].id = <<s, yritys[s]>>

Validoidut == \A s \in Istunnot :
  vaihe[s] = "tallennus" => Validi(lahetetyt[s], luetut[s])

LahetystenEheys == Avaamattomat /\ UudetIdt /\ AvoimetIdt /\ Validoidut

-----------------------------------------------------------------------------
\* Administration and the change of day leave pages and answers alone
LEMMA MuutMuuttamatta ==
  ASSUME \/ HallintaNext
         \/ PaivaVaihtuu /\ UNCHANGED <<vastausmuuttujat, hallintamuuttujat>>
         \/ UNCHANGED vars
  PROVE  UNCHANGED <<vastausmuuttujat, vastaustaulut>>
<1>1. ASSUME NEW h \in Kasittelijat, Hylkaa(h) \/ Valmis(h)
      PROVE  UNCHANGED <<vastausmuuttujat, vastaustaulut>>
  BY <1>1 DEF Hylkaa, Valmis, kanta, vastaustaulut
<1>2. ASSUME NEW h \in Kasittelijat, NEW K, NEW C, NEW T, Poista(h, K, C, T)
      PROVE  Hylkaa(h) \/ Valmis(h)
  BY <1>2 DEF Poista
<1>3. ASSUME NEW h \in Kasittelijat, Kirjoita(h)
      PROVE  UNCHANGED <<vastausmuuttujat, vastaustaulut>>
  <2>1. CASE PoistaRyhmat(h) \/ PoistaKysymykset(h)
    BY <2>1 DEF PoistaRyhmat, PoistaKysymykset, kanta, vastaustaulut
  <2>2. CASE MuokkaaKyselya(h)
    BY <1>1, <2>2 DEF MuokkaaKyselya
  <2>3. CASE LuoKysely(h)
    BY <1>1, <2>3 DEF LuoKysely
  <2>4. CASE JulkaiseKysely(h) \/ PalautaKysely(h) \/ SuljeKysely(h) \/ PalautaLuonnokseksi(h)
    BY <1>1, <2>4 DEF JulkaiseKysely, PalautaKysely, SuljeKysely, PalautaLuonnokseksi
  <2>5. CASE LuoKerta(h) \/ MuokkaaKertaa(h) \/ LukitseKerta(h)
    BY <1>1, <2>5 DEF LuoKerta, MuokkaaKertaa, LukitseKerta
  <2>6. CASE LuoTunnukset(h) \/ LukitseTunnus(h) \/ MuokkaaLukumaaraa(h)
    BY <1>1, <2>6 DEF LuoTunnukset, LukitseTunnus, MuokkaaLukumaaraa
  <2>7. CASE PoistaKysely(h) \/ PoistaKerta(h) \/ PoistaTunnus(h)
    BY <1>1, <1>2, <2>7 DEF PoistaKysely, PoistaKerta, PoistaTunnus
  <2> QED
    BY <1>3, <2>1, <2>2, <2>3, <2>4, <2>5, <2>6, <2>7 DEF Kirjoita
<1>4. CASE HallintaNext
  <2>1. PICK h \in Kasittelijat : Saapuu(h) \/ Kasittele(h) \/ KasittelyKeskeytyy(h)
    BY <1>4 DEF HallintaNext
  <2>2. CASE Kirjoita(h)
    BY <1>3, <2>2
  <2>3. CASE ~Kirjoita(h)
    BY <1>1, <2>1, <2>3
    DEF Saapuu, Kasittele, Valtuuta, Tarkista, Etene, KasittelyKeskeytyy, kanta, vastaustaulut
  <2> QED BY <2>2, <2>3
<1> QED
  BY <1>4 DEF PaivaVaihtuu, vars, kanta, vastaustaulut

\* No page has been opened at first
LEMMA AlkuLahetykset == Init => LahetystenEheys
  BY DEF Init, KantaInit, VastaaminenInit, LahetystenEheys, Avaamattomat, UudetIdt,
         AvoimetIdt, Validoidut, Kirjoittavat

\* Each step of an answering page keeps the strengthening
LEMMA VastausaskelLahetykset ==
  ASSUME TypeOK, LahetystenEheys, NEW s \in Istunnot,
         \/ \E t \in Tunnukset : AvaaSivu(s, t)
         \/ Laheta(s) \/ Palvele(s) \/ Keskeytyy(s)
  PROVE  LahetystenEheys'
<1> USE DEF LahetystenEheys, Avaamattomat, UudetIdt, AvoimetIdt, Validoidut,
            Kirjoittavat, Kesken, Siirry, TypeOK, VastaaminenTyyppi
<1>1. CASE \E t \in Tunnukset : AvaaSivu(s, t)
  BY <1>1 DEF AvaaSivu, kanta
<1>2. CASE Laheta(s)
  BY <1>2 DEF Laheta, kanta
<1>3. ASSUME Peru(s), vaihe[s] # "alku" PROVE LahetystenEheys'
  BY <1>3 DEF Peru, kanta
<1>4. CASE TarkistaPaikat(s)
  BY <1>4 DEF TarkistaPaikat, kanta
<1>5. CASE HaeLomake(s)
  BY <1>5 DEF HaeLomake, kanta
<1>6. CASE TarkistaTunnus(s)
  BY <1>3, <1>6 DEF TarkistaTunnus, kanta
<1>7. CASE LuoVastaaja(s)
  BY <1>3, <1>7 DEF LuoVastaaja, LisaaVastaaja, kanta
<1>8. CASE Validoi(s)
  BY <1>3, <1>8 DEF Validoi, kanta
<1>9. CASE TallennaVastaus(s)
  BY <1>9 DEF TallennaVastaus, kanta
<1>10. CASE Vahvista(s)
  <2> DEFINE rivi == [id |-> avoin[s].id, tunnus |-> avoin[s].tunnus,
                      kerta |-> avoin[s].kerta, vastannut |-> TRUE]
  <2>1. vastaaja' = vastaaja \cup {rivi} /\ rivi.id = <<s, yritys[s]>>
    BY <1>10 DEF Vahvista, MerkitseVastanneeksi
  <2>2. /\ vaihe' = [vaihe EXCEPT ![s] = "vahvistettu"]
        /\ UNCHANGED <<yritys, koodi>>
    BY <1>10 DEF Vahvista, MerkitseVastanneeksi
  <2>3. UudetIdt'
    <3> SUFFICES ASSUME NEW v \in vastaaja', NEW i \in Istunnot,
                        NEW n \in 1 .. MaxYrityksia, v.id = <<i, n>>
                 PROVE  n <= yritys[i] /\ (n = yritys[i] => vaihe'[i] \notin Kesken)
      BY <2>2
    <3>1. CASE v \in vastaaja
      BY <2>2, <3>1
    <3>2. CASE v = rivi
      <4> HIDE DEF rivi
      <4>1. i = s /\ n = yritys[s]
        BY <2>1, <3>2
      <4> QED BY <2>2, <4>1
    <3> QED BY <2>1, <3>1, <3>2
  <2> QED
    BY <1>10, <2>2, <2>3 DEF Vahvista, MerkitseVastanneeksi
<1>11. CASE Kuittaa(s)
  BY <1>11 DEF Kuittaa, kanta
<1>12. CASE Keskeytyy(s)
  BY <1>3, <1>12 DEF Keskeytyy
<1> QED
  BY <1>1, <1>2, <1>4, <1>5, <1>6, <1>7, <1>8, <1>9, <1>10, <1>11, <1>12 DEF Palvele

\* LahetystenEheys is inductive relative to TypeOK
LEMMA AskelLahetykset == TypeOK /\ LahetystenEheys /\ [Next]_vars => LahetystenEheys'
<1> SUFFICES ASSUME TypeOK, LahetystenEheys, [Next]_vars PROVE LahetystenEheys'
  OBVIOUS
<1>1. CASE VastaaminenNext /\ UNCHANGED hallintamuuttujat
  BY <1>1, VastausaskelLahetykset DEF VastaaminenNext
<1>2. CASE UNCHANGED <<vastausmuuttujat, vastaustaulut>>
  BY <1>2 DEF vastausmuuttujat, vastaustaulut, LahetystenEheys, Avaamattomat,
              UudetIdt, AvoimetIdt, Validoidut, Kirjoittavat
<1> QED BY <1>1, <1>2, MuutMuuttamatta DEF Next

\* The invariant of both theorems
VastausInv == TypeOK /\ Eheys /\ LahetystenEheys

LEMMA VastausInvSailyy == Spec => []VastausInv
<1>1. Init => VastausInv
  BY AlkuTyyppi, AlkuEheys, AlkuLahetykset DEF VastausInv
<1>2. VastausInv /\ [Next]_vars => VastausInv'
  BY AskelTyyppi, AskelEheys, AskelLahetykset DEF VastausInv
<1> QED BY <1>1, <1>2, PTL DEF Spec

-----------------------------------------------------------------------------
\* The commit stores one new respondent, with the answers of its request and
\* no others: the id is new, so there were none before
LEMMA VahvistaKokonaan ==
  ASSUME VastausInv, NEW s \in Istunnot, Vahvista(s)
  PROVE  VainKokonaisia
<1> DEFINE rivi == [id |-> avoin[s].id, tunnus |-> avoin[s].tunnus,
                    kerta |-> avoin[s].kerta, vastannut |-> TRUE]
           uudet == {[vastaaja |-> rivi.id, kysymys |-> q] : q \in tallennetut[s]}
<1> USE DEF VastausInv, TypeOK, LahetystenEheys
<1>1. /\ vaihe[s] = "tallennus"
      /\ tallennetut[s] = lahetetyt[s]
      /\ vastaaja' = vastaaja \cup {rivi}
      /\ vastaus' = vastaus \cup uudet
  BY DEF Vahvista, MerkitseVastanneeksi
<1>2. rivi.id = <<s, yritys[s]>> /\ rivi.id[1] = s /\ rivi.vastannut
  BY <1>1 DEF AvoimetIdt, Kirjoittavat
<1>3. yritys[s] \in 1 .. MaxYrityksia
  BY <1>1, VastaaminenOletus DEF VastaaminenTyyppi, Kesken
<1>4. \A v \in vastaaja : v.id # rivi.id
  BY <1>1, <1>2, <1>3 DEF UudetIdt, Kesken
<1>5. \A r \in vastaus : r.vastaaja # rivi.id
  BY <1>4 DEF Eheys, ViiteEheys
<1>6. \A r \in uudet : r.vastaaja = rivi.id
  OBVIOUS
<1>7. rivi \in vastaaja' \ vastaaja
  BY <1>1, <1>4
<1>8. {r.kysymys : r \in {x \in vastaus' : x.vastaaja = rivi.id}} = lahetetyt[s]
  <2>1. {x \in vastaus' : x.vastaaja = rivi.id} = uudet
    BY <1>1, <1>5, <1>6
  <2>2. ASSUME NEW q \in tallennetut[s] PROVE q \in {r.kysymys : r \in uudet}
    <3> DEFINE r == [vastaaja |-> rivi.id, kysymys |-> q]
    <3>1. r \in uudet /\ r.kysymys = q
      OBVIOUS
    <3> HIDE DEF r, uudet
    <3> QED BY <3>1
  <2>3. \A r \in uudet : r.kysymys \in tallennetut[s]
    OBVIOUS
  <2> HIDE DEF uudet
  <2>4. {r.kysymys : r \in uudet} = tallennetut[s]
    BY <2>2, <2>3
  <2> QED BY <1>1, <2>1, <2>4
<1>9. luetut[s] \cap Pakolliset \subseteq lahetetyt[s]
  BY <1>1 DEF Validoidut, Validi
<1> HIDE DEF rivi, uudet
<1> QED
  BY <1>1, <1>2, <1>6, <1>7, <1>8, <1>9 DEF VainKokonaisia

(***************************************************************************)
(* validoi-ja-tallenna-vastaukset, its rollback and every failure in the   *)
(* middle: a respondent appears together with exactly the answers of the   *)
(* request, or not at all.                                                 *)
(***************************************************************************)
THEOREM KokonaanTaiEiLainkaan == Spec => KaikkiTaiEiMitaan
<1>1. ASSUME VastausInv, [Next]_vars PROVE VainKokonaisia
  <2>1. CASE UNCHANGED vastaustaulut
    BY <2>1 DEF VainKokonaisia, vastaustaulut
  <2>2. CASE VastaaminenNext
    <3>1. PICK s \in Istunnot :
            \/ \E t \in Tunnukset : AvaaSivu(s, t)
            \/ Laheta(s) \/ Palvele(s) \/ Keskeytyy(s)
      BY <2>2 DEF VastaaminenNext
    <3>2. CASE Vahvista(s)
      BY <1>1, <3>2, VahvistaKokonaan
    <3>3. CASE ~Vahvista(s)
      <4>1. UNCHANGED vastaustaulut
        BY <3>1, <3>3
        DEF Palvele, AvaaSivu, Laheta, Keskeytyy, Peru, TarkistaPaikat, HaeLomake,
            TarkistaTunnus, LuoVastaaja, LisaaVastaaja, Validoi, TallennaVastaus,
            Kuittaa, kanta, vastaustaulut
      <4> QED BY <2>1, <4>1
    <3> QED BY <3>2, <3>3
  <2> QED
    BY <1>1, <2>1, <2>2, MuutMuuttamatta DEF Next
<1>2. VastausInv /\ [Next]_vars => [VainKokonaisia]_vars
  BY <1>1
<1> QED
  BY <1>2, VastausInvSailyy, PTL DEF Spec, KaikkiTaiEiMitaan

-----------------------------------------------------------------------------

\* Nothing has been sent at first
LEMMA LupausAlku == Init => Lupaus!Init
<1> SUFFICES ASSUME Init PROVE Lupaus!Init
  OBVIOUS
<1>1. \A s \in Istunnot : yritys[s] = 0 /\ koodi[s] = Ei
  BY DEF Init, VastaaminenInit
<1>2. lupausTila = [l \in VastaajaIdt |-> "tulematta"]
  BY <1>1, VastaaminenOletus DEF lupausTila, LahetyksenTila, VastaajaIdt
<1>3. lupausKohde = [l \in VastaajaIdt |-> Ei]
  BY <1>1, VastaaminenOletus DEF lupausKohde, VastaajaIdt
<1> QED BY <1>2, <1>3 DEF Lupaus!Init, lupausAuki

\* The usable codes depend on the administration's tables and the day
LEMMA SamaAuki ==
  ASSUME UNCHANGED <<kysely, kerta, tunnus, paiva>>
  PROVE  lupausAuki' = lupausAuki
  BY DEF lupausAuki, TunnusKaytettavissa, KertaKaytettavissa, KyselyKaytettavissa, Voimassa

\* Nothing becomes of a sending while its page stays on its side of the POST
LEMMA SamatLahetykset ==
  ASSUME UNCHANGED <<vastaaja, yritys>>,
         \A i \in Istunnot :
           /\ (vaihe[i] = "lahetetty") <=> (vaihe'[i] = "lahetetty")
           /\ (vaihe[i] \in Kesken) <=> (vaihe'[i] \in Kesken)
  PROVE  lupausTila' = lupausTila
<1>1. ASSUME NEW l \in VastaajaIdt PROVE LahetyksenTila(l)' = LahetyksenTila(l)
  <2>1. l[1] \in Istunnot
    BY DEF VastaajaIdt
  <2> QED BY <2>1 DEF LahetyksenTila
<1> QED BY <1>1 DEF lupausTila

\* The target of a sending is the code of its page, which stays
LEMMA SamatKohteet ==
  ASSUME UNCHANGED <<koodi, yritys>>
  PROVE  lupausKohde' = lupausKohde
  BY DEF lupausKohde

\* A step about one try of one page
LEMMA YksiLahetys ==
  ASSUME NEW s \in Istunnot, NEW n \in 1 .. MaxYrityksia, NEW x,
         LahetyksenTila(<<s, n>>)' = x,
         \A i \in Istunnot : \A m \in 1 .. MaxYrityksia :
           <<i, m>> # <<s, n>> => LahetyksenTila(<<i, m>>)' = LahetyksenTila(<<i, m>>)
  PROVE  lupausTila' = [lupausTila EXCEPT ![<<s, n>>] = x]
<1>1. <<s, n>> \in VastaajaIdt
  BY DEF VastaajaIdt
<1>2. \A l \in VastaajaIdt : l # <<s, n>> => LahetyksenTila(l)' = LahetyksenTila(l)
  BY DEF VastaajaIdt
<1> QED BY <1>1, <1>2 DEF lupausTila

\* A sending refused, by the code or by a failure, is refused in the promise
LEMMA LupausPeru ==
  ASSUME VastausInv, NEW s \in Istunnot, vaihe[s] \in Kesken, Peru(s)
  PROVE  Lupaus!Next
<1> USE DEF VastausInv, TypeOK, LahetystenEheys, Kesken
<1>1. PICK n \in 1 .. MaxYrityksia : n = yritys[s]
  BY VastaaminenOletus DEF VastaaminenTyyppi
<1>2. \A v \in vastaaja : v.id # <<s, n>>
  BY <1>1 DEF UudetIdt
<1>3. /\ UNCHANGED <<kanta, koodi, yritys>>
      /\ vaihe' = [vaihe EXCEPT ![s] = "virhe"]
      /\ vaihe \in [Istunnot -> Vaiheet]
  BY DEF Peru, Siirry, VastaaminenTyyppi
<1>4. LahetyksenTila(<<s, n>>) \in {"saapunut", "hyvaksytty"}
  BY <1>1, <1>2 DEF LahetyksenTila
<1>5. LahetyksenTila(<<s, n>>)' = "hylatty"
  BY <1>1, <1>2, <1>3 DEF LahetyksenTila, kanta
<1>6. ASSUME NEW i \in Istunnot, NEW m \in 1 .. MaxYrityksia, <<i, m>> # <<s, n>>
      PROVE  LahetyksenTila(<<i, m>>)' = LahetyksenTila(<<i, m>>)
  BY <1>1, <1>3, <1>6 DEF LahetyksenTila, kanta
<1>7. lupausTila' = [lupausTila EXCEPT ![<<s, n>>] = "hylatty"]
  BY <1>5, <1>6, YksiLahetys
<1>8. <<s, n>> \in VastaajaIdt /\ lupausTila[<<s, n>>] \in {"saapunut", "hyvaksytty"}
  BY <1>4 DEF VastaajaIdt, lupausTila
<1>9. lupausAuki' = lupausAuki /\ lupausKohde' = lupausKohde
  BY <1>3, SamaAuki, SamatKohteet DEF kanta
<1> QED
  BY <1>7, <1>8, <1>9 DEF Lupaus!Next, Lupaus!Hylkaa, Lupaus!Siirry

\* A page sent again, or for the first time, is a new sending to the page's code
LEMMA LupausSaapuu ==
  ASSUME VastausInv, NEW s \in Istunnot, Laheta(s)
  PROVE  Lupaus!Next
<1> USE DEF VastausInv, TypeOK, LahetystenEheys, Kesken
<1>1. PICK n \in 1 .. MaxYrityksia : n = yritys[s] + 1
  BY VastaaminenOletus DEF Laheta, VastaaminenTyyppi
<1>2. PICK t \in Tunnukset : t = koodi[s]
  BY DEF Laheta, Avaamattomat
<1>3. /\ UNCHANGED <<kanta, koodi>>
      /\ yritys' = [yritys EXCEPT ![s] = n]
      /\ vaihe' = [vaihe EXCEPT ![s] = "lahetetty"]
      /\ vaihe[s] \in {"lomake", "virhe"}
      /\ vaihe \in [Istunnot -> Vaiheet]
      /\ yritys \in [Istunnot -> 0 .. MaxYrityksia]
  BY <1>1 DEF Laheta, Siirry, VastaaminenTyyppi
<1>4. \A v \in vastaaja : v.id # <<s, n>>
  BY <1>1, <1>3 DEF UudetIdt
<1>5. LahetyksenTila(<<s, n>>) = "tulematta"
  BY <1>1, <1>3 DEF LahetyksenTila
<1>6. LahetyksenTila(<<s, n>>)' = "saapunut"
  BY <1>3, <1>4 DEF LahetyksenTila, kanta
<1>7. ASSUME NEW i \in Istunnot, NEW m \in 1 .. MaxYrityksia, <<i, m>> # <<s, n>>
      PROVE  LahetyksenTila(<<i, m>>)' = LahetyksenTila(<<i, m>>)
  <2>1. CASE i # s
    BY <1>3, <2>1 DEF LahetyksenTila, kanta
  <2>2. CASE i = s
    BY <1>1, <1>3, <1>7, <2>2 DEF LahetyksenTila, kanta
  <2> QED BY <2>1, <2>2
<1>8. lupausTila' = [lupausTila EXCEPT ![<<s, n>>] = "saapunut"]
  BY <1>6, <1>7, YksiLahetys
<1>9. <<s, n>> \in VastaajaIdt /\ lupausTila[<<s, n>>] = "tulematta"
  BY <1>5 DEF VastaajaIdt, lupausTila
<1>10. lupausKohde' = [lupausKohde EXCEPT ![<<s, n>>] = t]
  <2>1. ASSUME NEW l \in VastaajaIdt
        PROVE  lupausKohde'[l] = IF l = <<s, n>> THEN t ELSE lupausKohde[l]
    <3>1. PICK i \in Istunnot, m \in 1 .. MaxYrityksia : l = <<i, m>>
      BY DEF VastaajaIdt
    <3> QED BY <1>1, <1>2, <1>3, <3>1 DEF lupausKohde
  <2> QED BY <1>9, <2>1 DEF lupausKohde
<1>11. lupausAuki' = lupausAuki
  BY <1>3, SamaAuki DEF kanta
<1> QED
  BY <1>8, <1>9, <1>10, <1>11 DEF Lupaus!Next, Lupaus!Saapuu, Lupaus!Siirry

\* A sending whose code is found usable is accepted
LEMMA LupausHyvaksy ==
  ASSUME VastausInv, NEW s \in Istunnot, TarkistaTunnus(s)
  PROVE  Lupaus!Next
<1> USE DEF VastausInv, TypeOK, LahetystenEheys, Kesken
<1>1. CASE ~TunnusKaytettavissa(koodi[s])
  BY <1>1, LupausPeru DEF TarkistaTunnus
<1>2. CASE TunnusKaytettavissa(koodi[s])
  <2>1. PICK n \in 1 .. MaxYrityksia : n = yritys[s]
    BY VastaaminenOletus DEF TarkistaTunnus, VastaaminenTyyppi
  <2>2. /\ UNCHANGED <<kanta, koodi, yritys>>
        /\ vaihe' = [vaihe EXCEPT ![s] = "tarkistettu"]
        /\ vaihe[s] = "lahetetty"
        /\ vaihe \in [Istunnot -> Vaiheet]
    BY <1>2 DEF TarkistaTunnus, Siirry, VastaaminenTyyppi
  <2>3. \A v \in vastaaja : v.id # <<s, n>>
    BY <2>1, <2>2 DEF UudetIdt
  <2>4. LahetyksenTila(<<s, n>>) = "saapunut"
    BY <2>1, <2>2, <2>3 DEF LahetyksenTila
  <2>5. LahetyksenTila(<<s, n>>)' = "hyvaksytty"
    BY <2>1, <2>2, <2>3 DEF LahetyksenTila, kanta
  <2>6. ASSUME NEW i \in Istunnot, NEW m \in 1 .. MaxYrityksia, <<i, m>> # <<s, n>>
        PROVE  LahetyksenTila(<<i, m>>)' = LahetyksenTila(<<i, m>>)
    BY <2>1, <2>2, <2>6 DEF LahetyksenTila, kanta
  <2>7. lupausTila' = [lupausTila EXCEPT ![<<s, n>>] = "hyvaksytty"]
    BY <2>5, <2>6, YksiLahetys
  <2>8. <<s, n>> \in VastaajaIdt /\ lupausTila[<<s, n>>] = "saapunut"
    BY <2>4 DEF VastaajaIdt, lupausTila
  <2>9. lupausKohde[<<s, n>>] \in lupausAuki
    <3>1. koodi[s] \in Tunnukset
      BY <2>2 DEF Avaamattomat
    <3> QED BY <1>2, <2>1, <2>8, <3>1 DEF lupausKohde, lupausAuki, VastaaminenTyyppi
  <2>10. lupausAuki' = lupausAuki /\ lupausKohde' = lupausKohde
    BY <2>2, SamaAuki, SamatKohteet DEF kanta
  <2> QED
    BY <2>7, <2>8, <2>9, <2>10 DEF Lupaus!Next, Lupaus!Hyvaksy, Lupaus!Siirry
<1> QED BY <1>1, <1>2

\* The commit records the sending being served and no other
LEMMA LupausKirjaa ==
  ASSUME VastausInv, NEW s \in Istunnot, Vahvista(s)
  PROVE  Lupaus!Next
<1> USE DEF VastausInv, TypeOK, LahetystenEheys, Kesken
<1>1. PICK n \in 1 .. MaxYrityksia : n = yritys[s]
  BY VastaaminenOletus DEF Vahvista, VastaaminenTyyppi
<1>2. PICK rivi : vastaaja' = vastaaja \cup {rivi} /\ rivi.id = <<s, n>>
  <2> DEFINE r == [id |-> avoin[s].id, tunnus |-> avoin[s].tunnus,
                   kerta |-> avoin[s].kerta, vastannut |-> TRUE]
  <2>1. vastaaja' = vastaaja \cup {r} /\ r.id = avoin[s].id
    BY DEF Vahvista, MerkitseVastanneeksi
  <2>2. avoin[s].id = <<s, n>>
    BY <1>1 DEF Vahvista, AvoimetIdt, Kirjoittavat
  <2> HIDE DEF r
  <2> QED BY <2>1, <2>2
<1>3. /\ UNCHANGED <<hallintataulut, paiva, koodi, yritys>>
      /\ vaihe' = [vaihe EXCEPT ![s] = "vahvistettu"]
      /\ vaihe[s] = "tallennus"
      /\ vaihe \in [Istunnot -> Vaiheet]
  BY DEF Vahvista, MerkitseVastanneeksi, Siirry, VastaaminenTyyppi
<1>4. \A v \in vastaaja : v.id # <<s, n>>
  BY <1>1, <1>3 DEF UudetIdt
<1>5. LahetyksenTila(<<s, n>>) = "hyvaksytty"
  BY <1>1, <1>3, <1>4 DEF LahetyksenTila
<1>6. LahetyksenTila(<<s, n>>)' = "kirjattu"
  BY <1>1, <1>2, <1>3 DEF LahetyksenTila
<1>7. ASSUME NEW i \in Istunnot, NEW m \in 1 .. MaxYrityksia, <<i, m>> # <<s, n>>
      PROVE  LahetyksenTila(<<i, m>>)' = LahetyksenTila(<<i, m>>)
  <2>1. (\E v \in vastaaja' : v.id = <<i, m>>) <=> (\E v \in vastaaja : v.id = <<i, m>>)
    BY <1>2, <1>7
  <2>2. m = yritys[i] => vaihe'[i] = vaihe[i]
    BY <1>1, <1>3, <1>7
  <2> QED BY <1>3, <2>1, <2>2 DEF LahetyksenTila
<1>8. lupausTila' = [lupausTila EXCEPT ![<<s, n>>] = "kirjattu"]
  BY <1>6, <1>7, YksiLahetys
<1>9. <<s, n>> \in VastaajaIdt /\ lupausTila[<<s, n>>] = "hyvaksytty"
  BY <1>5 DEF VastaajaIdt, lupausTila
<1>10. lupausAuki' = lupausAuki /\ lupausKohde' = lupausKohde
  BY <1>3, SamaAuki, SamatKohteet DEF hallintataulut
<1> QED
  BY <1>8, <1>9, <1>10 DEF Lupaus!Next, Lupaus!Kirjaa, Lupaus!Siirry

\* The other steps of a page change nothing the promise is about
LEMMA LupausEnnallaan ==
  ASSUME VastausInv, NEW s \in Istunnot,
         \/ \E t \in Tunnukset : AvaaSivu(s, t)
         \/ TarkistaPaikat(s) \/ HaeLomake(s)
         \/ LisaaVastaaja(s) /\ vaihe[s] = "tarkistettu"
         \/ Validoi(s) /\ ~Peru(s)
         \/ TallennaVastaus(s) \/ Kuittaa(s)
  PROVE  UNCHANGED Lupaus!vars
<1> USE DEF VastausInv, TypeOK, LahetystenEheys
<1>1. /\ UNCHANGED <<kanta, yritys>>
      /\ vaihe \in [Istunnot -> Vaiheet]
      /\ \A i \in Istunnot \ {s} : vaihe'[i] = vaihe[i]
      /\ koodi \in [Istunnot -> Tunnukset \cup {Ei}]
  BY DEF AvaaSivu, TarkistaPaikat, HaeLomake, LisaaVastaaja, Validoi, TallennaVastaus,
         Kuittaa, Siirry, VastaaminenTyyppi
<1>2. /\ vaihe[s] # "lahetetty" /\ vaihe'[s] # "lahetetty"
      /\ (vaihe[s] \in Kesken) <=> (vaihe'[s] \in Kesken)
  BY <1>1 DEF AvaaSivu, TarkistaPaikat, HaeLomake, LisaaVastaaja, Validoi,
         TallennaVastaus, Kuittaa, Siirry, Kesken
<1>3. lupausTila' = lupausTila
  BY <1>1, <1>2, SamatLahetykset DEF kanta
<1>4. lupausKohde' = lupausKohde
  <2>1. CASE koodi' = koodi
    BY <1>1, <2>1, SamatKohteet
  <2>2. CASE koodi' # koodi
    <3>1. /\ yritys[s] = 0
          /\ \A i \in Istunnot \ {s} : koodi'[i] = koodi[i]
      BY <1>1, <2>2
      DEF AvaaSivu, TarkistaPaikat, HaeLomake, LisaaVastaaja, Validoi,
          TallennaVastaus, Kuittaa, Avaamattomat
    <3>2. ASSUME NEW l \in VastaajaIdt
          PROVE  (IF l[2] > yritys[l[1]] THEN Ei ELSE koodi[l[1]])'
                   = IF l[2] > yritys[l[1]] THEN Ei ELSE koodi[l[1]]
      BY <1>1, <3>1, VastaaminenOletus DEF VastaajaIdt
    <3> QED BY <3>2 DEF lupausKohde
  <2> QED BY <2>1, <2>2
<1> QED
  BY <1>1, <1>3, <1>4, SamaAuki DEF kanta, Lupaus!vars

\* Every step is a step of the promise, or is not about it
LEMMA LupausAskel ==
  ASSUME VastausInv, [Next]_vars
  PROVE  [Lupaus!Next]_(Lupaus!vars)
<1>1. CASE VastaaminenNext
  <2>1. PICK s \in Istunnot :
          \/ \E t \in Tunnukset : AvaaSivu(s, t)
          \/ Laheta(s) \/ Palvele(s) \/ Keskeytyy(s)
    BY <1>1 DEF VastaaminenNext
  <2>2. CASE Laheta(s)
    BY <2>2, LupausSaapuu
  <2>3. CASE Keskeytyy(s)
    BY <2>3, LupausPeru DEF Keskeytyy
  <2>4. CASE TarkistaTunnus(s)
    BY <2>4, LupausHyvaksy
  <2>5. CASE Vahvista(s)
    BY <2>5, LupausKirjaa
  <2>6. CASE Peru(s) /\ (LuoVastaaja(s) \/ Validoi(s))
    BY <2>6, LupausPeru DEF LuoVastaaja, Validoi, Kesken
  <2>7. CASE LuoVastaaja(s) /\ ~Peru(s)
    BY <2>7, LupausEnnallaan DEF LuoVastaaja
  <2>8. CASE Validoi(s) /\ ~Peru(s)
    BY <2>8, LupausEnnallaan
  <2>9. CASE \E t \in Tunnukset : AvaaSivu(s, t)
    <3>1. UNCHANGED Lupaus!vars
      BY <2>9, LupausEnnallaan
    <3> QED BY <3>1
  <2>10. CASE TarkistaPaikat(s) \/ HaeLomake(s) \/ TallennaVastaus(s) \/ Kuittaa(s)
    BY <2>10, LupausEnnallaan
  <2>11. CASE Palvele(s)
    BY <2>4, <2>5, <2>6, <2>7, <2>8, <2>10, <2>11 DEF Palvele
  <2> QED
    BY <2>1, <2>2, <2>3, <2>9, <2>11
<1>2. CASE UNCHANGED <<vastausmuuttujat, vastaustaulut>>
  <2>1. lupausTila' = lupausTila /\ lupausKohde' = lupausKohde
    BY <1>2, SamatLahetykset, SamatKohteet DEF vastausmuuttujat, vastaustaulut
  <2>2. lupausAuki' \in SUBSET Tunnukset
    BY DEF lupausAuki
  <2> QED BY <2>1, <2>2 DEF Lupaus!Next, Lupaus!AukioloMuuttuu
<1> QED
  BY <1>1, <1>2, MuutMuuttamatta DEF Next

(***************************************************************************)
(* luo-vastaaja! and validoi-ja-tallenna-vastaukset together keep the      *)
(* promise of Vastauslupaus, whatever administration does in between: each *)
(* sending is recorded at most once, only after its code was found usable, *)
(* and never after it was refused.                                         *)
(***************************************************************************)
THEOREM LupausPidetaan == Spec => LupausToteutuu
<1>1. Init => Lupaus!Init
  BY LupausAlku
<1>2. VastausInv /\ [Next]_vars => [Lupaus!Next]_(Lupaus!vars)
  BY LupausAskel
<1> QED
  BY <1>1, <1>2, VastausInvSailyy, PTL DEF Spec, LupausToteutuu, Lupaus!Spec
=============================================================================
