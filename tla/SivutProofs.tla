---------------------------- MODULE SivutProofs ----------------------------
(***************************************************************************)
(* Theorems about the pages of module Selain.                              *)
(***************************************************************************)
EXTENDS Selain, FiniteSetTheorems, TLAPS

(***************************************************************************)
(* A step of the browser is a step of the page that is open                *)
(***************************************************************************)

\* Only the notice's own steps change it
LEMMA TiedotteenAskel == [Next]_muuttujat => [TiedoteNext]_tiedotteenMuuttujat
  BY DEF Next, Levossa, muuttujat

\* Only the guide's own steps change it
LEMMA OhjeenAskel == [Next]_muuttujat => [OhjeNext]_ohjeenMuuttujat
  BY DEF Next, Levossa, muuttujat

\* Only the respondent's page changes its state
LEMMA VastauslomakkeenAskel == [Next]_muuttujat => [VastauslomakeNext]_vastauslomakkeenMuuttujat
  BY DEF Next, Levossa, muuttujat

\* Only its own steps change a list of groups or templates
LEMMA RyhmaluettelonAskel == [Next]_muuttujat => [RyhmaluetteloNext]_ryhmaluettelonMuuttujat
  BY DEF Next, Levossa, muuttujat

\* Only the round page's own steps change it
LEMMA KertasivunAskel == [Next]_muuttujat => [KyselykertasivuNext]_kyselykerranMuuttujat
  BY DEF Next, Levossa, muuttujat

\* Only the survey form's own steps change it; the survey list shares the
\* indicators
LEMMA LomakkeenAskel ==
  [Next]_muuttujat =>
    \/ KyselylomakeNext
    \/ KyselyluetteloNext /\ UNCHANGED lomakkeenMuuttujat
    \/ UNCHANGED <<lomakkeenMuuttujat, seurannanMuuttujat>>
  BY DEF Next, Levossa, muuttujat

\* Only the sessions' own steps change them
LEMMA IstunnonAskel == [Next]_muuttujat => [IstuntoNext]_istunnonMuuttujat
  BY DEF Next, Levossa, muuttujat

(***************************************************************************)
(* The notice                                                              *)
(***************************************************************************)
Tekstityyppi == Nat \cup {Puuttuu}
KannanTekstit == {tiedoteKanta[i] : i \in DOMAIN tiedoteKanta}

TiedoteOK ==
  /\ tiedote \in [naytettava : Tekstityyppi, teksti : Tekstityyppi, tila : {"nayta", "muokkaa"},
                  kirjoitettu : Nat, onnistui : Tekstityyppi]
  /\ tiedotehaku \in Tekstityyppi
  /\ tiedotetallennukset \subseteq [teksti : Tekstityyppi, tehty : BOOLEAN]
  /\ tiedoteKanta \in Seq(Tekstityyppi) /\ tiedoteKanta # <<>>

\* What may still reach the page has been on the server
TiedoteTulossa ==
  /\ tiedotehaku \in KannanTekstit \cup {Puuttuu}
  /\ \A p \in tiedotetallennukset : p.tehty => p.teksti \in KannanTekstit

TiedoteInv == TiedoteOK /\ TiedoteTulossa /\ TiedoteKannasta

\* The page opens before it shows a notice
LEMMA TiedoteAlku == TiedoteInit => TiedoteInv
  BY TiedoteOletus DEF TiedoteInit, TiedoteInv, TiedoteOK, TiedoteTulossa, TiedoteKannasta,
     Tekstityyppi, KannanTekstit

\* A save that the server carries out adds its text to those it has had
LEMMA KannanKasvu ==
  ASSUME TiedoteOK, NEW t \in Tekstityyppi, tiedoteKanta' = Append(tiedoteKanta, t)
  PROVE  tiedoteKanta' \in Seq(Tekstityyppi) /\ tiedoteKanta' # <<>>
         /\ KannanTekstit' = KannanTekstit \cup {t}
<1>1. /\ Len(tiedoteKanta') = Len(tiedoteKanta) + 1 /\ Len(tiedoteKanta) \in Nat
      /\ tiedoteKanta' \in Seq(Tekstityyppi)
      /\ DOMAIN tiedoteKanta = 1 .. Len(tiedoteKanta)
      /\ DOMAIN tiedoteKanta' = 1 .. Len(tiedoteKanta')
  BY DEF TiedoteOK
<1>2. /\ tiedoteKanta'[Len(tiedoteKanta) + 1] = t
      /\ \A i \in 1 .. Len(tiedoteKanta) : tiedoteKanta'[i] = tiedoteKanta[i]
  BY DEF TiedoteOK
<1>3. tiedoteKanta' # <<>>
  BY <1>1
<1>4. KannanTekstit \cup {t} \subseteq KannanTekstit'
  BY <1>1, <1>2 DEF KannanTekstit
<1>5. KannanTekstit' \subseteq KannanTekstit \cup {t}
  BY <1>1, <1>2 DEF KannanTekstit
<1> QED BY <1>1, <1>3, <1>4, <1>5

\* Every step of the notice keeps it to texts the server has had
LEMMA TiedoteSailyy ==
  ASSUME TiedoteInv, [TiedoteNext]_tiedotteenMuuttujat PROVE TiedoteInv'
<1> USE TiedoteOletus DEF Tekstityyppi
<1>1. CASE UNCHANGED tiedotteenMuuttujat
  BY <1>1 DEF tiedotteenMuuttujat, TiedoteInv, TiedoteOK, TiedoteTulossa, TiedoteKannasta,
     KannanTekstit
<1>2. CASE TiedoteSaapuu
  <2>1. Viimeisin \in KannanTekstit \cap Tekstityyppi
    BY DEF TiedoteInv, TiedoteOK, Viimeisin, KannanTekstit
  <2>2. KannanTekstit' = KannanTekstit
    BY <1>2 DEF TiedoteSaapuu, KannanTekstit
  <2>3. TiedoteTulossa' /\ tiedotehaku' \in Tekstityyppi
    BY <1>2, <2>2 DEF TiedoteSaapuu, TiedoteInv, TiedoteTulossa
  <2>4. ASSUME NEW t \in {tiedotehaku, Viimeisin},
               tiedote' = [tiedote EXCEPT !.naytettava = t, !.teksti = t]
        PROVE  TiedoteInv'
    <3>1. t \in KannanTekstit \cap Tekstityyppi
      BY <1>2, <2>1, <2>4 DEF TiedoteSaapuu, TiedoteInv, TiedoteOK, TiedoteTulossa
    <3>2. TiedoteOK'
      BY <1>2, <2>3, <2>4, <3>1 DEF TiedoteSaapuu, TiedoteInv, TiedoteOK
    <3>3. tiedote'.naytettava = t
      BY <2>4 DEF TiedoteInv, TiedoteOK
    <3> QED BY <2>2, <2>3, <3>1, <3>2, <3>3 DEF TiedoteInv, TiedoteKannasta, KannanTekstit
  <2>5. CASE UNCHANGED tiedote
    BY <1>2, <2>3, <2>5 DEF TiedoteSaapuu, TiedoteInv, TiedoteOK, TiedoteKannasta
  <2> QED BY <1>2, <2>4, <2>5 DEF TiedoteSaapuu
<1>3. CASE MuokkaaTiedotetta \/ KirjoitaTiedote
  <2>1. TiedoteOK'
    <3>1. CASE MuokkaaTiedotetta
      BY <3>1 DEF MuokkaaTiedotetta, TiedoteInv, TiedoteOK
    <3>2. CASE KirjoitaTiedote
      <4>1. tiedote.kirjoitettu + 1 \in Nat
        BY DEF TiedoteInv, TiedoteOK
      <4>2. PICK n \in Nat : tiedote' = [tiedote EXCEPT !.kirjoitettu = n, !.teksti = n]
        BY <3>2, <4>1 DEF KirjoitaTiedote
      <4>3. n \in Tekstityyppi
        OBVIOUS
      <4> QED
        BY <3>2, <4>2, <4>3 DEF KirjoitaTiedote, TiedoteInv, TiedoteOK
    <3> QED BY <1>3, <3>1, <3>2
  <2>2. tiedote'.naytettava = tiedote.naytettava
    BY <1>3 DEF MuokkaaTiedotetta, KirjoitaTiedote, TiedoteInv, TiedoteOK
  <2> QED
    BY <1>3, <2>1, <2>2 DEF MuokkaaTiedotetta, KirjoitaTiedote, TiedoteInv, TiedoteTulossa,
       TiedoteKannasta, KannanTekstit
<1>4. CASE TallennaTiedote
  <2> DEFINE p == [teksti |-> tiedote.teksti, tehty |-> FALSE]
  <2>1. p \in [teksti : Tekstityyppi, tehty : BOOLEAN] /\ ~p.tehty
    BY DEF TiedoteInv, TiedoteOK
  <2>2. tiedotetallennukset' = tiedotetallennukset \cup {p}
    BY <1>4 DEF TallennaTiedote
  <2> HIDE DEF p
  <2>3. /\ tiedote' \in [naytettava : Tekstityyppi, teksti : Tekstityyppi, tila : {"nayta", "muokkaa"},
                         kirjoitettu : Nat, onnistui : Tekstityyppi]
        /\ tiedote'.naytettava = tiedote.naytettava
    BY <1>4 DEF TallennaTiedote, TiedoteInv, TiedoteOK
  <2>4. TiedoteOK'
    BY <1>4, <2>1, <2>2, <2>3 DEF TallennaTiedote, TiedoteInv, TiedoteOK
  <2> QED
    BY <1>4, <2>1, <2>2, <2>3, <2>4 DEF TallennaTiedote, TiedoteInv, TiedoteTulossa,
       TiedoteKannasta, KannanTekstit
<1>5. ASSUME NEW p \in tiedotetallennukset, KantaTallentaa(p) PROVE TiedoteInv'
  <2>1. p.teksti \in Tekstityyppi /\ [p EXCEPT !.tehty = TRUE] \in [teksti : Tekstityyppi, tehty : BOOLEAN]
    BY DEF TiedoteInv, TiedoteOK
  <2>2. /\ tiedoteKanta' \in Seq(Tekstityyppi) /\ tiedoteKanta' # <<>>
        /\ KannanTekstit' = KannanTekstit \cup {p.teksti}
    BY <1>5, <2>1, KannanKasvu DEF KantaTallentaa, TiedoteInv
  <2>3. TiedoteOK'
    BY <1>5, <2>1, <2>2 DEF KantaTallentaa, TiedoteInv, TiedoteOK
  <2>4. TiedoteTulossa'
    BY <1>5, <2>1, <2>2 DEF KantaTallentaa, TiedoteInv, TiedoteOK, TiedoteTulossa
  <2>5. TiedoteKannasta'
    <3>1. tiedote'.naytettava = Puuttuu \/ tiedote'.naytettava \in KannanTekstit
      BY <1>5 DEF KantaTallentaa, TiedoteInv, TiedoteKannasta, KannanTekstit
    <3> QED BY <2>2, <3>1 DEF TiedoteKannasta, KannanTekstit
  <2> QED BY <2>3, <2>4, <2>5 DEF TiedoteInv
<1>6. ASSUME NEW p \in tiedotetallennukset, TiedoteTallennettu(p) PROVE TiedoteInv'
  <2>1. p \in [teksti : Tekstityyppi, tehty : BOOLEAN] /\ p.teksti \in KannanTekstit
    BY <1>6 DEF TiedoteTallennettu, TiedoteInv, TiedoteOK, TiedoteTulossa
  <2>2. TiedoteOK' /\ tiedote'.naytettava = p.teksti
    BY <1>6, <2>1 DEF TiedoteTallennettu, TiedoteInv, TiedoteOK
  <2> QED
    BY <1>6, <2>1, <2>2 DEF TiedoteTallennettu, TiedoteInv, TiedoteTulossa, TiedoteKannasta,
       KannanTekstit
<1>7. ASSUME NEW p \in tiedotetallennukset, TiedotteenTallennusEpaonnistui(p) PROVE TiedoteInv'
  BY <1>7 DEF TiedotteenTallennusEpaonnistui, TiedoteInv, TiedoteOK, TiedoteTulossa,
     TiedoteKannasta, KannanTekstit
<1> QED
  BY <1>1, <1>2, <1>3, <1>4, <1>5, <1>6, <1>7 DEF TiedoteNext

\* No notice is shown that the server has not had
THEOREM TiedoteAinaKannasta == Spec => []TiedoteKannasta
<1>1. Init => TiedoteInv
  BY TiedoteAlku DEF Init
<1>2. TiedoteInv /\ [Next]_muuttujat => TiedoteInv'
  BY TiedotteenAskel, TiedoteSailyy
<1> QED BY <1>1, <1>2, PTL DEF Spec, TiedoteInv

(***************************************************************************)
(* The guide                                                               *)
(***************************************************************************)
\* The scope of a guide that is up to date shows the text it has
OhjeOK(o) ==
  /\ o \in [nayta : BOOLEAN, muokkaus : BOOLEAN, teksti : Nat \cup {OhjettaEi},
            ohjeteksti : Nat \cup {OhjettaEi}, haku : Nat, kirjoitettu : Nat,
            ajan_tasalla : BOOLEAN]
  /\ o.ajan_tasalla => o.ohjeteksti = o.teksti

\* No save in flight, or one, and counted
YksiTallennus ==
  \/ ohjetallennukset = {} /\ ohjepyyntoja = 0
  \/ \E p : ohjetallennukset = {p} /\ ohjepyyntoja = 1

OhjeInv ==
  /\ OhjeOK(ohje)
  /\ ohjeKanta \in Nat \cup {OhjettaEi}
  /\ \A h \in ohjehaut : h.teksti \in Nat \cup {OhjettaEi}
  /\ \A p \in ohjetallennukset : p.teksti \in Nat \cup {OhjettaEi}
  /\ YksiTallennus

\* A guide starts closed, with nothing asked for
LEMMA OhjeAlku == OhjeInit => OhjeInv
  BY DEF OhjeInit, OhjeInv, OhjeOK, YksiTallennus

\* Fetching a guide makes nothing of it up to date
LEMMA HaeOhjeSailyttaa ==
  ASSUME OhjeInv, NEW hs, \A h \in hs : h.teksti \in Nat \cup {OhjettaEi},
         ohjeKanta' \in Nat \cup {OhjettaEi}, HaeOhje(ohje, hs)
  PROVE  OhjeOK(ohje') /\ \A h \in ohjehaut' : h.teksti \in Nat \cup {OhjettaEi}
<1>1. ohje.haku + 1 \in Nat
  BY DEF OhjeInv, OhjeOK
<1>2. PICK n \in Nat : ohje' = [ohje EXCEPT !.muokkaus = FALSE, !.nayta = TRUE,
                                  !.teksti = OhjettaEi, !.haku = n, !.ajan_tasalla = FALSE]
  BY <1>1 DEF HaeOhje
<1>3. OhjeOK(ohje')
  BY <1>2 DEF OhjeInv, OhjeOK
<1>4. ohjehaut' = hs \cup {[nro |-> ohje.haku + 1, teksti |-> ohjeKanta']}
  BY DEF HaeOhje
<1> QED BY <1>3, <1>4

\* Every step of the guide keeps both
LEMMA OhjeSailyy ==
  ASSUME OhjeInv, [OhjeNext]_ohjeenMuuttujat PROVE OhjeInv'
<1>1. CASE UNCHANGED ohjeenMuuttujat
  BY <1>1 DEF ohjeenMuuttujat, OhjeInv, OhjeOK, YksiTallennus
<1>2. CASE NaytaOhje
  BY <1>2, HaeOhjeSailyttaa DEF NaytaOhje, OhjeInv, YksiTallennus
<1>3. CASE PiilotaOhje \/ VaihdaMuokkaus \/ KirjoitaOhje
  <2>1. CASE PiilotaOhje
    BY <2>1 DEF PiilotaOhje, OhjeInv, OhjeOK, YksiTallennus
  <2>2. CASE VaihdaMuokkaus
    BY <2>2 DEF VaihdaMuokkaus, OhjeInv, OhjeOK, YksiTallennus
  <2>3. CASE KirjoitaOhje
    <3>1. ohje.kirjoitettu + 1 \in Nat
      BY DEF OhjeInv, OhjeOK
    <3>2. PICK n \in Nat : ohje' = [ohje EXCEPT !.kirjoitettu = n, !.teksti = n,
                                                !.ajan_tasalla = FALSE]
      BY <2>3, <3>1 DEF KirjoitaOhje
    <3>3. OhjeOK(ohje')
      BY <3>2 DEF OhjeInv, OhjeOK
    <3> QED BY <2>3, <3>3 DEF KirjoitaOhje, OhjeInv, YksiTallennus
  <2> QED BY <1>3, <2>1, <2>2, <2>3
<1>4. CASE TallennaOhje
  <2>1. ohjetallennukset = {} /\ ohjepyyntoja = 0
    BY <1>4 DEF TallennaOhje, TallennusDisabloitu, OhjeInv, YksiTallennus
  <2> QED
    <3> DEFINE p == [nro |-> ohje.haku, teksti |-> ohje.teksti]
    <3>1. p.teksti \in Nat \cup {OhjettaEi}
      BY DEF OhjeInv, OhjeOK
    <3>2. ohjetallennukset' = {p} /\ ohjepyyntoja' = 1
      BY <1>4, <2>1 DEF TallennaOhje, ApiPyynto
    <3> QED
      BY <1>4, <3>1, <3>2 DEF TallennaOhje, OhjeInv, YksiTallennus
<1>5. ASSUME NEW h \in ohjehaut, OhjeSaapuu(h) PROVE OhjeInv'
  <2>1. ASSUME NEW t \in {h.teksti, ohjeKanta}
        PROVE  /\ h.nro = ohje.haku =>
                    OhjeOK([ohje EXCEPT !.teksti = t, !.ohjeteksti = t, !.ajan_tasalla = TRUE])
               /\ OhjeOK([ohje EXCEPT !.ohjeteksti = ohje.teksti])
    BY DEF OhjeInv, OhjeOK
  <2>2. OhjeOK(ohje')
    BY <1>5, <2>1 DEF OhjeSaapuu, OhjeInv
  <2> QED BY <1>5, <2>2 DEF OhjeSaapuu, OhjeInv, YksiTallennus
<1>6. ASSUME NEW p \in ohjetallennukset, OhjeTallennettu(p) PROVE OhjeInv'
  <2>1. YksiTallennus' /\ ohjeKanta' \in Nat \cup {OhjettaEi} /\ ohjetallennukset' = {}
    BY <1>6 DEF OhjeTallennettu, ApiVastaus, OhjeInv, YksiTallennus
  <2> QED
    BY <1>6, <2>1, HaeOhjeSailyttaa DEF OhjeTallennettu, OhjeInv
<1>7. ASSUME NEW p \in ohjetallennukset, OhjeenTallennusEpaonnistui(p) PROVE OhjeInv'
  <2>1. YksiTallennus' /\ ohjeKanta' \in Nat \cup {OhjettaEi}
    BY <1>7 DEF OhjeenTallennusEpaonnistui, ApiVastaus, OhjeInv, YksiTallennus
  <2> QED
    BY <1>7, <2>1 DEF OhjeenTallennusEpaonnistui, OhjeInv, OhjeOK
<1> QED
  BY <1>1, <1>2, <1>3, <1>4, <1>5, <1>6, <1>7 DEF OhjeNext

\* The invariant of the guide holds throughout
LEMMA OhjeAina == Spec => []OhjeInv
<1>1. Init => OhjeInv
  BY OhjeAlku DEF Init
<1>2. OhjeInv /\ [Next]_muuttujat => OhjeInv'
  BY OhjeenAskel, OhjeSailyy
<1> QED BY <1>1, <1>2, PTL DEF Spec

\* The paragraphs shown are those of the newest answer
THEOREM OhjeAinaUusimmasta == Spec => []OhjeUusimmasta
<1>1. OhjeInv => OhjeUusimmasta
  BY DEF OhjeInv, OhjeOK, OhjeUusimmasta
<1> QED BY <1>1, OhjeAina, PTL

\* One save of a guide is in flight at a time, and the count says so
THEOREM OhjeAinaYksin == Spec => []OhjeTallennetaanYksin
<1>1. OhjeInv => OhjeTallennetaanYksin
  <2>1. CASE ohjetallennukset = {} /\ ohjepyyntoja = 0
    BY <2>1, FS_EmptySet DEF OhjeTallennetaanYksin
  <2>2. ASSUME NEW p, ohjetallennukset = {p}, ohjepyyntoja = 1 PROVE OhjeTallennetaanYksin
    <3>1. Cardinality({p}) = 1
      BY FS_Singleton
    <3> QED BY <2>2, <3>1 DEF OhjeTallennetaanYksin
  <2> QED BY <2>1, <2>2 DEF OhjeInv, YksiTallennus
<1> QED BY <1>1, OhjeAina, PTL

(***************************************************************************)
(* The page of a respondent: one request at a time                         *)
(***************************************************************************)

\* What has been done to a respondent's answers so far
Tallessa == sivulla = "kiitos" \/ \E p \in lahetykset : p.tehty

\* No request in flight, or one, with the button off
YksiLahetys ==
  \/ lahetykset = {}
  \/ /\ sivulla = "lomake" /\ tallennaNappiDisabloitu
     /\ \E p : lahetykset = {p} /\ "tehty" \in DOMAIN p

\* Respondents stored: this one, and one for each answer lost
MaaratKunnossa ==
  /\ vastaajia \in Nat
  /\ vastausmaarat \in [lahetys : Nat, katkos : Nat]
  /\ vastaajia <= vastausmaarat.katkos + (IF Tallessa THEN 1 ELSE 0)

\* The page opens with nothing sent
LEMMA LahetysAlku == VastauslomakeInit => YksiLahetys /\ MaaratKunnossa
  BY DEF VastauslomakeInit, YksiLahetys, MaaratKunnossa

\* Every step keeps to one request and to its count
LEMMA LahetysSailyy ==
  ASSUME YksiLahetys, MaaratKunnossa, [VastauslomakeNext]_vastauslomakkeenMuuttujat
  PROVE  YksiLahetys' /\ MaaratKunnossa'
<1>1. CASE UNCHANGED vastauslomakkeenMuuttujat
  BY <1>1 DEF vastauslomakkeenMuuttujat, YksiLahetys, MaaratKunnossa, Tallessa
<1>2. CASE LomakeSaapuu
  <2>1. lahetykset = {}
    BY <1>2 DEF LomakeSaapuu, YksiLahetys
  <2> QED BY <1>2, <2>1 DEF LomakeSaapuu, YksiLahetys, MaaratKunnossa, Tallessa
<1>3. CASE Lomakkeella
  BY <1>3 DEF Lomakkeella, YksiLahetys, MaaratKunnossa, Tallessa
<1>4. CASE TallennaVastaukset
  <2> DEFINE p == [nro |-> vastausmaarat.lahetys, vastaukset |-> KeraaVastausdata,
                   rastit |-> valitut, tehty |-> FALSE]
  <2>1. lahetykset = {} /\ sivulla = "lomake"
    BY <1>4 DEF TallennaVastaukset, YksiLahetys
  <2>2. lahetykset' = {p} /\ sivulla' = "lomake" /\ tallennaNappiDisabloitu'
    BY <1>4, <2>1 DEF TallennaVastaukset, NappiLahetettaessa
  <2>3. "tehty" \in DOMAIN p
    OBVIOUS
  <2>4. YksiLahetys'
    BY <2>2, <2>3 DEF YksiLahetys
  <2>5. vastausmaarat' \in [lahetys : Nat, katkos : Nat] /\ vastausmaarat'.katkos = vastausmaarat.katkos
    BY <1>4 DEF TallennaVastaukset, MaaratKunnossa
  <2>6. ~Tallessa /\ vastaajia' = vastaajia
    BY <1>4, <2>1 DEF TallennaVastaukset, Tallessa
  <2> QED BY <2>4, <2>5, <2>6 DEF MaaratKunnossa
<1>5. ASSUME NEW p \in lahetykset, PalvelinTallentaaVastaukset(p)
      PROVE  YksiLahetys' /\ MaaratKunnossa'
  <2>1. lahetykset = {p} /\ sivulla = "lomake" /\ tallennaNappiDisabloitu /\ "tehty" \in DOMAIN p
    BY DEF YksiLahetys
  <2>2. lahetykset' = {[p EXCEPT !.tehty = TRUE]}
    BY <1>5, <2>1 DEF PalvelinTallentaaVastaukset
  <2>3. "tehty" \in DOMAIN [p EXCEPT !.tehty = TRUE] /\ [p EXCEPT !.tehty = TRUE].tehty
    BY <2>1
  <2>4. ~p.tehty /\ UNCHANGED <<sivulla, tallennaNappiDisabloitu, vastausmaarat>>
        /\ vastaajia' = vastaajia + 1
    BY <1>5 DEF PalvelinTallentaaVastaukset
  <2>5. YksiLahetys'
    BY <2>1, <2>2, <2>3, <2>4 DEF YksiLahetys
  <2>6. ~Tallessa /\ Tallessa'
    BY <2>1, <2>2, <2>3, <2>4 DEF Tallessa
  <2> QED BY <2>4, <2>5, <2>6 DEF MaaratKunnossa
<1>6. ASSUME NEW p \in lahetykset, VastauksetTallennettu(p)
      PROVE  YksiLahetys' /\ MaaratKunnossa'
  <2>1. lahetykset' = {} /\ sivulla' = "kiitos"
    BY <1>6 DEF VastauksetTallennettu, YksiLahetys
  <2>2. Tallessa /\ Tallessa' /\ UNCHANGED <<vastaajia, vastausmaarat>>
    BY <1>6, <2>1 DEF VastauksetTallennettu, Tallessa
  <2> QED BY <2>1, <2>2 DEF YksiLahetys, MaaratKunnossa
<1>7. ASSUME NEW p \in lahetykset, VastaustenTallennusEpaonnistui(p)
      PROVE  YksiLahetys' /\ MaaratKunnossa'
  <2>1. lahetykset = {p} /\ lahetykset' = {} /\ sivulla = "lomake" /\ UNCHANGED <<sivulla, vastaajia>>
    BY <1>7 DEF VastaustenTallennusEpaonnistui, YksiLahetys
  <2>2. (Tallessa <=> p.tehty) /\ ~Tallessa'
    BY <2>1 DEF Tallessa
  <2>3. PICK n \in {0, 1} : /\ (n = 1 <=> p.tehty)
                            /\ vastausmaarat' = [vastausmaarat EXCEPT !.katkos = @ + n]
    BY <1>7 DEF VastaustenTallennusEpaonnistui
  <2>4. /\ vastausmaarat' \in [lahetys : Nat, katkos : Nat]
        /\ vastausmaarat'.katkos = vastausmaarat.katkos + n
    BY <2>3 DEF MaaratKunnossa
  <2> QED BY <2>1, <2>2, <2>3, <2>4 DEF YksiLahetys, MaaratKunnossa
<1>8. ASSUME NEW k \in Kysymysidt,
             \/ ValitseEOS(k) \/ VastaaJatkoon(k)
             \/ \E teksti \in Tekstit : KirjoitaTeksti(k, teksti)
             \/ \E v : Rastita(k, v) \/ ValitseYksi(k, v)
      PROVE  Lomakkeella
  BY <1>8 DEF ValitseEOS, VastaaJatkoon, KirjoitaTeksti, Rastita, ValitseYksi
<1> QED
  BY <1>1, <1>2, <1>3, <1>4, <1>5, <1>6, <1>7, <1>8 DEF VastauslomakeNext

\* A respondent is stored once, and once more for each answer that was lost
THEOREM VastataanAinaKerran == Spec => []VastataanKerran
<1>1. Init => YksiLahetys /\ MaaratKunnossa
  BY LahetysAlku DEF Init
<1>2. YksiLahetys /\ MaaratKunnossa /\ [Next]_muuttujat => YksiLahetys' /\ MaaratKunnossa'
  BY VastauslomakkeenAskel, LahetysSailyy
<1>3. YksiLahetys => Cardinality(lahetykset) <= 1
  <2>1. CASE lahetykset = {}
    BY <2>1, FS_EmptySet
  <2>2. ASSUME NEW p, lahetykset = {p} PROVE Cardinality(lahetykset) <= 1
    <3>1. Cardinality({p}) = 1
      BY FS_Singleton
    <3> QED BY <2>2, <3>1
  <2> QED BY <2>1, <2>2 DEF YksiLahetys
<1>4. MaaratKunnossa => vastaajia <= 1 + vastausmaarat.katkos
  BY DEF MaaratKunnossa
<1> QED BY <1>1, <1>2, <1>3, <1>4, PTL DEF Spec, VastataanKerran

(***************************************************************************)
(* The page of a respondent: what is sent                                  *)
(***************************************************************************)

\* An answer, its ticks and their count agree with the type of the question
KysymysOK(q, v, rastit, n) ==
  /\ rastit \subseteq q.vaihtoehdot /\ n = Cardinality(rastit)
  /\ v = "EOS" => q.eos
  /\ q.tyyppi = "monivalinta" =>
       /\ v \in {Maarittelematon, "rastittu", "rastiton", "EOS"}
       /\ n <= q.max
       /\ rastit # {} <=> v = "rastittu"
  /\ q.tyyppi = "kylla_ei_valinta" => v \in {Maarittelematon, "kylla", "ei", "EOS"}
  /\ q.tyyppi = "valinta" => v \in q.vaihtoehdot \cup {Maarittelematon, "EOS"}
  /\ q.tyyppi = "vapaateksti" => v \in {Maarittelematon, "", "teksti", "EOS"}

VastauksetOK ==
  /\ lomake \in Lomakkeet
  /\ DOMAIN vastaukset = Kysymysidt /\ DOMAIN valitut = Kysymysidt
  /\ DOMAIN monivalinta = Kysymysidt
  /\ \A k \in Kysymysidt : KysymysOK(lomake[k], vastaukset[k], valitut[k], monivalinta[k])

\* A request that the server takes, with the ticks as they were
LahetysOK(p) ==
  /\ DOMAIN p = {"nro", "vastaukset", "rastit", "tehty"}
  /\ Validi(p.vastaukset)
  /\ \A k \in DOMAIN p.vastaukset : Tyyppi(k) = "monivalinta" =>
       /\ p.rastit[k] = p.vastaukset[k].arvot \ {"EOS"}
       /\ Cardinality(p.rastit[k]) <= lomake[k].max

LahetyksetOK == \A p \in lahetykset : LahetysOK(p)

\* A form whose questions have not been answered
LEMMA VastauksetAlku == VastauslomakeInit => VastauksetOK /\ LahetyksetOK
<1> SUFFICES ASSUME VastauslomakeInit PROVE VastauksetOK /\ LahetyksetOK
  OBVIOUS
<1>1. LahetyksetOK
  BY DEF VastauslomakeInit, LahetyksetOK
<1>2. ASSUME NEW k \in Kysymysidt
      PROVE  KysymysOK(lomake[k], vastaukset[k], valitut[k], monivalinta[k])
  <2>1. /\ vastaukset[k] = Maarittelematon /\ valitut[k] = {} /\ monivalinta[k] = 0
        /\ lomake[k].max \in Nat /\ Cardinality({}) = 0
    BY <1>2, VastauslomakeOletus, FS_EmptySet DEF VastauslomakeInit, Kysymysidt
  <2>2. Maarittelematon \notin {"EOS", "rastittu"}
    BY VastauslomakeOletus
  <2>3. 0 <= lomake[k].max
    BY <2>1
  <2> QED BY <2>1, <2>2, <2>3 DEF KysymysOK
<1> QED BY <1>1, <1>2 DEF VastauslomakeInit, VastauksetOK

\* An answer that suits its question keeps the form in order
LEMMA YhteenVastataan ==
  ASSUME VastauksetOK, NEW k \in Kysymysidt, NEW v,
         vastaukset' = [vastaukset EXCEPT ![k] = v],
         UNCHANGED <<lomake, valitut, monivalinta>>,
         KysymysOK(lomake[k], v, valitut[k], monivalinta[k])
  PROVE  VastauksetOK'
<1>1. /\ DOMAIN vastaukset' = Kysymysidt /\ vastaukset'[k] = v
      /\ \A j \in Kysymysidt \ {k} : vastaukset'[j] = vastaukset[j]
  BY DEF VastauksetOK
<1>2. Kysymysidt' = Kysymysidt
  BY DEF Kysymysidt
<1>3. ASSUME NEW j \in Kysymysidt
      PROVE  KysymysOK(lomake[j], vastaukset'[j], valitut[j], monivalinta[j])
  BY <1>1 DEF VastauksetOK
<1> QED BY <1>1, <1>2, <1>3 DEF VastauksetOK

\* Every input of the form keeps answers of the right kind
LEMMA SyoteSailyttaa ==
  ASSUME VastauksetOK, NEW k \in Kysymysidt
  PROVE  /\ \A t \in Tekstit : KirjoitaTeksti(k, t) => VastauksetOK'
         /\ \A v \in IF Tyyppi(k) = "kylla_ei_valinta" THEN {"kylla", "ei"}
                                                       ELSE lomake[k].vaihtoehdot :
              ValitseYksi(k, v) => VastauksetOK'
         /\ ValitseEOS(k) => VastauksetOK'
         /\ \A v \in lomake[k].vaihtoehdot : Rastita(k, v) => VastauksetOK'
         /\ VastaaJatkoon(k) => VastauksetOK'
<1>0. /\ KysymysOK(lomake[k], vastaukset[k], valitut[k], monivalinta[k])
      /\ lomake[k].max \in Nat /\ IsFiniteSet(lomake[k].vaihtoehdot)
      /\ lomake[k].tyyppi \in {"vapaateksti", "kylla_ei_valinta", "valinta", "monivalinta"}
      /\ "EOS" \notin lomake[k].vaihtoehdot
      /\ Maarittelematon \notin {"", "teksti", "kylla", "ei", "EOS", "rastittu", "rastiton"}
  BY VastauslomakeOletus DEF VastauksetOK, Kysymysidt
<1>1. ASSUME NEW t \in Tekstit, KirjoitaTeksti(k, t) PROVE VastauksetOK'
  <2> DEFINE v == Teksti(t, lomake[k].pakollinen)
  <2>1. v \in {Maarittelematon, "", "teksti"}
    BY DEF Teksti, Tekstit
  <2>2. KysymysOK(lomake[k], v, valitut[k], monivalinta[k])
    BY <1>0, <1>1, <2>1 DEF KysymysOK, KirjoitaTeksti, Tyyppi
  <2> QED BY <1>1, <2>2, YhteenVastataan DEF KirjoitaTeksti, Lomakkeella
<1>2. ASSUME NEW v \in IF Tyyppi(k) = "kylla_ei_valinta" THEN {"kylla", "ei"}
                                                   ELSE lomake[k].vaihtoehdot,
             ValitseYksi(k, v)
      PROVE  VastauksetOK'
  <2>1. v # "EOS"
    BY <1>0
  <2>2. KysymysOK(lomake[k], v, valitut[k], monivalinta[k])
    BY <1>0, <1>2, <2>1 DEF KysymysOK, ValitseYksi, Tyyppi
  <2> QED BY <1>2, <2>2, YhteenVastataan DEF ValitseYksi, Vastaa, Lomakkeella
<1>3. ASSUME ValitseEOS(k) PROVE VastauksetOK'
  <2>1. IsFiniteSet(valitut[k])
    BY <1>0, FS_Subset DEF KysymysOK
  <2>2. Tyyppi(k) = "monivalinta" => valitut[k] = {}
    <3>1. Cardinality(valitut[k]) \in Nat /\ (Cardinality(valitut[k]) = 0 => valitut[k] = {})
      BY <2>1, FS_CardinalityType, FS_EmptySet
    <3>2. ASSUME Tyyppi(k) = "monivalinta" PROVE ~(monivalinta[k] > 0)
      BY <1>3, <3>2 DEF ValitseEOS
    <3>3. monivalinta[k] = Cardinality(valitut[k])
      BY <1>0 DEF KysymysOK
    <3> QED BY <3>1, <3>2, <3>3
  <2>3. KysymysOK(lomake[k], "EOS", valitut[k], monivalinta[k])
    BY <1>0, <1>3, <2>2 DEF KysymysOK, ValitseEOS, Tyyppi
  <2> QED BY <1>3, <2>3, YhteenVastataan DEF ValitseEOS, Vastaa, Lomakkeella
<1>4. ASSUME NEW v \in lomake[k].vaihtoehdot, Rastita(k, v) PROVE VastauksetOK'
  <2> DEFINE S == IF v \in valitut[k] THEN valitut[k] \ {v} ELSE valitut[k] \cup {v}
             n == IF v \in valitut[k] THEN monivalinta[k] - 1 ELSE monivalinta[k] + 1
  <2>1. IsFiniteSet(valitut[k]) /\ Cardinality(valitut[k]) \in Nat
    BY <1>0, FS_Subset, FS_CardinalityType DEF KysymysOK
  <2>2. IsFiniteSet(S) /\ Cardinality(S) = n /\ n \in Nat
    <3>1. monivalinta[k] = Cardinality(valitut[k])
      BY <1>0 DEF KysymysOK
    <3>2. CASE v \in valitut[k]
      <4>1. IsFiniteSet(valitut[k] \ {v}) /\ Cardinality(valitut[k] \ {v}) = Cardinality(valitut[k]) - 1
        BY <2>1, <3>2, FS_RemoveElement
      <4> QED BY <3>1, <3>2, <4>1, FS_CardinalityType
    <3>3. CASE v \notin valitut[k]
      <4>1. /\ IsFiniteSet(valitut[k] \cup {v})
            /\ Cardinality(valitut[k] \cup {v}) = Cardinality(valitut[k]) + 1
        BY <2>1, <3>3, FS_AddElement
      <4> QED BY <2>1, <3>1, <3>3, <4>1
    <3> QED BY <3>2, <3>3
  <2>3. n = 0 <=> S = {}
    BY <2>2, FS_EmptySet
  <2>4. valitut' = [valitut EXCEPT ![k] = S]
    BY <1>4 DEF Rastita
  <2>5. valitut'[k] = S /\ (v \in valitut'[k] <=> v \notin valitut[k])
    BY <2>4 DEF VastauksetOK
  <2>6. monivalinta' = [monivalinta EXCEPT ![k] = n]
    BY <1>4, <2>5 DEF Rastita, VaihdaMonivalinta
  <2>7. monivalinta'[k] = n
    BY <2>6 DEF VastauksetOK
  <2>8. vastaukset' = [vastaukset EXCEPT ![k] = MonivalinnanVastaus(k, n)]
    BY <1>4, <2>7 DEF Rastita, VaihdaMonivalinta, Vastaa
  <2>9. n <= lomake[k].max
    <3>1. /\ monivalinta[k] \in Nat /\ lomake[k].max \in Nat
          /\ monivalinta[k] <= lomake[k].max
      BY <1>0, <1>4, <2>1 DEF Rastita, KysymysOK, Tyyppi
    <3>2. v \notin valitut[k] => monivalinta[k] # lomake[k].max
      BY <1>4 DEF Rastita
    <3> QED BY <3>1, <3>2
  <2>10. KysymysOK(lomake[k], MonivalinnanVastaus(k, n), S, n)
    <3>1. S \subseteq lomake[k].vaihtoehdot
      BY <1>0 DEF KysymysOK
    <3>2. lomake[k].tyyppi = "monivalinta"
      BY <1>4 DEF Rastita, Tyyppi
    <3> QED BY <2>2, <2>3, <2>9, <3>1, <3>2 DEF KysymysOK, MonivalinnanVastaus
  <2> HIDE DEF S, n
  <2>11. /\ DOMAIN vastaukset' = Kysymysidt /\ DOMAIN valitut' = Kysymysidt
         /\ DOMAIN monivalinta' = Kysymysidt
         /\ vastaukset'[k] = MonivalinnanVastaus(k, n)
         /\ \A j \in Kysymysidt \ {k} : /\ vastaukset'[j] = vastaukset[j]
                                       /\ valitut'[j] = valitut[j]
                                       /\ monivalinta'[j] = monivalinta[j]
    BY <2>4, <2>6, <2>8 DEF VastauksetOK
  <2>12. lomake' = lomake /\ Kysymysidt' = Kysymysidt
    BY <1>4 DEF Rastita, Lomakkeella, Kysymysidt
  <2>13. ASSUME NEW j \in Kysymysidt
         PROVE  KysymysOK(lomake[j], vastaukset'[j], valitut'[j], monivalinta'[j])
    BY <2>5, <2>7, <2>10, <2>11 DEF VastauksetOK
  <2> QED BY <2>11, <2>12, <2>13 DEF VastauksetOK
<1>5. ASSUME VastaaJatkoon(k) PROVE VastauksetOK'
  BY <1>5 DEF VastaaJatkoon, Lomakkeella, VastauksetOK, Kysymysidt
<1> QED BY <1>1, <1>2, <1>3, <1>4, <1>5

\* What a question's values are, said of the question
LEMMA KysymyksenTiedot ==
  ASSUME VastauksetOK, NEW k \in Kysymysidt
  PROVE  /\ KysymysOK(lomake[k], vastaukset[k], valitut[k], monivalinta[k])
         /\ Tyyppi(k) \in {"vapaateksti", "kylla_ei_valinta", "valinta", "monivalinta"}
         /\ lomake[k].max \in Nat
         /\ "EOS" \notin lomake[k].vaihtoehdot /\ Maarittelematon \notin lomake[k].vaihtoehdot
         /\ "rastiton" \notin lomake[k].vaihtoehdot
         /\ Maarittelematon \notin {"", "teksti", "kylla", "ei", "EOS", "rastittu", "rastiton"}
         /\ monivalinta[k] = 0 <=> valitut[k] = {}
<1>1. IsFiniteSet(valitut[k]) /\ monivalinta[k] = Cardinality(valitut[k])
  <2>1. IsFiniteSet(lomake[k].vaihtoehdot)
    BY VastauslomakeOletus DEF VastauksetOK, Kysymysidt
  <2> QED BY <2>1, FS_Subset DEF VastauksetOK, KysymysOK
<1>2. monivalinta[k] = 0 <=> valitut[k] = {}
  BY <1>1, FS_EmptySet
<1> QED BY <1>2, VastauslomakeOletus DEF VastauksetOK, Kysymysidt, Tyyppi

\* The list of unanswered questions has those that keep the form from being sent
LEMMA PuuttuvatKunnossa == VastauksetOK => PuuttuvatLuetellaan
<1> SUFFICES ASSUME VastauksetOK, NEW k \in Kysymysidt
             PROVE  /\ Vaaditaan(k) => k \in VastaaViela
                    /\ k \in VastaaViela => Vaaditaan(k) \/ <<k, "vastaus">> \in liianPitkat
  BY DEF PuuttuvatLuetellaan
<1>1. CASE Tyyppi(k) = "monivalinta"
  BY <1>1, KysymyksenTiedot DEF Vaaditaan, VastaaViela, KysymysOK, Tyyppi
<1>2. CASE Tyyppi(k) = "vapaateksti"
  BY <1>2, KysymyksenTiedot DEF Vaaditaan, VastaaViela, KysymysOK, Tyyppi
<1>3. CASE Tyyppi(k) \in {"kylla_ei_valinta", "valinta"}
  BY <1>3, KysymyksenTiedot DEF Vaaditaan, VastaaViela, KysymysOK, Tyyppi
<1> QED BY <1>1, <1>2, <1>3, KysymyksenTiedot

\* A form that may be sent collects a request that the server takes
LEMMA KerattyKunnossa ==
  ASSUME VastauksetOK, LomakeKelpaa, NEW n
  PROVE  LahetysOK([nro |-> n, vastaukset |-> KeraaVastausdata, rastit |-> valitut,
                    tehty |-> FALSE])
<1> DEFINE vs == KeraaVastausdata
           p == [nro |-> n, vastaukset |-> vs, rastit |-> valitut, tehty |-> FALSE]
<1>1. /\ DOMAIN vs \subseteq Kysymysidt
      /\ \A k \in Kysymysidt : k \in DOMAIN vs <=> Arvot(k) # {}
      /\ \A k \in DOMAIN vs : vs[k].arvot = Arvot(k) /\ vs[k].jatko = Jatko(k)
  BY DEF KeraaVastausdata
<1>2. DOMAIN p = {"nro", "vastaukset", "rastit", "tehty"}
      /\ p.vastaukset = vs /\ p.rastit = valitut
  OBVIOUS
<1> HIDE DEF vs, p
<1>3. ASSUME NEW k \in Kysymysidt
      PROVE  /\ Tyyppi(k) = "kylla_ei_valinta" =>
                  (lomake[k].eos /\ Arvot(k) = {"EOS"}) \/ Arvot(k) \subseteq {"kylla", "ei"}
             /\ Tyyppi(k) \in {"valinta", "monivalinta"} =>
                  \A arvo \in Arvot(k) :
                    (lomake[k].eos /\ arvo = "EOS") \/ arvo \in lomake[k].vaihtoehdot
  <2>1. CASE Tyyppi(k) = "monivalinta"
    BY <2>1, KysymyksenTiedot DEF Arvot, KysymysOK, Tyyppi
  <2>2. CASE Tyyppi(k) = "kylla_ei_valinta"
    BY <2>2, KysymyksenTiedot DEF Arvot, KysymysOK, Tyyppi
  <2>3. CASE Tyyppi(k) = "valinta"
    BY <2>3, KysymyksenTiedot DEF Arvot, KysymysOK, Tyyppi
  <2> QED BY <2>1, <2>2, <2>3
<1>4. ASSUME NEW k \in Kysymysidt
      PROVE  DOMAIN Jatko(k) = {} \/ \E u \in lomake[k].jatko : DOMAIN Jatko(k) = {u}
  <2>1. DOMAIN Jatko(k) \subseteq lomake[k].jatko \cap {vastaukset[k]}
    BY DEF Jatko
  <2> QED BY <2>1
<1>5. ASSUME NEW k \in Kysymysidt, lomake[k].pakollinen PROVE Arvot(k) # {}
  <2>1. ~Vaaditaan(k) /\ liianPitkat = {}
    BY DEF LomakeKelpaa
  <2>2. CASE Tyyppi(k) = "monivalinta"
    BY <1>5, <2>1, <2>2, KysymyksenTiedot DEF Vaaditaan, Arvot, KysymysOK, Tyyppi
  <2>3. CASE Tyyppi(k) = "vapaateksti"
    BY <1>5, <2>1, <2>3 DEF Vaaditaan, Arvot
  <2>4. CASE Tyyppi(k) \in {"kylla_ei_valinta", "valinta"}
    BY <1>5, <2>1, <2>4 DEF Vaaditaan, Arvot
  <2> QED BY <2>2, <2>3, <2>4, KysymyksenTiedot
<1>6. Validi(vs)
  BY <1>1, <1>3, <1>4, <1>5 DEF Validi, KyllaEiVastausValidi, MonivalintavastausValidi,
     JatkovastausValidi
<1>7. ASSUME NEW k \in DOMAIN vs, Tyyppi(k) = "monivalinta"
      PROVE  valitut[k] = vs[k].arvot \ {"EOS"} /\ Cardinality(valitut[k]) <= lomake[k].max
  <2>1. k \in Kysymysidt /\ vs[k].arvot = Arvot(k)
    BY <1>1
  <2>2. CASE vastaukset[k] = "EOS"
    BY <1>7, <2>1, <2>2, KysymyksenTiedot DEF Arvot, KysymysOK, Tyyppi
  <2>3. CASE vastaukset[k] # "EOS"
    BY <1>7, <2>1, <2>3, KysymyksenTiedot DEF Arvot, KysymysOK, Tyyppi
  <2> QED BY <2>2, <2>3
<1>8. LahetysOK(p)
  BY <1>2, <1>6, <1>7 DEF LahetysOK
<1> QED BY <1>8 DEF p, vs

\* Every step keeps the form in order and sends what the server takes
LEMMA VastauksetSailyy ==
  ASSUME VastauksetOK, LahetyksetOK, [VastauslomakeNext]_vastauslomakkeenMuuttujat
  PROVE  VastauksetOK' /\ LahetyksetOK'
<1>0. ASSUME UNCHANGED <<lomake, vastaukset, valitut, monivalinta>> PROVE VastauksetOK'
  BY <1>0 DEF VastauksetOK, Kysymysidt
<1>1. ASSUME NEW p, LahetysOK(p), UNCHANGED lomake PROVE LahetysOK(p)'
  BY <1>1 DEF LahetysOK, Validi, KyllaEiVastausValidi, MonivalintavastausValidi,
     JatkovastausValidi, Tyyppi, Kysymysidt
<1>2. ASSUME UNCHANGED lomake, lahetykset' \subseteq lahetykset PROVE LahetyksetOK'
  BY <1>1, <1>2 DEF LahetyksetOK
<1>3. CASE UNCHANGED vastauslomakkeenMuuttujat
  BY <1>0, <1>2, <1>3 DEF vastauslomakkeenMuuttujat
<1>4. CASE LomakeSaapuu
  BY <1>0, <1>2, <1>4 DEF LomakeSaapuu, syotteet
<1>5. CASE TallennaVastaukset
  <2> DEFINE p == [nro |-> vastausmaarat.lahetys, vastaukset |-> KeraaVastausdata,
                   rastit |-> valitut, tehty |-> FALSE]
  <2>1. LahetysOK(p) /\ lahetykset' = lahetykset \cup {p}
    BY <1>5, KerattyKunnossa DEF TallennaVastaukset
  <2> HIDE DEF p
  <2>2. UNCHANGED <<lomake, vastaukset, valitut, monivalinta>>
    BY <1>5 DEF TallennaVastaukset, syotteet
  <2>3. LahetyksetOK'
    BY <1>1, <2>1, <2>2 DEF LahetyksetOK
  <2> QED BY <1>0, <2>2, <2>3
<1>6. ASSUME NEW p \in lahetykset, PalvelinTallentaaVastaukset(p)
      PROVE  VastauksetOK' /\ LahetyksetOK'
  <2> DEFINE t == [p EXCEPT !.tehty = TRUE]
  <2>1. UNCHANGED <<lomake, vastaukset, valitut, monivalinta>>
        /\ lahetykset' = (lahetykset \ {p}) \cup {t}
    BY <1>6 DEF PalvelinTallentaaVastaukset, syotteet
  <2>2. DOMAIN t = DOMAIN p /\ t.vastaukset = p.vastaukset /\ t.rastit = p.rastit
    BY DEF LahetyksetOK, LahetysOK
  <2> HIDE DEF t
  <2>3. LahetysOK(t)
    BY <2>2 DEF LahetyksetOK, LahetysOK
  <2>4. LahetyksetOK'
    BY <1>1, <2>1, <2>3 DEF LahetyksetOK
  <2> QED BY <1>0, <2>1, <2>4
<1>7. ASSUME NEW p \in lahetykset, VastauksetTallennettu(p) \/ VastaustenTallennusEpaonnistui(p)
      PROVE  VastauksetOK' /\ LahetyksetOK'
  BY <1>0, <1>2, <1>7 DEF VastauksetTallennettu, VastaustenTallennusEpaonnistui, syotteet
<1>8. ASSUME NEW k \in Kysymysidt,
             \/ ValitseEOS(k) \/ VastaaJatkoon(k)
             \/ \E teksti \in Tekstit : KirjoitaTeksti(k, teksti)
             \/ \E v \in lomake[k].vaihtoehdot : Rastita(k, v)
             \/ \E v \in IF Tyyppi(k) = "kylla_ei_valinta" THEN {"kylla", "ei"}
                                                           ELSE lomake[k].vaihtoehdot :
                  ValitseYksi(k, v)
      PROVE  VastauksetOK' /\ LahetyksetOK'
  <2>1. VastauksetOK'
    BY <1>8, SyoteSailyttaa
  <2>2. Lomakkeella
    BY <1>8 DEF ValitseEOS, VastaaJatkoon, KirjoitaTeksti, Rastita, ValitseYksi
  <2> QED BY <1>2, <2>1, <2>2 DEF Lomakkeella
<1> QED
  BY <1>3, <1>4, <1>5, <1>6, <1>7, <1>8 DEF VastauslomakeNext

\* The form and its requests are in order throughout
LEMMA VastauksetAina == Spec => [](VastauksetOK /\ LahetyksetOK)
<1>1. Init => VastauksetOK /\ LahetyksetOK
  BY VastauksetAlku DEF Init
<1>2. VastauksetOK /\ LahetyksetOK /\ [Next]_muuttujat => VastauksetOK' /\ LahetyksetOK'
  BY VastauslomakkeenAskel, VastauksetSailyy
<1> QED BY <1>1, <1>2, PTL DEF Spec

\* Everything the page sends passes the server's checks, for every form
THEOREM LahetettyAinaValidi == Spec => []LahetettyValidi
<1>1. LahetyksetOK => LahetettyValidi
  BY DEF LahetyksetOK, LahetysOK, LahetettyValidi
<1> QED BY <1>1, VastauksetAina, PTL

\* The page lists the questions that keep the form from being sent
THEOREM PuuttuvatAinaLuetellaan == Spec => []PuuttuvatLuetellaan
  BY PuuttuvatKunnossa, VastauksetAina, PTL

(***************************************************************************)
(* Lists of groups and templates                                           *)
(***************************************************************************)

\* Unless an answer is on its way, the list is the server's or is asked for
RyhmatAjanTasalla ==
  /\ \A p \in ryhmatoimet : "tehty" \in DOMAIN p
  /\ (~eksyksissa /\ \A p \in ryhmatoimet : ~p.tehty) =>
       /\ ryhmahaku \subseteq {ryhmakanta}
       /\ ryhmahaku = {} => naytetyt = ryhmakanta

\* Every step of a list keeps it so
LEMMA RyhmatSailyvat ==
  ASSUME RyhmatAjanTasalla, [RyhmaluetteloNext]_ryhmaluettelonMuuttujat
  PROVE  RyhmatAjanTasalla'
<1>1. CASE UNCHANGED ryhmaluettelonMuuttujat
  BY <1>1 DEF ryhmaluettelonMuuttujat, RyhmatAjanTasalla
<1>2. CASE LuetteloSaapuu
  BY <1>2 DEF LuetteloSaapuu, RyhmatAjanTasalla
<1>3. ASSUME NEW l, NEW toimi, NEW r, NEW tila, Toimi(l, toimi, r, tila)
      PROVE  RyhmatAjanTasalla'
  <2> DEFINE p == [nro |-> ryhmatoimia, toimi |-> toimi, rivi |-> r, tehty |-> FALSE]
  <2>1. ryhmatoimet' = ryhmatoimet \cup {p} /\ "tehty" \in DOMAIN p /\ ~p.tehty
    BY <1>3 DEF Toimi
  <2> HIDE DEF p
  <2> QED BY <1>3, <2>1 DEF Toimi, RyhmatAjanTasalla
<1>4. ASSUME NEW r,
             \/ JulkaiseKysymysryhma(r) \/ SuljeKysymysryhma(r) \/ PoistaKysymysryhma(r)
             \/ PalautaKysymysryhmaJulkaistuksi(r) \/ PalautaKysymysryhmaLuonnokseksi(r)
             \/ JulkaiseKyselypohja(r) \/ SuljeKyselypohja(r) \/ PoistaKyselypohja(r)
             \/ PalautaKyselypohjaJulkaistuksi(r) \/ PalautaKyselypohjaLuonnokseksi(r)
      PROVE  RyhmatAjanTasalla'
  BY <1>3, <1>4 DEF JulkaiseKysymysryhma, SuljeKysymysryhma, PoistaKysymysryhma,
     PalautaKysymysryhmaJulkaistuksi, PalautaKysymysryhmaLuonnokseksi, JulkaiseKyselypohja,
     SuljeKyselypohja, PoistaKyselypohja, PalautaKyselypohjaJulkaistuksi,
     PalautaKyselypohjaLuonnokseksi
<1>5. ASSUME NEW p \in ryhmatoimet, PalvelinMuuttaa(p) PROVE RyhmatAjanTasalla'
  <2> DEFINE t == [p EXCEPT !.tehty = TRUE]
  <2>1. ryhmatoimet' = (ryhmatoimet \ {p}) \cup {t} /\ "tehty" \in DOMAIN t /\ t.tehty
    BY <1>5 DEF PalvelinMuuttaa, RyhmatAjanTasalla
  <2> HIDE DEF t
  <2> QED BY <2>1 DEF RyhmatAjanTasalla
<1>6. ASSUME NEW p \in ryhmatoimet, MuutosOnnistui(p) PROVE RyhmatAjanTasalla'
  BY <1>6 DEF MuutosOnnistui, RyhmatAjanTasalla
<1>7. ASSUME NEW p \in ryhmatoimet, MuutosEpaonnistui(p) PROVE RyhmatAjanTasalla'
  <2>1. CASE p.tehty
    BY <1>7, <2>1 DEF MuutosEpaonnistui, RyhmatAjanTasalla
  <2>2. CASE ~p.tehty
    BY <1>7, <2>2 DEF MuutosEpaonnistui, RyhmatAjanTasalla
  <2> QED BY <2>1, <2>2
<1> QED
  BY <1>1, <1>2, <1>4, <1>5, <1>6, <1>7 DEF RyhmaluetteloNext

\* Once all answers are in and none was lost, the list is the server's
THEOREM LuetteloAinaKannasta == Spec => []LuetteloKannasta
<1>1. Init => RyhmatAjanTasalla
  BY DEF Init, RyhmaluetteloInit, RyhmatAjanTasalla
<1>2. RyhmatAjanTasalla /\ [Next]_muuttujat => RyhmatAjanTasalla'
  BY RyhmaluettelonAskel, RyhmatSailyvat
<1>3. RyhmatAjanTasalla => LuetteloKannasta
  BY DEF RyhmatAjanTasalla, LuetteloKannasta
<1> QED BY <1>1, <1>2, <1>3, PTL DEF Spec

(***************************************************************************)
(* Sessions                                                                *)
(***************************************************************************)
IstuntoTyyppi ==
  /\ DOMAIN ikkuna = Ikkunat
  /\ \A w \in Ikkunat : DOMAIN ikkuna[w] = {"tila", "tiedot", "luettavissa"}
  /\ \A p \in vaihdot :
       /\ DOMAIN p = {"nro", "ikkuna", "oma", "toimi", "arvo", "vaihe", "istunto"}
       /\ p.ikkuna \in Ikkunat /\ p.oma \in BOOLEAN

\* A change of w's own has been made, and w will be loaded when it hears of it
OmaTulossa(w) == \E p \in vaihdot : p.ikkuna = w /\ p.vaihe = "tehty" /\ p.oma

\* No page waits for a change that was asked for by the page before it
OmatNaytetaan == \A p \in vaihdot : p.oma => ikkuna[p.ikkuna].tila # "haku"

IkkunaOK(w) ==
  /\ ikkuna[w].tila = "haku" => ikkuna[w].luettavissa = {istunto}
  /\ ikkuna[w].tila = "nayta" => ikkuna[w].tiedot \in OmatTiedot(istunto) \/ OmaTulossa(w)

IstuntoInv ==
  /\ IstuntoTyyppi
  /\ OmatNaytetaan
  /\ \A w \in Ikkunat \ harhassa : IkkunaOK(w)

\* Every window starts by asking for the rights of the new session
LEMMA IstuntoAlku == IstuntoInit => IstuntoInv
  BY DEF IstuntoInit, IstuntoInv, IstuntoTyyppi, OmatNaytetaan, IkkunaOK, Ladataan

\* A request added to the others changes nothing that is shown
LEMMA PyyntoSailyttaa ==
  ASSUME IstuntoInv, NEW w \in Ikkunat, NEW toimi, NEW arvo, Pyynto(w, toimi, arvo)
  PROVE  IstuntoInv'
<1> DEFINE p == [nro |-> vaihtoja, ikkuna |-> w, oma |-> TRUE, toimi |-> toimi,
                 arvo |-> arvo, vaihe |-> "lahetetty", istunto |-> EiValittu]
<1>1. /\ vaihdot' = vaihdot \cup {p} /\ UNCHANGED <<istunto, ikkuna, harhassa>>
      /\ ikkuna[w].tila = "nayta"
  BY DEF Pyynto
<1>2. /\ DOMAIN p = {"nro", "ikkuna", "oma", "toimi", "arvo", "vaihe", "istunto"}
      /\ p.ikkuna = w /\ p.oma \in BOOLEAN
  OBVIOUS
<1> HIDE DEF p
<1>3. IstuntoTyyppi'
  BY <1>1, <1>2 DEF IstuntoInv, IstuntoTyyppi
<1>4. OmatNaytetaan'
  BY <1>1, <1>2 DEF IstuntoInv, OmatNaytetaan
<1>5. \A v \in Ikkunat : OmaTulossa(v) => OmaTulossa(v)'
  BY <1>1 DEF OmaTulossa
<1>6. OmatTiedot(istunto)' = OmatTiedot(istunto)
  BY <1>1 DEF OmatTiedot, AktiivinenOid, AktiivisetRoolit
<1> QED
  BY <1>1, <1>3, <1>4, <1>5, <1>6 DEF IstuntoInv, IkkunaOK

\* Every step of a session keeps windows in step with it
LEMMA IstuntoSailyy ==
  ASSUME IstuntoInv, [IstuntoNext]_istunnonMuuttujat PROVE IstuntoInv'
<1>1. CASE UNCHANGED istunnonMuuttujat
  BY <1>1 DEF istunnonMuuttujat, IstuntoInv, IstuntoTyyppi, OmatNaytetaan, IkkunaOK, OmaTulossa,
     OmatTiedot, AktiivinenOid, AktiivisetRoolit
<1>2. CASE IstuntoPaattyy
  <2>1. \A w \in Ikkunat : /\ DOMAIN ikkuna'[w] = DOMAIN ikkuna[w]
                           /\ ikkuna'[w].tila = ikkuna[w].tila
    BY <1>2 DEF IstuntoPaattyy, IstuntoInv, IstuntoTyyppi
  <2>2. DOMAIN ikkuna' = Ikkunat /\ vaihdot' \subseteq vaihdot /\ harhassa' = Ikkunat
    BY <1>2 DEF IstuntoPaattyy
  <2> QED BY <2>1, <2>2 DEF IstuntoInv, IstuntoTyyppi, OmatNaytetaan
<1>3. ASSUME NEW w \in Ikkunat, OikeudetSaapuvat(w) PROVE IstuntoInv'
  <2>1. PICK is \in ikkuna[w].luettavissa :
          \/ ikkuna' = [ikkuna EXCEPT ![w] =
               [tila |-> "istunto-vanhentunut", tiedot |-> EiValittu, luettavissa |-> {}]]
          \/ \E tiedot \in OmatTiedot(is) :
               ikkuna' = [ikkuna EXCEPT ![w] =
                 [tila |-> "nayta", tiedot |-> tiedot, luettavissa |-> {}]]
    BY <1>3 DEF OikeudetSaapuvat
  <2>2. /\ DOMAIN ikkuna' = Ikkunat
        /\ \A v \in Ikkunat \ {w} : ikkuna'[v] = ikkuna[v]
        /\ DOMAIN ikkuna'[w] = {"tila", "tiedot", "luettavissa"}
        /\ ikkuna'[w].tila # "haku"
        /\ ikkuna'[w].tila = "nayta" => ikkuna'[w].tiedot \in OmatTiedot(is)
    BY <2>1 DEF IstuntoInv, IstuntoTyyppi
  <2>3. UNCHANGED <<istunto, vaihdot, harhassa>> /\ ikkuna[w].tila = "haku"
    BY <1>3 DEF OikeudetSaapuvat
  <2>4. w \notin harhassa => is = istunto
    BY <2>3 DEF IstuntoInv, IkkunaOK
  <2>5. IstuntoTyyppi' /\ OmatNaytetaan'
    BY <2>2, <2>3 DEF IstuntoInv, IstuntoTyyppi, OmatNaytetaan
  <2>6. OmatTiedot(istunto)' = OmatTiedot(istunto) /\ \A v \in Ikkunat : OmaTulossa(v)' = OmaTulossa(v)
    BY <2>3 DEF OmatTiedot, AktiivinenOid, AktiivisetRoolit, OmaTulossa
  <2>7. ASSUME NEW v \in Ikkunat \ harhassa PROVE IkkunaOK(v)'
    <3>1. CASE v = w
      BY <2>2, <2>4, <2>6, <3>1 DEF IkkunaOK
    <3>2. CASE v # w
      BY <2>2, <2>3, <2>6, <3>2 DEF IkkunaOK, IstuntoInv
    <3> QED BY <3>1, <3>2
  <2> QED BY <2>3, <2>5, <2>7 DEF IstuntoInv
<1>4. ASSUME NEW w \in Ikkunat, Lataa(w) PROVE IstuntoInv'
  <2>1. /\ DOMAIN ikkuna' = Ikkunat
        /\ ikkuna'[w] = Ladataan(istunto')
        /\ \A v \in Ikkunat \ {w} :
             ikkuna'[v] = [ikkuna[v] EXCEPT !.luettavissa =
                             @ \cup {is \in {istunto'} : ikkuna[v].tila = "haku"}]
    BY <1>4 DEF Lataa
  <2>2. \A v \in Ikkunat \ {w} :
          /\ DOMAIN ikkuna'[v] = {"tila", "tiedot", "luettavissa"}
          /\ ikkuna'[v].tila = ikkuna[v].tila /\ ikkuna'[v].tiedot = ikkuna[v].tiedot
          /\ ikkuna'[v].luettavissa = ikkuna[v].luettavissa
                                      \cup {is \in {istunto'} : ikkuna[v].tila = "haku"}
    BY <2>1 DEF IstuntoInv, IstuntoTyyppi
  <2>3. /\ DOMAIN ikkuna'[w] = {"tila", "tiedot", "luettavissa"}
        /\ ikkuna'[w].tila = "haku" /\ ikkuna'[w].luettavissa = {istunto'}
    BY <2>1 DEF Ladataan
  <2>4. \A p \in vaihdot :
          LET t == [p EXCEPT !.oma = @ /\ p.ikkuna # w]
          IN  /\ DOMAIN t = DOMAIN p /\ t.ikkuna = p.ikkuna /\ t.vaihe = p.vaihe
              /\ t.oma \in BOOLEAN /\ (t.oma <=> p.oma /\ p.ikkuna # w)
    BY DEF IstuntoInv, IstuntoTyyppi
  <2>5. vaihdot' = {[p EXCEPT !.oma = @ /\ p.ikkuna # w] : p \in vaihdot}
    BY <1>4 DEF Lataa
  <2>6. IstuntoTyyppi'
    <3>1. \A v \in Ikkunat : DOMAIN ikkuna'[v] = {"tila", "tiedot", "luettavissa"}
      BY <2>2, <2>3
    <3>2. ASSUME NEW t \in vaihdot'
          PROVE  /\ DOMAIN t = {"nro", "ikkuna", "oma", "toimi", "arvo", "vaihe", "istunto"}
                 /\ t.ikkuna \in Ikkunat /\ t.oma \in BOOLEAN
      <4>1. PICK p \in vaihdot : t = [p EXCEPT !.oma = @ /\ p.ikkuna # w]
        BY <2>5
      <4>2. DOMAIN t = DOMAIN p /\ t.ikkuna = p.ikkuna /\ t.oma \in BOOLEAN
        BY <2>4, <4>1
      <4> QED BY <4>2 DEF IstuntoInv, IstuntoTyyppi
    <3> QED BY <2>1, <3>1, <3>2 DEF IstuntoTyyppi
  <2>7. OmatNaytetaan'
    <3> SUFFICES ASSUME NEW t \in vaihdot', t.oma PROVE ikkuna'[t.ikkuna].tila # "haku"
      BY DEF OmatNaytetaan
    <3>1. PICK p \in vaihdot : t = [p EXCEPT !.oma = @ /\ p.ikkuna # w]
      BY <2>5
    <3>2. p.oma /\ p.ikkuna # w /\ t.ikkuna = p.ikkuna
      BY <2>4, <3>1
    <3> QED BY <2>2, <3>2 DEF IstuntoInv, IstuntoTyyppi, OmatNaytetaan
  <2>8. ASSUME NEW v \in Ikkunat \ harhassa' PROVE IkkunaOK(v)'
    <3>1. CASE v = w
      BY <2>3, <3>1 DEF IkkunaOK
    <3>2. CASE v # w
      <4>1. v \notin harhassa /\ istunto' = istunto
        BY <1>4, <2>8, <3>2 DEF Lataa
      <4>2. OmaTulossa(v) => OmaTulossa(v)'
        <5> SUFFICES ASSUME NEW p \in vaihdot, p.ikkuna = v, p.vaihe = "tehty", p.oma
                     PROVE  OmaTulossa(v)'
          BY DEF OmaTulossa
        <5> DEFINE t == [p EXCEPT !.oma = @ /\ p.ikkuna # w]
        <5>1. t \in vaihdot' /\ t.ikkuna = v /\ t.vaihe = "tehty" /\ t.oma
          BY <2>4, <2>5, <3>2
        <5> QED BY <5>1 DEF OmaTulossa
      <4>3. OmatTiedot(istunto)' = OmatTiedot(istunto)
        BY <4>1 DEF OmatTiedot, AktiivinenOid, AktiivisetRoolit
      <4> QED BY <2>2, <3>2, <4>1, <4>2, <4>3 DEF IkkunaOK, IstuntoInv
    <3> QED BY <3>1, <3>2
  <2> QED BY <2>6, <2>7, <2>8 DEF IstuntoInv
<1>5. ASSUME NEW w \in Ikkunat,
             \/ LopetaImpersonointi(w)
             \/ \E oid \in Impersonoitavat : Valitse(w, oid)
             \/ \E rooli \in DOMAIN RoolinNimi : VaihdaRoolia(w, rooli)
      PROVE  IstuntoInv'
  BY <1>5, PyyntoSailyttaa DEF LopetaImpersonointi, Valitse, VaihdaRoolia
<1>6. ASSUME NEW p \in vaihdot, LueIstunto(p) PROVE IstuntoInv'
  <2> DEFINE t == [p EXCEPT !.vaihe = "luettu", !.istunto = istunto]
  <2>1. /\ DOMAIN t = DOMAIN p /\ t.ikkuna = p.ikkuna /\ t.oma = p.oma
    BY DEF IstuntoInv, IstuntoTyyppi
  <2>2. /\ vaihdot' = (vaihdot \ {p}) \cup {t} /\ p.vaihe = "lahetetty"
        /\ UNCHANGED <<istunto, ikkuna, harhassa>>
    BY <1>6 DEF LueIstunto
  <2> HIDE DEF t
  <2>3. IstuntoTyyppi' /\ OmatNaytetaan'
    BY <2>1, <2>2 DEF IstuntoInv, IstuntoTyyppi, OmatNaytetaan
  <2>4. \A v \in Ikkunat : OmaTulossa(v) => OmaTulossa(v)'
    BY <2>2 DEF OmaTulossa
  <2>5. OmatTiedot(istunto)' = OmatTiedot(istunto)
    BY <2>2 DEF OmatTiedot, AktiivinenOid, AktiivisetRoolit
  <2> QED BY <2>2, <2>3, <2>4, <2>5 DEF IstuntoInv, IkkunaOK
<1>7. ASSUME NEW p \in vaihdot, KirjoitaIstunto(p) PROVE IstuntoInv'
  <2> DEFINE t == [p EXCEPT !.vaihe = "tehty"]
  <2>1. /\ DOMAIN t = DOMAIN p /\ t.ikkuna = p.ikkuna /\ t.oma = p.oma /\ t.vaihe = "tehty"
    BY DEF IstuntoInv, IstuntoTyyppi
  <2>2. vaihdot' = (vaihdot \ {p}) \cup {t}
    BY <1>7 DEF KirjoitaIstunto
  <2> HIDE DEF t
  <2>3. /\ DOMAIN ikkuna' = Ikkunat
        /\ \A v \in Ikkunat : /\ DOMAIN ikkuna'[v] = DOMAIN ikkuna[v]
                              /\ ikkuna'[v].tila = ikkuna[v].tila
    BY <1>7 DEF KirjoitaIstunto, IstuntoInv, IstuntoTyyppi
  <2>4. IstuntoTyyppi' /\ OmatNaytetaan'
    BY <2>1, <2>2, <2>3 DEF IstuntoInv, IstuntoTyyppi, OmatNaytetaan
  <2>5. ASSUME NEW v \in Ikkunat \ harhassa' PROVE IkkunaOK(v)'
    <3>1. v = p.ikkuna /\ p.oma
      BY <1>7, <2>5 DEF KirjoitaIstunto
    <3>2. ikkuna'[v].tila # "haku"
      BY <2>3, <3>1 DEF IstuntoInv, OmatNaytetaan
    <3>3. OmaTulossa(v)'
      BY <2>1, <2>2, <3>1 DEF OmaTulossa
    <3> QED BY <3>2, <3>3 DEF IkkunaOK
  <2> QED BY <2>4, <2>5 DEF IstuntoInv
<1>8. ASSUME NEW p \in vaihdot, VaihtoOnnistui(p) PROVE IstuntoInv'
  <2> DEFINE Jatkuu(q) == [q EXCEPT !.oma = @ /\ ~(p.oma /\ q.ikkuna = p.ikkuna)]
  <2>1. ASSUME NEW q \in vaihdot
        PROVE  /\ DOMAIN Jatkuu(q) = DOMAIN q /\ Jatkuu(q).ikkuna = q.ikkuna
               /\ Jatkuu(q).vaihe = q.vaihe /\ Jatkuu(q).oma \in BOOLEAN
               /\ Jatkuu(q).oma <=> q.oma /\ ~(p.oma /\ q.ikkuna = p.ikkuna)
    BY DEF IstuntoInv, IstuntoTyyppi
  <2>2. vaihdot' = {Jatkuu(q) : q \in vaihdot \ {p}} /\ UNCHANGED istunto
    BY <1>8 DEF VaihtoOnnistui
  <2> HIDE DEF Jatkuu
  <2>3. /\ DOMAIN ikkuna' = Ikkunat
        /\ \A v \in Ikkunat : DOMAIN ikkuna'[v] = {"tila", "tiedot", "luettavissa"}
        /\ \A v \in Ikkunat : ~(p.oma /\ v = p.ikkuna) => ikkuna'[v] = ikkuna[v]
        /\ p.oma => ikkuna'[p.ikkuna] = Ladataan(istunto) /\ harhassa' = harhassa \ {p.ikkuna}
        /\ ~p.oma => harhassa' = harhassa
    BY <1>8 DEF VaihtoOnnistui, IstuntoInv, IstuntoTyyppi, Ladataan
  <2>4. IstuntoTyyppi'
    BY <2>1, <2>2, <2>3 DEF IstuntoInv, IstuntoTyyppi
  <2>5. OmatNaytetaan'
    BY <2>1, <2>2, <2>3 DEF IstuntoInv, IstuntoTyyppi, OmatNaytetaan
  <2>6. ASSUME NEW v \in Ikkunat \ harhassa' PROVE IkkunaOK(v)'
    <3>1. CASE p.oma /\ v = p.ikkuna
      BY <2>2, <2>3, <3>1 DEF IkkunaOK, Ladataan
    <3>2. CASE ~(p.oma /\ v = p.ikkuna)
      <4>1. v \notin harhassa /\ ikkuna'[v] = ikkuna[v] /\ istunto' = istunto
        BY <2>2, <2>3, <2>6, <3>2
      <4>2. OmaTulossa(v) => OmaTulossa(v)'
        <5> SUFFICES ASSUME NEW q \in vaihdot, q.ikkuna = v, q.vaihe = "tehty", q.oma
                     PROVE  OmaTulossa(v)'
          BY DEF OmaTulossa
        <5>1. q # p /\ ~(p.oma /\ q.ikkuna = p.ikkuna)
          BY <3>2
        <5>2. Jatkuu(q) \in vaihdot'
          BY <2>2, <5>1
        <5> QED BY <2>1, <5>1, <5>2 DEF OmaTulossa
      <4>3. OmatTiedot(istunto)' = OmatTiedot(istunto)
        BY <4>1 DEF OmatTiedot, AktiivinenOid, AktiivisetRoolit
      <4> QED BY <4>1, <4>2, <4>3 DEF IkkunaOK, IstuntoInv
    <3> QED BY <3>1, <3>2
  <2> QED BY <2>4, <2>5, <2>6 DEF IstuntoInv
<1>9. ASSUME NEW p \in vaihdot, VaihtoEpaonnistui(p) PROVE IstuntoInv'
  <2>1. /\ vaihdot' = vaihdot \ {p} /\ UNCHANGED istunto
        /\ p.vaihe = "tehty" => harhassa' = harhassa \cup {p.ikkuna}
        /\ p.vaihe # "tehty" => harhassa' = harhassa
    BY <1>9 DEF VaihtoEpaonnistui
  <2>2. /\ DOMAIN ikkuna' = Ikkunat
        /\ \A v \in Ikkunat : DOMAIN ikkuna'[v] = {"tila", "tiedot", "luettavissa"}
        /\ \A v \in Ikkunat : \/ ikkuna'[v] = ikkuna[v]
                              \/ ikkuna'[v].tila = "istunto-vanhentunut"
    <3>1. CASE ikkuna' = ikkuna
      BY <3>1 DEF IstuntoInv, IstuntoTyyppi
    <3>2. CASE ikkuna' = [ikkuna EXCEPT ![p.ikkuna].tila = "istunto-vanhentunut"]
      BY <3>2 DEF IstuntoInv, IstuntoTyyppi
    <3> QED BY <1>9, <3>1, <3>2 DEF VaihtoEpaonnistui
  <2>3. IstuntoTyyppi'
    BY <2>1, <2>2 DEF IstuntoInv, IstuntoTyyppi
  <2>4. OmatNaytetaan'
    BY <2>1, <2>2 DEF IstuntoInv, IstuntoTyyppi, OmatNaytetaan
  <2>5. ASSUME NEW v \in Ikkunat \ harhassa' PROVE IkkunaOK(v)'
    <3>1. v \notin harhassa /\ (OmaTulossa(v) => OmaTulossa(v)')
      BY <2>1, <2>5 DEF OmaTulossa
    <3>2. OmatTiedot(istunto)' = OmatTiedot(istunto)
      BY <2>1 DEF OmatTiedot, AktiivinenOid, AktiivisetRoolit
    <3> QED BY <2>1, <2>2, <3>1, <3>2 DEF IkkunaOK, IstuntoInv
  <2> QED BY <2>3, <2>4, <2>5 DEF IstuntoInv
<1> QED
  BY <1>1, <1>2, <1>3, <1>4, <1>5, <1>6, <1>7, <1>8, <1>9 DEF IstuntoNext

\* A window shows the rights the server goes by, but for changes nobody tells
\* it of
THEOREM OikeudetAinaIstunnosta == Spec => []OikeudetIstunnosta
<1>1. Init => IstuntoInv
  BY IstuntoAlku DEF Init
<1>2. IstuntoInv /\ [Next]_muuttujat => IstuntoInv'
  BY IstunnonAskel, IstuntoSailyy
<1>3. IstuntoInv => OikeudetIstunnosta
  BY DEF IstuntoInv, IkkunaOK, OmaTulossa, OikeudetIstunnosta
<1> QED BY <1>1, <1>2, <1>3, PTL DEF Spec

(***************************************************************************)
(* The survey form                                                         *)
(***************************************************************************)

\* The indicator of the form's save button
Tallennusilmaisin == lataus["kyselynTallennus"]

\* No survey on its way, or one, with the form open and its button gone
YksiLahetettyKysely ==
  /\ DOMAIN lataus = MetodiIdt
  /\ \/ tallennukset = {}
     \/ /\ lomakkeella /\ ~Tallennusilmaisin.valmis
        /\ \E p : tallennukset = {p} /\ {"tehty", "uusi"} \subseteq DOMAIN p

\* The form has been left, or its survey is on the server
Valmiina == ~lomakkeella \/ \E p \in tallennukset : p.tehty

LuodutKunnossa ==
  /\ luotuja \in Nat
  /\ maarat \in [lisays : Nat, tallennus : Nat, muutos : Nat, katkos : Nat]
  /\ luotuja <= maarat.katkos + (IF Valmiina THEN 1 ELSE 0)

LomakeInv == YksiLahetettyKysely /\ LuodutKunnossa

\* The form's indicator is one of the two of its own
LEMMA IlmaisimetErikseen == {"kyselynTallennus", "kyselylistaus"} \subseteq MetodiIdt
<1>1. {"kyselynTallennus", "kyselylistaus"} \subseteq Ilmaisimet
      /\ MetodiId("kyselynTallennus") = "kyselynTallennus"
      /\ MetodiId("kyselylistaus") = "kyselylistaus"
  BY DEF Ilmaisimet, MetodiId, Valilehdet
<1> QED BY <1>1 DEF MetodiIdt

\* The survey list leaves the form's indicator alone
LEMMA LuetteloEiKoske ==
  ASSUME DOMAIN lataus = MetodiIdt, KyselyluetteloNext
  PROVE  DOMAIN lataus' = MetodiIdt /\ Tallennusilmaisin' = Tallennusilmaisin
<1>1. \/ UNCHANGED lataus
      \/ \E r : lataus' = [lataus EXCEPT !["kyselylistaus"] = r]
  <2>1. CASE HaeKyselyt \/ KyselytSaapuvat \/ KayMuualla
    BY <2>1 DEF HaeKyselyt, KyselytSaapuvat, KayMuualla, AsetaLatausIndikaattori,
       PyyntoOnnistui, PyyntoEpaonnistui
  <2>2. ASSUME NEW k, AvaaTaiSulje(k) PROVE UNCHANGED lataus
    BY <2>2 DEF AvaaTaiSulje
  <2>3. ASSUME NEW toimi, NEW k, NEW c, Pyyda(toimi, k, c) PROVE UNCHANGED lataus
    BY <2>3 DEF Pyyda
  <2>4. ASSUME NEW k,
               \/ JulkaiseKysely(k) \/ PoistaKysely(k) \/ SuljeKysely(k)
               \/ PalautaLuonnokseksi(k)
               \/ \E c : PoistaKyselykerta(k, c) \/ LukitseKyselykerta(k, c)
                         \/ AvaaKyselykerta(k, c)
        PROVE  UNCHANGED lataus
    BY <2>3, <2>4 DEF JulkaiseKysely, PoistaKysely, SuljeKysely,
       PalautaLuonnokseksi, PoistaKyselykerta, LukitseKyselykerta, AvaaKyselykerta
  <2>5. ASSUME NEW p, PalvelinTekee(p) \/ ToimiOnnistui(p) \/ ToimiEpaonnistui(p)
        PROVE  UNCHANGED lataus
    BY <2>5 DEF PalvelinTekee, ToimiOnnistui, ToimiEpaonnistui
  <2>6. ASSUME NEW k, NEW c, VastausTallentuu(k, c) PROVE UNCHANGED lataus
    BY <2>6 DEF VastausTallentuu
  <2> QED BY <2>1, <2>2, <2>4, <2>5, <2>6 DEF KyselyluetteloNext
<1> QED BY <1>1, IlmaisimetErikseen DEF Tallennusilmaisin

\* A form opens with nothing created
LEMMA LomakeAlku == IlmaisimetInit /\ KyselylomakeInit => LomakeInv
  BY DEF IlmaisimetInit, KyselylomakeInit, LomakeInv, YksiLahetettyKysely, LuodutKunnossa

\* Every step of the form keeps to one request and its count
LEMMA LomakeSailyy ==
  ASSUME LomakeInv, KyselylomakeNext PROVE LomakeInv'
<1> USE IlmaisimetErikseen
<1>1. ASSUME lomakkeella, UNCHANGED <<tallennukset, lomakkeella, luotuja, lataus>>,
             \/ UNCHANGED maarat
             \/ maarat' = [maarat EXCEPT !.lisays = @ + 1]
             \/ maarat' = [maarat EXCEPT !.muutos = @ + 1]
      PROVE  LomakeInv'
  <2>1. maarat' \in [lisays : Nat, tallennus : Nat, muutos : Nat, katkos : Nat]
        /\ maarat'.katkos = maarat.katkos
    <3>1. PICK i \in Nat, j \in Nat : /\ i = maarat.lisays + 1 /\ j = maarat.muutos + 1
      BY DEF LomakeInv, LuodutKunnossa
    <3>2. CASE UNCHANGED maarat
      BY <3>2 DEF LomakeInv, LuodutKunnossa
    <3>3. CASE maarat' = [maarat EXCEPT !.lisays = i]
      BY <3>3 DEF LomakeInv, LuodutKunnossa
    <3>4. CASE maarat' = [maarat EXCEPT !.muutos = j]
      BY <3>4 DEF LomakeInv, LuodutKunnossa
    <3> QED BY <1>1, <3>1, <3>2, <3>3, <3>4
  <2>2. YksiLahetettyKysely'
    BY <1>1 DEF LomakeInv, YksiLahetettyKysely, Tallennusilmaisin
  <2>3. Valmiina' <=> Valmiina
    BY <1>1 DEF Valmiina
  <2> QED BY <1>1, <2>1, <2>2, <2>3 DEF LomakeInv, LuodutKunnossa
<1>2. ASSUME lomakkeella,
             \/ KyselySaapuu \/ MuutaRyhmia \/ EsikatseleModal
             \/ \E id : LisaaKysymysryhmaModal(id)
             \/ \E ids : LisaaKyselypohjaModal(ids) \/ RyhmatSaapuvat(ids)
      PROVE  LomakeInv'
  <2>1. ASSUME NEW ks, Muuta(ks) PROVE LomakeInv'
    BY <1>1, <1>2, <2>1 DEF Muuta
  <2>2. CASE MuutaRyhmia
    BY <2>1, <2>2 DEF MuutaRyhmia
  <2>3. ASSUME NEW ids, PyydaRyhmia(ids) PROVE LomakeInv'
    BY <1>1, <1>2, <2>3 DEF PyydaRyhmia
  <2>4. CASE KyselySaapuu \/ EsikatseleModal \/ \E ids : RyhmatSaapuvat(ids)
    BY <1>1, <1>2, <2>4 DEF KyselySaapuu, EsikatseleModal, RyhmatSaapuvat
  <2> QED BY <1>2, <2>2, <2>3, <2>4 DEF LisaaKysymysryhmaModal, LisaaKyselypohjaModal
<1>3. ASSUME lomakkeella, PainaTallenna PROVE LomakeInv'
  <2>1. Tallennusilmaisin.valmis /\ Tallenna
    <3>1. MetodiId("kyselynTallennus") = "kyselynTallennus"
      BY DEF MetodiId, Valilehdet
    <3> QED
      BY <1>3, <3>1 DEF PainaTallenna, NayttaaSisallon, NayttaaVirheen, Tallennusilmaisin
  <2>2. tallennukset = {}
    BY <2>1 DEF LomakeInv, YksiLahetettyKysely
  <2>3. CASE UNCHANGED <<tallennukset, maarat, lataus, virheessa>>
    BY <1>1, <1>3, <2>1, <2>3 DEF Tallenna
  <2>4. CASE AsetaLatausIndikaattori("kyselynTallennus")
             /\ maarat' = [maarat EXCEPT !.tallennus = @ + 1]
             /\ tallennukset' = tallennukset \cup
                  {[nro |-> maarat.tallennus, ryhmat |-> Tallennettava(kysely),
                    uusi |-> tapa # "muokkaus",
                    uusinta |-> NayttaaVirheen("kyselynTallennus"), tehty |-> FALSE]}
    <3> DEFINE p == [nro |-> maarat.tallennus, ryhmat |-> Tallennettava(kysely),
                     uusi |-> tapa # "muokkaus",
                     uusinta |-> NayttaaVirheen("kyselynTallennus"), tehty |-> FALSE]
    <3>1. tallennukset' = {p} /\ {"tehty", "uusi"} \subseteq DOMAIN p /\ ~p.tehty
      BY <2>2, <2>4
    <3> HIDE DEF p
    <3>2. lomakkeella' = lomakkeella /\ luotuja' = luotuja
      BY <2>1 DEF Tallenna
    <3>3. DOMAIN lataus' = MetodiIdt /\ ~Tallennusilmaisin'.valmis
      BY <2>4 DEF AsetaLatausIndikaattori, Tallennusilmaisin, LomakeInv, YksiLahetettyKysely
    <3>4. YksiLahetettyKysely'
      BY <1>3, <3>1, <3>2, <3>3 DEF YksiLahetettyKysely, Tallennusilmaisin
    <3>5. maarat' \in [lisays : Nat, tallennus : Nat, muutos : Nat, katkos : Nat]
          /\ maarat'.katkos = maarat.katkos
      <4>1. maarat.tallennus + 1 \in Nat
        BY DEF LomakeInv, LuodutKunnossa
      <4>2. PICK n \in Nat : maarat' = [maarat EXCEPT !.tallennus = n]
        BY <2>4, <4>1
      <4> QED BY <4>2 DEF LomakeInv, LuodutKunnossa
    <3>6. ~Valmiina /\ ~Valmiina'
      BY <1>3, <2>2, <3>1, <3>2 DEF Valmiina
    <3> QED BY <3>2, <3>4, <3>5, <3>6 DEF LomakeInv, LuodutKunnossa
  <2> QED BY <2>1, <2>3, <2>4 DEF Tallenna
<1>4. ASSUME lomakkeella, Peruuta PROVE LomakeInv'
  <2>1. MetodiId("kyselynTallennus") = "kyselynTallennus"
    BY DEF MetodiId, Valilehdet
  <2>2. Tallennusilmaisin.valmis
    BY <1>4, <2>1 DEF Peruuta, NayttaaSisallon, Tallennusilmaisin
  <2>3. tallennukset = {} /\ UNCHANGED <<tallennukset, luotuja, maarat, lataus>> /\ ~lomakkeella'
    BY <1>4, <2>2 DEF Peruuta, LomakeInv, YksiLahetettyKysely
  <2>4. ~Valmiina /\ Valmiina'
    BY <1>4, <2>3 DEF Valmiina
  <2> QED BY <2>3, <2>4 DEF LomakeInv, YksiLahetettyKysely, LuodutKunnossa
<1>5. ASSUME NEW p \in tallennukset
      PROVE  /\ tallennukset = {p} /\ {"tehty", "uusi"} \subseteq DOMAIN p
             /\ lomakkeella /\ ~Tallennusilmaisin.valmis
             /\ Valmiina <=> p.tehty
  BY DEF LomakeInv, YksiLahetettyKysely, Valmiina
<1>6. ASSUME NEW p \in tallennukset, PalvelinTallentaa(p) PROVE LomakeInv'
  <2> DEFINE t == [p EXCEPT !.tehty = TRUE]
  <2>1. {"tehty", "uusi"} \subseteq DOMAIN t /\ t.tehty
    BY <1>5
  <2>2. tallennukset' = {t}
    BY <1>5, <1>6 DEF PalvelinTallentaa
  <2> HIDE DEF t
  <2>3. ~p.tehty /\ UNCHANGED <<lomakkeella, maarat, lataus>>
        /\ (luotuja' = luotuja \/ luotuja' = luotuja + 1)
    <3>1. luotuja \in Nat
      BY DEF LomakeInv, LuodutKunnossa
    <3> QED BY <1>6, <3>1 DEF PalvelinTallentaa
  <2>4. ~Valmiina /\ Valmiina'
    BY <1>5, <2>1, <2>2, <2>3 DEF Valmiina
  <2>5. YksiLahetettyKysely'
    BY <1>5, <2>1, <2>2, <2>3 DEF LomakeInv, YksiLahetettyKysely, Tallennusilmaisin
  <2> QED BY <2>3, <2>4, <2>5 DEF LomakeInv, LuodutKunnossa
<1>7. ASSUME NEW p \in tallennukset, TallennusOnnistui(p) PROVE LomakeInv'
  <2>1. tallennukset' = {} /\ ~lomakkeella' /\ UNCHANGED <<luotuja, maarat>> /\ p.tehty
    BY <1>5, <1>7 DEF TallennusOnnistui
  <2>2. DOMAIN lataus' = MetodiIdt
    BY <1>7 DEF TallennusOnnistui, PyyntoOnnistui, LomakeInv, YksiLahetettyKysely
  <2>3. Valmiina /\ Valmiina'
    BY <1>5, <2>1 DEF Valmiina
  <2> QED BY <2>1, <2>2, <2>3 DEF LomakeInv, YksiLahetettyKysely, LuodutKunnossa
<1>8. ASSUME NEW p \in tallennukset, TallennusEpaonnistui(p) PROVE LomakeInv'
  <2>1. tallennukset' = {} /\ UNCHANGED <<luotuja, lomakkeella>>
    BY <1>5, <1>8 DEF TallennusEpaonnistui
  <2>2. DOMAIN lataus' = MetodiIdt
    BY <1>8 DEF TallennusEpaonnistui, PyyntoEpaonnistui, LomakeInv, YksiLahetettyKysely
  <2>3. PICK n \in {0, 1} : /\ n = 1 <=> p.tehty
                            /\ maarat' = [maarat EXCEPT !.katkos = @ + n]
    BY <1>8 DEF TallennusEpaonnistui
  <2>4. /\ maarat' \in [lisays : Nat, tallennus : Nat, muutos : Nat, katkos : Nat]
        /\ maarat'.katkos = maarat.katkos + n
    BY <2>3 DEF LomakeInv, LuodutKunnossa
  <2>5. (Valmiina <=> p.tehty) /\ ~Valmiina'
    BY <1>5, <2>1 DEF Valmiina
  <2> QED
    BY <2>1, <2>2, <2>3, <2>4, <2>5 DEF LomakeInv, YksiLahetettyKysely, LuodutKunnossa
<1> QED
  BY <1>2, <1>3, <1>4, <1>6, <1>7, <1>8 DEF KyselylomakeNext

\* A step of any page keeps the form's requests and their count
LEMMA LomakeInvSailyy ==
  ASSUME LomakeInv, [Next]_muuttujat PROVE LomakeInv'
<1>1. ASSUME UNCHANGED lomakkeenMuuttujat, DOMAIN lataus' = MetodiIdt,
             Tallennusilmaisin' = Tallennusilmaisin
      PROVE  LomakeInv'
  BY <1>1 DEF lomakkeenMuuttujat, LomakeInv, YksiLahetettyKysely, LuodutKunnossa, Valmiina
<1>2. CASE KyselyluetteloNext /\ UNCHANGED lomakkeenMuuttujat
  BY <1>1, <1>2, LuetteloEiKoske DEF LomakeInv, YksiLahetettyKysely
<1>3. CASE UNCHANGED <<lomakkeenMuuttujat, seurannanMuuttujat>>
  BY <1>1, <1>3 DEF seurannanMuuttujat, Tallennusilmaisin, LomakeInv, YksiLahetettyKysely
<1> QED BY <1>2, <1>3, LomakkeenAskel, LomakeSailyy

\* A new survey is created once, and once more for each answer that was lost
THEOREM LuodaanAinaKerran == Spec => []LuodaanKerran
<1>1. Init => LomakeInv
  BY LomakeAlku DEF Init
<1>2. LomakeInv /\ [Next]_muuttujat => LomakeInv'
  BY LomakeInvSailyy
<1>3. LomakeInv => LuodaanKerran
  <2> SUFFICES ASSUME LomakeInv PROVE LuodaanKerran
    OBVIOUS
  <2>1. luotuja <= 1 + maarat.katkos
    BY DEF LomakeInv, LuodutKunnossa
  <2>2. Cardinality(tallennukset) <= 1
    <3>1. CASE tallennukset = {}
      BY <3>1, FS_EmptySet
    <3>2. ASSUME NEW p, tallennukset = {p} PROVE Cardinality(tallennukset) <= 1
      <4>1. Cardinality({p}) = 1
        BY FS_Singleton
      <4> QED BY <3>2, <4>1
    <3> QED BY <3>1, <3>2 DEF LomakeInv, YksiLahetettyKysely
  <2> QED BY <2>1, <2>2 DEF LuodaanKerran
<1> QED BY <1>1, <1>2, <1>3, PTL DEF Spec

(***************************************************************************)
(* The page of a round                                                     *)
(***************************************************************************)

\* What has come so far decides, whichever came first
MuokkausToistaiseksi ==
  /\ kierros \in Kerrat
  /\ muokkaus \in BOOLEAN
  /\ kertasivulla =>
       (muokkaus <=> /\ kyselyTullut => kierros.kaytettavissa
                     /\ kertaTullut => kierros.uusi \/ ~kierros.lukittu)
  /\ kierros.uusi => kertaTullut

\* The requests for schools, told apart by their numbers
KoulutTulossa ==
  /\ kertatoimia \in Nat
  /\ \A h \in kouluhaut : h.nro \in Int /\ h.nro < kertatoimia
  /\ DOMAIN kulku = {"limittain", "haussa", "katkos", "ohitus", "annetut"} /\ kulku.ohitus \in BOOLEAN

\* The newest of them is for the organiser chosen; without one, so is what is shown
DialogiAjanTasalla ==
  dialogi # EiMitaan /\ ~kulku.ohitus =>
    /\ {"jarjestaja", "oppilaitos", "oppilaitokset"} \subseteq DOMAIN dialogi
    /\ \A h \in kouluhaut :
         (\A g \in kouluhaut : g.nro <= h.nro) => h.jarjestaja = dialogi.jarjestaja
    /\ kouluhaut = {} =>
         /\ dialogi.oppilaitokset \subseteq Koulut[dialogi.jarjestaja]
         /\ dialogi.oppilaitos \in Koulut[dialogi.jarjestaja] \cup {EiMitaan}

\* The page opens with nothing loaded and no dialog
LEMMA KertasivuAlku ==
  KyselykertasivuInit => MuokkausToistaiseksi /\ KoulutTulossa /\ DialogiAjanTasalla
  BY DEF KyselykertasivuInit, MuokkausToistaiseksi, KoulutTulossa, DialogiAjanTasalla

\* Editing is decided by the survey and the round alone
LEMMA MuokkausSailyy ==
  ASSUME MuokkausToistaiseksi, [KyselykertasivuNext]_kyselykerranMuuttujat
  PROVE  MuokkausToistaiseksi'
<1>1. ASSUME UNCHANGED <<kierros, kyselyTullut, kertaTullut, muokkaus>>,
             kertasivulla' => kertasivulla
      PROVE  MuokkausToistaiseksi'
  BY <1>1 DEF MuokkausToistaiseksi
<1>2. CASE UNCHANGED kyselykerranMuuttujat
  BY <1>1, <1>2 DEF kyselykerranMuuttujat
<1>3. ASSUME kertasivulla, KyselySaapui PROVE MuokkausToistaiseksi'
  BY <1>3, KyselykertasivuOletus DEF KyselySaapui, Saapuu, MuokkausSaapuessa,
     MuokkausToistaiseksi
<1>4. ASSUME kertasivulla, KertaSaapui PROVE MuokkausToistaiseksi'
  BY <1>4, KyselykertasivuOletus DEF KertaSaapui, Saapuu, MuokkausSaapuessa,
     MuokkausToistaiseksi
<1>5. ASSUME NEW n, KertaTallennettu(n) PROVE MuokkausToistaiseksi'
  BY <1>1, <1>5 DEF KertaTallennettu
<1>6. CASE TunnuksetSaapuvat \/ MuutaKertaa \/ TallennaKerta \/ LuoTunnuksiaDialogi
  BY <1>1, <1>6 DEF TunnuksetSaapuvat, MuutaKertaa, TallennaKerta, LuoTunnuksiaDialogi
<1>7. CASE TunnuksenToimi
  <2>1. \E toimi, r, arvo : PyydaTunnuksesta(toimi, r, arvo)
    BY <1>7 DEF TunnuksenToimi, MuokkaaVastaajienMaaraa, PoistaTunnus, LukitseTunnus
  <2> QED BY <1>1, <2>1 DEF PyydaTunnuksesta
<1>8. CASE LuoTunnuksia \/ PeruutaDialogi
  BY <1>1, <1>8 DEF LuoTunnuksia, PeruutaDialogi, Dialogissa
<1>9. ASSUME NEW x, ValitseJarjestaja(x) \/ ValitseOppilaitos(x) \/ OppilaitoksetTulivat(x)
      PROVE  MuokkausToistaiseksi'
  BY <1>1, <1>9 DEF ValitseJarjestaja, ValitseOppilaitos, OppilaitoksetTulivat, Dialogissa
<1>10. ASSUME NEW x, PalvelinVastaa(x) \/ PyyntoValmis(x) \/ PyyntoKatkeaa(x) \/ VastaajaVastaa(x)
       PROVE  MuokkausToistaiseksi'
  BY <1>1, <1>10 DEF PalvelinVastaa, PyyntoValmis, PyyntoKatkeaa, VastaajaVastaa
<1>11. ASSUME NEW p, NEW era, PalvelinLuo(p, era) PROVE MuokkausToistaiseksi'
  BY <1>1, <1>11 DEF PalvelinLuo
<1> QED
  BY <1>2, <1>3, <1>4, <1>5, <1>6, <1>7, <1>8, <1>9, <1>10, <1>11 DEF KyselykertasivuNext

\* A round that may not be edited is not, whichever answer came first
THEOREM MuokkausAinaOikein == Spec => []MuokkausOikein
<1>1. Init => MuokkausToistaiseksi
  BY KertasivuAlku DEF Init
<1>2. MuokkausToistaiseksi /\ [Next]_muuttujat => MuokkausToistaiseksi'
  BY KertasivunAskel, MuokkausSailyy
<1>3. MuokkausToistaiseksi => MuokkausOikein
  BY KyselykertasivuOletus DEF MuokkausToistaiseksi, MuokkausOikein
<1> QED BY <1>1, <1>2, <1>3, PTL DEF Spec

\* The only school, or none
LEMMA ValittuKouluista ==
  ASSUME NEW koulut, NEW valittu
  PROVE  ValittuOppilaitos(koulut, valittu) \in koulut \cup {EiMitaan}
<1>1. CASE Cardinality(koulut) = 1
  <2>1. koulut # {}
    BY <1>1, FS_EmptySet
  <2> QED BY <1>1, <2>1 DEF ValittuOppilaitos
<1>2. CASE Cardinality(koulut) # 1
  BY <1>2 DEF ValittuOppilaitos
<1> QED BY <1>1, <1>2

\* Every step keeps the dialog in step with its newest request
LEMMA DialogiSailyy ==
  ASSUME KoulutTulossa, DialogiAjanTasalla, [KyselykertasivuNext]_kyselykerranMuuttujat
  PROVE  KoulutTulossa' /\ DialogiAjanTasalla'
<1>1. ASSUME UNCHANGED <<dialogi, kouluhaut>>, kertatoimia' \in {kertatoimia, kertatoimia + 1},
             DOMAIN kulku' = DOMAIN kulku, kulku'.ohitus = kulku.ohitus
      PROVE  KoulutTulossa' /\ DialogiAjanTasalla'
  BY <1>1 DEF KoulutTulossa, DialogiAjanTasalla
<1>2. CASE UNCHANGED kyselykerranMuuttujat
  BY <1>1, <1>2 DEF kyselykerranMuuttujat
<1>3. CASE KyselySaapui \/ KertaSaapui \/ TunnuksetSaapuvat \/ MuutaKertaa \/ TallennaKerta
  BY <1>1, <1>3 DEF KyselySaapui, KertaSaapui, Saapuu, TunnuksetSaapuvat, MuutaKertaa,
     TallennaKerta, Kertatoimi
<1>4. CASE TunnuksenToimi
  <2>1. PICK hs, ls : kulku' = [kulku EXCEPT !.limittain = ls, !.haussa = hs]
    BY <1>4 DEF TunnuksenToimi, MuokkaaVastaajienMaaraa, PoistaTunnus, LukitseTunnus,
       PyydaTunnuksesta
  <2>2. DOMAIN kulku' = DOMAIN kulku /\ kulku'.ohitus = kulku.ohitus
    BY <2>1 DEF KoulutTulossa
  <2> QED
    BY <1>1, <1>4, <2>2 DEF TunnuksenToimi, MuokkaaVastaajienMaaraa, PoistaTunnus,
       LukitseTunnus, PyydaTunnuksesta, Kertatoimi
<1>5. ASSUME NEW x, PyyntoKatkeaa(x) PROVE KoulutTulossa' /\ DialogiAjanTasalla'
  <2>1. DOMAIN kulku' = DOMAIN kulku /\ kulku'.ohitus = kulku.ohitus
    BY <1>5 DEF PyyntoKatkeaa, KoulutTulossa
  <2> QED BY <1>1, <1>5, <2>1 DEF PyyntoKatkeaa
<1>6. ASSUME NEW x, KertaTallennettu(x) \/ PalvelinVastaa(x) \/ PyyntoValmis(x) \/ VastaajaVastaa(x)
      PROVE  KoulutTulossa' /\ DialogiAjanTasalla'
  BY <1>1, <1>6 DEF KertaTallennettu, PalvelinVastaa, PyyntoValmis, VastaajaVastaa
<1>7. CASE LuoTunnuksiaDialogi
  <2>1. DOMAIN kulku' = DOMAIN kulku /\ kulku'.ohitus \in BOOLEAN
        /\ kertatoimia' \in Nat /\ kertatoimia' > 0
    BY <1>7 DEF LuoTunnuksiaDialogi, Kertatoimi, KoulutTulossa
  <2>2. \A h \in kouluhaut' : /\ h.nro \in Int /\ h.nro <= 0
                              /\ h.jarjestaja = OmaToimija
    BY <1>7 DEF LuoTunnuksiaDialogi
  <2>3. kouluhaut' # {}
    BY <1>7 DEF LuoTunnuksiaDialogi
  <2>4. /\ {"jarjestaja", "oppilaitos", "oppilaitokset"} \subseteq DOMAIN dialogi'
        /\ dialogi'.jarjestaja = OmaToimija
    BY <1>7 DEF LuoTunnuksiaDialogi
  <2> QED BY <2>1, <2>2, <2>3, <2>4 DEF KoulutTulossa, DialogiAjanTasalla
<1>8. CASE LuoTunnuksia
  <2>1. DOMAIN kulku' = DOMAIN kulku /\ kulku'.ohitus = kulku.ohitus
    BY <1>8 DEF LuoTunnuksia, KoulutTulossa
  <2> QED BY <1>8, <2>1 DEF LuoTunnuksia, Kertatoimi, KoulutTulossa, DialogiAjanTasalla
<1>9. CASE PeruutaDialogi
  BY <1>9 DEF PeruutaDialogi, KoulutTulossa, DialogiAjanTasalla
<1>10. ASSUME NEW j, ValitseJarjestaja(j) PROVE KoulutTulossa' /\ DialogiAjanTasalla'
  <2> DEFINE h == [nro |-> kertatoimia, jarjestaja |-> j]
  <2>1. /\ dialogi # EiMitaan /\ dialogi' = [dialogi EXCEPT !.jarjestaja = j]
        /\ kouluhaut' = kouluhaut \cup {h}
        /\ h.nro = kertatoimia /\ h.jarjestaja = j
        /\ UNCHANGED kulku /\ kertatoimia' = kertatoimia + 1
    BY <1>10 DEF ValitseJarjestaja, Dialogissa, Kertatoimi
  <2> HIDE DEF h
  <2>2. KoulutTulossa'
    BY <2>1 DEF KoulutTulossa
  <2>3. ASSUME ~kulku.ohitus
        PROVE  /\ {"jarjestaja", "oppilaitos", "oppilaitokset"} \subseteq DOMAIN dialogi'
               /\ dialogi'.jarjestaja = j
    BY <2>1, <2>3 DEF DialogiAjanTasalla
  <2>4. ASSUME NEW g \in kouluhaut', \A f \in kouluhaut' : f.nro <= g.nro
        PROVE  g.jarjestaja = j
    BY <2>1, <2>4 DEF KoulutTulossa
  <2> QED BY <2>1, <2>2, <2>3, <2>4 DEF DialogiAjanTasalla
<1>11. ASSUME dialogi # EiMitaan, NEW o \in dialogi.oppilaitokset, ValitseOppilaitos(o)
       PROVE  KoulutTulossa' /\ DialogiAjanTasalla'
  <2>1. /\ dialogi' = [dialogi EXCEPT !.oppilaitos = o]
        /\ UNCHANGED <<kouluhaut, kulku>> /\ kertatoimia' = kertatoimia + 1
    BY <1>11 DEF ValitseOppilaitos, Dialogissa, Kertatoimi
  <2>2. KoulutTulossa'
    BY <2>1 DEF KoulutTulossa
  <2>3. ASSUME ~kulku.ohitus
        PROVE  /\ DOMAIN dialogi' = DOMAIN dialogi
               /\ dialogi'.jarjestaja = dialogi.jarjestaja
               /\ dialogi'.oppilaitokset = dialogi.oppilaitokset
               /\ dialogi'.oppilaitos = o
    BY <1>11, <2>1, <2>3 DEF DialogiAjanTasalla
  <2> QED BY <1>11, <2>1, <2>2, <2>3 DEF DialogiAjanTasalla
<1>12. ASSUME NEW h \in kouluhaut, OppilaitoksetTulivat(h)
       PROVE  KoulutTulossa' /\ DialogiAjanTasalla'
  <2>1. /\ dialogi # EiMitaan /\ kouluhaut' = kouluhaut \ {h} /\ UNCHANGED kertatoimia
    BY <1>12 DEF OppilaitoksetTulivat, Dialogissa
  <2>2. CASE UNCHANGED dialogi /\ kulku' = [kulku EXCEPT !.ohitus = TRUE]
    BY <2>1, <2>2 DEF KoulutTulossa, DialogiAjanTasalla
  <2>3. CASE /\ dialogi' = [dialogi EXCEPT
                              !.oppilaitokset = Koulut[h.jarjestaja],
                              !.oppilaitos = ValittuOppilaitos(Koulut[h.jarjestaja], @)]
             /\ kulku' = [kulku EXCEPT !.ohitus = @ \/ \E g \in kouluhaut : g.nro < h.nro]
    <3>1. /\ DOMAIN kulku' = DOMAIN kulku /\ kulku'.ohitus \in BOOLEAN
          /\ kulku'.ohitus <=> kulku.ohitus \/ \E g \in kouluhaut : g.nro < h.nro
      BY <2>3 DEF KoulutTulossa
    <3>2. KoulutTulossa'
      BY <2>1, <3>1 DEF KoulutTulossa
    <3>3. ASSUME ~kulku'.ohitus PROVE DialogiAjanTasalla'
      <4>1. ~kulku.ohitus /\ \A g \in kouluhaut : h.nro <= g.nro
        BY <3>1, <3>3 DEF KoulutTulossa
      <4>2. {"jarjestaja", "oppilaitos", "oppilaitokset"} \subseteq DOMAIN dialogi
        BY <2>1, <4>1 DEF DialogiAjanTasalla
      <4>3. /\ {"jarjestaja", "oppilaitos", "oppilaitokset"} \subseteq DOMAIN dialogi'
            /\ dialogi'.jarjestaja = dialogi.jarjestaja
            /\ dialogi'.oppilaitokset = Koulut[h.jarjestaja]
            /\ dialogi'.oppilaitos \in Koulut[h.jarjestaja] \cup {EiMitaan}
        <5>1. dialogi'.oppilaitos = ValittuOppilaitos(Koulut[h.jarjestaja], dialogi.oppilaitos)
          BY <2>3, <4>2
        <5> QED BY <2>3, <4>2, <5>1, ValittuKouluista
      <4>4. ASSUME NEW g \in kouluhaut', \A f \in kouluhaut' : f.nro <= g.nro
            PROVE  g.jarjestaja = dialogi.jarjestaja
        <5>1. \A f \in kouluhaut : f.nro <= g.nro
          BY <2>1, <4>1, <4>4
        <5> QED BY <2>1, <4>1, <4>4, <5>1 DEF DialogiAjanTasalla
      <4>5. ASSUME kouluhaut' = {} PROVE h.jarjestaja = dialogi.jarjestaja
        <5>1. \A f \in kouluhaut : f = h
          BY <2>1, <4>5
        <5>2. \A f \in kouluhaut : f.nro <= h.nro
          BY <5>1 DEF KoulutTulossa
        <5> QED BY <2>1, <4>1, <5>2 DEF DialogiAjanTasalla
      <4> QED BY <4>3, <4>4, <4>5 DEF DialogiAjanTasalla
    <3>4. kulku'.ohitus => DialogiAjanTasalla'
      BY DEF DialogiAjanTasalla
    <3> QED BY <3>2, <3>3, <3>4
  <2> QED BY <1>12, <2>2, <2>3 DEF OppilaitoksetTulivat
<1>13. ASSUME NEW p, NEW era, PalvelinLuo(p, era) PROVE KoulutTulossa' /\ DialogiAjanTasalla'
  <2>1. DOMAIN kulku' = DOMAIN kulku /\ kulku'.ohitus = kulku.ohitus
    BY <1>13 DEF PalvelinLuo, KoulutTulossa
  <2> QED BY <1>1, <1>13, <2>1 DEF PalvelinLuo
<1> QED
  BY <1>2, <1>3, <1>4, <1>5, <1>6, <1>7, <1>8, <1>9, <1>10, <1>11, <1>12, <1>13
  DEF KyselykertasivuNext

\* Answers in order, the school chosen is a school of the organiser chosen
THEOREM OppilaitosAinaJarjestajalta == Spec => []OppilaitosJarjestajalta
<1>1. Init => KoulutTulossa /\ DialogiAjanTasalla
  BY KertasivuAlku DEF Init
<1>2. KoulutTulossa /\ DialogiAjanTasalla /\ [Next]_muuttujat => KoulutTulossa' /\ DialogiAjanTasalla'
  BY KertasivunAskel, DialogiSailyy
<1>3. DialogiAjanTasalla => OppilaitosJarjestajalta
  BY DEF DialogiAjanTasalla, OppilaitosJarjestajalta
<1> QED BY <1>1, <1>2, <1>3, PTL DEF Spec
=============================================================================
