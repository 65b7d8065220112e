---------------------------- MODULE Kyselylomake ----------------------------
(***************************************************************************)
(* The form on which a survey is made, edited or copied.  Groups come to   *)
(* it from the server one or a template at a time, in any order; the form  *)
(* can be previewed and saved.  Of the survey only its groups are kept:    *)
(* names and dates have no rules but the form's own.                       *)
(***************************************************************************)
EXTENDS Latausseuranta, Ryhmavalinta

CONSTANTS
  Lomaketavat,        \* the ways the form is opened: "uusi", "muokkaus", "kopio"
  KyselyOnPalvelin,   \* ids of the groups of the stored survey, in order
  Pohjat,             \* sequences of ids, the templates that can be added
  MaxLisays,          \* bound: groups and templates asked for
  MaxTallennus,       \* bound: times the form is sent
  MaxMuutos,          \* bound: groups marked, questions removed, drags
  EiKyselya           \* $scope.kysely undefined

\* A stored survey was saved from a form; a template has a group once
ASSUME KyselylomakeOletus ==
  /\ {MaxLisays, MaxTallennus, MaxMuutos} \subseteq Nat
  /\ KyselyOnPalvelin \in Seq(DOMAIN Ryhmatiedot) /\ Kunnossa(Ryhmat(KyselyOnPalvelin))
  /\ \A ids \in Pohjat : /\ ids \in Seq(DOMAIN Ryhmatiedot)
                         /\ \A i, j \in DOMAIN ids : ids[i] = ids[j] => i = j

VARIABLES
  tapa,            \* how the form was opened
  kysely,          \* the groups on the form, or EiKyselya before they come
  kyselyhaussa,    \* the GET of the survey has not been answered
  ryhmahaut,       \* groups asked for, sequences of ids
  tallennukset,    \* surveys sent and not answered
  esikatseltu,     \* what the preview last showed, if nothing has changed since
  lomakkeella,     \* the user is on the page
  luotuja,         \* surveys created by the server
  maarat           \* how often each bounded thing has been done

lomakkeenMuuttujat == <<tapa, kysely, kyselyhaussa, ryhmahaut, tallennukset, esikatseltu,
                        lomakkeella, luotuja, maarat>>

KyselylomakeInit ==
  /\ tapa \in Lomaketavat
  /\ kysely = IF tapa = "uusi" THEN <<>> ELSE EiKyselya
  /\ kyselyhaussa = (tapa # "uusi")
  /\ ryhmahaut = {}
  /\ tallennukset = {}
  /\ esikatseltu = EiKyselya
  /\ lomakkeella = TRUE
  /\ luotuja = 0
  /\ maarat = [lisays |-> 0, tallennus |-> 0, muutos |-> 0, katkos |-> 0]

-----------------------------------------------------------------------------
(* Loading and adding                                                      *)

\* A copy leaves out the groups closed since
EiSuljettuja(ids) == Poimi(ids, LAMBDA id : ~Ryhmatiedot[id].suljettu)

KyselySaapuu ==
  /\ kyselyhaussa /\ kyselyhaussa' = FALSE
  /\ kysely' \in {Ryhmat(IF tapa = "kopio" THEN EiSuljettuja(KyselyOnPalvelin)
                                           ELSE KyselyOnPalvelin), EiKyselya}
  /\ UNCHANGED <<tapa, ryhmahaut, tallennukset, esikatseltu, lomakkeella, luotuja, maarat,
                 lataus, virheessa>>

\* A modal is closed with a choice: a group, or the groups of a template
PyydaRyhmia(ids) ==
  /\ maarat.lisays < MaxLisays
  /\ maarat' = [maarat EXCEPT !.lisays = @ + 1]
  /\ ryhmahaut' = ryhmahaut \cup {ids}
  /\ UNCHANGED <<tapa, kysely, kyselyhaussa, tallennukset, esikatseltu, lomakkeella, luotuja,
                 lataus, virheessa>>

LisaaKysymysryhmaModal(id) == ~Ryhmatiedot[id].suljettu /\ PyydaRyhmia(<<id>>)
LisaaKyselypohjaModal(ids) == PyydaRyhmia(ids)

\* Without a survey to add to, the callback fails and nothing is added
RyhmatSaapuvat(ids) ==
  /\ ryhmahaut' = ryhmahaut \ {ids}
  /\ kysely' \in {kysely} \cup {LisaaUniikitKysymysryhmat(ks, Ryhmat(ids)) : ks \in {kysely} \ {EiKyselya}}
  /\ esikatseltu' = EiKyselya
  /\ UNCHANGED <<tapa, kyselyhaussa, tallennukset, lomakkeella, luotuja, maarat,
                 lataus, virheessa>>

\* The accordion of the form
Muuta(ks) ==
  /\ maarat.muutos < MaxMuutos
  /\ maarat' = [maarat EXCEPT !.muutos = @ + 1]
  /\ kysely' = ks
  /\ esikatseltu' = EiKyselya
  /\ UNCHANGED <<tapa, kyselyhaussa, ryhmahaut, tallennukset, lomakkeella, luotuja,
                 lataus, virheessa>>

MuutaRyhmia ==
  /\ kysely # EiKyselya
  /\ \E i \in DOMAIN kysely :
       \/ Muuta(PoistaTaiPalauta(kysely, i))
       \/ /\ kysely[i].poistettuja < Tiedot(kysely[i]).poistettavia
          /\ Muuta(PoistaKysymys(kysely, i))
       \/ /\ kysely[i].poistettuja > 0
          /\ Muuta(PalautaKysymys(kysely, i))
       \/ \E j \in DOMAIN kysely \ {i} : Muuta(Raahattu(kysely, i, j))

-----------------------------------------------------------------------------
(* Preview and saving                                                      *)

LaskeLisakysymykset(ks) ==
  FoldSeq(LAMBDA r, n : n + (IF Valtakunnallinen(r) THEN 0
                                                    ELSE Tiedot(r).kysymyksia - r.poistettuja),
          0, ks)
ValtakunnallisiaRyhmia(ks) == \E i \in DOMAIN ks : Valtakunnallinen(ks[i])

\* What is asked of a respondent: each group with how many of its questions
Kysyttavat(ks) == [i \in DOMAIN ks |-> <<ks[i].id, Tiedot(ks[i]).kysymyksia - ks[i].poistettuja>>]

\* The preview gets a copy of the survey as it is when its page has loaded
EsikatseleModal ==
  /\ kysely # EiKyselya /\ NayttaaSisallon("kyselynTallennus")
  /\ esikatseltu' = Kysyttavat(PoistaKysymysryhmat(kysely))
  /\ UNCHANGED <<tapa, kysely, kyselyhaussa, ryhmahaut, tallennukset, lomakkeella, luotuja,
                 maarat, lataus, virheessa>>

ValidoiKysymysryhmat(ks) ==
  LET ryhmat == {ks[i] : i \in {j \in DOMAIN ks : ~ks[j].poistetaan}}
      ntm == {r \in ryhmat : Tiedot(r).ntm_kysymykset}
  IN  \/ \A r \in ryhmat : ~Valtakunnallinen(r)
      \/ ntm = {} /\ Cardinality({r \in ryhmat : Taustakysymykset(r)}) = 1
      \/ ntm = ryhmat

\* mutant: marked groups are sent with the others
JataMerkityt(ks) == ks

\* The marked groups leave the form before anything else is looked at
Tallennettava(ks) == PoistaKysymysryhmat(ks)

\* The limit of questions of one's own
Tallenna ==
  LET ks == Tallennettava(kysely)
      maxKysymyksia == IF ValtakunnallisiaRyhmia(ks) THEN 10 ELSE 30
  IN  /\ kysely' = ks
      /\ IF LaskeLisakysymykset(ks) > maxKysymyksia
         THEN UNCHANGED <<tallennukset, maarat, lataus, virheessa>>
         ELSE /\ maarat.tallennus < MaxTallennus
              /\ maarat' = [maarat EXCEPT !.tallennus = @ + 1]
              /\ tallennukset' = tallennukset \cup
                   {[nro |-> maarat.tallennus, ryhmat |-> ks, uusi |-> tapa # "muokkaus",
                     uusinta |-> NayttaaVirheen("kyselynTallennus"), tehty |-> FALSE]}
              /\ AsetaLatausIndikaattori("kyselynTallennus")
      /\ UNCHANGED <<tapa, kyselyhaussa, ryhmahaut, esikatseltu, lomakkeella, luotuja>>

\* The form's button, or after an error the indicator's, which asks nothing of
\* the form
PainaTallenna ==
  /\ kysely # EiKyselya
  /\ \/ NayttaaSisallon("kyselynTallennus") /\ ValidoiKysymysryhmat(kysely)
     \/ NayttaaVirheen("kyselynTallennus")
  /\ Tallenna

\* The server checks the limit again, in paivita-kysely!
PalvelinTallentaa(p) ==
  /\ ~p.tehty
  /\ tallennukset' = (tallennukset \ {p}) \cup {[p EXCEPT !.tehty = TRUE]}
  /\ luotuja' = luotuja + (IF p.uusi THEN 1 ELSE 0)
  /\ UNCHANGED <<tapa, kysely, kyselyhaussa, ryhmahaut, esikatseltu, lomakkeella, maarat,
                 lataus, virheessa>>

TallennusOnnistui(p) ==
  /\ p.tehty
  /\ tallennukset' = tallennukset \ {p}
  /\ lomakkeella' = FALSE
  /\ PyyntoOnnistui("kyselynTallennus")
  /\ UNCHANGED <<tapa, kysely, kyselyhaussa, ryhmahaut, esikatseltu, luotuja, maarat>>

TallennusEpaonnistui(p) ==
  /\ tallennukset' = tallennukset \ {p}
  /\ maarat' = [maarat EXCEPT !.katkos = @ + (IF p.tehty THEN 1 ELSE 0)]
  /\ PyyntoEpaonnistui("kyselynTallennus")
  /\ UNCHANGED <<tapa, kysely, kyselyhaussa, ryhmahaut, esikatseltu, lomakkeella, luotuja>>

Peruuta ==
  /\ NayttaaSisallon("kyselynTallennus")
  /\ lomakkeella' = FALSE
  /\ UNCHANGED <<tapa, kysely, kyselyhaussa, ryhmahaut, tallennukset, esikatseltu, luotuja,
                 maarat, lataus, virheessa>>

KyselylomakeNext ==
  \/ /\ lomakkeella
     /\ \/ KyselySaapuu \/ MuutaRyhmia \/ EsikatseleModal \/ PainaTallenna \/ Peruuta
        \/ \E id \in DOMAIN Ryhmatiedot : LisaaKysymysryhmaModal(id)
        \/ \E ids \in Pohjat : LisaaKyselypohjaModal(ids)
        \/ \E ids \in ryhmahaut : RyhmatSaapuvat(ids)
  \/ \E p \in tallennukset :
       PalvelinTallentaa(p) \/ TallennusOnnistui(p) \/ TallennusEpaonnistui(p)

-----------------------------------------------------------------------------
(* Properties                                                              *)

\* However groups come, are dragged and go, the form has each group once and
\* in the order respondents get them (kyselyui.js:99-104, accordion 34-46)
RyhmatKunnossa == kysely # EiKyselya => Kunnossa(kysely)

\* A group on the form keeps its marks and removed questions until the user
\* changes them, also when the server's answer brings it again
\* (kyselyApurit, kyselyui.js:99-100)
MerkinnatKayttajalta ==
  [][maarat'.muutos = maarat.muutos /\ kysely # EiKyselya =>
       \A i \in DOMAIN kysely, j \in DOMAIN kysely' :
         kysely[i].id = kysely'[j].id => kysely[i] = kysely'[j]]_lomakkeenMuuttujat

\* A survey that is sent asks what its preview showed, although the preview
\* and the save strip the marked groups each in its own code
\* (kyselyui.js:160-162, 229-249)
TallentuuEsikatseltu ==
  \A p \in tallennukset :
    esikatseltu # EiKyselya /\ ~p.tehty => Kysyttavat(p.ryhmat) = esikatseltu

\* A new survey is created once, however often its form is saved: a second
\* save waits for the answer to the first.  An answer lost after the server's
\* work costs one survey more (kyselyui.js:164-188, kysely.html:77-86)
LuodaanKerran == luotuja <= 1 + maarat.katkos /\ Cardinality(tallennukset) <= 1
=============================================================================
