------------------------------- MODULE Aipal -------------------------------
(***************************************************************************)
(* The two backends over the one database: answering pages and survey      *)
(* administration interleave statement by statement, and the day changes.  *)
(***************************************************************************)
EXTENDS Kyselynhallinta

vars == <<kanta, vastausmuuttujat, hallintamuuttujat>>

Init == KantaInit /\ VastaaminenInit /\ HallintaInit

Next ==
  \/ VastaaminenNext /\ UNCHANGED hallintamuuttujat
  \/ HallintaNext
  \/ PaivaVaihtuu /\ UNCHANGED <<vastausmuuttujat, hallintamuuttujat>>

Spec == Init /\ [][Next]_vars

(***************************************************************************)
(* A server that has begun with a request goes on with it: threads are     *)
(* scheduled, statements return, and a lock that is waited for is granted. *)
(* Nothing makes people open, fill in or send pages.                       *)
(***************************************************************************)
Reiluus ==
  /\ \A s \in Istunnot : WF_vars(Palvele(s) /\ UNCHANGED hallintamuuttujat)
  /\ \A h \in Kasittelijat : WF_vars(Kasittele(h))

ReiluSpec == Spec /\ Reiluus

TypeOK == KantaTyyppi /\ VastaaminenTyyppi /\ HallintaTyyppi

(***************************************************************************)
(* Whatever deletions, edits and answers interleave, no committed row      *)
(* refers to a missing one, and a respondent's code belongs to the round   *)
(* the respondent is counted in.  luo-vastaaja! copies the round from the  *)
(* code in one statement and the deletions check for respondents in        *)
(* another, earlier one.                                                   *)
(***************************************************************************)
ViiteEheys ==
  /\ \A c \in DOMAIN kerta : kerta[c].kysely \in DOMAIN kysely
  /\ \A t \in DOMAIN tunnus : tunnus[t].kerta \in DOMAIN kerta
  /\ \A v \in vastaaja :
       v.tunnus \in DOMAIN tunnus /\ tunnus[v.tunnus].kerta = v.kerta
  /\ \A r \in vastaus : \E v \in vastaaja : v.id = r.vastaaja

(***************************************************************************)
(* While the transaction of a request is open, the code and the round its  *)
(* respondent refers to stay: the row locks of the foreign keys make the   *)
(* deletions wait.                                                         *)
(***************************************************************************)
KeskeneraistenEheys ==
  \A s \in Kirjoittavat :
    /\ avoin[s].tunnus \in DOMAIN tunnus
    /\ avoin[s].kerta \in DOMAIN kerta
    /\ tunnus[avoin[s].tunnus].kerta = avoin[s].kerta

(***************************************************************************)
(* All or nothing: a respondent appears together with exactly the answers  *)
(* of the request, marked vastannut, and none of the questions that were   *)
(* mandatory when the request was validated is without an answer.          *)
(***************************************************************************)
VainKokonaisia ==
  /\ \A v \in vastaaja' \ vastaaja :
       LET s == v.id[1] IN
       /\ v.vastannut
       /\ {r.kysymys : r \in {x \in vastaus' : x.vastaaja = v.id}} = lahetetyt[s]
       /\ luetut[s] \cap Pakolliset \subseteq lahetetyt[s]
  /\ \A r \in vastaus' \ vastaus : \E v \in vastaaja' \ vastaaja : v.id = r.vastaaja

\* Every step of either backend is like that
KaikkiTaiEiMitaan == [][VainKokonaisia]_vars

(***************************************************************************)
(* The abstract promise, with a sending being one try of one session.      *)
(***************************************************************************)
LahetyksenTila(l) ==
  LET s == l[1] n == l[2] IN
  IF n > yritys[s] THEN "tulematta"
  ELSE IF \E v \in vastaaja : v.id = l THEN "kirjattu"
  ELSE IF n = yritys[s] /\ vaihe[s] = "lahetetty" THEN "saapunut"
  ELSE IF n = yritys[s] /\ vaihe[s] \in Kesken THEN "hyvaksytty"
  ELSE "hylatty"

lupausAuki == {t \in Tunnukset : TunnusKaytettavissa(t)}
lupausTila == [l \in VastaajaIdt |-> LahetyksenTila(l)]
lupausKohde == [l \in VastaajaIdt |-> IF l[2] > yritys[l[1]] THEN Ei ELSE koodi[l[1]]]

Lupaus == INSTANCE Vastauslupaus WITH
  Lahetykset <- VastaajaIdt,
  auki <- lupausAuki,
  tila <- lupausTila,
  kohde <- lupausKohde

\* The answering backend keeps the promise of Vastauslupaus: a sending is
\* recorded at most once, and only if its code was usable when checked
LupausToteutuu == Lupaus!Spec

(***************************************************************************)
(* Rules of the survey's life that hold while administration requests are  *)
(* served one at a time (answers still come at any point).                 *)
(***************************************************************************)
\* A draft has no rounds, so nobody is answering a survey being edited:
\* kyselykerta-luonti? and PUT palauta-luonnokseksi together
LuonnoksellaEiKertoja ==
  \A c \in DOMAIN kerta : ~KyselynTilaOn(kerta[c].kysely, "luonnos")

\* Every respondent has answered all mandatory questions of the survey, and
\* nothing but its questions, still at every later time
VastauksetKyselysta ==
  \A v \in vastaaja :
    LET Q == TunnuksenKysymykset(v.tunnus) IN
    /\ Vastatut(v.id) \subseteq Q
    /\ Q \cap Pakolliset \subseteq Vastatut(v.id)

\* The content of a survey changes only while it is a draft
\* (the text shown when publishing: a published survey can not be edited)
JulkaistuaEiMuokata ==
  [][\A k \in DOMAIN kysely \cap DOMAIN kysely' :
       kysely[k].tila # "luonnos" =>
         /\ kysely'[k].kysymykset = kysely[k].kysymykset
         /\ kysely'[k].ryhmat = kysely[k].ryhmat]_vars

\* A survey asks every question of its groups except removable ones
\* (kysymys.poistettava: whether the question can be removed from a survey)
EiPoistettavatKysytaan ==
  \A k \in DOMAIN kysely : \A r \in kysely[k].ryhmat :
    RyhmanKysymykset[r] \ Poistettavat \subseteq kysely[k].kysymykset

\* A locked round is unlocked by nothing but the request to unlock it
LukkoAvataanPyynnosta ==
  [][\A c \in DOMAIN kerta \cap DOMAIN kerta' :
       kerta[c].lukittu /\ ~kerta'[c].lukittu =>
         \E h \in Kasittelijat :
           pyynto[h] # Ei /\ pyynto[h].toimi = "lukitseKerta"]_vars

(***************************************************************************)
(* Liveness: every request to either backend is answered, also when it has *)
(* to wait for the row locks of others.                                    *)
(***************************************************************************)
LahetysValmistuu ==
  \A s \in Istunnot : vaihe[s] \in Kesken ~> vaihe[s] \in {"kiitos", "virhe"}

PyyntoValmistuu ==
  \A h \in Kasittelijat : askel[h] = "saapunut" ~> askel[h] = "vapaa"

(***************************************************************************)
(* Statements of the documentation that the code does not keep.            *)
(***************************************************************************)
\* vastaajien_lkm is the maximum number of respondents of a code
MaksimiVastaajat ==
  \A t \in DOMAIN tunnus : Vastaajia(t) <= tunnus[t].lkm

\* A locked round, or one of a closed survey, can not be answered
SuljettuunEiVastata ==
  [][\A v \in vastaaja' \ vastaaja : TunnusKaytettavissa(v.tunnus)]_vars
=============================================================================
