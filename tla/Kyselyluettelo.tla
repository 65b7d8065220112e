--------------------------- MODULE Kyselyluettelo ---------------------------
(***************************************************************************)
(* The page that lists the surveys and their rounds, with the buttons that *)
(* change them.  The page is loaded once per visit; after that its rows    *)
(* change only by the answers to its own requests, and nothing keeps two   *)
(* requests from being in flight.  Which surveys stand open is remembered  *)
(* over visits in sessionStorage.  Respondents answer meanwhile.           *)
(*                                                                         *)
(* The surveys have groups and their dates include today (without, some of *)
(* the buttons are missing), so one is kaytettavissa when it is published. *)
(* The button of palautaKysely is left out: it is shown for the state      *)
(* "poistettu", which no survey has.                                       *)
(***************************************************************************)
EXTENDS Latausseuranta, SequencesExt

CONSTANTS
  Luettelokyselyt,     \* kyselyid -> its rounds, when the page is first opened
  MaxToimia,           \* bound: requests that change something
  MaxLuettelohaut      \* bound: GETs of the list

\* kyselyid and kyselykertaid are primary keys: a round is of one survey
ASSUME KyselyluetteloOletus ==
  /\ MaxToimia \in Nat /\ MaxLuettelohaut \in Nat \ {0}
  /\ IsFiniteSet(DOMAIN Luettelokyselyt)
  /\ \A k, l \in DOMAIN Luettelokyselyt :
       k # l => Luettelokyselyt[k] \cap Luettelokyselyt[l] = {}

VARIABLES
  rivit,          \* the rows shown (kyselyt), or <<>> before they are loaded
  ladattuna,      \* the rows have been loaded on this visit
  luettelohaku,   \* the GET in flight: what the server had when it was sent
  hakuja,         \* how many GETs there have been
  muistetut,      \* sessionStorage.avoimetKyselyt
  toimet,         \* requests that change something, in flight
  tehtyja,        \* how many of them there have been
  kyselykanta,    \* kyselyid -> survey on the server
  historia        \* what the properties speak of:
                  \*   limittain  surveys with two requests in flight together
                  \*   haussa     a request and a GET were in flight together
                  \*   katkos     an answer was lost after the server's work

luettelonMuuttujat == <<rivit, ladattuna, luettelohaku, hakuja, muistetut, toimet, tehtyja,
                        kyselykanta, historia>>

Tilat == {"luonnos", "julkaistu", "suljettu"}

\* A draft has no rounds
Alkutilat ==
  {tilat \in [DOMAIN Luettelokyselyt -> Tilat] :
     \A k \in DOMAIN tilat : tilat[k] = "luonnos" => Luettelokyselyt[k] = {}}
Kanta0(tilat) ==
  [k \in DOMAIN Luettelokyselyt |->
     [tila |-> tilat[k], kerrat |-> Luettelokyselyt[k], lukitut |-> {}, vastatut |-> {}]]

KyselyluetteloInit ==
  /\ rivit = <<>>
  /\ ladattuna = FALSE
  /\ hakuja = 1
  /\ muistetut = {}
  /\ toimet = {}
  /\ tehtyja = 0
  /\ \E tilat \in Alkutilat : kyselykanta = Kanta0(tilat)
  /\ luettelohaku = <<kyselykanta>>      \* the controller asks for the list
  /\ historia = [limittain |-> {}, haussa |-> FALSE, katkos |-> FALSE]

\* A survey that may be deleted, and what of it is sent to the page
KyselyPoistettavissa(u) == u.vastatut = {} /\ u.tila \in {"luonnos", "suljettu"}
HaeKysely(u) == [tila |-> u.tila, poistettavissa |-> KyselyPoistettavissa(u)]

\* A row has its survey, and rounds if there are any (kyselykerrat is null
\* otherwise), each with whether it may be deleted and is locked
Rivi(kanta, k) ==
  LET u == kanta[k]
  IN  [kyselyid |-> k, open |-> k \in muistetut, tila |-> u.tila,
       poistettavissa |-> KyselyPoistettavissa(u), kerrat |-> u.kerrat, eiKertoja |-> u.kerrat = {},
       poistettavat |-> u.kerrat \ u.vastatut, lukitut |-> u.lukitut, haku |-> hakuja]
RivinIndeksi(k) == CHOOSE i \in DOMAIN rivit : rivit[i].kyselyid = k
Nakyy(k) == \E i \in DOMAIN rivit : rivit[i].kyselyid = k
Avoimet(rs) == {rs[i].kyselyid : i \in {j \in DOMAIN rs : rs[j].open}}

-----------------------------------------------------------------------------
(* Loading, and the memory of what is open                                 *)

LahetaHaku ==
  /\ hakuja < MaxLuettelohaut
  /\ hakuja' = hakuja + 1
  /\ luettelohaku' = <<kyselykanta>>
  /\ historia' = [historia EXCEPT !.haussa = @ \/ toimet # {}]

\* The button of the loading indicator, which stays after a first error
HaeKyselyt ==
  /\ NayttaaVirheen("kyselylistaus")
  /\ LahetaHaku
  /\ AsetaLatausIndikaattori("kyselylistaus")
  /\ UNCHANGED <<rivit, ladattuna, muistetut, toimet, tehtyja, kyselykanta>>

\* The remembered surveys are opened first; only then does a watch begin to
\* write what is open to the memory
KyselytSaapuvat ==
  /\ luettelohaku # <<>>
  /\ luettelohaku' = <<>>
  /\ \/ /\ \E kanta \in {luettelohaku[1], kyselykanta} :
             \E jarjestys \in SetToSeqs(DOMAIN kanta) :
               rivit' = [i \in 1 .. Len(jarjestys) |-> Rivi(kanta, jarjestys[i])]
        /\ ladattuna' = TRUE
        /\ muistetut' = Avoimet(rivit')
        /\ PyyntoOnnistui("kyselylistaus")
     \/ /\ PyyntoEpaonnistui("kyselylistaus")
        /\ UNCHANGED <<rivit, ladattuna, muistetut>>
  /\ UNCHANGED <<hakuja, toimet, tehtyja, kyselykanta, historia>>

\* close-others: opening a survey closes the others of the list
AvaaTaiSulje(k) ==
  LET auki == ~rivit[RivinIndeksi(k)].open
  IN  /\ rivit' = [i \in DOMAIN rivit |->
                     [rivit[i] EXCEPT !.open = auki /\ rivit[i].kyselyid = k]]
      /\ muistetut' = Avoimet(rivit')
      /\ UNCHANGED <<ladattuna, luettelohaku, hakuja, toimet, tehtyja, kyselykanta, historia,
                     lataus, virheessa>>

\* The user goes to another page and comes back: a new scope, a new indicator.
\* (Answers to requests of the earlier visit would find nothing to change.)
KayMuualla ==
  /\ ladattuna /\ toimet = {} /\ luettelohaku = <<>>
  /\ rivit' = <<>>
  /\ ladattuna' = FALSE
  /\ LahetaHaku
  /\ virheessa' = virheessa \ {"kyselylistaus"}
  /\ lataus' = [lataus EXCEPT !["kyselylistaus"] = [valmis |-> FALSE, ok |-> FALSE]]
  /\ UNCHANGED <<muistetut, toimet, tehtyja, kyselykanta>>

-----------------------------------------------------------------------------
(* Requests: the button, the confirmation and the call are one step        *)

Pyyda(toimi, k, kerta) ==
  /\ tehtyja < MaxToimia
  /\ tehtyja' = tehtyja + 1
  /\ toimet' = toimet \cup {[nro |-> tehtyja, toimi |-> toimi, kysely |-> k, kerta |-> kerta,
                             indeksi |-> RivinIndeksi(k), rivi |-> rivit[RivinIndeksi(k)].haku,
                             tehty |-> FALSE, vastaus |-> <<>>]}
  /\ historia' = [historia EXCEPT
                    !.limittain = @ \cup {p.kysely : p \in {q \in toimet : q.kysely = k}},
                    !.haussa = @ \/ luettelohaku # <<>>]
  /\ UNCHANGED <<rivit, ladattuna, luettelohaku, hakuja, muistetut, kyselykanta,
                 lataus, virheessa>>

JulkaiseKysely(k) == /\ rivit[RivinIndeksi(k)].tila = "luonnos"
                     /\ Pyyda("julkaise", k, k)
PoistaKysely(k) == /\ rivit[RivinIndeksi(k)].poistettavissa
                   /\ Pyyda("poistaKysely", k, k)
SuljeKysely(k) == /\ rivit[RivinIndeksi(k)].tila = "julkaistu"
                  /\ Pyyda("sulje", k, k)
PalautaLuonnokseksi(k) == /\ rivit[RivinIndeksi(k)].tila = "julkaistu"
                          /\ rivit[RivinIndeksi(k)].eiKertoja
                          /\ Pyyda("palautaLuonnokseksi", k, k)
PoistaKyselykerta(k, c) == /\ rivit[RivinIndeksi(k)].tila # "luonnos"
                           /\ c \in rivit[RivinIndeksi(k)].poistettavat
                           /\ Pyyda("poistaKerta", k, c)
LukitseKyselykerta(k, c) == /\ rivit[RivinIndeksi(k)].tila = "julkaistu"
                            /\ c \notin rivit[RivinIndeksi(k)].lukitut
                            /\ Pyyda("lukitse", k, c)
AvaaKyselykerta(k, c) == /\ rivit[RivinIndeksi(k)].tila = "julkaistu"
                         /\ c \in rivit[RivinIndeksi(k)].lukitut
                         /\ Pyyda("avaa", k, c)

Tilatoimet == {"julkaise", "sulje", "palautaLuonnokseksi"}
Kertatoimet == {"poistaKerta", "lukitse", "avaa"}

\* Only a published survey goes back to a draft
UusiTila(toimi, tila) ==
  CASE toimi = "julkaise" -> "julkaistu"
    [] toimi = "sulje" -> "suljettu"
    [] toimi = "palautaLuonnokseksi" /\ tila = "julkaistu" -> "luonnos"
    [] OTHER -> tila

\* What a request makes of its survey, when the survey stays
KyselyMuutettu(u, p) ==
  CASE p.toimi = "poistaKerta" -> [u EXCEPT !.kerrat = @ \ {p.kerta}]
    [] p.toimi = "lukitse" -> [u EXCEPT !.lukitut = @ \cup {p.kerta}]
    [] p.toimi = "avaa" -> [u EXCEPT !.lukitut = @ \ {p.kerta}]
    [] OTHER -> [u EXCEPT !.tila = UusiTila(p.toimi, @)]

\* Rights and checks: a round goes while nobody has answered in it, locks change
\* in a published survey, and only a survey without rounds goes back to a draft
ToimiSallittu(u, p) ==
  /\ p.toimi \in Kertatoimet => p.kerta \in u.kerrat
  /\ p.toimi = "poistaKerta" => p.kerta \notin u.vastatut
  /\ p.toimi \in {"lukitse", "avaa"} => u.tila = "julkaistu"
  /\ p.toimi = "palautaLuonnokseksi" => u.kerrat = {}
  /\ p.toimi = "poistaKysely" => KyselyPoistettavissa(u)

\* The server carries out a request for what it still has; a deleted survey
\* takes its rounds with it, a changed one is the answer
PalvelinTekee(p) ==
  /\ ~p.tehty
  /\ p.kysely \in DOMAIN kyselykanta
  /\ LET u == kyselykanta[p.kysely]
     IN  /\ ToimiSallittu(u, p)
         /\ kyselykanta' =
              IF p.toimi = "poistaKysely"
              THEN [k \in DOMAIN kyselykanta \ {p.kysely} |-> kyselykanta[k]]
              ELSE [kyselykanta EXCEPT ![p.kysely] = KyselyMuutettu(u, p)]
         /\ toimet' = (toimet \ {p}) \cup
                       {[p EXCEPT !.tehty = TRUE, !.vastaus = <<HaeKysely(KyselyMuutettu(u, p))>>]}
  /\ UNCHANGED <<rivit, ladattuna, luettelohaku, hakuja, muistetut, tehtyja, historia,
                 lataus, virheessa>>

\* A respondent's answer is saved; it may have been on its way when the survey
\* was closed or the round locked
VastausTallentuu(k, c) ==
  /\ k \in DOMAIN kyselykanta
  /\ kyselykanta[k].tila # "luonnos" /\ c \in kyselykanta[k].kerrat
  /\ kyselykanta' = [kyselykanta EXCEPT ![k].vastatut = @ \cup {c}]
  /\ UNCHANGED <<rivit, ladattuna, luettelohaku, hakuja, muistetut, toimet, tehtyja, historia,
                 lataus, virheessa>>

\* mutant: the place of the row's survey instead of the id of the round
KerratPoistetaanRivilta(rs, p) ==
  [i \in DOMAIN rs |-> IF i = p.indeksi THEN [rs[i] EXCEPT !.kerrat = @ \ {p.kerta}] ELSE rs[i]]

\* A round goes by its id from whichever row has it
KertaPoistetaan(rs, p) == [i \in DOMAIN rs |-> [rs[i] EXCEPT !.kerrat = @ \ {p.kerta}]]

\* A survey goes by the place it had when its deletion was confirmed
KyselyPoistetaan(rs, p) ==
  IF p.indeksi \in DOMAIN rs THEN RemoveAt(rs, p.indeksi) ELSE rs

\* Everything else is copied onto the row object the button was on
RivilleSijoitetaan(rs, p) ==
  [i \in DOMAIN rs |->
     IF rs[i].kyselyid # p.kysely \/ rs[i].haku # p.rivi THEN rs[i]
     ELSE CASE p.toimi = "lukitse" -> [rs[i] EXCEPT !.lukitut = @ \cup ({p.kerta} \cap rs[i].kerrat)]
            [] p.toimi = "avaa" -> [rs[i] EXCEPT !.lukitut = @ \ {p.kerta}]
            [] OTHER -> [rs[i] EXCEPT !.tila = p.vastaus[1].tila,
                                      !.poistettavissa = p.vastaus[1].poistettavissa]]

ToimiOnnistui(p) ==
  /\ p.tehty
  /\ toimet' = toimet \ {p}
  /\ rivit' = CASE p.toimi = "poistaKysely" -> KyselyPoistetaan(rivit, p)
                [] p.toimi = "poistaKerta" -> KertaPoistetaan(rivit, p)
                [] OTHER -> RivilleSijoitetaan(rivit, p)
  /\ muistetut' = Avoimet(rivit')
  /\ UNCHANGED <<ladattuna, luettelohaku, hakuja, tehtyja, kyselykanta, historia, lataus,
                 virheessa>>

\* Refused, or the connection broke
ToimiEpaonnistui(p) ==
  /\ toimet' = toimet \ {p}
  /\ historia' = [historia EXCEPT !.katkos = @ \/ p.tehty]
  /\ UNCHANGED <<rivit, ladattuna, luettelohaku, hakuja, muistetut, tehtyja, kyselykanta,
                 lataus, virheessa>>

KyselyluetteloNext ==
  \/ HaeKyselyt \/ KyselytSaapuvat \/ KayMuualla
  \/ \E k \in DOMAIN Luettelokyselyt :
       /\ Nakyy(k)
       /\ \/ AvaaTaiSulje(k)
          \/ JulkaiseKysely(k) \/ PoistaKysely(k) \/ SuljeKysely(k)
          \/ PalautaLuonnokseksi(k)
          \/ \E c \in rivit[RivinIndeksi(k)].kerrat :
               PoistaKyselykerta(k, c) \/ LukitseKyselykerta(k, c) \/ AvaaKyselykerta(k, c)
  \/ \E p \in toimet : PalvelinTekee(p) \/ ToimiOnnistui(p) \/ ToimiEpaonnistui(p)
  \/ \E k \in DOMAIN Luettelokyselyt, c \in UNION Range(Luettelokyselyt) : VastausTallentuu(k, c)

-----------------------------------------------------------------------------
(* Properties                                                              *)

\* What is shown of a survey's state is the server's; the button that deletes
\* it is there whenever the server would delete it, and answers are the only
\* reason for which the server may refuse
Ajantasalla(nakyva, u) ==
  /\ nakyva.tila = u.tila
  /\ KyselyPoistettavissa(u) => nakyva.poistettavissa
  /\ nakyva.poistettavissa => KyselyPoistettavissa(u) \/ u.vastatut # {}

\* When every request has been answered, each row still shown has the rounds
\* the server has, though rows may have moved or gone between a request and its
\* answer; and its state, locks and delete button are up to date with the
\* server, unless two requests about the survey were in flight together
\* (kyselylista.js:23-107).  The page does not see to lost answers, nor to a
\* reload that overtakes a request.
RivitKannasta ==
  (toimet = {} /\ ~historia.katkos /\ ~historia.haussa) =>
    \A i \in DOMAIN rivit : rivit[i].kyselyid \in DOMAIN kyselykanta =>
      LET k == rivit[i].kyselyid IN
      /\ rivit[i].kerrat = kyselykanta[k].kerrat
      /\ k \notin historia.limittain =>
           /\ Ajantasalla(rivit[i], kyselykanta[k])
           /\ rivit[i].lukitut \cap rivit[i].kerrat = kyselykanta[k].lukitut \cap rivit[i].kerrat
=============================================================================
