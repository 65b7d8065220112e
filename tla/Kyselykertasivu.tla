-------------------------- MODULE Kyselykertasivu --------------------------
(***************************************************************************)
(* The page of a survey round: its form, the list of its codes, and the    *)
(* dialog that makes more codes.  The survey, the round and the codes come *)
(* from the server in any order; requests about codes are answered in any  *)
(* order; respondents answer meanwhile.                                    *)
(***************************************************************************)
EXTENDS Integers, FiniteSets, Poiminta

CONSTANTS
  Kerrat,            \* rounds the page may be opened for: [uusi, kaytettavissa,
                     \*   lukittu : BOOLEAN, alkupvm : day, loppupvm : day or EiMitaan]
  Tanaan,            \* today, a day
  Tunnukset,         \* the codes of the round, a sequence
  UudetTunnukset,    \* batches of codes the server may make when asked, sequences
  Koulut,            \* organiser -> its schools
  OmaToimija,        \* the user's own organiser
  MaxVastaajia,      \* bound: respondents of a code
  MaxKertatoimia,    \* bound: requests and choices of the user
  EiMitaan           \* undefined or null

\* A code (vastaajatunnusid) on the server, and as a row of the page
Koodisto == ToSet(Tunnukset) \cup UNION {ToSet(era) : era \in UudetTunnukset}
Koodityyppi == [lkm : Nat, vastauksia : Nat, lukittu : BOOLEAN]
Tunnusrivityyppi == [id : Koodisto, olio : {"haettu", "luotu"}, lkm : Nat, vastauksia : Nat,
                     lukittu : BOOLEAN]

\* vastaajatunnusid is a primary key: no code is twice in a batch.  What is
\* undefined is no code, list or answer.
ASSUME KyselykertasivuOletus ==
  /\ MaxVastaajia \in Nat \ {0} /\ MaxKertatoimia \in Nat
  /\ \A k \in Kerrat : {k.uusi, k.kaytettavissa, k.lukittu} \subseteq BOOLEAN
  /\ Tunnukset \in Seq(Koodisto)
  /\ \A era \in UudetTunnukset :
       era \in Seq(Koodisto) /\ \A i, j \in DOMAIN era : i # j => era[i] # era[j]
  /\ EiMitaan \notin Koodityyppi /\ EiMitaan \notin Seq(Tunnusrivityyppi)

VARIABLES
  kierros,         \* what the server has of the survey and the round
  kyselyTullut, kertaTullut,   \* $scope.kysely and $scope.kyselykerta are there
  muokkaus,        \* muokkaustila
  rivilista,       \* $scope.tunnukset, or EiMitaan
  tunnushaku,      \* the GET of the codes: the codes when it was sent, or EiMitaan
  koodikanta,      \* code -> [lkm, vastauksia, lukittu] on the server
  koodipyynnot,    \* requests about codes, unanswered
  kerranLahetykset,\* saves of the round, unanswered
  muutettu,        \* the form differs from what was loaded or last saved ($dirty)
  dialogi,         \* the open dialog, or EiMitaan
  kouluhaut,       \* requests for the schools of an organiser
  kertasivulla,    \* the user is on the page
  kertatoimia,     \* how much the user has done
  kulku            \* what the properties speak of: limittain (codes with two
                   \* requests in flight together), haussa (a request while the
                   \* codes were fetched), katkos (an answer lost), ohitus (schools
                   \* answered out of order), annetut (the codes there have ever been)

kyselykerranMuuttujat ==
  <<kierros, kyselyTullut, kertaTullut, muokkaus, rivilista, tunnushaku, koodikanta,
    koodipyynnot, kerranLahetykset, muutettu, dialogi, kouluhaut, kertasivulla, kertatoimia, kulku>>

Koodi(lkm) == [lkm |-> lkm, vastauksia |-> 0, lukittu |-> FALSE]
Tunnusrivi(id, olio, k) == [id |-> id, olio |-> olio, lkm |-> k.lkm, vastauksia |-> k.vastauksia,
                      lukittu |-> k.lukittu]

KyselykertasivuInit ==
  /\ kierros \in Kerrat
  /\ kyselyTullut = FALSE /\ kertaTullut = kierros.uusi
  /\ muokkaus = TRUE
  /\ koodikanta = [id \in IF kierros.uusi THEN {} ELSE ToSet(Tunnukset) |-> Koodi(MaxVastaajia)]
  /\ rivilista = IF kierros.uusi THEN <<>> ELSE EiMitaan
  /\ tunnushaku = IF kierros.uusi THEN EiMitaan ELSE koodikanta
  /\ koodipyynnot = {} /\ kerranLahetykset = {}
  /\ muutettu = FALSE
  /\ dialogi = EiMitaan /\ kouluhaut = {}
  /\ kertasivulla = TRUE
  /\ kertatoimia = 0
  /\ kulku = [limittain |-> {}, haussa |-> FALSE, katkos |-> FALSE, ohitus |-> FALSE,
              annetut |-> DOMAIN koodikanta]

-----------------------------------------------------------------------------
(* Loading                                                                 *)

\* mutant: the last answer decides alone
MuokkausViimeisesta(sallittu) == sallittu

\* Either answer may take editing away, neither gives it back
MuokkausSaapuessa(sallittu) == muokkaus /\ sallittu

\* Without its survey or its round the page is left
Saapuu(sallittu) ==
  /\ \/ muokkaus' = MuokkausSaapuessa(sallittu) /\ UNCHANGED kertasivulla
     \/ kertasivulla' = FALSE /\ UNCHANGED muokkaus
  /\ UNCHANGED <<kierros, rivilista, tunnushaku, koodikanta, koodipyynnot, kerranLahetykset,
                 muutettu, dialogi, kouluhaut, kertatoimia, kulku>>

KyselySaapui ==
  /\ ~kyselyTullut /\ Saapuu(kierros.kaytettavissa)
  /\ kyselyTullut' = TRUE /\ UNCHANGED kertaTullut
KertaSaapui ==
  /\ ~kertaTullut /\ Saapuu(~kierros.lukittu)
  /\ kertaTullut' = TRUE /\ UNCHANGED kyselyTullut

\* The server reads the codes at some time between the request and the answer
TunnuksetSaapuvat ==
  /\ tunnushaku # EiMitaan /\ tunnushaku' = EiMitaan
  /\ \/ \E kanta \in {tunnushaku, koodikanta} : \E jarjestys \in SetToSeqs(DOMAIN kanta) :
          rivilista' = [i \in DOMAIN jarjestys |->
                          Tunnusrivi(jarjestys[i], "haettu", kanta[jarjestys[i]])]
     \/ UNCHANGED rivilista
  /\ UNCHANGED <<kierros, kyselyTullut, kertaTullut, muokkaus, koodikanta, koodipyynnot,
                 kerranLahetykset, muutettu, dialogi, kouluhaut, kertasivulla, kertatoimia, kulku>>

-----------------------------------------------------------------------------
(* The form of the round.  Its button is not disabled while a save is in   *)
(* flight, and its success takes the form for saved whatever it now holds. *)

Kertatoimi == kertatoimia < MaxKertatoimia /\ kertatoimia' = kertatoimia + 1
Nakyvissa == kyselyTullut /\ kertaTullut /\ dialogi = EiMitaan

MuutaKertaa ==
  /\ Nakyvissa /\ muokkaus /\ ~muutettu /\ muutettu' = TRUE
  /\ UNCHANGED <<kierros, kyselyTullut, kertaTullut, muokkaus, rivilista, tunnushaku, koodikanta,
                 koodipyynnot, kerranLahetykset, dialogi, kouluhaut, kertasivulla, kertatoimia, kulku>>

TallennaKerta ==
  /\ Nakyvissa /\ muokkaus /\ Kertatoimi
  /\ kerranLahetykset' = kerranLahetykset \cup {kertatoimia}
  /\ UNCHANGED <<kierros, kyselyTullut, kertaTullut, muokkaus, rivilista, tunnushaku, koodikanta,
                 koodipyynnot, muutettu, dialogi, kouluhaut, kertasivulla, kulku>>

\* A new round goes on to its own page
KertaTallennettu(n) ==
  /\ kerranLahetykset' = kerranLahetykset \ {n}
  /\ \/ muutettu' = FALSE /\ kertasivulla' = (kertasivulla /\ ~kierros.uusi)
     \/ UNCHANGED <<muutettu, kertasivulla>>
  /\ UNCHANGED <<kierros, kyselyTullut, kertaTullut, muokkaus, rivilista, tunnushaku, koodikanta,
                 koodipyynnot, dialogi, kouluhaut, kertatoimia, kulku>>

-----------------------------------------------------------------------------
(* Requests about codes                                                    *)

PyydaTunnuksesta(toimi, r, arvo) ==
  /\ Kertatoimi
  /\ koodipyynnot' = koodipyynnot \cup
       {[nro |-> kertatoimia, toimi |-> toimi, id |-> r.id, olio |-> r.olio, arvo |-> arvo,
         vastaus |-> EiMitaan, tunnukset |-> <<>>]}
  /\ kulku' = [kulku EXCEPT !.limittain = @ \cup {p.id : p \in {q \in koodipyynnot : q.id = r.id}},
                            !.haussa = @ \/ tunnushaku # EiMitaan]
  /\ UNCHANGED <<kierros, kyselyTullut, kertaTullut, muokkaus, rivilista, tunnushaku, koodikanta,
                 kerranLahetykset, muutettu, kertasivulla>>

MuokkaaVastaajienMaaraa(r) ==
  \E n \in 1 .. MaxVastaajia : n >= r.vastauksia /\ PyydaTunnuksesta("maara", r, n)
PoistaTunnus(r) == r.lkm > r.vastauksia /\ r.vastauksia = 0 /\ PyydaTunnuksesta("poista", r, 0)
LukitseTunnus(r) ==
  /\ r.lkm > r.vastauksia /\ muokkaus
  /\ PyydaTunnuksesta(IF r.lukittu THEN "avaa" ELSE "lukitse", r, 0)

TunnuksenToimi ==
  /\ Nakyvissa /\ rivilista # EiMitaan
  /\ \E i \in DOMAIN rivilista :
       \/ MuokkaaVastaajienMaaraa(rivilista[i])
       \/ PoistaTunnus(rivilista[i])
       \/ LukitseTunnus(rivilista[i])
  /\ UNCHANGED <<dialogi, kouluhaut>>

\* A respondent answers with a code
VastaajaVastaa(id) ==
  /\ koodikanta[id].vastauksia < koodikanta[id].lkm
  /\ koodikanta' = [koodikanta EXCEPT ![id].vastauksia = @ + 1]
  /\ UNCHANGED <<kierros, kyselyTullut, kertaTullut, muokkaus, rivilista, tunnushaku,
                 koodipyynnot, kerranLahetykset, muutettu, dialogi, kouluhaut, kertasivulla,
                 kertatoimia, kulku>>

\* The codes made have ids no code has had
PalvelinLuo(p, era) ==
  /\ p.toimi = "luo" /\ p.vastaus = EiMitaan
  /\ ToSet(era) \cap kulku.annetut = {}
  /\ koodikanta' = [id \in DOMAIN koodikanta \cup ToSet(era) |->
                      IF id \in ToSet(era) THEN Koodi(p.arvo) ELSE koodikanta[id]]
  /\ koodipyynnot' = (koodipyynnot \ {p}) \cup {[p EXCEPT !.vastaus = Koodi(p.arvo), !.tunnukset = era]}
  /\ kulku' = [kulku EXCEPT !.annetut = @ \cup ToSet(era)]
  /\ UNCHANGED <<kierros, kyselyTullut, kertaTullut, muokkaus, rivilista, tunnushaku,
                 kerranLahetykset, muutettu, dialogi, kouluhaut, kertasivulla, kertatoimia>>

\* A locked or unlocked code is answered with the whole code as it then is
PalvelinVastaa(p) ==
  /\ p.toimi # "luo" /\ p.vastaus = EiMitaan
  /\ p.id \in DOMAIN koodikanta
  /\ p.toimi = "poista" => koodikanta[p.id].vastauksia = 0
  /\ p.toimi = "maara" => p.arvo >= koodikanta[p.id].vastauksia
  /\ koodikanta' =
       CASE p.toimi = "poista" -> [id \in DOMAIN koodikanta \ {p.id} |-> koodikanta[id]]
         [] p.toimi = "maara" -> [koodikanta EXCEPT ![p.id].lkm = p.arvo]
         [] OTHER -> [koodikanta EXCEPT ![p.id].lukittu = (p.toimi = "lukitse")]
  /\ koodipyynnot' = (koodipyynnot \ {p}) \cup
       {[p EXCEPT !.vastaus = IF p.toimi \in {"lukitse", "avaa"} THEN koodikanta'[p.id]
                              ELSE Koodi(p.arvo)]}
  /\ UNCHANGED <<kierros, kyselyTullut, kertaTullut, muokkaus, rivilista, tunnushaku,
                 kerranLahetykset, muutettu, dialogi, kouluhaut, kertasivulla, kertatoimia, kulku>>

\* The codes made come first, the last of them at the top; when the codes have
\* not been loaded the callback fails
UudetRivit(rs, era) ==
  IF rs = EiMitaan THEN rs
  ELSE [i \in DOMAIN era |-> Tunnusrivi(Reverse(era)[i], "luotu", Koodi(1))] \o rs

\* mutant: one row is taken away, from the place the code had
PoistaEnsimmainen(rs, p) == IF rs = <<>> THEN rs ELSE Tail(rs)

PoistaRivit(rs, p) == Poimi(rs, LAMBDA r : r.id # p.id)

\* Onto the row the button was on
RivilleVastaus(r, p) ==
  IF r.id # p.id \/ r.olio # p.olio THEN r
  ELSE IF p.toimi = "maara" THEN [r EXCEPT !.lkm = p.arvo]
  ELSE Tunnusrivi(r.id, r.olio, p.vastaus)

PyyntoValmis(p) ==
  /\ p.vastaus # EiMitaan
  /\ koodipyynnot' = koodipyynnot \ {p}
  /\ rivilista' = CASE p.toimi = "luo" -> UudetRivit(rivilista, p.tunnukset)
                    [] p.toimi = "poista" -> PoistaRivit(rivilista, p)
                    [] OTHER -> [i \in DOMAIN rivilista |-> RivilleVastaus(rivilista[i], p)]
  /\ UNCHANGED <<kierros, kyselyTullut, kertaTullut, muokkaus, tunnushaku, koodikanta,
                 kerranLahetykset, muutettu, dialogi, kouluhaut, kertasivulla, kertatoimia, kulku>>

PyyntoKatkeaa(p) ==
  /\ koodipyynnot' = koodipyynnot \ {p}
  /\ kulku' = [kulku EXCEPT !.katkos = @ \/ p.vastaus # EiMitaan]
  /\ UNCHANGED <<kierros, kyselyTullut, kertaTullut, muokkaus, rivilista, tunnushaku, koodikanta,
                 kerranLahetykset, muutettu, dialogi, kouluhaut, kertasivulla, kertatoimia>>

-----------------------------------------------------------------------------
(* The dialog that makes codes                                             *)

Menneisyydessa(k) == k.loppupvm # EiMitaan /\ k.loppupvm < Tanaan

Oletusalkupvm(k) ==
  IF k.alkupvm > Tanaan THEN k.alkupvm
  ELSE IF Menneisyydessa(k) THEN k.loppupvm ELSE Tanaan

\* The schools of the user's organiser are asked for twice: at once, and by the
\* first run of the watch
LuoTunnuksiaDialogi ==
  /\ Nakyvissa /\ muokkaus /\ ~kierros.uusi
  /\ Kertatoimi
  /\ dialogi' = [jarjestaja |-> OmaToimija, oppilaitos |-> EiMitaan, oppilaitokset |-> {},
                 oletusalkupvm |-> Oletusalkupvm(kierros),
                 menneisyydessa |-> Menneisyydessa(kierros)]
  /\ kouluhaut' = {[nro |-> n, jarjestaja |-> OmaToimija] : n \in {-1, 0}}
  /\ kulku' = [kulku EXCEPT !.ohitus = FALSE]
  /\ UNCHANGED <<kierros, kyselyTullut, kertaTullut, muokkaus, rivilista, tunnushaku, koodikanta,
                 koodipyynnot, kerranLahetykset, muutettu, kertasivulla>>

Dialogissa ==
  /\ dialogi # EiMitaan
  /\ UNCHANGED <<kierros, kyselyTullut, kertaTullut, muokkaus, rivilista, tunnushaku, koodikanta,
                 kerranLahetykset, muutettu, kertasivulla>>

ValitseJarjestaja(j) ==
  /\ Dialogissa /\ j # dialogi.jarjestaja /\ Kertatoimi
  /\ dialogi' = [dialogi EXCEPT !.jarjestaja = j]
  /\ kouluhaut' = kouluhaut \cup {[nro |-> kertatoimia, jarjestaja |-> j]}
  /\ UNCHANGED <<koodipyynnot, kulku>>

ValitseOppilaitos(o) ==
  /\ Dialogissa /\ o # dialogi.oppilaitos /\ Kertatoimi
  /\ dialogi' = [dialogi EXCEPT !.oppilaitos = o]
  /\ UNCHANGED <<koodipyynnot, kouluhaut, kulku>>

\* mutant: a school chosen before stays chosen
OppilaitosSailyy(koulut, valittu) ==
  IF Cardinality(koulut) = 1 THEN CHOOSE o \in koulut : TRUE ELSE valittu

\* The only school of an organiser is chosen for the user
ValittuOppilaitos(koulut, valittu) ==
  IF Cardinality(koulut) = 1 THEN CHOOSE o \in koulut : TRUE ELSE EiMitaan

\* Whichever answer comes last is what the dialog shows
OppilaitoksetTulivat(h) ==
  /\ Dialogissa
  /\ kouluhaut' = kouluhaut \ {h}
  /\ \/ /\ dialogi' = [dialogi EXCEPT
                         !.oppilaitokset = Koulut[h.jarjestaja],
                         !.oppilaitos = ValittuOppilaitos(Koulut[h.jarjestaja], @)]
        /\ kulku' = [kulku EXCEPT !.ohitus = @ \/ \E g \in kouluhaut : g.nro < h.nro]
     \/ UNCHANGED dialogi /\ kulku' = [kulku EXCEPT !.ohitus = TRUE]
  /\ UNCHANGED <<koodipyynnot, kertatoimia>>

LuoTunnuksia ==
  /\ Dialogissa /\ ~dialogi.menneisyydessa /\ Kertatoimi
  /\ dialogi' = EiMitaan /\ kouluhaut' = {}
  /\ koodipyynnot' = koodipyynnot \cup
       {[nro |-> kertatoimia, toimi |-> "luo", id |-> EiMitaan, olio |-> "luotu", arvo |-> 1,
         vastaus |-> EiMitaan, tunnukset |-> <<>>]}
  /\ kulku' = [kulku EXCEPT !.haussa = @ \/ tunnushaku # EiMitaan]

PeruutaDialogi ==
  /\ Dialogissa
  /\ dialogi' = EiMitaan /\ kouluhaut' = {}
  /\ UNCHANGED <<koodipyynnot, kertatoimia, kulku>>

KyselykertasivuNext ==
  \/ /\ kertasivulla
     /\ \/ KyselySaapui \/ KertaSaapui \/ TunnuksetSaapuvat
        \/ MuutaKertaa \/ TallennaKerta \/ TunnuksenToimi
        \/ LuoTunnuksiaDialogi \/ LuoTunnuksia \/ PeruutaDialogi
        \/ \E j \in DOMAIN Koulut : ValitseJarjestaja(j)
        \/ dialogi # EiMitaan /\ \E o \in dialogi.oppilaitokset : ValitseOppilaitos(o)
        \/ \E h \in kouluhaut : OppilaitoksetTulivat(h)
        \/ \E n \in kerranLahetykset : KertaTallennettu(n)
        \/ \E p \in koodipyynnot :
             \/ PalvelinVastaa(p) \/ \E era \in UudetTunnukset : PalvelinLuo(p, era)
             \/ PyyntoValmis(p) \/ PyyntoKatkeaa(p)
        \/ \E id \in DOMAIN koodikanta : VastaajaVastaa(id)

-----------------------------------------------------------------------------
(* Properties                                                              *)

\* A round that is locked, or whose survey cannot be used, is not edited,
\* whichever of the two comes first (kyselykertaui.js:40, 104-125)
MuokkausOikein ==
  kertasivulla /\ kyselyTullut /\ kertaTullut =>
    muokkaus = (kierros.kaytettavissa /\ (kierros.uusi \/ ~kierros.lukittu))

\* When the requests have been answered the list has the codes the server has,
\* each once, with their locks and numbers, unless two requests about a code
\* were in flight together; nothing guards against a lost answer or a request
\* made while the codes were being fetched (kyselykertaui.js:78-89, 116-119,
\* 171-205)
TunnuksetKannasta ==
  kertasivulla /\ koodipyynnot = {} /\ rivilista # EiMitaan /\ ~kulku.katkos /\ ~kulku.haussa =>
    /\ {rivilista[i].id : i \in DOMAIN rivilista} = DOMAIN koodikanta
    /\ Len(rivilista) = Cardinality(DOMAIN koodikanta)
    /\ \A i \in DOMAIN rivilista : rivilista[i].id \notin kulku.limittain =>
         /\ rivilista[i].lkm = koodikanta[rivilista[i].id].lkm
         /\ rivilista[i].lukittu = koodikanta[rivilista[i].id].lukittu

\* When the schools asked for have come in the order they were asked for, the
\* school chosen is a school of the organiser chosen (kyselykertaui.js:242-254)
OppilaitosJarjestajalta ==
  dialogi # EiMitaan /\ kouluhaut = {} /\ ~kulku.ohitus =>
    dialogi.oppilaitos \in Koulut[dialogi.jarjestaja] \cup {EiMitaan}
=============================================================================
