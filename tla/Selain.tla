------------------------------- MODULE Selain -------------------------------
(***************************************************************************)
(* The browser: a user on one page of aipal, or a respondent on the page   *)
(* of a round.  Each page has its own scope, built anew when it is opened  *)
(* and dropped when it is left, and its own requests; what pages share is  *)
(* the server, and the services seuranta and kayttooikeudet.  So a         *)
(* behaviour here is one visit to one page (the list pages also come       *)
(* back), with the rest at rest.  The report page is composed in its own   *)
(* module.                                                                 *)
(***************************************************************************)
EXTENDS Tiedote, Ohje, Kyselyluettelo, Ryhmaluettelo, Kyselylomake, Kyselypohjalomake,
        Kysymysryhmalomake, Kyselykertasivu, Vastauslomake, Istunto

CONSTANT Sivut       \* the pages a behaviour may be on

VARIABLE sivu        \* the page the user is on

KaikkiSivut ==
  {"tiedote", "ohje", "kyselyt", "luettelot", "kysely", "kyselypohja", "kysymysryhma",
   "kyselykerta", "vastaus", "istunto"}

ASSUME SelainOletus == Sivut \subseteq KaikkiSivut

muuttujat ==
  <<sivu, tiedotteenMuuttujat, ohjeenMuuttujat, seurannanMuuttujat, luettelonMuuttujat,
    ryhmaluettelonMuuttujat, lomakkeenMuuttujat, pohjanMuuttujat, ryhmanMuuttujat,
    kyselykerranMuuttujat, vastauslomakkeenMuuttujat, istunnonMuuttujat>>

\* The survey list asks for its rows when it is opened
IlmaisimetInit ==
  /\ lataus = [id \in MetodiIdt |->
       LET haussa == sivu = "kyselyt" /\ id = "kyselylistaus"
       IN  [valmis |-> ~haussa, ok |-> ~haussa]]
  /\ virheessa = {}

\* What a page may be opened for is chosen only for the page that is open
Avattu ==
  /\ sivu # "kyselyt" => kyselykanta = Kanta0(CHOOSE tilat \in Alkutilat : TRUE)
  /\ sivu # "luettelot" => luettelo = "kysymysryhmat"
  /\ sivu # "kysely" => tapa = CHOOSE t \in Lomaketavat : TRUE
  /\ sivu # "kyselypohja" => pohjaUusi
  /\ sivu # "kysymysryhma" => ryhmatapa = CHOOSE t \in Ryhmatavat : TRUE
  /\ sivu # "kyselykerta" => kierros = CHOOSE k \in Kerrat : TRUE
  /\ sivu # "vastaus" => lomake = CHOOSE l \in Lomakkeet : TRUE

Init ==
  /\ sivu \in Sivut
  /\ TiedoteInit /\ OhjeInit /\ IlmaisimetInit /\ KyselyluetteloInit /\ RyhmaluetteloInit
  /\ KyselylomakeInit /\ KyselypohjalomakeInit /\ KysymysryhmalomakeInit
  /\ KyselykertasivuInit /\ VastauslomakeInit /\ IstuntoInit
  /\ Avattu

\* What the pages other than s keep
Levossa(s) ==
  /\ sivu = s /\ UNCHANGED sivu
  /\ IF s = "tiedote" THEN TRUE ELSE UNCHANGED tiedotteenMuuttujat
  /\ IF s = "ohje" THEN TRUE ELSE UNCHANGED ohjeenMuuttujat
  /\ IF s \in {"kyselyt", "kysely"} THEN TRUE ELSE UNCHANGED seurannanMuuttujat
  /\ IF s = "kyselyt" THEN TRUE ELSE UNCHANGED luettelonMuuttujat
  /\ IF s = "luettelot" THEN TRUE ELSE UNCHANGED ryhmaluettelonMuuttujat
  /\ IF s = "kysely" THEN TRUE ELSE UNCHANGED lomakkeenMuuttujat
  /\ IF s = "kyselypohja" THEN TRUE ELSE UNCHANGED pohjanMuuttujat
  /\ IF s = "kysymysryhma" THEN TRUE ELSE UNCHANGED ryhmanMuuttujat
  /\ IF s = "kyselykerta" THEN TRUE ELSE UNCHANGED kyselykerranMuuttujat
  /\ IF s = "vastaus" THEN TRUE ELSE UNCHANGED vastauslomakkeenMuuttujat
  /\ IF s = "istunto" THEN TRUE ELSE UNCHANGED istunnonMuuttujat

Next ==
  \/ sivu = "tiedote" /\ TiedoteNext /\ Levossa("tiedote")
  \/ sivu = "ohje" /\ OhjeNext /\ Levossa("ohje")
  \/ sivu = "kyselyt" /\ KyselyluetteloNext /\ Levossa("kyselyt")
  \/ sivu = "luettelot" /\ RyhmaluetteloNext /\ Levossa("luettelot")
  \/ sivu = "kysely" /\ KyselylomakeNext /\ Levossa("kysely")
  \/ sivu = "kyselypohja" /\ KyselypohjalomakeNext /\ Levossa("kyselypohja")
  \/ sivu = "kysymysryhma" /\ KysymysryhmalomakeNext /\ Levossa("kysymysryhma")
  \/ sivu = "kyselykerta" /\ KyselykertasivuNext /\ Levossa("kyselykerta")
  \/ sivu = "vastaus" /\ VastauslomakeNext /\ Levossa("vastaus")
  \/ sivu = "istunto" /\ IstuntoNext /\ Levossa("istunto")

Spec == Init /\ [][Next]_muuttujat
=============================================================================
