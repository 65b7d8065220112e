--------------------------- MODULE Latausseuranta ---------------------------
(***************************************************************************)
(* The progress indicators of the administration pages: the seuranta       *)
(* service, which keeps one record per kind of request, and the            *)
(* lataus-indikaattori directives that watch it.  The pages call the three *)
(* operators below from their own actions: a call of the service, its      *)
(* callbacks and the digest that follows are one step of the browser.      *)
(***************************************************************************)
EXTENDS Naturals, FiniteSets

VARIABLES
  lataus,       \* metodi-id -> how its last request stands
  virheessa     \* the indicators that have shown an error (scope.virhe)

seurannanMuuttujat == <<lataus, virheessa>>

\* The report page has a tab for each kind of report
Valilehdet == {"vertailu", "kehitys", "koulutustoimijat", "kyselykerta", "kysely"}

\* An indicator is named for the place it is in: the survey list, the survey
\* form, a tab of the report page
Ilmaisimet == {"kyselylistaus", "kyselynTallennus"} \cup Valilehdet

\* The five indicators of the report page follow the same requests
MetodiId(i) == IF i \in Valilehdet THEN "raportinMuodostus" ELSE i

MetodiIdt == {MetodiId(i) : i \in Ilmaisimet}

SeurantaInit ==
  /\ lataus = [id \in MetodiIdt |-> [valmis |-> TRUE, ok |-> TRUE]]
  /\ virheessa = {}

\* A request is sent
AsetaLatausIndikaattori(id) ==
  /\ lataus' = [lataus EXCEPT ![id] = [valmis |-> FALSE, ok |-> FALSE]]
  /\ UNCHANGED virheessa

\* Whichever request of the kind is answered, it is the record of the last
\* one that is marked
PyyntoOnnistui(id) ==
  /\ lataus' = [lataus EXCEPT ![id] = [valmis |-> TRUE, ok |-> TRUE]]
  /\ UNCHANGED virheessa

\* mutant: a failed request is left unfinished
PyyntoJaaKesken(id) ==
  /\ lataus' = [lataus EXCEPT ![id] = [valmis |-> FALSE, ok |-> FALSE]]
  /\ \E i \in Ilmaisimet : MetodiId(i) = id /\ virheessa' = virheessa \cup {i}

\* The indicator whose watch runs first takes the error (kuittaaVirhe) and
\* keeps it for good; the others of the same id see nothing
PyyntoEpaonnistui(id) ==
  /\ lataus' = [lataus EXCEPT ![id] = [valmis |-> TRUE, ok |-> TRUE]]
  /\ \E i \in Ilmaisimet :
       /\ MetodiId(i) = id
       /\ virheessa' = virheessa \cup {i}

\* mutant: the button is there also while a request is in flight
NayttaaAina(i) == i \notin virheessa

\* What the template of an indicator shows: its content (the button that
\* sends the request), or the error with a button to try again, or neither
NayttaaSisallon(i) == lataus[MetodiId(i)].valmis /\ i \notin virheessa
NayttaaVirheen(i) == lataus[MetodiId(i)].valmis /\ i \in virheessa
=============================================================================
