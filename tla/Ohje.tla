-------------------------------- MODULE Ohje --------------------------------
(***************************************************************************)
(* A guide that pops up beside a heading and that an administrator edits   *)
(* in place (the ohje directive), with its save button (the tallenna       *)
(* directive), which the interceptors of $http disable.  Texts are         *)
(* numbers; 0 is what the server held at first.  A GET is answered with    *)
(* the text of some moment between its sending and its answer.             *)
(***************************************************************************)
EXTENDS Naturals, FiniteSets

CONSTANTS
  MaxOhjetekstit,  \* bound: texts the user writes
  MaxOhjehaut,     \* bound: times the guide is fetched
  OhjettaEi          \* JavaScript's undefined

ASSUME OhjeOletus ==
  /\ MaxOhjetekstit \in Nat /\ MaxOhjehaut \in Nat
  /\ OhjettaEi \notin Nat

VARIABLES
  ohje,                 \* the directive's scope: shown paragraphs (ohjeteksti), the
                        \* object the text boxes edit (teksti), the GET that fills it
  ohjehaut,             \* GETs in flight
  ohjetallennukset,     \* saves in flight
  ohjepyyntoja,         \* pyynnot["ohjeen-muokkaus"].pyyntojaKaynnissa
  ohjeKanta             \* the text on the server

ohjeenMuuttujat == <<ohje, ohjehaut, ohjetallennukset, ohjepyyntoja, ohjeKanta>>

OhjeInit ==
  /\ ohje = [nayta |-> FALSE, muokkaus |-> FALSE, teksti |-> OhjettaEi, ohjeteksti |-> OhjettaEi,
             haku |-> 0, kirjoitettu |-> 0, ajan_tasalla |-> FALSE]
  /\ ohjehaut = {}
  /\ ohjetallennukset = {}
  /\ ohjepyyntoja = 0
  /\ ohjeKanta = 0

\* The interceptors of $http count the requests that have an id
ApiPyynto == ohjepyyntoja' = ohjepyyntoja + 1
ApiVastaus == ohjepyyntoja' = ohjepyyntoja - 1
\* mutant: the save button does not look at the count
TallennusAinaSallittu == FALSE

TallennusDisabloitu == ohjepyyntoja > 0

\* scope.ohje becomes an empty object that the new GET fills
HaeOhje(o, lisaksi) ==
  /\ ohje' = [o EXCEPT !.muokkaus = FALSE, !.nayta = TRUE, !.teksti = OhjettaEi,
                       !.haku = @ + 1, !.ajan_tasalla = FALSE]
  /\ ohjehaut' = lisaksi \cup {[nro |-> o.haku + 1, teksti |-> ohjeKanta']}

NaytaOhje ==
  /\ ohje.haku < MaxOhjehaut
  /\ UNCHANGED ohjeKanta
  /\ HaeOhje(ohje, ohjehaut)
  /\ UNCHANGED <<ohjetallennukset, ohjepyyntoja>>

PiilotaOhje ==
  /\ ohje.nayta
  /\ ohje' = [ohje EXCEPT !.nayta = FALSE, !.muokkaus = FALSE]
  /\ UNCHANGED <<ohjehaut, ohjetallennukset, ohjepyyntoja, ohjeKanta>>

\* muokkaa and peruutaMuokkaus: the text stays as it was typed
VaihdaMuokkaus ==
  /\ ohje.nayta
  /\ ohje' = [ohje EXCEPT !.muokkaus = ~@]
  /\ UNCHANGED <<ohjehaut, ohjetallennukset, ohjepyyntoja, ohjeKanta>>

KirjoitaOhje ==
  /\ ohje.muokkaus
  /\ ohje.kirjoitettu < MaxOhjetekstit
  /\ ohje' = [ohje EXCEPT !.kirjoitettu = @ + 1, !.teksti = ohje.kirjoitettu + 1,
                          !.ajan_tasalla = FALSE]
  /\ UNCHANGED <<ohjehaut, ohjetallennukset, ohjepyyntoja, ohjeKanta>>

\* mutant: the paragraphs are those of the answer, whichever it is
OhjeSaapuuSellaisenaan(h) ==
  /\ ohjehaut' = ohjehaut \ {h}
  /\ \/ \E teksti \in {h.teksti, ohjeKanta} :
          ohje' = IF h.nro = ohje.haku
                    THEN [ohje EXCEPT !.teksti = teksti, !.ohjeteksti = teksti,
                                      !.ajan_tasalla = TRUE]
                    ELSE [ohje EXCEPT !.ohjeteksti = teksti]
     \/ UNCHANGED ohje
  /\ UNCHANGED <<ohjetallennukset, ohjepyyntoja, ohjeKanta>>

\* The answer fills the object of its own request; the paragraphs are parsed
\* from the object that is current now
OhjeSaapuu(h) ==
  /\ ohjehaut' = ohjehaut \ {h}
  /\ \/ \E teksti \in {h.teksti, ohjeKanta} :
          ohje' = IF h.nro = ohje.haku
                    THEN [ohje EXCEPT !.teksti = teksti, !.ohjeteksti = teksti,
                                      !.ajan_tasalla = TRUE]
                    ELSE [ohje EXCEPT !.ohjeteksti = ohje.teksti]
     \/ UNCHANGED ohje
  /\ UNCHANGED <<ohjetallennukset, ohjepyyntoja, ohjeKanta>>

TallennaOhje ==
  /\ ohje.muokkaus
  /\ ~TallennusDisabloitu
  /\ ohjetallennukset' = ohjetallennukset \cup {[nro |-> ohje.haku, teksti |-> ohje.teksti]}
  /\ ApiPyynto
  /\ UNCHANGED <<ohje, ohjehaut, ohjeKanta>>

\* A saved guide is fetched again, also when it has been closed meanwhile
OhjeTallennettu(p) ==
  /\ ohje.haku < MaxOhjehaut
  /\ ohjetallennukset' = ohjetallennukset \ {p}
  /\ ApiVastaus
  /\ ohjeKanta' = p.teksti
  /\ HaeOhje(ohje, ohjehaut)

OhjeenTallennusEpaonnistui(p) ==
  /\ ohjetallennukset' = ohjetallennukset \ {p}
  /\ ApiVastaus
  /\ ohjeKanta' \in {ohjeKanta, p.teksti}
  /\ UNCHANGED <<ohje, ohjehaut>>

OhjeNext ==
  \/ NaytaOhje \/ PiilotaOhje \/ VaihdaMuokkaus \/ KirjoitaOhje \/ TallennaOhje
  \/ \E h \in ohjehaut : OhjeSaapuu(h)
  \/ \E p \in ohjetallennukset : OhjeTallennettu(p) \/ OhjeenTallennusEpaonnistui(p)

-----------------------------------------------------------------------------
(* Properties                                                              *)

\* Guides opened, closed and saved while answers overtake each other: once all
\* have come, the paragraphs are those of the newest request, unless it failed
\* or the user has typed since (ohjeet.js:63-85)
OhjeUusimmasta ==
  ohjehaut = {} /\ ohje.ajan_tasalla => ohje.ohjeteksti = ohje.teksti

\* The count of the interceptors is the number of saves in flight, so the
\* button keeps a second save from overtaking the first
\* (apicallinterceptor.js:47-77, tallenna.js:20-50)
OhjeTallennetaanYksin ==
  /\ ohjepyyntoja = Cardinality(ohjetallennukset)
  /\ Cardinality(ohjetallennukset) <= 1
=============================================================================
