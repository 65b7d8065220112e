------------------------------- MODULE Tiedote -------------------------------
(***************************************************************************)
(* The notice on the front page of aipal, which an administrator edits in  *)
(* place (the tiedote directive).  Texts are numbers; 0 is what the server *)
(* held when the page was opened.  The GET is answered with the text of    *)
(* some moment between its sending and its answer; a save is carried out   *)
(* at some moment before its answer, or not at all.                        *)
(***************************************************************************)
EXTENDS Naturals, FiniteSets, Sequences

CONSTANTS
  MaxTekstit,      \* bound: texts the user writes, and saves
  Puuttuu          \* JavaScript's undefined

ASSUME TiedoteOletus == MaxTekstit \in Nat /\ Puuttuu \notin Nat

VARIABLES
  tiedote,              \* the directive's scope: shown text, text box, tila; and, as
                        \* history, texts written and the last save that succeeded
  tiedotehaku,          \* what the GET in flight would have read first, or Puuttuu
  tiedotetallennukset,  \* saves in flight
  tiedoteKanta          \* the texts the server has stored, in order

tiedotteenMuuttujat == <<tiedote, tiedotehaku, tiedotetallennukset, tiedoteKanta>>

TiedoteInit ==
  /\ tiedote = [naytettava |-> Puuttuu, teksti |-> Puuttuu, tila |-> "nayta",
                kirjoitettu |-> 0, onnistui |-> Puuttuu]
  /\ tiedotehaku = 0
  /\ tiedotetallennukset = {}
  /\ tiedoteKanta = <<0>>

Viimeisin == tiedoteKanta[Len(tiedoteKanta)]

\* The GET sent when the page opened is answered, or fails
TiedoteSaapuu ==
  /\ tiedotehaku # Puuttuu
  /\ tiedotehaku' = Puuttuu
  /\ \/ \E teksti \in {tiedotehaku, Viimeisin} :
          tiedote' = [tiedote EXCEPT !.naytettava = teksti, !.teksti = teksti]
     \/ UNCHANGED tiedote
  /\ UNCHANGED <<tiedotetallennukset, tiedoteKanta>>

MuokkaaTiedotetta ==
  /\ tiedote.tila = "nayta"
  /\ tiedote' = [tiedote EXCEPT !.tila = "muokkaa"]
  /\ UNCHANGED <<tiedotehaku, tiedotetallennukset, tiedoteKanta>>

KirjoitaTiedote ==
  /\ tiedote.tila = "muokkaa"
  /\ tiedote.kirjoitettu < MaxTekstit
  /\ tiedote' = [tiedote EXCEPT !.kirjoitettu = @ + 1, !.teksti = tiedote.kirjoitettu + 1]
  /\ UNCHANGED <<tiedotehaku, tiedotetallennukset, tiedoteKanta>>

\* mutant: the text box is shown as the notice without waiting for the answer
TallennaTiedoteNayttaen ==
  /\ tiedote.tila = "muokkaa"
  /\ Cardinality(tiedotetallennukset) + Len(tiedoteKanta) <= MaxTekstit
  /\ [teksti |-> tiedote.teksti, tehty |-> FALSE] \notin tiedotetallennukset
  /\ tiedotetallennukset' = tiedotetallennukset \cup {[teksti |-> tiedote.teksti, tehty |-> FALSE]}
  /\ tiedote' = [tiedote EXCEPT !.tila = "nayta", !.naytettava = tiedote.teksti]
  /\ UNCHANGED <<tiedotehaku, tiedoteKanta>>

\* The text as it is now is sent; the box closes without waiting
TallennaTiedote ==
  /\ tiedote.tila = "muokkaa"
  /\ Cardinality(tiedotetallennukset) + Len(tiedoteKanta) <= MaxTekstit
  /\ [teksti |-> tiedote.teksti, tehty |-> FALSE] \notin tiedotetallennukset
  /\ tiedotetallennukset' = tiedotetallennukset \cup {[teksti |-> tiedote.teksti, tehty |-> FALSE]}
  /\ tiedote' = [tiedote EXCEPT !.tila = "nayta"]
  /\ UNCHANGED <<tiedotehaku, tiedoteKanta>>

KantaTallentaa(p) ==
  /\ ~p.tehty
  /\ tiedoteKanta' = Append(tiedoteKanta, p.teksti)
  /\ tiedotetallennukset' = (tiedotetallennukset \ {p}) \cup {[p EXCEPT !.tehty = TRUE]}
  /\ UNCHANGED <<tiedote, tiedotehaku>>

TiedoteTallennettu(p) ==
  /\ p.tehty
  /\ tiedote' = [tiedote EXCEPT !.naytettava = p.teksti, !.onnistui = p.teksti]
  /\ tiedotetallennukset' = tiedotetallennukset \ {p}
  /\ UNCHANGED <<tiedotehaku, tiedoteKanta>>

\* Refused, or the connection broke, before or after the server's work
TiedotteenTallennusEpaonnistui(p) ==
  /\ tiedotetallennukset' = tiedotetallennukset \ {p}
  /\ UNCHANGED <<tiedote, tiedotehaku, tiedoteKanta>>

TiedoteNext ==
  \/ TiedoteSaapuu \/ MuokkaaTiedotetta \/ KirjoitaTiedote \/ TallennaTiedote
  \/ \E p \in tiedotetallennukset :
       KantaTallentaa(p) \/ TiedoteTallennettu(p) \/ TiedotteenTallennusEpaonnistui(p)

-----------------------------------------------------------------------------
(* Properties                                                              *)

\* The page shows no notice the server has not had: a text whose save failed
\* or is still under way is not shown (tiedote.js:29-45)
TiedoteKannasta ==
  \/ tiedote.naytettava = Puuttuu
  \/ tiedote.naytettava \in {tiedoteKanta[i] : i \in DOMAIN tiedoteKanta}

\* "päivittää näytettävän tiedotteen, jos tallennus onnistuu" (tiedote_test.js:82):
\* the notice shown is the one whose save last succeeded
TallennettuNaytetaan ==
  tiedote.onnistui # Puuttuu => tiedote.naytettava = tiedote.onnistui
=============================================================================
