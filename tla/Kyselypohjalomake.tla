-------------------------- MODULE Kyselypohjalomake --------------------------
(***************************************************************************)
(* The form of a survey template, and the modal that shows the questions   *)
(* of a template.  Unlike the survey form it has no loading indicator: it  *)
(* can be saved again while a save is in flight.                           *)
(***************************************************************************)
EXTENDS Ryhmavalinta

CONSTANTS
  PohjaOnPalvelin,   \* ids of the groups of the stored template, in order
  MaxPohjatoimia,    \* bound: groups asked for, marks, drags and saves
  EiPohjaa           \* $scope.kyselypohja undefined

\* A stored template was saved from a form
ASSUME KyselypohjalomakeOletus ==
  /\ MaxPohjatoimia \in Nat
  /\ PohjaOnPalvelin \in Seq(DOMAIN Ryhmatiedot) /\ Kunnossa(Ryhmat(PohjaOnPalvelin))

VARIABLES
  pohjaUusi,      \* the form was opened without an id
  pohja,          \* the groups on the form, or EiPohjaa
  pohjahaussa,    \* the GET of the template is unanswered
  lisattavat,     \* groups asked for
  pohjanLahetykset, \* the groups of the templates sent and not answered
  rakenne,        \* the groups whose questions the open modal lists, or EiPohjaa
  pohjasivulla,   \* the user is on the page
  pohjatoimia     \* how much the user has done

pohjanMuuttujat == <<pohjaUusi, pohja, pohjahaussa, lisattavat, pohjanLahetykset, rakenne,
                     pohjasivulla, pohjatoimia>>

KyselypohjalomakeInit ==
  /\ pohjaUusi \in BOOLEAN
  /\ pohja = IF pohjaUusi THEN <<>> ELSE EiPohjaa
  /\ pohjahaussa = ~pohjaUusi
  /\ lisattavat = {} /\ pohjanLahetykset = {}
  /\ rakenne = EiPohjaa
  /\ pohjasivulla = TRUE
  /\ pohjatoimia = 0

Pohjatoimi == pohjatoimia < MaxPohjatoimia /\ pohjatoimia' = pohjatoimia + 1

\* Any error but 500 sends the user back to the list
PohjaSaapuu ==
  /\ pohjahaussa /\ pohjahaussa' = FALSE
  /\ \/ pohja' = Ryhmat(PohjaOnPalvelin) /\ UNCHANGED pohjasivulla
     \/ pohjasivulla' \in BOOLEAN /\ UNCHANGED pohja
  /\ UNCHANGED <<pohjaUusi, lisattavat, pohjanLahetykset, rakenne, pohjatoimia>>

PyydaKysymysryhma(id) ==
  /\ pohja # EiPohjaa /\ Pohjatoimi
  /\ lisattavat' = lisattavat \cup {id}
  /\ UNCHANGED <<pohjaUusi, pohja, pohjahaussa, pohjanLahetykset, rakenne, pohjasivulla>>

KysymysryhmaSaapuu(id) ==
  /\ lisattavat' = lisattavat \ {id}
  /\ pohja' \in {pohja, LisaaUniikitKysymysryhmat(pohja, <<Ryhma(id)>>)}
  /\ UNCHANGED <<pohjaUusi, pohjahaussa, pohjanLahetykset, rakenne, pohjasivulla, pohjatoimia>>

\* The modal covers the form while it is open
MuutaPohjaa ==
  /\ pohja # EiPohjaa /\ rakenne = EiPohjaa /\ Pohjatoimi
  /\ \E i \in DOMAIN pohja :
       \/ pohja' = PoistaTaiPalauta(pohja, i)
       \/ \E j \in DOMAIN pohja \ {i} : pohja' = Raahattu(pohja, i, j)
  /\ UNCHANGED <<pohjaUusi, pohjahaussa, lisattavat, pohjanLahetykset, rakenne, pohjasivulla>>

\* The questions are listed once, when the modal opens
Nayta(ks) == [i \in DOMAIN PoistaKysymysryhmat(ks) |-> PoistaKysymysryhmat(ks)[i].id]

NaytaRakenneModal ==
  /\ pohja # EiPohjaa /\ pohja # <<>> /\ rakenne = EiPohjaa
  /\ rakenne' = Nayta(pohja)
  /\ UNCHANGED <<pohjaUusi, pohja, pohjahaussa, lisattavat, pohjanLahetykset, pohjasivulla,
                 pohjatoimia>>

SuljeRakenne ==
  /\ rakenne # EiPohjaa /\ rakenne' = EiPohjaa
  /\ UNCHANGED <<pohjaUusi, pohja, pohjahaussa, lisattavat, pohjanLahetykset, pohjasivulla,
                 pohjatoimia>>

\* PUT of a template opened by its id, POST of a new one
TallennaPohja ==
  /\ pohja # EiPohjaa /\ rakenne = EiPohjaa /\ Pohjatoimi
  /\ pohja' = PoistaKysymysryhmat(pohja)
  /\ pohjanLahetykset' = pohjanLahetykset \cup
                           {[nro |-> pohjatoimia, uusi |-> pohjaUusi, ryhmat |-> pohja']}
  /\ UNCHANGED <<pohjaUusi, pohjahaussa, lisattavat, rakenne, pohjasivulla>>

\* The first success leaves the page, also when later saves are in flight
PohjaVastaus(p) ==
  /\ pohjanLahetykset' = pohjanLahetykset \ {p}
  /\ pohjasivulla' \in {FALSE, pohjasivulla}
  /\ UNCHANGED <<pohjaUusi, pohja, pohjahaussa, lisattavat, rakenne, pohjatoimia>>

PeruutaPohja ==
  /\ rakenne = EiPohjaa /\ pohjasivulla' = FALSE
  /\ UNCHANGED <<pohjaUusi, pohja, pohjahaussa, lisattavat, pohjanLahetykset, rakenne,
                 pohjatoimia>>

KyselypohjalomakeNext ==
  \/ /\ pohjasivulla
     /\ \/ PohjaSaapuu \/ MuutaPohjaa \/ NaytaRakenneModal \/ SuljeRakenne \/ TallennaPohja
        \/ PeruutaPohja
        \/ \E id \in DOMAIN Ryhmatiedot : PyydaKysymysryhma(id)
        \/ \E id \in lisattavat : KysymysryhmaSaapuu(id)
  \/ \E p \in pohjanLahetykset : PohjaVastaus(p)

-----------------------------------------------------------------------------
\* A template on the form, and each one sent, has every group once and in
\* order, with the marked ones gone from what is sent (kyselypohjaui.js:56-113)
PohjaKunnossa ==
  /\ pohja # EiPohjaa => Kunnossa(pohja)
  /\ \A p \in pohjanLahetykset :
       Kunnossa(p.ryhmat) /\ \A i \in DOMAIN p.ryhmat : ~p.ryhmat[i].poistetaan
=============================================================================
