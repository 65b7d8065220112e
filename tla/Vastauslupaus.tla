--------------------------- MODULE Vastauslupaus ---------------------------
(***************************************************************************)
(* What the answering service promises about one sending of a page: it is  *)
(* recorded at most once and as a whole, only after the code was found     *)
(* usable while the sending was being served, and a refused sending leaves *)
(* nothing behind.  The codes open and close at any time.                  *)
(***************************************************************************)
CONSTANTS Lahetykset, Tunnukset, Ei

VARIABLES
  auki,        \* the usable codes
  tila,        \* what has become of each sending
  kohde        \* the code it was sent to

vars == <<auki, tila, kohde>>

Init ==
  /\ auki \subseteq Tunnukset
  /\ tila = [l \in Lahetykset |-> "tulematta"]
  /\ kohde = [l \in Lahetykset |-> Ei]

Siirry(l, vanhat, uusi) ==
  /\ tila[l] \in vanhat
  /\ tila' = [tila EXCEPT ![l] = uusi]
  /\ UNCHANGED auki

Saapuu(l, t) ==
  /\ Siirry(l, {"tulematta"}, "saapunut")
  /\ kohde' = [kohde EXCEPT ![l] = t]

Hyvaksy(l) ==
  /\ kohde[l] \in auki
  /\ Siirry(l, {"saapunut"}, "hyvaksytty")
  /\ UNCHANGED kohde

Kirjaa(l) == Siirry(l, {"hyvaksytty"}, "kirjattu") /\ UNCHANGED kohde

Hylkaa(l) == Siirry(l, {"saapunut", "hyvaksytty"}, "hylatty") /\ UNCHANGED kohde

AukioloMuuttuu ==
  /\ auki' \in SUBSET Tunnukset
  /\ UNCHANGED <<tila, kohde>>

Next ==
  \/ \E l \in Lahetykset :
       (\E t \in Tunnukset : Saapuu(l, t)) \/ Hyvaksy(l) \/ Kirjaa(l) \/ Hylkaa(l)
  \/ AukioloMuuttuu

Spec == Init /\ [][Next]_vars
=============================================================================
