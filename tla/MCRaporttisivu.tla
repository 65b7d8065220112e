--------------------------- MODULE MCRaporttisivu ---------------------------
(***************************************************************************)
(* What the server may hold, for model checking the report page.  Each     *)
(* value is small and rich in one respect; the page's behaviours are the   *)
(* union of theirs.                                                        *)
(***************************************************************************)
EXTENDS Raporttisivu

CONSTANTS d1, d2, o1, o2, a1, k1, k2, s1, s2, r1, g1, g2, v1, j1

Tyhja ==
  [valilehdet |-> Valilehdet, alku |-> "vertailu", listat |-> {},
   alat |-> [t \in Tasot |-> {}], koulutustoimijat |-> {}, kyselyt |-> {},
   kyselykerrat |-> {}, tila |-> [x \in {} |-> ""], jarjestajat |-> [x \in {} |-> {}],
   ryhmat |-> {}, vaihtoehdot |-> {}, tutkintotyyppeja |-> FALSE, raportteja |-> 0]

\* Degrees, subfields and a field, and a round
Tutkinnot ==
  [Tyhja EXCEPT
     !.listat = {"tutkinnot", "kyselykertaid"},
     !.alat = [koulutusala |-> {a1}, opintoala |-> {o1, o2}, tutkinto |-> {d1, d2}],
     !.kyselykerrat = {r1}, !.tila = [x \in {r1} |-> "auki"],
     !.jarjestajat = [x \in {r1} |-> {}]]

\* Two organisers, each with a school, on the tabs that have organisers
Toimijat ==
  [Tyhja EXCEPT
     !.valilehdet = {"vertailu", "koulutustoimijat"},
     !.listat = {"koulutustoimijat"}, !.koulutustoimijat = {k1, k2}, !.raportteja = 1]

\* Two surveys in different states and a round, with an organiser each
Kyselyt ==
  [Tyhja EXCEPT
     !.valilehdet = {"kyselykerta", "kysely"}, !.alku = "kyselykerta",
     !.listat = {"kyselyid", "kyselykertaid"},
     !.kyselyt = {s1, s2}, !.kyselykerrat = {r1},
     !.tila = [x \in {s1, s2, r1} |-> IF x = s2 THEN "kiinni" ELSE "auki"],
     !.jarjestajat = [x \in {s1, s2, r1} |-> IF x = s1 THEN {j1} ELSE {}]]

\* Two groups of background questions
Taustat ==
  [Tyhja EXCEPT
     !.listat = {"taustaryhmat"}, !.ryhmat = {g1, g2}, !.vaihtoehdot = {v1},
     !.tutkintotyyppeja = TRUE]

\* Three reports, national or of a survey
Raportit ==
  [Tyhja EXCEPT
     !.valilehdet = {"vertailu", "kehitys", "kysely"},
     !.listat = {"kyselyid"}, !.kyselyt = {s1}, !.tila = [x \in {s1} |-> "auki"],
     !.jarjestajat = [x \in {s1} |-> {}], !.tutkintotyyppeja = TRUE, !.raportteja = 3]

MCAineistot == {Tutkinnot, Toimijat, Kyselyt, Taustat, Raportit}
=============================================================================
