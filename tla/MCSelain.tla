------------------------------ MODULE MCSelain ------------------------------
(***************************************************************************)
(* Small instances of the pages: what the server holds when each is opened *)
(***************************************************************************)
EXTENDS Selain

CONSTANTS
  k1, k2, c1,            \* surveys and a round of the list
  g1, g2,                \* groups, or templates, of their lists
  v, x, o, q, r,         \* groups a survey can have
  t1, t2,                \* codes
  j1, j2, s1, s2, s3,    \* organisers and schools
  a, b, ay, ak, bv, bk   \* users and their roles

\* What is picked from a sequence is what SelectSeq selects
ASSUME PoimiValitsee ==
  \A s \in BoundedSeq(1 .. 3, 4), S \in SUBSET (1 .. 3) :
    Poimi(s, LAMBDA e : e \in S) = SelectSeq(s, LAMBDA e : e \in S)

MCLuettelokyselyt == k1 :> {} @@ k2 :> {c1}

\* v is national with background questions, x national and closed since, o and
\* r have many questions (one of o's can be removed), q background questions
Ryhmatieto(valtakunnallinen, tausta, suljettu, n, poistettavia) ==
  [valtakunnallinen |-> valtakunnallinen, taustakysymykset |-> tausta,
   ntm_kysymykset |-> FALSE, suljettu |-> suljettu, kysymyksia |-> n,
   poistettavia |-> poistettavia]

MCRyhmatiedot ==
  v :> Ryhmatieto(TRUE, TRUE, FALSE, 3, 0) @@ x :> Ryhmatieto(TRUE, FALSE, TRUE, 1, 0) @@
  o :> Ryhmatieto(FALSE, FALSE, FALSE, 10, 1) @@ r :> Ryhmatieto(FALSE, FALSE, FALSE, 20, 0) @@
  q :> Ryhmatieto(FALSE, TRUE, FALSE, 1, 0)

MCKyselyOnPalvelin == <<v, x, o>>
MCPohjat == {<<q, r, v>>}
MCPohjaOnPalvelin == <<v, o>>

Kysymys(nro, tyyppi, jatkokysymys, vaihtoehtoja) ==
  [nro |-> nro, uusi |-> FALSE, poistetaan |-> FALSE, vastaustyyppi |-> tyyppi,
   jatkokysymys |-> jatkokysymys, max_vastaus |-> FALSE,
   monivalinta_max |-> vaihtoehtoja, vaihtoehtoja |-> vaihtoehtoja]

MCKysymyksetOnPalvelin ==
  <<Kysymys(100, "monivalinta", Maaraamaton, 3),
    Kysymys(101, "asteikko", Maaraamaton, Maaraamaton),
    Kysymys(102, "kylla_ei_valinta",
            [kylla |-> TRUE, ei |-> FALSE, asteikko |-> TRUE, max_vastaus |-> FALSE],
            Maaraamaton)>>

\* Rounds around day 2: with and without a last day, past, present and to come
Kerta(uusi, kaytettavissa, lukittu, alku, loppu) ==
  [uusi |-> uusi, kaytettavissa |-> kaytettavissa, lukittu |-> lukittu,
   alkupvm |-> alku, loppupvm |-> loppu]

MCKerrat ==
  {Kerta(u, k, l, 1, 2) : u, k, l \in BOOLEAN} \cup
  {Kerta(FALSE, TRUE, FALSE, p[1], p[2]) :
     p \in {<<1, EiMitaan>>, <<3, EiMitaan>>, <<1, 1>>, <<3, 3>>}}

MCTunnukset == <<t1>>
MCUudetTunnukset == {<<t2>>}
MCKoulut == j1 :> {s1} @@ j2 :> {s2, s3}

LomakeKysymys(tyyppi, pakollinen, eos, vaihtoehdot, max, jatko) ==
  [tyyppi |-> tyyppi, pakollinen |-> pakollinen, eos |-> eos, vaihtoehdot |-> vaihtoehdot,
   max |-> max, jatko |-> jatko]

MCLomakkeet ==
  {<<LomakeKysymys("monivalinta", TRUE, TRUE, {"1", "2", "3"}, 2, {}),
     LomakeKysymys("vapaateksti", TRUE, FALSE, {}, 0, {})>>,
   <<LomakeKysymys("monivalinta", FALSE, FALSE, {"1", "2", "3"}, 2, {}),
     LomakeKysymys("valinta", TRUE, TRUE, {"1", "2"}, 1, {})>>,
   <<LomakeKysymys("kylla_ei_valinta", TRUE, TRUE, {"1", "2"}, 0, {"kylla", "ei"}),
     LomakeKysymys("vapaateksti", FALSE, FALSE, {}, 0, {})>>,
   <<LomakeKysymys("kylla_ei_valinta", FALSE, FALSE, {"1"}, 0, {"ei"}),
     LomakeKysymys("vapaateksti", TRUE, TRUE, {}, 0, {})>>}

\* An administrator with a lesser role besides, and a user who has one role in
\* two organisations
MCRoolit == a :> {ay, ak} @@ b :> {bv, bk}
MCRoolinNimi ==
  ay :> "YLLAPITAJA" @@ ak :> "OPL-KAYTTAJA" @@ bv :> "OPL-VASTUUKAYTTAJA" @@ bk :> "OPL-VASTUUKAYTTAJA"
=============================================================================
