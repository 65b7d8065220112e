---------------------------- MODULE Ryhmavalinta ----------------------------
(***************************************************************************)
(* The question groups chosen on the survey form and on the template form: *)
(* the list kept by kyselyApurit and by the kysymysryhma-accordion, with   *)
(* the trash buttons of its groups and questions.                          *)
(***************************************************************************)
EXTENDS Poiminta

CONSTANT
  Ryhmatiedot    \* kysymysryhmaid -> [valtakunnallinen, taustakysymykset,
                 \*   ntm_kysymykset, suljettu : BOOLEAN, kysymyksia : how many
                 \*   questions, poistettavia : how many of them may be removed]

\* A group as the server sends it, with nothing marked
Ryhma(id) == [id |-> id, poistetaan |-> FALSE, poistettuja |-> 0]
Tiedot(r) == Ryhmatiedot[r.id]
Ryhmat(ids) == [i \in DOMAIN ids |-> Ryhma(ids[i])]

Valtakunnallinen(r) == Tiedot(r).valtakunnallinen
Taustakysymykset(r) == Tiedot(r).taustakysymykset

\* The place a group sorts to, before its own index (at most a hundred groups)
Lohko(r) == (IF Taustakysymykset(r) THEN 0 ELSE 100)
            + (IF Valtakunnallinen(r) THEN 0 ELSE 1000)

\* _.sortBy: national groups first, background questions before others
Jarjestetty(rs) ==
  LET Lohkosta(n) == Poimi(rs, LAMBDA r : Lohko(r) = n)
  IN  Lohkosta(0) \o Lohkosta(100) \o Lohkosta(1000) \o Lohkosta(1100)

\* mutant: the groups that come replace those of the list
LisaaUniikitUudemmat(rs, uudet) ==
  Jarjestetty(Poimi(rs, LAMBDA r : \A i \in DOMAIN uudet : uudet[i].id # r.id) \o uudet)

\* A group already on the list stays as it is there, also when marked
LisaaUniikitKysymysryhmat(rs, uudet) ==
  Jarjestetty(rs \o Poimi(uudet, LAMBDA u : \A i \in DOMAIN rs : rs[i].id # u.id))

PoistaTaiPalauta(rs, i) == [rs EXCEPT ![i].poistetaan = ~@]
PoistaKysymys(rs, i) == [rs EXCEPT ![i].poistettuja = @ + 1]
PalautaKysymys(rs, i) == [rs EXCEPT ![i].poistettuja = @ - 1]

\* mutant: the list is left as the user dropped it
RaahattuSellaisenaan(rs, i, j) == InsertAt(RemoveAt(rs, i), j, rs[i])

\* A group dragged to another place; the list is sorted when it is dropped
Raahattu(rs, i, j) == Jarjestetty(InsertAt(RemoveAt(rs, i), j, rs[i]))

PoistaKysymysryhmat(rs) == Poimi(rs, LAMBDA r : ~r.poistetaan)

\* The list has each group once, in the order of the sort
Kunnossa(rs) ==
  \A i, j \in DOMAIN rs : i < j => rs[i].id # rs[j].id /\ Lohko(rs[i]) <= Lohko(rs[j])
=============================================================================
