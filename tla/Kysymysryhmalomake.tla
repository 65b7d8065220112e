------------------------- MODULE Kysymysryhmalomake -------------------------
(***************************************************************************)
(* The form of a question group: a list of questions and an editor that    *)
(* takes the place of the list while one question is made or changed.      *)
(* Texts and the ticks that only go with them are left out; of a question  *)
(* there are its type and the fields that must agree with the type.        *)
(***************************************************************************)
EXTENDS Poiminta

CONSTANTS
  Ryhmatavat,         \* the ways the form is opened: "uusi", "muokkaus", "kopio"
  KysymyksetOnPalvelin, \* the questions of the stored group
  NtmKayttaja,        \* kayttooikeudet.isNtmVastuuKayttaja()
  MaxKysymystoimia,   \* bound: buttons pressed
  Maaraamaton         \* undefined

Jatkokysymykset == [kylla : BOOLEAN, ei : BOOLEAN, asteikko : BOOLEAN, max_vastaus : BOOLEAN]

\* vaihtoehtoja is how many options there are; max_vastaus is a tick here
Kysymystyyppi ==
  [nro : Nat, uusi : BOOLEAN, poistetaan : BOOLEAN,
   vastaustyyppi : {"kylla_ei_valinta", "monivalinta", "vapaateksti", "likert_asteikko", "asteikko"},
   jatkokysymys : Jatkokysymykset \cup {Maaraamaton}, max_vastaus : BOOLEAN,
   monivalinta_max : Nat \cup {Maaraamaton}, vaihtoehtoja : Nat \cup {Maaraamaton}]

\* A finished question has no field its type does not have, but perhaps the
\* follow-up question of an earlier type, which the form hides and keeps; of its
\* options at most as many may be chosen as there are
Siisti(k) ==
  /\ ~k.uusi
  /\ k.jatkokysymys # Maaraamaton =>
       /\ k.jatkokysymys.kylla \/ k.jatkokysymys.ei
       /\ k.jatkokysymys.max_vastaus => k.jatkokysymys.ei
  /\ k.max_vastaus => k.vastaustyyppi = "vapaateksti"
  /\ k.monivalinta_max # Maaraamaton => k.vastaustyyppi = "monivalinta"
  /\ k.vaihtoehtoja # Maaraamaton =>
       /\ k.vastaustyyppi = "monivalinta" /\ k.vaihtoehtoja \in Nat
       /\ k.monivalinta_max \in Nat /\ k.monivalinta_max <= k.vaihtoehtoja

\* A question as it is stored has no follow-up question of another type either
Ehja(k) ==
  Siisti(k) /\ (k.jatkokysymys # Maaraamaton => k.vastaustyyppi = "kylla_ei_valinta")

\* A stored group was saved from this form
ASSUME KysymysryhmalomakeOletus ==
  /\ MaxKysymystoimia \in Nat /\ NtmKayttaja \in BOOLEAN
  /\ KysymyksetOnPalvelin \in Seq(Kysymystyyppi)
  /\ \A i \in DOMAIN KysymyksetOnPalvelin : Ehja(KysymyksetOnPalvelin[i])

VARIABLES
  ryhmatapa,       \* how the form was opened
  kysymykset,      \* the questions on the form
  ntm,             \* kysymysryhma.ntm_kysymykset
  ryhmahaussa,     \* the GET of the group is unanswered
  aktiivinen,      \* the question in the editor: its place, 0 when the group was
                   \* replaced under it, and whether it is a new one
  muokkaustila,    \* the editor is open
  originals,       \* the questions when an old one was last taken to the editor
  ennen,           \* the questions when the editor opened, for the properties;
                   \* Maaraamaton once the group has been replaced under it
  ryhmalahetykset, \* the questions of the groups sent and not answered
  ryhmasivulla,    \* the user is on the page
  kysymystoimia    \* how much the user has done

ryhmanMuuttujat == <<ryhmatapa, kysymykset, ntm, ryhmahaussa, aktiivinen, muokkaustila,
                     originals, ennen, ryhmalahetykset, ryhmasivulla, kysymystoimia>>

Vastaustyypit == {"kylla_ei_valinta", "monivalinta", "vapaateksti"}

KysymysryhmalomakeInit ==
  /\ ryhmatapa \in Ryhmatavat
  /\ kysymykset = <<>>
  /\ ntm = NtmKayttaja
  /\ ryhmahaussa = (ryhmatapa # "uusi")
  /\ aktiivinen = [paikka |-> 0, uusi |-> FALSE] /\ muokkaustila = FALSE
  /\ originals = <<>> /\ ennen = Maaraamaton
  /\ ryhmalahetykset = {}
  /\ ryhmasivulla = TRUE
  /\ kysymystoimia = 0

Kysymystoimi == kysymystoimia < MaxKysymystoimia /\ kysymystoimia' = kysymystoimia + 1

-----------------------------------------------------------------------------
(* Questions                                                               *)

UusiKysymys(nro) ==
  [nro |-> nro, uusi |-> TRUE, poistetaan |-> FALSE, vastaustyyppi |-> "likert_asteikko",
   jatkokysymys |-> [kylla |-> FALSE, ei |-> FALSE, asteikko |-> FALSE, max_vastaus |-> TRUE],
   max_vastaus |-> TRUE, monivalinta_max |-> 1, vaihtoehtoja |-> 2]

\* The fields that do not go with the type are deleted
PoistaYlimaaraisetKentat(k) ==
  LET j == k.jatkokysymys
  IN  [k EXCEPT !.jatkokysymys = IF j = Maaraamaton \/ ~(j.kylla \/ j.ei) THEN Maaraamaton
                                 ELSE [j EXCEPT !.max_vastaus = @ /\ j.ei],
                !.max_vastaus = @ /\ k.vastaustyyppi = "vapaateksti",
                !.monivalinta_max = IF k.vastaustyyppi = "monivalinta" THEN @ ELSE Maaraamaton,
                !.vaihtoehtoja = IF k.vastaustyyppi = "monivalinta" THEN @ ELSE Maaraamaton]

\* A copy leaves out the questions of the old type, and the follow-up
\* questions of that type
Kopioitavat(ks) ==
  LET kelpaavat == Poimi(ks, LAMBDA k : k.vastaustyyppi # "asteikko")
  IN  [i \in DOMAIN kelpaavat |->
         IF kelpaavat[i].jatkokysymys # Maaraamaton /\ kelpaavat[i].jatkokysymys.asteikko
         THEN [kelpaavat[i] EXCEPT !.jatkokysymys = Maaraamaton]
         ELSE kelpaavat[i]]

RyhmaSaapuu ==
  /\ ryhmahaussa /\ ryhmahaussa' = FALSE
  /\ \/ /\ kysymykset' = IF ryhmatapa = "kopio" THEN Kopioitavat(KysymyksetOnPalvelin)
                                                ELSE KysymyksetOnPalvelin
        /\ ntm' \in BOOLEAN
        /\ aktiivinen' = [aktiivinen EXCEPT !.paikka = 0] /\ ennen' = Maaraamaton
        /\ UNCHANGED ryhmasivulla
     \/ /\ ryhmasivulla' \in BOOLEAN      \* any error but 500 leaves the page
        /\ UNCHANGED <<kysymykset, ntm, aktiivinen, ennen>>
  /\ UNCHANGED <<ryhmatapa, muokkaustila, originals, ryhmalahetykset, kysymystoimia>>

-----------------------------------------------------------------------------
(* The editor                                                              *)

AvaaEditori(i, ks) ==
  /\ ~muokkaustila /\ Kysymystoimi
  /\ kysymykset' = ks
  /\ aktiivinen' = [paikka |-> i, uusi |-> ks[i].uusi] /\ muokkaustila' = TRUE
  /\ ennen' = kysymykset
  /\ UNCHANGED <<ryhmatapa, ntm, ryhmahaussa, ryhmalahetykset, ryhmasivulla>>

LisaaKysymys ==
  /\ AvaaEditori(Len(kysymykset) + 1, Append(kysymykset, UusiKysymys(kysymystoimia)))
  /\ UNCHANGED originals

\* A follow-up question without a length, or none at all, is given one
Muokkaa(i) ==
  /\ AvaaEditori(i, [kysymykset EXCEPT ![i].jatkokysymys =
                       IF @ = Maaraamaton
                       THEN [kylla |-> FALSE, ei |-> FALSE, asteikko |-> FALSE, max_vastaus |-> TRUE]
                       ELSE [@ EXCEPT !.max_vastaus = TRUE]])
  /\ originals' = kysymykset

\* Changes in the editor are made to the question itself; a question that is
\* no longer in the group can be changed too, and nobody sees it
MuutaAktiivista(k) ==
  /\ Kysymystoimi
  /\ kysymykset' = [kysymykset EXCEPT ![aktiivinen.paikka] = k]
  /\ UNCHANGED <<ryhmatapa, ntm, ryhmahaussa, aktiivinen, muokkaustila, originals, ennen,
                 ryhmalahetykset, ryhmasivulla>>

PoistaVaihtoehto(k) ==
  [k EXCEPT !.vaihtoehtoja = @ - 1,
            !.monivalinta_max = IF @ > k.vaihtoehtoja - 1 THEN k.vaihtoehtoja - 1 ELSE @]

LisaaVaihtoehto(k) == [k EXCEPT !.vaihtoehtoja = @ + 1]

\* The parts of the editor follow the type; options there are none of stay so
MuokkaaKysymysta ==
  /\ muokkaustila /\ aktiivinen.paikka # 0
  /\ LET k == kysymykset[aktiivinen.paikka]
     IN  \/ \E t \in Vastaustyypit : MuutaAktiivista([k EXCEPT !.vastaustyyppi = t])
         \/ /\ k.vastaustyyppi = "kylla_ei_valinta"
            /\ \/ MuutaAktiivista([k EXCEPT !.jatkokysymys.kylla = ~@])
               \/ MuutaAktiivista([k EXCEPT !.jatkokysymys.ei = ~@])
         \/ /\ k.vastaustyyppi = "monivalinta" /\ k.vaihtoehtoja # Maaraamaton
            /\ \/ MuutaAktiivista(LisaaVaihtoehto(k))
               \/ k.vaihtoehtoja > 2 /\ MuutaAktiivista(PoistaVaihtoehto(k))
               \/ \E n \in 1 .. k.vaihtoehtoja : MuutaAktiivista([k EXCEPT !.monivalinta_max = n])

SuljeEditori ==
  /\ muokkaustila /\ muokkaustila' = FALSE
  /\ ennen' = Maaraamaton
  /\ UNCHANGED <<ryhmatapa, ntm, ryhmahaussa, aktiivinen, originals, ryhmalahetykset,
                 ryhmasivulla, kysymystoimia>>

\* mutant: the question is still taken for a new one
ValmisKysymys(k) == PoistaYlimaaraisetKentat(k)

Valmis(k) == [PoistaYlimaaraisetKentat(k) EXCEPT !.uusi = FALSE]

TallennaKysymys ==
  /\ SuljeEditori
  /\ kysymykset' = IF aktiivinen.paikka = 0 THEN kysymykset
                   ELSE [kysymykset EXCEPT ![aktiivinen.paikka] = Valmis(@)]

\* An old question goes back to what it was, a new one goes
PeruutaKysymysTallennus ==
  /\ SuljeEditori
  /\ LET ks == IF aktiivinen.uusi THEN kysymykset ELSE originals
     IN  kysymykset' = Poimi(ks, LAMBDA k : ~k.uusi)

-----------------------------------------------------------------------------
(* The list, and saving the group                                          *)

MuutaListaa ==
  /\ ~muokkaustila /\ Kysymystoimi
  /\ \E i \in DOMAIN kysymykset :
       \/ kysymykset' = [kysymykset EXCEPT ![i].poistetaan = ~@]
       \/ \E j \in DOMAIN kysymykset \ {i} :
            kysymykset' = InsertAt(RemoveAt(kysymykset, i), j, kysymykset[i])
  /\ UNCHANGED <<ryhmatapa, ntm, ryhmahaussa, aktiivinen, muokkaustila, originals, ennen,
                 ryhmalahetykset, ryhmasivulla>>

SisaltaaAsteikkokysymyksen == \E i \in DOMAIN kysymykset : kysymykset[i].vastaustyyppi = "asteikko"
OnValidiNtmKysymysryhma == NtmKayttaja => ntm
TallennusSallittu == ~muokkaustila /\ ~SisaltaaAsteikkokysymyksen /\ OnValidiNtmKysymysryhma

PoistaKysymykset(ks) == Poimi(ks, LAMBDA k : ~k.poistetaan)

\* mutant: the server stores the follow-up question it gets
TallentuvaJatkoineen(k) ==
  [k EXCEPT !.vaihtoehtoja = IF k.vastaustyyppi = "monivalinta" THEN @ ELSE Maaraamaton]

\* What the server stores of a question it gets: a follow-up question of a
\* yes-or-no question, options of a multiple choice, and the other fields
Tallentuva(k) ==
  [k EXCEPT !.jatkokysymys = IF k.vastaustyyppi = "kylla_ei_valinta" THEN @ ELSE Maaraamaton,
            !.vaihtoehtoja = IF k.vastaustyyppi = "monivalinta" THEN @ ELSE Maaraamaton]

\* POST of a new group or a copy, PUT otherwise; nothing keeps the button from
\* being pressed again before the answer
TallennaKysymysryhma ==
  /\ TallennusSallittu /\ Kysymystoimi
  /\ kysymykset' = PoistaKysymykset(kysymykset)
  /\ ryhmalahetykset' = ryhmalahetykset \cup
                          {[nro |-> kysymystoimia, uusi |-> ryhmatapa # "muokkaus",
                            kysymykset |-> kysymykset']}
  /\ UNCHANGED <<ryhmatapa, ntm, ryhmahaussa, aktiivinen, muokkaustila, originals, ennen,
                 ryhmasivulla>>

\* Success leaves the page, an error stays on it
RyhmaTallennettu(p) ==
  /\ ryhmalahetykset' = ryhmalahetykset \ {p}
  /\ ryhmasivulla' \in {FALSE, ryhmasivulla}
  /\ UNCHANGED <<ryhmatapa, kysymykset, ntm, ryhmahaussa, aktiivinen, muokkaustila, originals,
                 ennen, kysymystoimia>>

PeruutaRyhma ==
  /\ ryhmasivulla' = FALSE
  /\ UNCHANGED <<ryhmatapa, kysymykset, ntm, ryhmahaussa, aktiivinen, muokkaustila, originals,
                 ennen, ryhmalahetykset, kysymystoimia>>

KysymysryhmalomakeNext ==
  \/ /\ ryhmasivulla
     /\ \/ RyhmaSaapuu \/ LisaaKysymys \/ MuokkaaKysymysta \/ TallennaKysymys
        \/ PeruutaKysymysTallennus \/ MuutaListaa \/ TallennaKysymysryhma \/ PeruutaRyhma
        \/ \E i \in DOMAIN kysymykset : Muokkaa(i)
  \/ \E p \in ryhmalahetykset : RyhmaTallennettu(p)

-----------------------------------------------------------------------------
(* Properties                                                              *)

\* Whatever was done in the editor and in which order, a group that is sent has
\* no marked or unfinished question and none of the old type, and what the
\* server stores of it has no field a question's type does not have: the form
\* deletes the lengths and the options of other types, the server leaves out a
\* follow-up question ticked before the type was changed, which the form hides
\* and sends. Of several choices at most as many may be chosen as there are
\* options (kysymysryhmaui.js:95-139, 211-267, 287-315;
\* rest_api/kysymysryhma.clj:41-72)
LahetettyKunnossa ==
  \A p \in ryhmalahetykset : \A i \in DOMAIN p.kysymykset :
    LET k == p.kysymykset[i]
    IN  Ehja(Tallentuva(k)) /\ ~k.poistetaan /\ k.vastaustyyppi # "asteikko"

\* Closing the editor changes nothing but the question that was in it: the
\* others stay, also those made earlier, and cancelling leaves the list as it
\* was when the editor opened (kysymysryhmaui.js:199-230, 275-285)
EditoriMuuttaaYhta ==
  [][muokkaustila /\ ~muokkaustila' /\ ennen # Maaraamaton =>
       \/ kysymykset' = ennen
       \/ /\ Len(kysymykset') >= Len(ennen)
          /\ \A i \in DOMAIN ennen : i # aktiivinen.paikka => kysymykset'[i] = ennen[i]]_ryhmanMuuttujat
=============================================================================
