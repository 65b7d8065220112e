---------------------------- MODULE Kyselykanta ----------------------------
(***************************************************************************)
(* The part of the aipal database that answering and survey administration *)
(* share: the tables kysely (survey), kyselykerta (a round of a survey),   *)
(* vastaajatunnus (a code that lets people answer a round), vastaaja       *)
(* (respondent) and vastaus (answer), as committed.  A table is a partial  *)
(* function from the ids in it to rows.  The aipal backend and the         *)
(* aipal-vastaus backend are separate processes that meet only here.       *)
(*                                                                         *)
(* PostgreSQL runs every transaction at READ COMMITTED: each statement     *)
(* sees what is committed when it starts, plus the transaction's own       *)
(* writes.  The actions of the other modules are therefore statements.     *)
(***************************************************************************)
EXTENDS Naturals, FiniteSets

CONSTANTS
  Kyselyt,            \* values of the serial key kyselyid
  Kerrat,             \* values of the serial key kyselykertaid
  Tunnukset,          \* values of the serial key vastaajatunnusid
  Ryhmat,             \* published question groups the users may read
  Kysymykset,         \* questions
  RyhmanKysymykset,   \* group -> the questions in it
  Pakolliset,         \* questions with pakollinen set
  Poistettavat,       \* questions with poistettava set
  Ikkunat,            \* validity windows the users choose from
  MaxLkm,             \* bound: the largest vastaajien_lkm a user asks for
  MaxPaiva,           \* bound: the last day
  Siirtymaaika,       \* days a code stays editable after its window (30)
  Ei                  \* SQL NULL

Paivat == 1 .. MaxPaiva

ASSUME KantaOletus ==
  /\ RyhmanKysymykset \in [Ryhmat -> SUBSET Kysymykset]
  /\ Pakolliset \subseteq Kysymykset
  /\ Poistettavat \subseteq Kysymykset
  /\ MaxPaiva \in Nat \ {0}
  /\ MaxLkm \in Nat \ {0}
  /\ Siirtymaaika \in Nat
  /\ Ei \notin Nat
  /\ Ikkunat \subseteq [alku : Nat \cup {Ei}, loppu : Nat \cup {Ei}]

VARIABLES
  kysely,             \* table kysely with kysely_kysymysryhma, kysely_kysymys
  kerta,              \* table kyselykerta
  tunnus,             \* table vastaajatunnus
  vastaaja,           \* table vastaaja: a set of rows
  vastaus,            \* table vastaus: a set of rows
  kaytetyt,           \* ids that the serial keys have handed out
  paiva               \* current_date

hallintataulut == <<kysely, kerta, tunnus, kaytetyt>>
vastaustaulut == <<vastaaja, vastaus>>
kanta == <<kysely, kerta, tunnus, vastaaja, vastaus, kaytetyt, paiva>>

Tilat == {"luonnos", "julkaistu", "suljettu"}

Kyselyrivi == [tila : Tilat, ikkuna : Ikkunat,
               ryhmat : SUBSET Ryhmat, kysymykset : SUBSET Kysymykset]
Kertarivi == [kysely : Kyselyt, ikkuna : Ikkunat, lukittu : BOOLEAN]
Tunnusrivi == [kerta : Kerrat, lkm : 1 .. MaxLkm,
               ikkuna : Ikkunat, lukittu : BOOLEAN]

(***************************************************************************)
(* Validity: the SQL functions kaytettavissa(kysely | kyselykerta |        *)
(* vastaajatunnus).  A code is usable when neither it nor its round is     *)
(* locked, the survey is published and all three windows contain today.    *)
(***************************************************************************)
Voimassa(ikkuna) ==
  /\ ikkuna.alku = Ei \/ ikkuna.alku <= paiva
  /\ ikkuna.loppu = Ei \/ ikkuna.loppu >= paiva

KyselyKaytettavissa(k) ==
  /\ k \in DOMAIN kysely
  /\ kysely[k].tila = "julkaistu"
  /\ Voimassa(kysely[k].ikkuna)

KertaKaytettavissa(c) ==
  /\ c \in DOMAIN kerta
  /\ ~kerta[c].lukittu
  /\ Voimassa(kerta[c].ikkuna)
  /\ KyselyKaytettavissa(kerta[c].kysely)

TunnusKaytettavissa(t) ==
  /\ t \in DOMAIN tunnus
  /\ ~tunnus[t].lukittu
  /\ Voimassa(tunnus[t].ikkuna)
  /\ KertaKaytettavissa(tunnus[t].kerta)

\* count(*) of the committed respondents of a code
Vastaajia(t) == Cardinality({v \in vastaaja : v.tunnus = t})

KyselynKerrat(k) == {c \in DOMAIN kerta : kerta[c].kysely = k}
KertojenTunnukset(C) == {t \in DOMAIN tunnus : tunnus[t].kerta \in C}

\* The questions that the joins over kysely_kysymys reach from a code
TunnuksenKysymykset(t) ==
  IF t \in DOMAIN tunnus /\ tunnus[t].kerta \in DOMAIN kerta
       /\ kerta[tunnus[t].kerta].kysely \in DOMAIN kysely
    THEN kysely[kerta[tunnus[t].kerta].kysely].kysymykset
    ELSE {}

\* The kysymysids that one respondent has answers for
Vastatut(v) == {r.kysymys : r \in {s \in vastaus : s.vastaaja = v}}

\* A table without the rows S
Ilman(taulu, S) == [x \in DOMAIN taulu \ S |-> taulu[x]]

\* A table with a row inserted
Lisaten(taulu, x, rivi) ==
  [y \in DOMAIN taulu \cup {x} |-> IF y = x THEN rivi ELSE taulu[y]]

KantaInit ==
  /\ kysely = [k \in {} |-> Ei]
  /\ kerta = [c \in {} |-> Ei]
  /\ tunnus = [t \in {} |-> Ei]
  /\ vastaaja = {}
  /\ vastaus = {}
  /\ kaytetyt = {}
  /\ paiva = 1

(***************************************************************************)
(* Midnight: validity is computed from current_date by every statement.    *)
(***************************************************************************)
PaivaVaihtuu ==
  /\ paiva < MaxPaiva
  /\ paiva' = paiva + 1
  /\ UNCHANGED <<hallintataulut, vastaustaulut>>

KantaTyyppi ==
  /\ DOMAIN kysely \subseteq Kyselyt \cap kaytetyt
  /\ \A k \in DOMAIN kysely : kysely[k] \in Kyselyrivi
  /\ DOMAIN kerta \subseteq Kerrat \cap kaytetyt
  /\ \A c \in DOMAIN kerta : kerta[c] \in Kertarivi
  /\ DOMAIN tunnus \subseteq Tunnukset \cap kaytetyt
  /\ \A t \in DOMAIN tunnus : tunnus[t] \in Tunnusrivi
  /\ kaytetyt \subseteq Kyselyt \cup Kerrat \cup Tunnukset
  /\ paiva \in Paivat
=============================================================================
