---------------------------- MODULE Vastaaminen ----------------------------
(***************************************************************************)
(* The answering backend (aipal-vastaus) and the browser page that talks   *)
(* to it.  A session is one open answering page.  It fetches the form of a *)
(* code (GET /kyselykerta/:tunnus), sends answers (POST /vastaus/:tunnus)  *)
(* and, when it sees an error, lets the person send again.                 *)
(*                                                                         *)
(* Each action below the browser's is one statement, or one run of         *)
(* statements that nobody else can tell apart, of the transaction the      *)
(* request runs in.  What an open transaction has written is in avoin and  *)
(* tallennetut until Vahvista commits it; a rollback forgets both.         *)
(***************************************************************************)
EXTENDS Kyselykanta

CONSTANTS
  Istunnot,           \* open answering pages
  MaxYrityksia        \* bound: how many times one page is sent

ASSUME VastaaminenOletus == MaxYrityksia \in Nat \ {0}

VARIABLES
  vaihe,              \* where a session and its request are
  koodi,              \* the code in the page's address
  lomake,             \* kysymysids on the fetched form
  lahetetyt,          \* kysymysids answered in the request being served
  luetut,             \* kysymysids read by hae-kysymykset for validation
  avoin,              \* the uncommitted vastaaja row
  tallennetut,        \* kysymysids of the uncommitted vastaus rows
  yritys              \* number of times the page has been sent

vastausmuuttujat ==
  <<vaihe, koodi, lomake, lahetetyt, luetut, avoin, tallennetut, yritys>>

Vaiheet == {"alku", "haku", "paikkoja", "lomake", "suljettu", "lahetetty",
            "tarkistettu", "luotu", "tallennus", "vahvistettu", "kiitos",
            "virhe"}

\* Phases in which the POST transaction is open
Kesken == {"lahetetty", "tarkistettu", "luotu", "tallennus"}

VastaajaIdt == Istunnot \X (1 .. MaxYrityksia)

Vastaajarivi == [id : VastaajaIdt, tunnus : Tunnukset, kerta : Kerrat,
                 vastannut : BOOLEAN]
Vastausrivi == [vastaaja : VastaajaIdt, kysymys : Kysymykset]

\* Rows on which an open transaction holds the FOR KEY SHARE lock that the
\* foreign keys of its vastaaja row took
Kirjoittavat == {s \in Istunnot : vaihe[s] \in {"luotu", "tallennus"}}

\* mutant: the lock does not last to the end of the transaction
LukitutLisattaessa == {avoin[s].tunnus : s \in {i \in Istunnot : vaihe[i] = "luotu"}}
\* mutant: a failed request leaves its transaction open
LukitutVirheestakin ==
  {koodi[s] : s \in Kirjoittavat \cup {i \in Istunnot : vaihe[i] = "virhe"}}

LukitutTunnukset == {avoin[s].tunnus : s \in Kirjoittavat}
LukitutKerrat == {avoin[s].kerta : s \in Kirjoittavat}

VastaaminenInit ==
  /\ vaihe = [s \in Istunnot |-> "alku"]
  /\ koodi = [s \in Istunnot |-> Ei]
  /\ lomake = [s \in Istunnot |-> {}]
  /\ lahetetyt = [s \in Istunnot |-> {}]
  /\ luetut = [s \in Istunnot |-> {}]
  /\ avoin = [s \in Istunnot |-> Ei]
  /\ tallennetut = [s \in Istunnot |-> {}]
  /\ yritys = [s \in Istunnot |-> 0]

Siirry(s, v) == vaihe' = [vaihe EXCEPT ![s] = v]

(***************************************************************************)
(* GET: the page is opened, the code is checked for validity, then for     *)
(* free places, then the form is read.                                     *)
(***************************************************************************)
AvaaSivu(s, t) ==
  /\ vaihe[s] = "alku"
  /\ t \in kaytetyt
  /\ koodi' = [koodi EXCEPT ![s] = t]
  /\ Siirry(s, IF TunnusKaytettavissa(t) THEN "haku" ELSE "suljettu")
  /\ UNCHANGED <<lomake, lahetetyt, luetut, avoin, tallennetut, yritys, kanta>>

TarkistaPaikat(s) ==
  LET t == koodi[s] IN
  /\ vaihe[s] = "haku"
  /\ IF t \in DOMAIN tunnus /\ tunnus[t].lkm > Vastaajia(t)
       THEN Siirry(s, "paikkoja")
       ELSE Siirry(s, "suljettu")
  /\ UNCHANGED <<koodi, lomake, lahetetyt, luetut, avoin, tallennetut, yritys,
                 kanta>>

HaeLomake(s) ==
  /\ vaihe[s] = "paikkoja"
  /\ lomake' = [lomake EXCEPT ![s] = TunnuksenKysymykset(koodi[s])]
  /\ Siirry(s, "lomake")
  /\ UNCHANGED <<koodi, lahetetyt, luetut, avoin, tallennetut, yritys, kanta>>

(***************************************************************************)
(* The browser sends the answers.  The button is enabled on the form and   *)
(* again after an error, whatever the server made of the earlier request.  *)
(***************************************************************************)
Laheta(s) ==
  /\ vaihe[s] \in {"lomake", "virhe"}
  /\ yritys[s] < MaxYrityksia
  /\ \E V \in SUBSET lomake[s] : lahetetyt' = [lahetetyt EXCEPT ![s] = V]
  /\ yritys' = [yritys EXCEPT ![s] = @ + 1]
  /\ Siirry(s, "lahetetty")
  /\ UNCHANGED <<koodi, lomake, luetut, avoin, tallennetut, kanta>>

\* db/rollback or an exception: the browser sees an error
Peru(s) ==
  /\ avoin' = [avoin EXCEPT ![s] = Ei]
  /\ tallennetut' = [tallennetut EXCEPT ![s] = {}]
  /\ luetut' = [luetut EXCEPT ![s] = {}]
  /\ lahetetyt' = [lahetetyt EXCEPT ![s] = {}]
  /\ Siirry(s, "virhe")
  /\ UNCHANGED <<koodi, lomake, yritys, kanta>>

\* mutant: the number of respondents is checked, the validity is not
TarkistaVainPaikat(s) ==
  LET t == koodi[s] IN
  /\ vaihe[s] = "lahetetty"
  /\ IF t \in DOMAIN tunnus /\ tunnus[t].lkm > Vastaajia(t)
       THEN /\ Siirry(s, "tarkistettu")
            /\ UNCHANGED <<koodi, lomake, lahetetyt, luetut, avoin,
                           tallennetut, yritys, kanta>>
       ELSE Peru(s)

\* luo-vastaaja!, first statement: is the code usable?
TarkistaTunnus(s) ==
  /\ vaihe[s] = "lahetetty"
  /\ IF TunnusKaytettavissa(koodi[s])
       THEN /\ Siirry(s, "tarkistettu")
            /\ UNCHANGED <<koodi, lomake, lahetetyt, luetut, avoin,
                           tallennetut, yritys, kanta>>
       ELSE Peru(s)

LisaaVastaaja(s) ==
  LET t == koodi[s] IN
  /\ avoin' = [avoin EXCEPT ![s] =
       [id |-> <<s, yritys[s]>>, tunnus |-> t,
        kerta |-> tunnus[t].kerta, vastannut |-> FALSE]]
  /\ Siirry(s, "luotu")
  /\ UNCHANGED <<koodi, lomake, lahetetyt, luetut, tallennetut, yritys, kanta>>

\* mutant: a missing code is waited for
LuoVastaajaOdottaen(s) ==
  vaihe[s] = "tarkistettu" /\ koodi[s] \in DOMAIN tunnus /\ LisaaVastaaja(s)

\* luo-vastaaja!, select and insert.  A code deleted after the check leaves
\* no row to refer to and the insert fails.
LuoVastaaja(s) ==
  /\ vaihe[s] = "tarkistettu"
  /\ IF koodi[s] \in DOMAIN tunnus THEN LisaaVastaaja(s) ELSE Peru(s)

(***************************************************************************)
(* validoi-vastaukset: every answer is to a question of the survey and     *)
(* every mandatory question of the survey has an answer.                   *)
(***************************************************************************)
\* mutant: mandatory questions may be left without an answer
ValidiIlmanPakollisia(V, Q) == V \subseteq Q

Validi(V, Q) ==
  /\ V \subseteq Q
  /\ Q \cap Pakolliset \subseteq V

\* hae-kysymykset and the validation of what it returned
Validoi(s) ==
  LET Q == TunnuksenKysymykset(koodi[s]) IN
  /\ vaihe[s] = "luotu"
  /\ IF Validi(lahetetyt[s], Q)
       THEN /\ luetut' = [luetut EXCEPT ![s] = Q]
            /\ Siirry(s, "tallennus")
            /\ UNCHANGED <<koodi, lomake, lahetetyt, avoin, tallennetut,
                           yritys, kanta>>
       ELSE Peru(s)

\* tallenna-vastaukset!: one insert per answer
TallennaVastaus(s) ==
  /\ vaihe[s] = "tallennus"
  /\ \E q \in lahetetyt[s] \ tallennetut[s] :
       tallennetut' = [tallennetut EXCEPT ![s] = @ \cup {q}]
  /\ UNCHANGED <<vaihe, koodi, lomake, lahetetyt, luetut, avoin, yritys, kanta>>

\* paivata-vastaaja! and the commit
MerkitseVastanneeksi(s) ==
  LET a == avoin[s]
      rivi == [id |-> a.id, tunnus |-> a.tunnus, kerta |-> a.kerta,
               vastannut |-> TRUE]
  IN
  /\ vastaaja' = vastaaja \cup {rivi}
  /\ vastaus' = vastaus \cup
       {[vastaaja |-> rivi.id, kysymys |-> q] : q \in tallennetut[s]}
  /\ avoin' = [avoin EXCEPT ![s] = Ei]
  /\ tallennetut' = [tallennetut EXCEPT ![s] = {}]
  /\ luetut' = [luetut EXCEPT ![s] = {}]
  /\ lahetetyt' = [lahetetyt EXCEPT ![s] = {}]
  /\ Siirry(s, "vahvistettu")
  /\ UNCHANGED <<koodi, lomake, yritys, hallintataulut, paiva>>

\* mutant: the commit does not wait for all inserts
VahvistaKesken(s) == vaihe[s] = "tallennus" /\ MerkitseVastanneeksi(s)

Vahvista(s) ==
  /\ vaihe[s] = "tallennus"
  /\ tallennetut[s] = lahetetyt[s]
  /\ MerkitseVastanneeksi(s)

\* The transaction fails: a database error, a deadlock the database breaks,
\* a lost connection or a crash of the backend
Keskeytyy(s) ==
  /\ vaihe[s] \in Kesken
  /\ Peru(s)

\* The answer "OK" arrives, or is lost on its way and the browser shows an error
Kuittaa(s) ==
  /\ vaihe[s] = "vahvistettu"
  /\ \/ Siirry(s, "kiitos")
     \/ Siirry(s, "virhe")
  /\ UNCHANGED <<koodi, lomake, lahetetyt, luetut, avoin, tallennetut, yritys,
                 kanta>>

\* The steps of the backend on one request
Palvele(s) ==
  \/ TarkistaPaikat(s)
  \/ HaeLomake(s)
  \/ TarkistaTunnus(s)
  \/ LuoVastaaja(s)
  \/ Validoi(s)
  \/ TallennaVastaus(s)
  \/ Vahvista(s)
  \/ Kuittaa(s)

VastaaminenNext ==
  \E s \in Istunnot :
    \/ \E t \in Tunnukset : AvaaSivu(s, t)
    \/ Laheta(s)
    \/ Palvele(s)
    \/ Keskeytyy(s)

VastaaminenTyyppi ==
  /\ vaihe \in [Istunnot -> Vaiheet]
  /\ koodi \in [Istunnot -> Tunnukset \cup {Ei}]
  /\ lomake \in [Istunnot -> SUBSET Kysymykset]
  /\ lahetetyt \in [Istunnot -> SUBSET Kysymykset]
  /\ luetut \in [Istunnot -> SUBSET Kysymykset]
  /\ avoin \in [Istunnot -> Vastaajarivi \cup {Ei}]
  /\ tallennetut \in [Istunnot -> SUBSET Kysymykset]
  /\ yritys \in [Istunnot -> 0 .. MaxYrityksia]
  /\ \A s \in Istunnot : vaihe[s] \in Kesken => yritys[s] # 0
  /\ \A s \in Kirjoittavat : avoin[s] \in Vastaajarivi
  /\ vastaaja \subseteq Vastaajarivi
  /\ vastaus \subseteq Vastausrivi
=============================================================================
