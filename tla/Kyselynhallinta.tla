-------------------------- MODULE Kyselynhallinta --------------------------
(***************************************************************************)
(* Survey administration in the aipal backend: the handlers of kysely,     *)
(* kyselykerta and vastaajatunnus.  A worker serves one request at a time, *)
(* in one transaction (with-sql-kayttaja, autorisoitu-transaktio):         *)
(*                                                                         *)
(*   Saapuu     the request arrives with the operation and its data        *)
(*   Valtuuta   the right is checked: the state-dependent part of the      *)
(*              predicates in toimiala/kayttajaoikeudet, one read          *)
(*   Tarkista   the handler's own check, another read                      *)
(*   an action named for the operation: its writes and the commit          *)
(*                                                                         *)
(* The writes are at the end of each handler and hold row locks until the  *)
(* commit, so they are one step.  What an earlier read saw may have        *)
(* changed by then.  Saving an edited survey is the exception: it deletes  *)
(* the rows of the old content, of two tables in two statements, and those *)
(* that another transaction commits meanwhile it does not see.             *)
(* Users here have the roles the operations ask for.                       *)
(***************************************************************************)
EXTENDS Vastaaminen

CONSTANTS
  Kasittelijat,       \* workers: requests served at the same time
  Sallitut            \* operations that the users of a run call

VARIABLES
  askel,              \* how far a worker is with its request
  pyynto,             \* the request
  poistuvat           \* content rows that an open edit of a survey deletes

hallintamuuttujat == <<askel, pyynto, poistuvat>>

Askeleet == {"vapaa", "saapunut", "valtuutettu", "tarkistettu",
             "ryhmatPoistettu", "kysymyksetPoistettu"}

\* What the editing page sends of the content: groups, and those of their
\* questions that are marked as removed
Sisallot ==
  {x \in [ryhmat : SUBSET Ryhmat, pois : SUBSET Kysymykset] :
     x.pois \subseteq UNION {RyhmanKysymykset[r] : r \in x.ryhmat}}

\* lisaa-kysymysryhma!: every question of the group but the removed ones,
\* and an assertion that each of those may be removed
SisallonKysymykset(x) ==
  (UNION {RyhmanKysymykset[r] : r \in x.ryhmat}) \ x.pois

\* mutant: the assertion is missing
PoistaaSaaAina(x) == TRUE

SaaPoistaa(x) == x.pois \subseteq Poistettavat

EiRiveja == [ryhmat |-> {}, kysymykset |-> {}]

\* Every request the API accepts.  The survey page sends back the state
\* it loaded, and it is only offered for drafts; the round page likewise
\* sends lukittu as loaded, and is only editable for an unlocked round.
Pyynnot ==
  {[toimi |-> o, kysely |-> k, ikkuna |-> w, sisalto |-> x] :
     o \in {"luoKysely", "muokkaaKyselya"}, k \in Kyselyt, w \in Ikkunat,
     x \in Sisallot}
  \cup {[toimi |-> o, kysely |-> k] :
     o \in {"julkaise", "sulje", "palauta", "palautaLuonnokseksi",
            "poistaKysely"}, k \in Kyselyt}
  \cup {[toimi |-> "luoKerta", kysely |-> k, ikkuna |-> w] :
     k \in Kyselyt, w \in Ikkunat}
  \cup {[toimi |-> "muokkaaKertaa", kerta |-> c, ikkuna |-> w] :
     c \in Kerrat, w \in Ikkunat}
  \cup {[toimi |-> "lukitseKerta", kerta |-> c, lukitse |-> b] :
     c \in Kerrat, b \in BOOLEAN}
  \cup {[toimi |-> "poistaKerta", kerta |-> c] : c \in Kerrat}
  \cup {[toimi |-> "luoTunnukset", kerta |-> c, ikkuna |-> w, lkm |-> n,
          henkilokohtainen |-> b] :
     c \in Kerrat, w \in Ikkunat, n \in 1 .. MaxLkm, b \in BOOLEAN}
  \cup {[toimi |-> "lukitseTunnus", kerta |-> c, tunnus |-> t, lukitse |-> b] :
     c \in Kerrat, t \in Tunnukset, b \in BOOLEAN}
  \cup {[toimi |-> "muokkaaLukumaaraa", kerta |-> c, tunnus |-> t, lkm |-> n] :
     c \in Kerrat, t \in Tunnukset, n \in 1 .. MaxLkm}
  \cup {[toimi |-> "poistaTunnus", kerta |-> c, tunnus |-> t] :
     c \in Kerrat, t \in Tunnukset}

\* No request is NULL
ASSUME HallintaOletus == Ei \notin Pyynnot

SallitutPyynnot == {p \in Pyynnot : p.toimi \in Sallitut}

HallintaInit ==
  /\ askel = [h \in Kasittelijat |-> "vapaa"]
  /\ pyynto = [h \in Kasittelijat |-> Ei]
  /\ poistuvat = [h \in Kasittelijat |-> EiRiveja]

Saapuu(h) ==
  /\ askel[h] = "vapaa"
  /\ \E p \in SallitutPyynnot : pyynto' = [pyynto EXCEPT ![h] = p]
  /\ askel' = [askel EXCEPT ![h] = "saapunut"]
  /\ UNCHANGED <<poistuvat, kanta, vastausmuuttujat>>

Etene(h, a) ==
  /\ askel' = [askel EXCEPT ![h] = a]
  /\ UNCHANGED <<pyynto, poistuvat, kanta, vastausmuuttujat>>

\* The request is over: answered, refused or rolled back
Vapaudu(h) ==
  /\ askel' = [askel EXCEPT ![h] = "vapaa"]
  /\ pyynto' = [pyynto EXCEPT ![h] = Ei]

Hylkaa(h) ==
  /\ Vapaudu(h)
  /\ poistuvat' = [poistuvat EXCEPT ![h] = EiRiveja]
  /\ UNCHANGED <<kanta, vastausmuuttujat>>

KyselynTilaOn(k, tila) == k \in DOMAIN kysely /\ kysely[k].tila = tila

(***************************************************************************)
(* The state a right depends on, as in toimiala/kayttajaoikeudet.          *)
(***************************************************************************)
\* mutant: a survey may be edited until it is closed
KyselyMuokkausKunnesSuljettu(k) ==
  k \in DOMAIN kysely /\ kysely[k].tila # "suljettu"

KyselyMuokkaus(k) == KyselynTilaOn(k, "luonnos")

KyselykertaLuonti(k) == KyselynTilaOn(k, "julkaistu")

KyselykertaTilamuutos(c) ==
  c \in DOMAIN kerta /\ KyselynTilaOn(kerta[c].kysely, "julkaistu")

\* mutant: the lock is not looked at
KyselykertaMuokkausLukosta(c) == KyselykertaTilamuutos(c)

KyselykertaMuokkaus(c) == KyselykertaTilamuutos(c) /\ ~kerta[c].lukittu

Oikeus(p) ==
  CASE p.toimi = "muokkaaKyselya" -> KyselyMuokkaus(p.kysely)
    [] p.toimi = "luoKerta" -> KyselykertaLuonti(p.kysely)
    [] p.toimi \in {"lukitseKerta", "muokkaaLukumaaraa", "poistaTunnus"} ->
         KyselykertaTilamuutos(p.kerta)
    [] p.toimi \in {"muokkaaKertaa", "luoTunnukset", "lukitseTunnus"} ->
         KyselykertaMuokkaus(p.kerta)
    [] OTHER -> TRUE

\* COALESCE over the three windows, + 30 > CURRENT_DATE
Muokattavissa(t) ==
  LET c == tunnus[t].kerta
      k == kerta[c].kysely
      loput == <<tunnus[t].ikkuna.loppu, kerta[c].ikkuna.loppu,
                 kysely[k].ikkuna.loppu>>
      asetetut == {i \in 1 .. 3 : loput[i] # Ei}
  IN  \/ asetetut = {}
      \/ \E i \in asetetut : /\ \A j \in asetetut : i <= j
                             /\ loput[i] + Siirtymaaika > paiva

\* kysely-poistettavissa-query
Poistettavissa(k) ==
  /\ k \in DOMAIN kysely
  /\ kysely[k].tila \in {"luonnos", "suljettu"}
  /\ \A v \in vastaaja : v.tunnus \notin KertojenTunnukset(KyselynKerrat(k))

\* mutant: locked rounds are not counted
LaskeAvoimetKyselykerrat(k) ==
  Cardinality({c \in KyselynKerrat(k) : ~kerta[c].lukittu})

LaskeKyselykerrat(k) == Cardinality(KyselynKerrat(k))

KerranTunnus(c, t) == t \in DOMAIN tunnus /\ tunnus[t].kerta = c

(***************************************************************************)
(* The checks that the handlers make after the right.                      *)
(***************************************************************************)
Ehto(p) ==
  CASE p.toimi = "julkaise" ->
         p.kysely \in DOMAIN kysely /\ kysely[p.kysely].ryhmat # {}
    [] p.toimi = "palautaLuonnokseksi" -> LaskeKyselykerrat(p.kysely) = 0
    [] p.toimi = "poistaKysely" -> Poistettavissa(p.kysely)
    [] p.toimi = "poistaKerta" -> \A v \in vastaaja : v.kerta # p.kerta
    [] p.toimi = "muokkaaLukumaaraa" ->
         /\ KerranTunnus(p.kerta, p.tunnus)
         /\ Muokattavissa(p.tunnus)
         /\ p.lkm >= Vastaajia(p.tunnus)
    [] p.toimi = "poistaTunnus" -> Vastaajia(p.tunnus) = 0
    [] OTHER -> TRUE

Tarkistettavat == {"julkaise", "palautaLuonnokseksi", "poistaKysely",
                   "poistaKerta", "muokkaaLukumaaraa", "poistaTunnus"}

Valtuuta(h) ==
  /\ askel[h] = "saapunut"
  /\ IF Oikeus(pyynto[h])
       THEN Etene(h, IF pyynto[h].toimi \in Tarkistettavat
                       THEN "valtuutettu" ELSE "tarkistettu")
       ELSE Hylkaa(h)

Tarkista(h) ==
  /\ askel[h] = "valtuutettu"
  /\ IF Ehto(pyynto[h]) THEN Etene(h, "tarkistettu") ELSE Hylkaa(h)

\* An exception, a refusal that no modelled state decides, or a crash:
\* nothing is committed
KasittelyKeskeytyy(h) ==
  /\ askel[h] # "vapaa"
  /\ Hylkaa(h)

(***************************************************************************)
(* The writes.                                                             *)
(***************************************************************************)
Kirjoitusvuoro(h, toimi) ==
  askel[h] = "tarkistettu" /\ pyynto[h].toimi = toimi

\* The commit: only tables of the administration have changed
Valmis(h) ==
  /\ Vapaudu(h)
  /\ UNCHANGED <<poistuvat, vastaustaulut, paiva, vastausmuuttujat>>

LuoKysely(h) ==
  LET p == pyynto[h]
      uudet == Kyselyt \ kaytetyt
  IN
  /\ Kirjoitusvuoro(h, "luoKysely")
  /\ IF uudet = {} \/ ~SaaPoistaa(p.sisalto)
       THEN Hylkaa(h)
       ELSE \E k \in uudet :
              /\ kysely' = Lisaten(kysely, k,
                   [tila |-> "luonnos", ikkuna |-> p.ikkuna,
                    ryhmat |-> p.sisalto.ryhmat,
                    kysymykset |-> SisallonKysymykset(p.sisalto)])
              /\ kaytetyt' = kaytetyt \cup {k}
              /\ UNCHANGED <<kerta, tunnus>>
              /\ Valmis(h)

(***************************************************************************)
(* paivita-kysely! on an existing survey: two DELETEs, each with its own   *)
(* snapshot, then the inserts, and muokkaa-kyselya! with the state the     *)
(* page had loaded.  Waiting for the row locks of another edit is left     *)
(* out: it only removes interleavings.  The inserts fail on a row of the   *)
(* same key; all lists of groups are numbered from 0, so any two collide.  *)
(***************************************************************************)
PoistaRyhmat(h) ==
  LET k == pyynto[h].kysely IN
  /\ Kirjoitusvuoro(h, "muokkaaKyselya")
  /\ askel' = [askel EXCEPT ![h] = "ryhmatPoistettu"]
  /\ poistuvat' = [poistuvat EXCEPT ![h].ryhmat =
       IF k \in DOMAIN kysely THEN kysely[k].ryhmat ELSE {}]
  /\ UNCHANGED <<pyynto, kanta, vastausmuuttujat>>

PoistaKysymykset(h) ==
  LET k == pyynto[h].kysely IN
  /\ askel[h] = "ryhmatPoistettu"
  /\ askel' = [askel EXCEPT ![h] = "kysymyksetPoistettu"]
  /\ poistuvat' = [poistuvat EXCEPT ![h].kysymykset =
       IF k \in DOMAIN kysely THEN kysely[k].kysymykset ELSE {}]
  /\ UNCHANGED <<pyynto, kanta, vastausmuuttujat>>

\* Rows deleted by h are no longer there for another edit to delete
Poistettu(h) ==
  [g \in Kasittelijat |->
     IF g = h THEN EiRiveja
     ELSE IF pyynto[g] # Ei /\ poistuvat[g] # EiRiveja
               /\ pyynto[g].kysely = pyynto[h].kysely
       THEN [ryhmat |-> poistuvat[g].ryhmat \ poistuvat[h].ryhmat,
             kysymykset |-> poistuvat[g].kysymykset \ poistuvat[h].kysymykset]
       ELSE poistuvat[g]]

MuokkaaKyselya(h) ==
  LET p == pyynto[h]
      k == p.kysely
      ryhmat == kysely[k].ryhmat \ poistuvat[h].ryhmat
      kysymykset == kysely[k].kysymykset \ poistuvat[h].kysymykset
      uudet == SisallonKysymykset(p.sisalto)
      mahtuu == /\ ryhmat = {} \/ p.sisalto.ryhmat = {}
                /\ kysymykset \cap uudet = {}
  IN
  /\ askel[h] = "kysymyksetPoistettu"
  /\ IF k \in DOMAIN kysely /\ SaaPoistaa(p.sisalto) /\ mahtuu
       THEN /\ kysely' = [kysely EXCEPT ![k] =
                 [tila |-> "luonnos", ikkuna |-> p.ikkuna,
                  ryhmat |-> ryhmat \cup p.sisalto.ryhmat,
                  kysymykset |-> kysymykset \cup uudet]]
            /\ poistuvat' = Poistettu(h)
            /\ Vapaudu(h)
            /\ UNCHANGED <<kerta, tunnus, kaytetyt, vastaustaulut, paiva,
                           vastausmuuttujat>>
       ELSE Hylkaa(h)

\* UPDATE kysely SET tila WHERE kyselyid: no row, no change
AsetaTila(k, tila) ==
  /\ kysely' = IF k \in DOMAIN kysely
                 THEN [kysely EXCEPT ![k].tila = tila] ELSE kysely
  /\ UNCHANGED <<kerta, tunnus, kaytetyt>>

JulkaiseKysely(h) ==
  /\ Kirjoitusvuoro(h, "julkaise")
  /\ AsetaTila(pyynto[h].kysely, "julkaistu")
  /\ Valmis(h)

\* PUT /palauta/:kyselyid calls julkaise-kysely! without the group count
PalautaKysely(h) ==
  /\ Kirjoitusvuoro(h, "palauta")
  /\ AsetaTila(pyynto[h].kysely, "julkaistu")
  /\ Valmis(h)

\* mutant: a state that the database does not know
SuljeKyselyPoistetuksi(h) ==
  /\ Kirjoitusvuoro(h, "sulje")
  /\ AsetaTila(pyynto[h].kysely, "poistettu")
  /\ Valmis(h)

SuljeKysely(h) ==
  /\ Kirjoitusvuoro(h, "sulje")
  /\ AsetaTila(pyynto[h].kysely, "suljettu")
  /\ Valmis(h)

PalautaLuonnokseksi(h) ==
  LET k == pyynto[h].kysely IN
  /\ Kirjoitusvuoro(h, "palautaLuonnokseksi")
  /\ IF KyselynTilaOn(k, "julkaistu")
       THEN AsetaTila(k, "luonnos")
       ELSE UNCHANGED hallintataulut
  /\ Valmis(h)

LuoKerta(h) ==
  LET p == pyynto[h]
      uudet == Kerrat \ kaytetyt
  IN
  /\ Kirjoitusvuoro(h, "luoKerta")
  /\ IF uudet = {} \/ p.kysely \notin DOMAIN kysely
       THEN Hylkaa(h)
       ELSE \E c \in uudet :
              /\ kerta' = Lisaten(kerta, c,
                   [kysely |-> p.kysely, ikkuna |-> p.ikkuna, lukittu |-> FALSE])
              /\ kaytetyt' = kaytetyt \cup {c}
              /\ UNCHANGED <<kysely, tunnus>>
              /\ Valmis(h)

\* paivita!: lukittu is written back as the page had loaded it
MuokkaaKertaa(h) ==
  LET p == pyynto[h] IN
  /\ Kirjoitusvuoro(h, "muokkaaKertaa")
  /\ kerta' = IF p.kerta \in DOMAIN kerta
                THEN [kerta EXCEPT ![p.kerta].ikkuna = p.ikkuna,
                                   ![p.kerta].lukittu = FALSE]
                ELSE kerta
  /\ UNCHANGED <<kysely, tunnus, kaytetyt>>
  /\ Valmis(h)

LukitseKerta(h) ==
  LET p == pyynto[h] IN
  /\ Kirjoitusvuoro(h, "lukitseKerta")
  /\ kerta' = IF p.kerta \in DOMAIN kerta
                THEN [kerta EXCEPT ![p.kerta].lukittu = p.lukitse] ELSE kerta
  /\ UNCHANGED <<kysely, tunnus, kaytetyt>>
  /\ Valmis(h)

\* lisaa!: personal codes are lkm codes for one respondent each, otherwise
\* there is one code for lkm respondents
LuoTunnukset(h) ==
  LET p == pyynto[h]
      maara == IF p.henkilokohtainen THEN p.lkm ELSE 1
      vastaajia == IF p.henkilokohtainen THEN 1 ELSE p.lkm
      uudet == {T \in SUBSET (Tunnukset \ kaytetyt) : Cardinality(T) = maara}
  IN
  /\ Kirjoitusvuoro(h, "luoTunnukset")
  /\ IF uudet = {} \/ p.kerta \notin DOMAIN kerta
       THEN Hylkaa(h)
       ELSE \E T \in uudet :
              /\ tunnus' = [t \in DOMAIN tunnus \cup T |->
                   IF t \in T
                     THEN [kerta |-> p.kerta, lkm |-> vastaajia,
                           ikkuna |-> p.ikkuna, lukittu |-> FALSE]
                     ELSE tunnus[t]]
              /\ kaytetyt' = kaytetyt \cup T
              /\ UNCHANGED <<kysely, kerta>>
              /\ Valmis(h)

LukitseTunnus(h) ==
  LET p == pyynto[h] IN
  /\ Kirjoitusvuoro(h, "lukitseTunnus")
  /\ tunnus' = IF KerranTunnus(p.kerta, p.tunnus)
                 THEN [tunnus EXCEPT ![p.tunnus].lukittu = p.lukitse]
                 ELSE tunnus
  /\ UNCHANGED <<kysely, kerta, kaytetyt>>
  /\ Valmis(h)

MuokkaaLukumaaraa(h) ==
  LET p == pyynto[h] IN
  /\ Kirjoitusvuoro(h, "muokkaaLukumaaraa")
  /\ tunnus' = IF KerranTunnus(p.kerta, p.tunnus)
                 THEN [tunnus EXCEPT ![p.tunnus].lkm = p.lkm] ELSE tunnus
  /\ UNCHANGED <<kysely, kerta, kaytetyt>>
  /\ Valmis(h)

\* mutant: only the foreign key to the round
ViitattuKertaan(C, T) == \E v \in vastaaja : v.kerta \in C

\* The foreign keys of vastaaja still refer to a row to be deleted
Viitattu(C, T) == \E v \in vastaaja : v.kerta \in C \/ v.tunnus \in T

(***************************************************************************)
(* DELETE of surveys K, rounds C and codes T in one transaction.  It waits *)
(* for the transactions that hold a key share lock on a row, and fails on  *)
(* a row that a committed respondent refers to.                            *)
(***************************************************************************)
Poista(h, K, C, T) ==
  /\ C \cap LukitutKerrat = {}
  /\ T \cap LukitutTunnukset = {}
  /\ IF Viitattu(C, T)
       THEN Hylkaa(h)
       ELSE /\ kysely' = Ilman(kysely, K)
            /\ kerta' = Ilman(kerta, C)
            /\ tunnus' = Ilman(tunnus, T)
            /\ UNCHANGED kaytetyt
            /\ Valmis(h)

PoistaKysely(h) ==
  LET k == pyynto[h].kysely IN
  /\ Kirjoitusvuoro(h, "poistaKysely")
  /\ Poista(h, {k}, KyselynKerrat(k), KertojenTunnukset(KyselynKerrat(k)))

PoistaKerta(h) ==
  LET c == pyynto[h].kerta IN
  /\ Kirjoitusvuoro(h, "poistaKerta")
  /\ Poista(h, {}, {c}, KertojenTunnukset({c}))

PoistaTunnus(h) ==
  LET p == pyynto[h] IN
  /\ Kirjoitusvuoro(h, "poistaTunnus")
  /\ Poista(h, {}, {}, {p.tunnus} \cap KertojenTunnukset({p.kerta}))

Kirjoita(h) ==
  \/ LuoKysely(h)
  \/ PoistaRyhmat(h) \/ PoistaKysymykset(h) \/ MuokkaaKyselya(h)
  \/ JulkaiseKysely(h) \/ PalautaKysely(h) \/ SuljeKysely(h)
  \/ PalautaLuonnokseksi(h) \/ PoistaKysely(h)
  \/ LuoKerta(h) \/ MuokkaaKertaa(h) \/ LukitseKerta(h) \/ PoistaKerta(h)
  \/ LuoTunnukset(h) \/ LukitseTunnus(h) \/ MuokkaaLukumaaraa(h)
  \/ PoistaTunnus(h)

Kasittele(h) == Valtuuta(h) \/ Tarkista(h) \/ Kirjoita(h)

HallintaNext ==
  \E h \in Kasittelijat :
    Saapuu(h) \/ Kasittele(h) \/ KasittelyKeskeytyy(h)

HallintaTyyppi ==
  /\ askel \in [Kasittelijat -> Askeleet]
  /\ pyynto \in [Kasittelijat -> Pyynnot \cup {Ei}]
  /\ \A h \in Kasittelijat : askel[h] # "vapaa" => pyynto[h] \in Pyynnot
  /\ \A h \in Kasittelijat :
       askel[h] \in {"ryhmatPoistettu", "kysymyksetPoistettu"} =>
         pyynto[h].toimi = "muokkaaKyselya"
  /\ poistuvat \in [Kasittelijat -> [ryhmat : SUBSET Ryhmat,
                                    kysymykset : SUBSET Kysymykset]]
=============================================================================
