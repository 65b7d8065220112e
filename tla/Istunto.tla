------------------------------ MODULE Istunto ------------------------------
(***************************************************************************)
(* The session of a user of aipal: whose rights it has (an administrator   *)
(* may help another user in that user's rights) and which of that user's   *)
(* roles is active.  The session is on the server and is shared by the     *)
(* windows of the browser; a window learns the rights once, when it loads, *)
(* and is loaded again when a change of its own has succeeded.             *)
(***************************************************************************)
EXTENDS Naturals, FiniteSets

CONSTANTS
  Kayttaja,          \* the user who has logged in
  Roolit,            \* user -> its valid roles (rooli_organisaatio_id)
  RoolinNimi,        \* role -> "YLLAPITAJA", "OPL-VASTUUKAYTTAJA", ...
  Ikkunat,           \* windows of the browser
  MaxVaihtoja,       \* bound: changes asked for, and loads besides the first
  EiValittu          \* a key the session does not have; no session

\* The roles in the order in which an active one is picked
Roolijarjestys ==
  <<"YLLAPITAJA", "OPH-KATSELIJA", "OPL-VASTUUKAYTTAJA", "OPL-KAYTTAJA", "OPL-KATSELIJA",
    "OPL-NTMVASTUUKAYTTAJA", "KATSELIJA", "TTK-KATSELIJA">>

\* A user without a role gets no page at all
ASSUME IstuntoOletus ==
  /\ Kayttaja \in DOMAIN Roolit
  /\ \A k \in DOMAIN Roolit : Roolit[k] # {} /\ Roolit[k] \subseteq DOMAIN RoolinNimi
  /\ \A r \in DOMAIN RoolinNimi : \E i \in DOMAIN Roolijarjestys : RoolinNimi[r] = Roolijarjestys[i]
  /\ MaxVaihtoja \in Nat

VARIABLES
  istunto,     \* the session on the server: [impersonoitu, rooli], or EiValittu
  ikkuna,      \* window -> [tila, tiedot, luettavissa: sessions its GET may have read]
  vaihdot,     \* requests that change the session, in flight
  vaihtoja,    \* how many of them, and loads, there have been
  harhassa     \* history: windows whose rights were changed behind their back

istunnonMuuttujat == <<istunto, ikkuna, vaihdot, vaihtoja, harhassa>>

UusiIstunto == [impersonoitu |-> EiValittu, rooli |-> EiValittu]
Ladataan(is) == [tila |-> "haku", tiedot |-> EiValittu, luettavissa |-> {is}]

IstuntoInit ==
  /\ istunto = UusiIstunto
  /\ ikkuna = [w \in Ikkunat |-> Ladataan(UusiIstunto)]
  /\ vaihdot = {}
  /\ vaihtoja = 0
  /\ harhassa = {}

-----------------------------------------------------------------------------
(* Whose rights, and which                                                 *)

AktiivinenOid(is) == IF is.impersonoitu = EiValittu THEN Kayttaja ELSE is.impersonoitu

RoolinSija(r) == CHOOSE i \in DOMAIN Roolijarjestys : Roolijarjestys[i] = RoolinNimi[r]

\* The role chosen, if the user whose rights are used has it; else the first of
\* that user's in order.  The database gives roles in no order, so a user who
\* has the first role in several organisations gets any of those.
AktiivisetRoolit(is) ==
  LET omat == Roolit[AktiivinenOid(is)]
  IN  IF is.rooli \in omat THEN {is.rooli}
      ELSE {r \in omat : \A q \in omat : RoolinSija(r) <= RoolinSija(q)}

\* What GET /kayttaja may answer
OmatTiedot(is) ==
  {[kayttaja |-> AktiivinenOid(is), aktiivinen_rooli |-> r,
    impersonoitu |-> is.impersonoitu # EiValittu] : r \in AktiivisetRoolit(is)}

\* The page goes by any role of the user, the server by the active one
IsYllapitaja(tiedot) == \E r \in Roolit[tiedot.kayttaja] : RoolinNimi[r] = "YLLAPITAJA"
Yllapitaja(is) == \E r \in AktiivisetRoolit(is) : RoolinNimi[r] = "YLLAPITAJA"

Impersonoitavat ==
  {k \in DOMAIN Roolit : \A r \in Roolit[k] : RoolinNimi[r] # "YLLAPITAJA"}

-----------------------------------------------------------------------------
(* Windows                                                                 *)

Laskuriin == vaihtoja < MaxVaihtoja /\ vaihtoja' = vaihtoja + 1

\* Without a session the answer is 403, and the page of an expired session
OikeudetSaapuvat(w) ==
  /\ ikkuna[w].tila = "haku"
  /\ \E is \in ikkuna[w].luettavissa :
       \/ /\ is = EiValittu
          /\ ikkuna' = [ikkuna EXCEPT ![w] =
               [tila |-> "istunto-vanhentunut", tiedot |-> EiValittu, luettavissa |-> {}]]
       \/ /\ is # EiValittu
          /\ \E tiedot \in OmatTiedot(is) :
               ikkuna' = [ikkuna EXCEPT ![w] =
                 [tila |-> "nayta", tiedot |-> tiedot, luettavissa |-> {}]]
  /\ UNCHANGED <<istunto, vaihdot, vaihtoja, harhassa>>

\* The user loads a page; loading it logs in, if need be
Lataa(w) ==
  /\ ikkuna[w].tila # "haku"
  /\ Laskuriin
  /\ istunto' = IF istunto = EiValittu THEN UusiIstunto ELSE istunto
  /\ ikkuna' = [v \in Ikkunat |->
                  IF v = w THEN Ladataan(istunto')
                  ELSE [ikkuna[v] EXCEPT !.luettavissa =
                          @ \cup {is \in {istunto'} : ikkuna[v].tila = "haku"}]]
  /\ harhassa' = (harhassa \ {w}) \cup {v \in Ikkunat \ {w} : istunto' # istunto}
  /\ vaihdot' = {[p EXCEPT !.oma = @ /\ p.ikkuna # w] : p \in vaihdot}

\* The server, which keeps sessions in memory, restarts in the midst of what
\* it is doing
IstuntoPaattyy ==
  /\ istunto # EiValittu
  /\ Laskuriin
  /\ istunto' = EiValittu
  /\ ikkuna' = [w \in Ikkunat |->
                  [ikkuna[w] EXCEPT !.luettavissa =
                     @ \cup {is \in {EiValittu} : ikkuna[w].tila = "haku"}]]
  /\ harhassa' = Ikkunat
  /\ vaihdot' = {p \in vaihdot : p.vaihe # "luettu"}

Pyynto(w, toimi, arvo) ==
  /\ ikkuna[w].tila = "nayta"
  /\ Laskuriin
  /\ vaihdot' = vaihdot \cup {[nro |-> vaihtoja, ikkuna |-> w, oma |-> TRUE, toimi |-> toimi,
                               arvo |-> arvo, vaihe |-> "lahetetty", istunto |-> EiValittu]}
  /\ UNCHANGED <<istunto, ikkuna, harhassa>>

\* The menu of the page: each choice, its dialog and its request are one step
Valitse(w, oid) ==
  /\ ikkuna[w].tiedot # EiValittu
  /\ ~ikkuna[w].tiedot.impersonoitu /\ IsYllapitaja(ikkuna[w].tiedot)
  /\ Pyynto(w, "impersonoi", oid)

LopetaImpersonointi(w) ==
  /\ ikkuna[w].tiedot # EiValittu /\ ikkuna[w].tiedot.impersonoitu
  /\ Pyynto(w, "lopeta", EiValittu)

VaihdaRoolia(w, rooli) ==
  /\ ikkuna[w].tiedot # EiValittu
  /\ Cardinality(Roolit[ikkuna[w].tiedot.kayttaja]) > 1
  /\ rooli \in Roolit[ikkuna[w].tiedot.kayttaja]
  /\ Pyynto(w, "valitse", rooli)

-----------------------------------------------------------------------------
(* The server: a request reads the session when it comes and writes the    *)
(* whole of it when it goes                                                *)

Sallittu(p) ==
  CASE p.toimi = "impersonoi" -> Yllapitaja(istunto)
    [] p.toimi = "lopeta" -> istunto.impersonoitu # EiValittu
    [] OTHER -> TRUE

LueIstunto(p) ==
  /\ p.vaihe = "lahetetty" /\ istunto # EiValittu /\ Sallittu(p)
  /\ vaihdot' = (vaihdot \ {p}) \cup {[p EXCEPT !.vaihe = "luettu", !.istunto = istunto]}
  /\ UNCHANGED <<istunto, ikkuna, vaihtoja, harhassa>>

Muutettu(p) ==
  CASE p.toimi = "impersonoi" -> [p.istunto EXCEPT !.impersonoitu = p.arvo]
    [] p.toimi = "lopeta" -> [p.istunto EXCEPT !.impersonoitu = EiValittu]
    [] OTHER -> [p.istunto EXCEPT !.rooli = p.arvo]

KirjoitaIstunto(p) ==
  /\ p.vaihe = "luettu"
  /\ istunto' = Muutettu(p)
  /\ vaihdot' = (vaihdot \ {p}) \cup {[p EXCEPT !.vaihe = "tehty"]}
  /\ ikkuna' = [w \in Ikkunat |->
                  [ikkuna[w] EXCEPT !.luettavissa =
                     @ \cup {is \in {istunto'} : ikkuna[w].tila = "haku"}]]
  /\ harhassa' = harhassa \cup {w \in Ikkunat : w # p.ikkuna \/ ~p.oma}
  /\ UNCHANGED vaihtoja

\* mutant: the page stays as it is, with the rights it had
VaihtoOnnistuiPaikallaan(p) ==
  /\ p.vaihe = "tehty"
  /\ vaihdot' = vaihdot \ {p}
  /\ UNCHANGED <<istunto, ikkuna, vaihtoja, harhassa>>

\* $window.location: the window is loaded anew, and whatever else it has in
\* flight will find nobody waiting
VaihtoOnnistui(p) ==
  /\ p.vaihe = "tehty"
  /\ vaihdot' = {[q EXCEPT !.oma = @ /\ ~(p.oma /\ q.ikkuna = p.ikkuna)] : q \in vaihdot \ {p}}
  /\ IF p.oma
       THEN /\ ikkuna' = [ikkuna EXCEPT ![p.ikkuna] = Ladataan(istunto)]
            /\ harhassa' = harhassa \ {p.ikkuna}
       ELSE UNCHANGED <<ikkuna, harhassa>>
  /\ UNCHANGED <<istunto, vaihtoja>>

\* The server refuses, which the page passes over; or the answer does not come;
\* or there is no session, and the page of an expired session is shown
VaihtoEpaonnistui(p) ==
  /\ vaihdot' = vaihdot \ {p}
  /\ harhassa' = IF p.vaihe = "tehty" THEN harhassa \cup {p.ikkuna} ELSE harhassa
  /\ ikkuna' = IF p.oma /\ p.vaihe = "lahetetty" /\ istunto = EiValittu
                 THEN [ikkuna EXCEPT ![p.ikkuna].tila = "istunto-vanhentunut"]
                 ELSE ikkuna
  /\ UNCHANGED <<istunto, vaihtoja>>

IstuntoNext ==
  \/ IstuntoPaattyy
  \/ \E w \in Ikkunat :
       \/ OikeudetSaapuvat(w) \/ Lataa(w) \/ LopetaImpersonointi(w)
       \/ \E oid \in Impersonoitavat : Valitse(w, oid)
       \/ \E rooli \in DOMAIN RoolinNimi : VaihdaRoolia(w, rooli)
  \/ \E p \in vaihdot :
       LueIstunto(p) \/ KirjoitaIstunto(p) \/ VaihtoOnnistui(p) \/ VaihtoEpaonnistui(p)

-----------------------------------------------------------------------------
(* Properties                                                              *)

\* A window shows the rights the server goes by (of roles of one name that are
\* first in order, any): its own changes reach it by the load that follows
\* them, however many are in flight.  Left aside are
\* changes from other windows, changes whose answer was lost or came to a page
\* already gone, and the end of the session: nothing tells a window of those
\* (aipal.js:118-147, kayttooikeudet.js:26-50, vaihto.clj:27-46)
OikeudetIstunnosta ==
  \A w \in Ikkunat \ harhassa :
    ikkuna[w].tila = "nayta" /\ (\A p \in vaihdot : p.ikkuna # w) =>
      ikkuna[w].tiedot \in OmatTiedot(istunto)
=============================================================================
