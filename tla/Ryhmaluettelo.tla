---------------------------- MODULE Ryhmaluettelo ----------------------------
(***************************************************************************)
(* The page that lists the question groups, and the one that lists the     *)
(* survey templates: two pages of one shape, so the state below is that of *)
(* whichever is open (luettelo).  Every request that succeeds sends the    *)
(* browser to the page's own address with a slash after it, which ngRoute  *)
(* takes for a new visit: a new scope, and a new GET of the list.          *)
(***************************************************************************)
EXTENDS Naturals, FiniteSets

CONSTANTS
  Luettelorivit,     \* groups, or templates, on the server at first
  MaxRyhmatoimia     \* bound: requests that change something

ASSUME RyhmaluetteloOletus == MaxRyhmatoimia \in Nat

VARIABLES
  luettelo,       \* "kysymysryhmat" or "kyselypohjat"
  naytetyt,       \* the rows shown: id -> state, of those loaded
  ryhmahaku,      \* the GET of this visit: what the server had when it was sent
                  \* (a set of at most one)
  ryhmatoimet,    \* requests that change something, in flight
  ryhmatoimia,    \* how many of them there have been
  ryhmakanta,     \* id -> state, on the server
  eksyksissa      \* history: an answer or a GET was lost

ryhmaluettelonMuuttujat == <<luettelo, naytetyt, ryhmahaku, ryhmatoimet, ryhmatoimia,
                             ryhmakanta, eksyksissa>>

RyhmaluetteloInit ==
  /\ luettelo \in {"kysymysryhmat", "kyselypohjat"}
  /\ naytetyt = [r \in {} |-> ""]
  /\ ryhmakanta = [r \in Luettelorivit |-> "luonnos"]
  /\ ryhmahaku = {ryhmakanta}
  /\ ryhmatoimet = {}
  /\ ryhmatoimia = 0
  /\ eksyksissa = FALSE

\* KysymysryhmatController and KyselypohjatController: the list is set once
LuetteloSaapuu ==
  /\ ryhmahaku # {}
  /\ ryhmahaku' = {}
  /\ \/ naytetyt' \in ryhmahaku \cup {ryhmakanta} /\ UNCHANGED eksyksissa
     \/ eksyksissa' = TRUE /\ UNCHANGED naytetyt
  /\ UNCHANGED <<luettelo, ryhmatoimet, ryhmatoimia, ryhmakanta>>

-----------------------------------------------------------------------------
(* The buttons of a row, by the state the row shows                        *)

Siirtyma == [julkaise |-> "julkaistu", sulje |-> "suljettu", palautaLuonnokseksi |-> "luonnos",
             palautaJulkaistuksi |-> "julkaistu", poista |-> "poistettu"]

Toimi(l, toimi, r, nakyvaTila) ==
  /\ luettelo = l
  /\ r \in DOMAIN naytetyt
  /\ naytetyt[r] = nakyvaTila
  /\ ryhmatoimia < MaxRyhmatoimia
  /\ ryhmatoimia' = ryhmatoimia + 1
  /\ ryhmatoimet' = ryhmatoimet \cup
       {[nro |-> ryhmatoimia, toimi |-> toimi, rivi |-> r, tehty |-> FALSE]}
  /\ UNCHANGED <<luettelo, naytetyt, ryhmahaku, ryhmakanta, eksyksissa>>

JulkaiseKysymysryhma(r) == Toimi("kysymysryhmat", "julkaise", r, "luonnos")
SuljeKysymysryhma(r) == Toimi("kysymysryhmat", "sulje", r, "julkaistu")
PoistaKysymysryhma(r) == Toimi("kysymysryhmat", "poista", r, "luonnos")
PalautaKysymysryhmaJulkaistuksi(r) == Toimi("kysymysryhmat", "palautaJulkaistuksi", r, "suljettu")
PalautaKysymysryhmaLuonnokseksi(r) == Toimi("kysymysryhmat", "palautaLuonnokseksi", r, "julkaistu")

JulkaiseKyselypohja(r) == Toimi("kyselypohjat", "julkaise", r, "luonnos")
SuljeKyselypohja(r) == Toimi("kyselypohjat", "sulje", r, "julkaistu")
PoistaKyselypohja(r) == Toimi("kyselypohjat", "poista", r, "luonnos")
PalautaKyselypohjaJulkaistuksi(r) == Toimi("kyselypohjat", "palautaJulkaistuksi", r, "suljettu")
PalautaKyselypohjaLuonnokseksi(r) == Toimi("kyselypohjat", "palautaLuonnokseksi", r, "julkaistu")

-----------------------------------------------------------------------------
(* Answers                                                                 *)

\* The server changes what it still has
PalvelinMuuttaa(p) ==
  /\ ~p.tehty
  /\ p.rivi \in DOMAIN ryhmakanta
  /\ ryhmakanta' = IF p.toimi = "poista"
                     THEN [r \in DOMAIN ryhmakanta \ {p.rivi} |-> ryhmakanta[r]]
                     ELSE [ryhmakanta EXCEPT ![p.rivi] = Siirtyma[p.toimi]]
  /\ ryhmatoimet' = (ryhmatoimet \ {p}) \cup {[p EXCEPT !.tehty = TRUE]}
  /\ UNCHANGED <<luettelo, naytetyt, ryhmahaku, ryhmatoimia, eksyksissa>>

\* mutant: the page stays, with the row changed
MuutosOnnistuiPaikallaan(p) ==
  /\ p.tehty
  /\ ryhmatoimet' = ryhmatoimet \ {p}
  /\ naytetyt' = IF p.rivi \in DOMAIN naytetyt /\ p.toimi # "poista"
                   THEN [naytetyt EXCEPT ![p.rivi] = Siirtyma[p.toimi]]
                   ELSE [r \in DOMAIN naytetyt \ {p.rivi} |-> naytetyt[r]]
  /\ UNCHANGED <<luettelo, ryhmahaku, ryhmatoimia, ryhmakanta, eksyksissa>>

\* The row object is changed, or whatever row is now at the place of the
\* deleted one is cut out, and then all of it is dropped: $location.url
MuutosOnnistui(p) ==
  /\ p.tehty
  /\ ryhmatoimet' = ryhmatoimet \ {p}
  /\ naytetyt' = [r \in {} |-> ""]
  /\ ryhmahaku' = {ryhmakanta}
  /\ UNCHANGED <<luettelo, ryhmatoimia, ryhmakanta, eksyksissa>>

MuutosEpaonnistui(p) ==
  /\ ryhmatoimet' = ryhmatoimet \ {p}
  /\ eksyksissa' = (eksyksissa \/ p.tehty)
  /\ UNCHANGED <<luettelo, naytetyt, ryhmahaku, ryhmatoimia, ryhmakanta>>

RyhmaluetteloNext ==
  \/ LuetteloSaapuu
  \/ \E r \in Luettelorivit :
       \/ JulkaiseKysymysryhma(r) \/ SuljeKysymysryhma(r) \/ PoistaKysymysryhma(r)
       \/ PalautaKysymysryhmaJulkaistuksi(r) \/ PalautaKysymysryhmaLuonnokseksi(r)
       \/ JulkaiseKyselypohja(r) \/ SuljeKyselypohja(r) \/ PoistaKyselypohja(r)
       \/ PalautaKyselypohjaJulkaistuksi(r) \/ PalautaKyselypohjaLuonnokseksi(r)
  \/ \E p \in ryhmatoimet : PalvelinMuuttaa(p) \/ MuutosOnnistui(p) \/ MuutosEpaonnistui(p)

-----------------------------------------------------------------------------
(* Properties                                                              *)

\* However requests overlap and their answers cross, once all are in and no
\* answer was lost, the list is the one on the server: rows deleted side by
\* side, or changed twice, do no harm, because the last answer loads the page
\* anew (kysymysryhmalista.js:60-141, kyselypohjalista.js:62-123)
LuetteloKannasta ==
  (ryhmatoimet = {} /\ ryhmahaku = {} /\ ~eksyksissa) => naytetyt = ryhmakanta
=============================================================================
