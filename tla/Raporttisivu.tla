---------------------------- MODULE Raporttisivu ----------------------------
(***************************************************************************)
(* The report page of aipal in one browser: the choices a user makes on    *)
(* its five tabs, the requests the page sends on them, and the answers,    *)
(* which come in any order or fail.  The tabs share one report object      *)
(* (raportti, sent whole), one scope and one kind of report request.       *)
(*                                                                         *)
(* Funding form, language, type of degree and the end of the period are    *)
(* values sent as chosen; of them only whether a type of degree is chosen  *)
(* counts here.  The organising schools (jarjestavat_oppilaitokset) are    *)
(* handled exactly as the organisers (koulutuksen_jarjestajat).            *)
(***************************************************************************)
EXTENDS Latausseuranta, SequencesExt

CONSTANTS
  Aineistot,    \* what the server may hold: degrees, organisers, surveys, ...
  MaxHaut,      \* bound: requests of one kind in flight
  Ei            \* JavaScript's undefined

Tasot == {"koulutusala", "opintoala", "tutkinto"}
Tyypit == Valilehdet \cup {"kehitys-ketjutettu"}
Kyselytyypit == {"kysely", "kyselykerta"}

\* The field of the report that names the survey or the round
Kentta(tyyppi) == IF tyyppi = "kysely" THEN "kyselyid" ELSE "kyselykertaid"
Kentat == {"kyselyid", "kyselykertaid"}
Listat == {"tutkinnot", "koulutustoimijat", "kyselyid", "kyselykertaid", "taustaryhmat"}

ASSUME AineistoOletus ==
  /\ MaxHaut \in Nat
  /\ \A a \in Aineistot :
       /\ a.valilehdet \subseteq Valilehdet
       /\ a.alku \in a.valilehdet
       /\ a.listat \subseteq Listat           \* the lists that are not empty
       /\ a.tutkintotyyppeja \in BOOLEAN
       /\ a.raportteja \in Nat                \* bound: reports asked for
       /\ Ei \notin a.kyselyt \cup a.kyselykerrat \cup a.ryhmat

VARIABLES
  aineisto,        \* what the server holds; never changes
  ladattu,         \* the lists that have arrived
  raportti,        \* the report object
  merkityt,        \* per list, the items with .valittu set
  suodatin,        \* the state filters of the survey and round lists
  oppilaitokset,   \* organiser -> copies of its schools in $scope.oppilaitokset
  koulumerkit,     \* organiser -> which of the copies have .valittu set
  oppilaitoshaut,  \* organiser -> requests for its schools in flight
  tiedot,          \* the survey or round vastaustunnustiedot is about
  taustat,         \* taustakysymysryhma, and the options ticked in it
  jonot,           \* requests for tiedot and taustat in flight, oldest first
  raporttihaut,    \* report requests in flight
  lahetetty,       \* how many reports have been asked for
  naytto,          \* the reports shown: $scope.tulos and $scope.raportit
  muisti           \* history: orders and failures of answers, organisers unticked

haunMuuttujat == <<oppilaitokset, koulumerkit, oppilaitoshaut, tiedot, taustat, jonot, muisti>>
raportinMuuttujat == <<raporttihaut, lahetetty, naytto, lataus, virheessa>>
muuttujat == <<aineisto, ladattu, raportti, merkityt, suodatin, haunMuuttujat,
               raportinMuuttujat>>

Valilehti == IF raportti.tyyppi = "kehitys-ketjutettu" THEN "kehitys" ELSE raportti.tyyppi
Kohde == IF raportti.kyselyid # Ei THEN raportti.kyselyid ELSE raportti.kyselykertaid
Alat == UNION {aineisto.alat[t] : t \in Tasot}
Kohteista == aineisto.kyselyt \cup aineisto.kyselykerrat
Jarjestajat == UNION {aineisto.jarjestajat[x] : x \in DOMAIN aineisto.jarjestajat}
Ladattu(lista) == lista \in ladattu
Xor(S, x) == IF x \in S THEN S \ {x} ELSE S \cup {x}

Init ==
  /\ aineisto \in Aineistot
  /\ ladattu = {}
  /\ raportti = [tyyppi |-> aineisto.alku, taso |-> "tutkinto",
                 valitut |-> [t \in Tasot |-> {}], koulutustoimijat |-> {},
                 oppilaitokset |-> {}, jarjestajat |-> {}, kyselyid |-> Ei,
                 kyselykertaid |-> Ei, jakso |-> Ei, eiTutkintoa |-> FALSE,
                 taustaryhma |-> Ei]
  /\ merkityt = [l \in Tasot \cup {"koulutustoimijat"} \cup Kentat |-> {}]
  /\ suodatin = [f \in Kentat |-> "auki"]
  /\ oppilaitokset = [k \in aineisto.koulutustoimijat |-> 0]
  /\ koulumerkit = [k \in aineisto.koulutustoimijat |-> {}]
  /\ oppilaitoshaut = [k \in aineisto.koulutustoimijat |-> 0]
  /\ tiedot = Ei
  /\ taustat = [ryhma |-> Ei, valitut |-> {}]
  /\ jonot = [tiedot |-> <<>>, taustat |-> <<>>]
  /\ raporttihaut = {}
  /\ lahetetty = 0
  /\ naytto = [tulos |-> 0, raportit |-> 0]
  /\ muisti = [tiedot |-> TRUE, taustat |-> TRUE, hylatyt |-> {}, poistetut |-> {}]
  /\ SeurantaInit

-----------------------------------------------------------------------------
(* Requests whose answers a watch or a click waits for                     *)

\* A request joins those of its kind; with none in flight, order is kept anew
Jonoon(jono, x) ==
  /\ Len(jonot[jono]) < MaxHaut
  /\ jonot' = [jonot EXCEPT ![jono] = Append(@, x)]
  /\ muisti' = [muisti EXCEPT ![jono] = @ \/ jonot[jono] = <<>>]

\* The i:th request of a kind is answered (onnistui) or fails
Jonosta(jono, i, onnistui) ==
  /\ jonot' = [jonot EXCEPT ![jono] = RemoveAt(@, i)]
  /\ muisti' = [muisti EXCEPT ![jono] = @ /\ i = 1 /\ onnistui]

-----------------------------------------------------------------------------
(* Loading the page                                                        *)

\* A list arrives.  With the groups of background questions comes the watch
\* that asks for the questions of the chosen one, the first to begin with
Lataa(lista) ==
  /\ lista \in aineisto.listat \ ladattu
  /\ ladattu' = ladattu \cup {lista}
  /\ IF lista = "taustaryhmat"
       THEN \E g \in aineisto.ryhmat :
              /\ raportti' = [raportti EXCEPT !.taustaryhma = g]
              /\ Jonoon("taustat", g)
       ELSE UNCHANGED <<raportti, jonot, muisti>>
  /\ UNCHANGED <<aineisto, merkityt, suodatin, oppilaitokset, koulumerkit, oppilaitoshaut,
                 tiedot, taustat, raportinMuuttujat>>

-----------------------------------------------------------------------------
(* Tabs                                                                    *)

PoistaKoulutusalaValinnat(v) == [v EXCEPT !["koulutusala"] = {}]
PoistaOpintoalaValinnat(v) == [v EXCEPT !["opintoala"] = {}]
PoistaTutkintoValinnat(v) == [v EXCEPT !["tutkinto"] = {}]
\* mutant: fields are forgotten when the choices are cleared
TyhjaaTutkinnot(v) == PoistaTutkintoValinnat(PoistaOpintoalaValinnat(v))

TyhjaaAlat(v) ==
  PoistaTutkintoValinnat(PoistaOpintoalaValinnat(PoistaKoulutusalaValinnat(v)))

\* mutant: the survey stays in the report
PoistaVainJarjestajat(r) == [r EXCEPT !.jarjestajat = {}]

\* Both fields go with their organisers, and the marks of both lists
PoistaKyselyValinnat(r) == [r EXCEPT !.jarjestajat = {}, !.kyselyid = Ei]
PoistaKyselykertaValinnat(r) == [r EXCEPT !.jarjestajat = {}, !.kyselykertaid = Ei]

\* Another tab is opened.  Choices of fields and degrees, of a survey and of
\* a round go, and so does the period that came from a survey; organisers,
\* schools, "no degree" and the group of background questions stay
VaihdaTyyppi(tyyppi) ==
  /\ tyyppi \in aineisto.valilehdet \ {Valilehti}
  /\ raportti' =
       [PoistaKyselyValinnat(PoistaKyselykertaValinnat(raportti)) EXCEPT
          !.tyyppi = tyyppi,
          !.valitut = TyhjaaAlat(@),
          !.jakso = Ei,
          !.taso = IF tyyppi \in Kyselytyypit THEN "tutkinto" ELSE @]
  /\ merkityt' = [TyhjaaAlat(merkityt) EXCEPT !["kyselyid"] = {}, !["kyselykertaid"] = {}]
  /\ taustat' = [taustat EXCEPT !.valitut = {}]
  /\ tiedot' = IF Kohde = Ei THEN tiedot ELSE Ei
  /\ UNCHANGED <<aineisto, ladattu, suodatin, oppilaitokset, koulumerkit, oppilaitoshaut,
                 jonot, muisti, raportinMuuttujat>>

-----------------------------------------------------------------------------
(* Fields, subfields and degrees                                           *)

PiilotaTutkintorakenneVaihto == raportti.tyyppi \in Kyselytyypit
\* mutant: the tab of organisers lets several be chosen too
VoikoVertailla == raportti.tyyppi # "kyselykerta" /\ raportti.tyyppi # "kehitys"

VoikoValitaUseita == raportti.tyyppi \in {"vertailu", "kysely", "kehitys-ketjutettu"}

VaihdaTaso(taso) ==
  /\ Ladattu("tutkinnot")
  /\ ~PiilotaTutkintorakenneVaihto
  /\ raportti' = [raportti EXCEPT !.taso = taso]
  /\ UNCHANGED <<aineisto, ladattu, merkityt, suodatin, haunMuuttujat, raportinMuuttujat>>

\* What is left of the choices of a level before x is ticked or unticked
Aiemmat(v, taso, x) ==
  IF ~VoikoValitaUseita /\ x \notin merkityt[taso] THEN {} ELSE v[taso]

\* valitseKoulutusala, valitseOpintoala and valitseTutkinto
Valitse(taso, x) ==
  /\ Ladattu("tutkinnot")
  /\ ~raportti.eiTutkintoa
  /\ raportti.taso = taso
  /\ raportti' = [raportti EXCEPT !.valitut[taso] = Xor(Aiemmat(raportti.valitut, taso, x), x)]
  /\ merkityt' = [merkityt EXCEPT ![taso] = Xor(Aiemmat(merkityt, taso, x), x)]
  /\ UNCHANGED <<aineisto, ladattu, suodatin, haunMuuttujat, raportinMuuttujat>>

\* Respondents without a degree: both tabs watch the box
VaihdaEiTutkintoa ==
  /\ Ladattu("tutkinnot")
  /\ raportti.tyyppi \in Kyselytyypit
  /\ raportti' = [raportti EXCEPT
                    !.eiTutkintoa = ~@,
                    !.valitut = IF raportti.eiTutkintoa THEN @ ELSE PoistaTutkintoValinnat(@)]
  /\ merkityt' = IF raportti.eiTutkintoa THEN merkityt ELSE PoistaTutkintoValinnat(merkityt)
  /\ UNCHANGED <<aineisto, ladattu, suodatin, haunMuuttujat, raportinMuuttujat>>

\* Many degrees in a row, or one: what has been chosen stays
VaihdaKetjutus ==
  /\ Valilehti = "kehitys"
  /\ raportti' = [raportti EXCEPT
                    !.tyyppi = IF @ = "kehitys" THEN "kehitys-ketjutettu" ELSE "kehitys"]
  /\ UNCHANGED <<aineisto, ladattu, merkityt, suodatin, haunMuuttujat, raportinMuuttujat>>

-----------------------------------------------------------------------------
(* Organisers and schools                                                  *)

\* An organiser brings its schools to the list when they arrive, and takes
\* those that are there when it is unticked
VaihdaKoulutustoimija(k) ==
  /\ Ladattu("koulutustoimijat")
  /\ raportti.tyyppi \notin Kyselytyypit
  /\ raportti' = [raportti EXCEPT !.koulutustoimijat = Xor(@, k)]
  /\ IF k \in raportti.koulutustoimijat
       THEN /\ merkityt' = [merkityt EXCEPT !["koulutustoimijat"] = @ \ {k}]
            /\ oppilaitokset' = [oppilaitokset EXCEPT ![k] = 0]
            /\ koulumerkit' = [koulumerkit EXCEPT ![k] = {}]
            /\ muisti' = [muisti EXCEPT !.poistetut = @ \cup {k}]
            /\ UNCHANGED oppilaitoshaut
       ELSE /\ oppilaitoshaut[k] < MaxHaut
            /\ merkityt' = [merkityt EXCEPT !["koulutustoimijat"] = @ \cup {k}]
            /\ oppilaitoshaut' = [oppilaitoshaut EXCEPT ![k] = @ + 1]
            /\ muisti' = [muisti EXCEPT !.hylatyt = @ \ {k}]
            /\ UNCHANGED <<oppilaitokset, koulumerkit>>
  /\ UNCHANGED <<aineisto, ladattu, suodatin, tiedot, taustat, jonot, raportinMuuttujat>>

\* mutant: the schools that arrive take the place of the list
OppilaitoksetVaihtuvat(k) ==
  /\ oppilaitoshaut[k] > 0
  /\ oppilaitoshaut' = [oppilaitoshaut EXCEPT ![k] = @ - 1]
  /\ oppilaitokset' = [j \in DOMAIN oppilaitokset |-> IF j = k THEN 1 ELSE 0]
  /\ koulumerkit' = [j \in DOMAIN koulumerkit |-> {}]
  /\ UNCHANGED <<aineisto, ladattu, raportti, merkityt, suodatin, tiedot, taustat,
                 jonot, muisti, raportinMuuttujat>>

\* concat: nobody looks whether k is still chosen, or its schools there already
OppilaitoksetSaapuvat(k) ==
  /\ oppilaitoshaut[k] > 0
  /\ oppilaitoshaut' = [oppilaitoshaut EXCEPT ![k] = @ - 1]
  /\ \/ /\ oppilaitokset' = [oppilaitokset EXCEPT ![k] = @ + 1]
        /\ UNCHANGED muisti
     \/ /\ muisti' = [muisti EXCEPT !.hylatyt = @ \cup {k}]
        /\ UNCHANGED oppilaitokset
  /\ UNCHANGED <<aineisto, ladattu, raportti, merkityt, suodatin, koulumerkit, tiedot, taustat,
                 jonot, raportinMuuttujat>>

\* The i:th copy of the (one) school of organiser k.  The report has the school
\* or has not, each copy has its own mark; the school stays chosen when the
\* organiser and the copies go
VaihdaOppilaitos(k, i) ==
  /\ Valilehti \in {"vertailu", "kehitys"}
  /\ i \in 1 .. oppilaitokset[k]
  /\ raportti' = [raportti EXCEPT !.oppilaitokset = Xor(@, k)]
  /\ koulumerkit' = [koulumerkit EXCEPT ![k] = IF k \in raportti.oppilaitokset
                                                THEN @ \ {i} ELSE @ \cup {i}]
  /\ UNCHANGED <<aineisto, ladattu, merkityt, suodatin, oppilaitokset, oppilaitoshaut, tiedot,
                 taustat, jonot, muisti, raportinMuuttujat>>

-----------------------------------------------------------------------------
(* Surveys and rounds                                                      *)

\* suodataKyselyt, suodataKyselykerrat: the list shows one state, or all
Suodata(f, tila) ==
  /\ f = Kentta(raportti.tyyppi)
  /\ raportti.tyyppi \in Kyselytyypit
  /\ suodatin' = [suodatin EXCEPT ![f] = tila]
  /\ UNCHANGED <<aineisto, ladattu, raportti, merkityt, haunMuuttujat, raportinMuuttujat>>

Kohteet(f) == IF f = "kyselyid" THEN aineisto.kyselyt ELSE aineisto.kyselykerrat
Nakyvissa(f) == {x \in Kohteet(f) : suodatin[f] \in {"kaikki", aineisto.tila[x]}}

\* valitseKysely and valitseKyselykerta, and the watch of the field: choosing
\* asks for the organisers of the respondents, dropping forgets them
ValitseKohde(f, x) ==
  /\ raportti.tyyppi \in Kyselytyypit
  /\ f = Kentta(raportti.tyyppi)
  /\ Ladattu(f)
  /\ x \in Nakyvissa(f)
  /\ IF x \in merkityt[f]
       THEN /\ raportti' = [raportti EXCEPT ![f] = Ei]
            /\ merkityt' = [merkityt EXCEPT ![f] = @ \ {x}]
            /\ tiedot' = Ei
            /\ UNCHANGED <<jonot, muisti>>
       ELSE /\ raportti' = [raportti EXCEPT ![f] = x, !.jarjestajat = {}, !.jakso = x]
            /\ merkityt' = [merkityt EXCEPT ![f] = {x}]
            /\ Jonoon("tiedot", x)
            /\ UNCHANGED tiedot
  /\ UNCHANGED <<aineisto, ladattu, suodatin, oppilaitokset, koulumerkit, oppilaitoshaut, taustat,
                 raportinMuuttujat>>

\* mutant: what is shown already is kept
TiedotSaapuvatKerran(i) ==
  /\ \E onnistui \in BOOLEAN :
       /\ Jonosta("tiedot", i, onnistui)
       /\ tiedot' = IF onnistui /\ tiedot = Ei THEN jonot.tiedot[i] ELSE tiedot
  /\ UNCHANGED <<aineisto, ladattu, raportti, merkityt, suodatin, oppilaitokset,
                 koulumerkit, oppilaitoshaut, taustat, raportinMuuttujat>>

\* haeVastaustunnustiedot is answered, for a survey chosen a while ago
TiedotSaapuvat(i) ==
  /\ \E onnistui \in BOOLEAN :
       /\ Jonosta("tiedot", i, onnistui)
       /\ tiedot' = IF onnistui THEN jonot.tiedot[i] ELSE tiedot
  /\ UNCHANGED <<aineisto, ladattu, raportti, merkityt, suodatin, oppilaitokset,
                 koulumerkit, oppilaitoshaut, taustat, raportinMuuttujat>>

\* An organiser of those shown
VaihdaJarjestaja(j) ==
  /\ raportti.tyyppi \in Kyselytyypit
  /\ tiedot # Ei
  /\ j \in aineisto.jarjestajat[tiedot]
  /\ raportti' = [raportti EXCEPT !.jarjestajat = Xor(@, j)]
  /\ UNCHANGED <<aineisto, ladattu, merkityt, suodatin, haunMuuttujat, raportinMuuttujat>>

-----------------------------------------------------------------------------
(* Background questions                                                    *)

ValitseTaustaryhma(g) ==
  /\ Ladattu("taustaryhmat")
  /\ raportti.tyyppi \notin Kyselytyypit
  /\ g # raportti.taustaryhma
  /\ raportti' = [raportti EXCEPT !.taustaryhma = g]
  /\ Jonoon("taustat", g)
  /\ UNCHANGED <<aineisto, ladattu, merkityt, suodatin, oppilaitokset, koulumerkit, oppilaitoshaut,
                 tiedot, taustat, raportinMuuttujat>>

\* mutant: the questions are taken once
TaustatSaapuvatKerran(i) ==
  /\ \E onnistui \in BOOLEAN :
       /\ Jonosta("taustat", i, onnistui)
       /\ taustat' = IF onnistui /\ taustat.ryhma = Ei
                       THEN [ryhma |-> jonot.taustat[i], valitut |-> {}] ELSE taustat
  /\ UNCHANGED <<aineisto, ladattu, raportti, merkityt, suodatin, oppilaitokset,
                 koulumerkit, oppilaitoshaut, tiedot, raportinMuuttujat>>

\* haeTaustakysymykset is answered: new questions, nothing ticked
TaustatSaapuvat(i) ==
  /\ \E onnistui \in BOOLEAN :
       /\ Jonosta("taustat", i, onnistui)
       /\ taustat' = IF onnistui THEN [ryhma |-> jonot.taustat[i], valitut |-> {}]
                                 ELSE taustat
  /\ UNCHANGED <<aineisto, ladattu, raportti, merkityt, suodatin, oppilaitokset,
                 koulumerkit, oppilaitoshaut, tiedot, raportinMuuttujat>>

MerkitseVaihtoehto(v) ==
  /\ taustat.ryhma # Ei
  /\ raportti.tyyppi \notin Kyselytyypit
  /\ taustat' = [taustat EXCEPT !.valitut = Xor(@, v)]
  /\ UNCHANGED <<aineisto, ladattu, raportti, merkityt, suodatin, oppilaitokset,
                 koulumerkit, oppilaitoshaut, tiedot, jonot, muisti, raportinMuuttujat>>

-----------------------------------------------------------------------------
(* The report                                                              *)

RaporttiValidi ==
  CASE raportti.tyyppi = "vertailu" ->
         raportti.valitut[raportti.taso] # {} \/ aineisto.tutkintotyyppeja
    [] raportti.tyyppi = "koulutustoimijat" -> raportti.koulutustoimijat # {}
    [] raportti.tyyppi \in Kyselytyypit -> raportti[Kentta(raportti.tyyppi)] # Ei
    [] OTHER -> TRUE

\* The degrees or fields the server restricts the report to: of a survey or a
\* round the degrees, or the respondents without one (Ei); nationally those of
\* the level, and "no degree" is not looked at
Tutkintorajaus ==
  IF raportti.tyyppi \in Kyselytyypit
  THEN IF raportti.eiTutkintoa THEN {Ei} ELSE raportti.valitut["tutkinto"]
  ELSE raportti.valitut[raportti.taso]

\* What the open tab shows of it: "no degree" hides the lists, and only the tabs
\* of surveys and rounds have its box
NaytettyTutkintorajaus ==
  IF ~raportti.eiTutkintoa THEN merkityt[raportti.taso]
  ELSE IF raportti.tyyppi \in Kyselytyypit THEN {Ei} ELSE {}

\* Three services: one for the national reports, one for each survey report
Palvelu == IF raportti.tyyppi \in Kyselytyypit THEN raportti.tyyppi ELSE "valtakunnallinen"

\* The button of the open tab.  Trying again after an error asks nothing of
\* the choices
MuodostaRaportti ==
  /\ lahetetty < aineisto.raportteja
  /\ \/ NayttaaSisallon(Valilehti) /\ RaporttiValidi
     \/ NayttaaVirheen(Valilehti)
  /\ lahetetty' = lahetetty + 1
  /\ raporttihaut' = raporttihaut \cup {[nro |-> lahetetty + 1, palvelu |-> Palvelu]}
  /\ AsetaLatausIndikaattori("raportinMuodostus")
  /\ UNCHANGED <<aineisto, ladattu, raportti, merkityt, suodatin, haunMuuttujat, naytto>>

\* A national report is one or several; the other tabs leave alone what a
\* national report of several has put on the page
RaporttiSaapuu(haku) ==
  /\ raporttihaut' = raporttihaut \ {haku}
  /\ naytto' \in IF haku.palvelu = "valtakunnallinen"
                   THEN {[tulos |-> haku.nro, raportit |-> 0],
                         [tulos |-> 0, raportit |-> haku.nro]}
                   ELSE {[naytto EXCEPT !.tulos = haku.nro]}
  /\ PyyntoOnnistui("raportinMuodostus")
  /\ UNCHANGED <<aineisto, ladattu, raportti, merkityt, suodatin, haunMuuttujat, lahetetty>>

RaporttiEpaonnistuu(haku) ==
  /\ raporttihaut' = raporttihaut \ {haku}
  /\ PyyntoEpaonnistui("raportinMuodostus")
  /\ UNCHANGED <<aineisto, ladattu, raportti, merkityt, suodatin, haunMuuttujat,
                 lahetetty, naytto>>

RaporttiVastaus ==
  \E haku \in raporttihaut : RaporttiSaapuu(haku) \/ RaporttiEpaonnistuu(haku)

-----------------------------------------------------------------------------
Next ==
  \/ \E lista \in Listat : Lataa(lista)
  \/ \E tyyppi \in Valilehdet : VaihdaTyyppi(tyyppi)
  \/ \E taso \in Tasot : VaihdaTaso(taso)
  \/ \E taso \in Tasot : \E x \in aineisto.alat[taso] : Valitse(taso, x)
  \/ VaihdaEiTutkintoa
  \/ VaihdaKetjutus
  \/ \E k \in aineisto.koulutustoimijat :
       \/ VaihdaKoulutustoimija(k) \/ OppilaitoksetSaapuvat(k)
       \/ \E i \in 1 .. oppilaitokset[k] : VaihdaOppilaitos(k, i)
  \/ \E f \in Kentat, tila \in {"auki", "kiinni", "kaikki"} : Suodata(f, tila)
  \/ \E f \in Kentat : \E x \in Kohteet(f) : ValitseKohde(f, x)
  \/ \E i \in DOMAIN jonot.tiedot : TiedotSaapuvat(i)
  \/ \E j \in Jarjestajat : VaihdaJarjestaja(j)
  \/ \E g \in aineisto.ryhmat : ValitseTaustaryhma(g)
  \/ \E i \in DOMAIN jonot.taustat : TaustatSaapuvat(i)
  \/ \E v \in aineisto.vaihtoehdot : MerkitseVaihtoehto(v)
  \/ MuodostaRaportti
  \/ RaporttiVastaus

\* The server answers a report request, or the connection to it breaks
Spec == Init /\ [][Next]_muuttujat /\ WF_muuttujat(RaporttiVastaus)

-----------------------------------------------------------------------------
(* Properties                                                              *)

\* The report object, the choices shown beside it, and what is being fetched
Raporttityyppi ==
  [tyyppi : Tyypit, taso : Tasot, valitut : [Tasot -> SUBSET Alat],
   koulutustoimijat : SUBSET aineisto.koulutustoimijat,
   oppilaitokset : SUBSET aineisto.koulutustoimijat,
   jarjestajat : SUBSET Jarjestajat, kyselyid : aineisto.kyselyt \cup {Ei},
   kyselykertaid : aineisto.kyselykerrat \cup {Ei}, jakso : Kohteista \cup {Ei},
   eiTutkintoa : BOOLEAN, taustaryhma : aineisto.ryhmat \cup {Ei}]
Merkkityyppi ==
  [Tasot \cup {"koulutustoimijat"} \cup Kentat ->
     SUBSET (Alat \cup aineisto.koulutustoimijat \cup Kohteista)]
Taustatyyppi == [ryhma : aineisto.ryhmat \cup {Ei}, valitut : SUBSET aineisto.vaihtoehdot]
Jonotyyppi == [tiedot : Seq(Kohteista), taustat : Seq(aineisto.ryhmat)]
Muistityyppi == [tiedot : BOOLEAN, taustat : BOOLEAN,
                 hylatyt : SUBSET aineisto.koulutustoimijat,
                 poistetut : SUBSET aineisto.koulutustoimijat]

ValinnatOK ==
  /\ raportti \in Raporttityyppi
  /\ Valilehti \in aineisto.valilehdet
  /\ merkityt \in Merkkityyppi
  /\ suodatin \in [Kentat -> {"auki", "kiinni", "kaikki"}]

JonotOK ==
  /\ jonot \in Jonotyyppi
  /\ Len(jonot.tiedot) <= MaxHaut /\ Len(jonot.taustat) <= MaxHaut
  /\ muisti \in Muistityyppi

HautOK ==
  /\ oppilaitoshaut \in [aineisto.koulutustoimijat -> 0 .. MaxHaut]
  /\ oppilaitokset \in [aineisto.koulutustoimijat -> Nat]
  /\ koulumerkit \in [aineisto.koulutustoimijat -> SUBSET (Nat \ {0})]
  /\ tiedot \in Kohteista \cup {Ei}
  /\ taustat \in Taustatyyppi

RaportitOK ==
  /\ lahetetty \in 0 .. aineisto.raportteja
  /\ raporttihaut \subseteq
       [nro : 1 .. lahetetty, palvelu : Kyselytyypit \cup {"valtakunnallinen"}]
  /\ naytto \in [tulos : 0 .. lahetetty, raportit : 0 .. lahetetty]
  /\ lataus \in [MetodiIdt -> [valmis : BOOLEAN, ok : BOOLEAN]]
  /\ virheessa \subseteq Ilmaisimet

\* Every part of the page's state has its shape
RaporttisivuOK ==
  /\ aineisto \in Aineistot
  /\ ladattu \subseteq aineisto.listat
  /\ ValinnatOK /\ HautOK /\ JonotOK /\ RaportitOK

\* The lists of fields and degrees, organisers, surveys and rounds
ListatVastaavat ==
  /\ \A t \in Tasot : merkityt[t] = raportti.valitut[t]
  /\ merkityt["koulutustoimijat"] = raportti.koulutustoimijat
  /\ \A f \in Kentat : merkityt[f] = IF raportti[f] = Ei THEN {} ELSE {raportti[f]}

\* The list of schools, for organisers that have never been unticked
KoulutVastaavat ==
  \A k \in aineisto.koulutustoimijat \ muisti.poistetut :
    koulumerkit[k] # {} <=> k \in raportti.oppilaitokset

\* The marks of the items (.valittu) and the report object that is sent are kept
\* separately and agree.  Of schools they agree until the organiser is unticked:
\* that takes the schools off the list and leaves them in the report, as
\* KoulutNakyvat shows.  A mark need not be in sight: the state filter can hide
\* a survey or round that stays chosen, and a level its list
\* (raporttiui.js:29-63, 80-101, 200-234, 250-266, 324-365)
MerkinnatVastaavat == ListatVastaavat /\ KoulutVastaavat

\* A report that compares organisers, and one of a round, is about at most one
\* field, subfield and degree, whatever the user chose on other tabs before
\* (raporttiui.js:112, :196)
YksiTutkinto ==
  raportti.tyyppi \in {"koulutustoimijat", "kyselykerta"} =>
    \A t \in Tasot : \A x, y \in raportti.valitut[t] : x = y

\* What another tab leaves of a survey, a round and the choices of a level
TyypinRajaukset ==
  /\ raportti.tyyppi \notin Kyselytyypit =>
       Kohde = Ei /\ raportti.jarjestajat = {} /\ raportti.jakso = Ei
  /\ raportti.tyyppi # "kysely" => raportti.kyselyid = Ei
  /\ raportti.tyyppi # "kyselykerta" => raportti.kyselykertaid = Ei
  /\ raportti.tyyppi \in Kyselytyypit =>
       /\ raportti.taso = "tutkinto"
       /\ raportti.valitut["koulutusala"] = {}
       /\ raportti.valitut["opintoala"] = {}
  /\ raportti.eiTutkintoa => \A t \in Tasot : raportti.valitut[t] = {}

\* A national report has no survey's id, organisers or start date, a report of a
\* survey has no round and no fields, one of a round no survey.  And the degrees
\* or fields the server restricts any report to are those the open tab shows:
\* "no degree" stays set on the tabs without its box and hides the lists there,
\* but what was chosen on them is gone and the server asks for nothing in its
\* place.  Schools are not among these restrictions; they stay, as KoulutNakyvat
\* shows (raporttiui.js:111-133, 380-384; tutkinnot.html:3-13, 100-104;
\* valtakunnallinen.clj:228-231, kyselyraportointi.clj:52, 236)
RajauksetTyypista == TyypinRajaukset /\ Tutkintorajaus = NaytettyTutkintorajaus

\* However an organiser is ticked and unticked while the answers come in any
\* order, once they have come its schools can be chosen if it is ticked,
\* unless a request for them failed (raporttiui.js:250-266)
OppilaitoksetToimijoille ==
  \A k \in raportti.koulutustoimijat :
    oppilaitokset[k] > 0 \/ oppilaitoshaut[k] > 0 \/ k \in muisti.hylatyt

\* When the answers come in the order of the requests and none fails, the
\* organisers shown in the end are those of the chosen survey or round
\* (raporttiui.js:343-352, 411-420).  The page does not see to the order.
TiedotKohteesta ==
  (jonot.tiedot = <<>> /\ muisti.tiedot /\ Kohde # Ei) => tiedot = Kohde

\* The same of the background questions and their group (raporttiui.js:137-163)
TaustatValitusta ==
  (jonot.taustat = <<>> /\ muisti.taustat /\ Ladattu("taustaryhmat"))
    => taustat.ryhma = raportti.taustaryhma

\* However the user moves between the tabs, at most one report is being made:
\* the buttons of all five wait for the same indicator (yhteinen.html,
\* kyselyraportit.html, kyselykertaraportit.html; seuranta.js:29-44)
YksiRaporttipyynto ==
  /\ Cardinality(raporttihaut) <= 1
  /\ lataus["raportinMuodostus"].valmis <=> raporttihaut = {}

Uudempi(nro) == nro = 0 \/ (nro > naytto.tulos /\ nro > naytto.raportit)

\* A report never takes the place of one asked for later (raporttiui.js:287-303)
NaytettyUusin ==
  [][ /\ naytto'.tulos # naytto.tulos => Uudempi(naytto'.tulos)
      /\ naytto'.raportit # naytto.raportit => Uudempi(naytto'.raportit) ]_naytto

\* "Muodostetaan" does not stay on the page: after every request there is a
\* button again, on every tab (latausindikaattori.html)
MuodostusPaattyy ==
  ~lataus["raportinMuodostus"].valmis ~>
    \A i \in Valilehdet : NayttaaSisallon(i) \/ NayttaaVirheen(i)

\* The schools the server restricts a national report to are ticked on the open
\* tab: "Valitse oppilaitokset, joiden vastaustietoja käytetään vertailussa"
\* (tekstit.properties:356).  A school stays in the report when its organiser is
\* unticked and on the tab that has no list of schools (raporttiui.js:260-263,
\* raportit.html:42-53, valtakunnallinen.clj:110)
KoulutNakyvat ==
  raportti.tyyppi \notin Kyselytyypit =>
    \A k \in raportti.oppilaitokset :
      Valilehti \in {"vertailu", "kehitys"} /\ koulumerkit[k] # {}

\* The report on the development of one degree.  "Vain vertailuraportilla voi
\* valita useamman tutkinnon/alan" (raporttiui.js:112); chaining lifts that,
\* and unticking it does not put it back (raporttiui.js:237-243)
KehitysYhdesta ==
  raportti.tyyppi = "kehitys" =>
    \A t \in Tasot : \A x, y \in raportti.valitut[t] : x = y
=============================================================================
