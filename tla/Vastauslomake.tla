---------------------------- MODULE Vastauslomake ----------------------------
(***************************************************************************)
(* The page of a respondent: the questions of a round, how each is         *)
(* answered, and what is sent.  Module Vastaaminen has the server's side,  *)
(* where only which questions were answered counts; here it is the values. *)
(* The server's checks of the values are beside the page's own, so that    *)
(* the two can be compared.                                                *)
(***************************************************************************)
EXTENDS Naturals, FiniteSets

CONSTANTS
  Lomakkeet,        \* forms: kysymysid -> [tyyppi, pakollinen, eos, vaihtoehdot, max, jatko]
  MaxLahetyksia,    \* bound: times the form is sent
  Maarittelematon           \* JavaScript's undefined

\* Questions with one choice of several, or a scale, are of type "valinta";
\* jatko has the answers that open a follow-up question.  Choices are numbers,
\* unlike the other values of an answer
ASSUME VastauslomakeOletus ==
  /\ MaxLahetyksia \in Nat
  /\ Maarittelematon \notin {"", "teksti", "kylla", "ei", "EOS", "rastittu", "rastiton"}
  /\ \A l \in Lomakkeet : \A k \in DOMAIN l :
       /\ l[k].tyyppi \in {"vapaateksti", "kylla_ei_valinta", "valinta", "monivalinta"}
       /\ l[k].max \in Nat
       /\ l[k].pakollinen \in BOOLEAN /\ l[k].eos \in BOOLEAN
       /\ IsFiniteSet(l[k].vaihtoehdot)
       /\ l[k].vaihtoehdot \cap {Maarittelematon, "EOS", "rastittu", "rastiton"} = {}
       /\ l[k].jatko # {} => l[k].tyyppi = "kylla_ei_valinta"
       /\ l[k].jatko \subseteq {"kylla", "ei"}

VARIABLES
  lomake,           \* the form of the round
  vastaukset,       \* kysymysid -> kysymys.vastaus; true and false of a multiple
                    \* choice are "rastittu" and "rastiton"
  valitut,          \* kysymysid -> ticked choices
  monivalinta,      \* kysymysid -> $scope.monivalinta[kysymysid], the count of them
  jatkovastaukset,  \* kysymysid -> the follow-up answer for each answer
  liianPitkat,      \* text boxes over the limit: <<kysymysid, "vastaus" or "jatko">>
  lahetykset,       \* requests in flight
  tallennaNappiDisabloitu,
  sivulla,          \* "haku", "lomake", "kiitos" or "vastausaika-loppunut"
  vastaajia,        \* respondents the server has stored for this page
  vastausmaarat     \* times sent; times an answer was lost after the server's work

vastauslomakkeenMuuttujat ==
  <<lomake, vastaukset, valitut, monivalinta, jatkovastaukset, liianPitkat, lahetykset,
    tallennaNappiDisabloitu, sivulla, vastaajia, vastausmaarat>>

syotteet == <<vastaukset, valitut, monivalinta, jatkovastaukset, liianPitkat>>

Kysymysidt == DOMAIN lomake
Tyyppi(k) == lomake[k].tyyppi

VastauslomakeInit ==
  /\ lomake \in Lomakkeet
  /\ vastaukset = [k \in Kysymysidt |-> Maarittelematon]
  /\ valitut = [k \in Kysymysidt |-> {}]
  /\ monivalinta = [k \in Kysymysidt |-> 0]
  /\ jatkovastaukset = [k \in Kysymysidt |-> [v \in lomake[k].jatko |-> Maarittelematon]]
  /\ liianPitkat = {}
  /\ lahetykset = {}
  /\ tallennaNappiDisabloitu = FALSE
  /\ sivulla = "haku"
  /\ vastaajia = 0
  /\ vastausmaarat = [lahetys |-> 0, katkos |-> 0]

\* Any error is shown as a round that has ended
LomakeSaapuu ==
  /\ sivulla = "haku"
  /\ sivulla' \in {"lomake", "vastausaika-loppunut"}
  /\ UNCHANGED <<lomake, syotteet, lahetykset, tallennaNappiDisabloitu, vastaajia, vastausmaarat>>

-----------------------------------------------------------------------------
(* Answering: the inputs of the form.  They stay enabled while a request   *)
(* is in flight.                                                           *)

Lomakkeella ==
  /\ sivulla = "lomake"
  /\ UNCHANGED <<lomake, lahetykset, tallennaNappiDisabloitu, sivulla, vastaajia, vastausmaarat>>

\* A new answer; the box of a follow-up goes with the answer that opened it
Vastaa(k, vastaus) ==
  /\ vastaukset' = [vastaukset EXCEPT ![k] = vastaus]
  /\ liianPitkat' = liianPitkat \ {<<k, "vastaus">>, <<k, "jatko">>}

\* What ng-model gives for a box with the text: undefined if it does not pass
\* the validators
Teksti(teksti, vaadittu) ==
  IF teksti = "liian pitka" \/ (vaadittu /\ teksti = "") THEN Maarittelematon ELSE teksti

Tekstit == {"", "teksti", "liian pitka"}

KirjoitaTeksti(k, teksti) ==
  /\ Lomakkeella /\ Tyyppi(k) = "vapaateksti"
  /\ vastaukset' = [vastaukset EXCEPT ![k] = Teksti(teksti, lomake[k].pakollinen)]
  /\ liianPitkat' = (liianPitkat \ {<<k, "vastaus">>}) \cup
                    {b \in {<<k, "vastaus">>} : teksti = "liian pitka"}
  /\ UNCHANGED <<valitut, monivalinta, jatkovastaukset>>

ValitseYksi(k, v) ==
  /\ Lomakkeella /\ Tyyppi(k) \in {"valinta", "kylla_ei_valinta"} /\ v # vastaukset[k]
  /\ Vastaa(k, v)
  /\ UNCHANGED <<valitut, monivalinta, jatkovastaukset>>

\* Cannot say: offered for mandatory questions, and not beside ticks
ValitseEOS(k) ==
  /\ Lomakkeella
  /\ lomake[k].pakollinen /\ lomake[k].eos
  /\ ~(Tyyppi(k) = "monivalinta" /\ monivalinta[k] > 0)
  /\ Vastaa(k, "EOS")
  /\ UNCHANGED <<valitut, monivalinta, jatkovastaukset>>

\* mutant: a question whose last tick is taken away stays answered
VastattuunJaa(k, maara) == "rastittu"

\* true while anything is ticked, and false, not undefined, after that
MonivalinnanVastaus(k, maara) == IF maara = 0 THEN "rastiton" ELSE "rastittu"

VaihdaMonivalinta(k, v) ==
  /\ monivalinta' = [monivalinta EXCEPT ![k] = IF v \in valitut'[k] THEN @ + 1 ELSE @ - 1]
  /\ Vastaa(k, MonivalinnanVastaus(k, monivalinta'[k]))

\* With max ticks the empty boxes are disabled
Rastita(k, v) ==
  /\ Lomakkeella /\ Tyyppi(k) = "monivalinta"
  /\ ~(monivalinta[k] = lomake[k].max /\ v \notin valitut[k])
  /\ valitut' = [valitut EXCEPT ![k] = IF v \in @ THEN @ \ {v} ELSE @ \cup {v}]
  /\ VaihdaMonivalinta(k, v)
  /\ UNCHANGED jatkovastaukset

\* yes is followed by a scale, no by a text
VastaaJatkoon(k) ==
  /\ Lomakkeella /\ vastaukset[k] \in lomake[k].jatko
  /\ \E j \in IF vastaukset[k] = "ei" THEN Tekstit ELSE lomake[k].vaihtoehdot :
       /\ jatkovastaukset' = [jatkovastaukset EXCEPT ![k][vastaukset[k]] = Teksti(j, FALSE)]
       /\ liianPitkat' = (liianPitkat \ {<<k, "jatko">>}) \cup
                         {b \in {<<k, "jatko">>} : j = "liian pitka"}
  /\ UNCHANGED <<vastaukset, valitut, monivalinta>>

-----------------------------------------------------------------------------
(* When the form can be sent, and what is sent                             *)

\* An input of the question has the error "required"
Vaaditaan(k) ==
  /\ lomake[k].pakollinen
  /\ CASE Tyyppi(k) = "monivalinta" -> vastaukset[k] # "EOS" /\ monivalinta[k] = 0
       [] Tyyppi(k) = "vapaateksti" ->
            /\ vastaukset[k] = Maarittelematon
            /\ lomake[k].eos \/ <<k, "vastaus">> \notin liianPitkat
       [] OTHER -> vastaukset[k] = Maarittelematon

\* vastausForm.$valid
LomakeKelpaa == liianPitkat = {} /\ \A k \in Kysymysidt : ~Vaaditaan(k)

\* The questions listed below the form as still to be answered
VastaaViela == {k \in Kysymysidt : lomake[k].pakollinen
                                   /\ vastaukset[k] \in {Maarittelematon, "rastiton"}}

Arvot(k) ==
  IF Tyyppi(k) = "monivalinta" /\ vastaukset[k] # "EOS" THEN valitut[k]
                                                        ELSE {vastaukset[k]} \ {Maarittelematon}

\* mutant: both follow-up answers go along
KaikkiJatkot(k) == [v \in {u \in lomake[k].jatko :
                             jatkovastaukset[k][u] \notin {Maarittelematon, ""}} |->
                      jatkovastaukset[k][v]]

\* Only the follow-up of the answer that was given
Jatko(k) == [v \in {u \in lomake[k].jatko \cap {vastaukset[k]} :
                      jatkovastaukset[k][u] \notin {Maarittelematon, ""}} |->
               jatkovastaukset[k][v]]

KeraaVastausdata ==
  [k \in {q \in Kysymysidt : Arvot(q) # {}} |-> [arvot |-> Arvot(k), jatko |-> Jatko(k)]]

\* mutant: the button can be pressed again while the request is in flight
NappiJaaPaalle == FALSE

NappiLahetettaessa == TRUE

TallennaVastaukset ==
  /\ sivulla = "lomake" /\ ~tallennaNappiDisabloitu /\ LomakeKelpaa
  /\ vastausmaarat.lahetys < MaxLahetyksia
  /\ vastausmaarat' = [vastausmaarat EXCEPT !.lahetys = @ + 1]
  /\ tallennaNappiDisabloitu' = NappiLahetettaessa
  /\ lahetykset' = lahetykset \cup {[nro |-> vastausmaarat.lahetys, vastaukset |-> KeraaVastausdata,
                                     rastit |-> valitut, tehty |-> FALSE]}
  /\ UNCHANGED <<lomake, syotteet, sivulla, vastaajia>>

-----------------------------------------------------------------------------
(* The server's checks                                                     *)

KyllaEiVastausValidi(q, v) ==
  \/ q.eos /\ v.arvot = {"EOS"}
  \/ v.arvot \subseteq {"kylla", "ei"}

MonivalintavastausValidi(q, v) ==
  \A arvo \in v.arvot : (q.eos /\ arvo = "EOS") \/ arvo \in q.vaihtoehdot

JatkovastausValidi(q, v) ==
  \/ DOMAIN v.jatko = {}
  \/ \E u \in q.jatko : DOMAIN v.jatko = {u}

Validi(vs) ==
  /\ \A k \in DOMAIN vs :
       /\ Tyyppi(k) = "kylla_ei_valinta" => KyllaEiVastausValidi(lomake[k], vs[k])
       /\ Tyyppi(k) \in {"valinta", "monivalinta"} => MonivalintavastausValidi(lomake[k], vs[k])
       /\ JatkovastausValidi(lomake[k], vs[k])
  /\ \A k \in Kysymysidt : lomake[k].pakollinen => k \in DOMAIN vs

PalvelinTallentaaVastaukset(p) ==
  /\ ~p.tehty /\ Validi(p.vastaukset)
  /\ lahetykset' = (lahetykset \ {p}) \cup {[p EXCEPT !.tehty = TRUE]}
  /\ vastaajia' = vastaajia + 1
  /\ UNCHANGED <<lomake, syotteet, tallennaNappiDisabloitu, sivulla, vastausmaarat>>

VastauksetTallennettu(p) ==
  /\ p.tehty
  /\ lahetykset' = lahetykset \ {p}
  /\ sivulla' = "kiitos"
  /\ UNCHANGED <<lomake, syotteet, tallennaNappiDisabloitu, vastaajia, vastausmaarat>>

\* Refused, or no answer came: the button works again
VastaustenTallennusEpaonnistui(p) ==
  /\ lahetykset' = lahetykset \ {p}
  /\ tallennaNappiDisabloitu' = FALSE
  /\ vastausmaarat' = [vastausmaarat EXCEPT !.katkos = @ + (IF p.tehty THEN 1 ELSE 0)]
  /\ UNCHANGED <<lomake, syotteet, sivulla, vastaajia>>

VastauslomakeNext ==
  \/ LomakeSaapuu \/ TallennaVastaukset
  \/ \E k \in Kysymysidt :
       \/ ValitseEOS(k) \/ VastaaJatkoon(k)
       \/ \E teksti \in Tekstit : KirjoitaTeksti(k, teksti)
       \/ \E v \in lomake[k].vaihtoehdot : Rastita(k, v)
       \/ \E v \in IF Tyyppi(k) = "kylla_ei_valinta" THEN {"kylla", "ei"}
                                                     ELSE lomake[k].vaihtoehdot :
            ValitseYksi(k, v)
  \/ \E p \in lahetykset :
       \/ PalvelinTallentaaVastaukset(p) \/ VastauksetTallennettu(p)
       \/ VastaustenTallennusEpaonnistui(p)

-----------------------------------------------------------------------------
(* Properties                                                              *)

\* Everything the page sends passes the server's checks, which were written
\* apart from it; and it keeps the one rule the server does not check, the
\* number of choices.  Choices are sent exactly as ticked, EOS without any
\* (vastausui.js:26-66, 124-144; vastaus.clj:26-93)
LahetettyValidi ==
  \A p \in lahetykset :
    /\ Validi(p.vastaukset)
    /\ \A k \in DOMAIN p.vastaukset : Tyyppi(k) = "monivalinta" =>
         /\ p.rastit[k] = p.vastaukset[k].arvot \ {"EOS"}
         /\ Cardinality(p.rastit[k]) <= lomake[k].max

\* The page says which questions keep the form from being sent: its list is
\* computed from the answers, the form's validity by the inputs
\* (vastaus.html:21-96)
PuuttuvatLuetellaan ==
  \A k \in Kysymysidt :
    /\ Vaaditaan(k) => k \in VastaaViela
    /\ k \in VastaaViela => Vaaditaan(k) \/ <<k, "vastaus">> \in liianPitkat

\* A respondent is stored once, however often the button is pressed; an answer
\* lost after the server's work costs one respondent more
\* (vastausui.js:68-79)
VastataanKerran == vastaajia <= 1 + vastausmaarat.katkos /\ Cardinality(lahetykset) <= 1
=============================================================================
