# aipal: specification and proofs

aipal is the feedback system of Finnish adult education. Officials of education
providers build surveys from question groups, publish them, open rounds
(kyselykerta) and hand out codes (vastaajatunnus); students answer a round with
a code, anonymously; reports are made of the answers. This directory models
the rules of that life cycle, the way the two backends meet in the database, and
the browser pages, where most of the program's own logic is: what users choose,
what is sent of it, and answers that come in any order or not at all.
The names of the source are kept, so the models are partly in Finnish:

| name | meaning | name | meaning |
|---|---|---|---|
| kysely | survey | tunnus (vastaajatunnus) | code |
| kyselykerta, kerta | round | vastaaja | respondent |
| kysymysryhmä, ryhmä | question group | vastaus | answer |
| luonnos / julkaistu / suljettu | draft / published / closed | lukittu | locked |

## Inventory

| part | state | operations | with whom |
|---|---|---|---|
| database (`aipal-db`) | tables, keys, foreign keys, the functions `kaytettavissa` | transactions at READ COMMITTED | shared by both backends |
| answering backend (`aipal-vastaus/src/clj`) | none but the open transaction | GET form, POST answers | browser; database |
| answering page (`aipal-vastaus/frontend`) | the form, whether the button is enabled | open, send, send again | answering backend |
| survey administration (`aipal`: kysely, kyselykerta, vastaajatunnus) | none but the open transaction | create, edit, publish, close, reopen, return to draft, delete; lock; number of respondents | browser; database; access rights |
| access rights (`toimiala/kayttajaoikeudet`) | roles of the user | predicates on roles and on the state of the data | every handler |
| question groups and templates | state of a group, questions, references from surveys | create, edit, publish, close, return to draft, delete | survey administration |
| sessions | user, role, impersonation | login (also of users only LDAP knows), choice of role | access rights |
| nightly jobs | users, roles, organisations, degrees, report views | synchronise from LDAP and registers | sessions, rights, reports |
| reports, export | none | distributions, merging of background questions | read the database |
| report page (`raportti/raporttiui.js`) | the report object, marks on the lists, five tabs | choose, change tab, make a report | indicators; GETs of organisers, schools, background questions |
| progress indicators (`seuranta`, `lataus-indikaattori`) | a record per kind of request | called by report page, survey list, survey form | those pages |
| notice, guides (`tiedote.js`, `ohjeet.js`, `tallenna.js`, `apicallinterceptor.js`) | text shown, text edited | load, edit, save | server's text |
| survey list, lists of groups and templates | rows shown, rows open | publish, close, return, delete, lock | indicators; `sessionStorage` |
| survey form, template form | groups chosen, marks on groups and questions | add groups and templates, drag, mark, preview, save | indicator; GETs of groups |
| question group form | questions, editor | add, edit, cancel, copy, save | GET of the group |
| round page | round, codes, dialog | edit, make, lock and delete codes, change their numbers | GETs in any order; respondents answering meanwhile |
| session and windows (`aipal.js`, `vaihto.clj`, `kayttaja.clj`) | the session; what each window knows of it | impersonate, choose a role, load | all windows of one browser |

What is hard here is that nothing is coordinated but by the database. Every
request is one transaction whose statements each see what is committed when they
start; rights are checked by reads, the handler checks with further reads, and
the writes follow. Two backends and any number of requests interleave between
those statements. People keep pages open for days, send them late and send them
again after an error. A transaction may be rolled back by the code, by the
database or by a crash, and its answer may be lost after the commit.
On a page it is the other way round: one thread, but every GET and POST is answered
by a callback of its own, in any order, against what the user has done since; what is
chosen is kept twice (as marks on the items of the lists and in the object that is sent), and
the same rule is coded once for the preview, once for the save and once on the server.
`PROJECT.json` lists these hazards line by line.

What makes the parts correct: answers are stored whole and for a usable code
only; what is stored always refers to something; the content that people answer
does not change under them; locks, windows and the maximum number of respondents
hold; requests end. Of the pages: what is sent is what was chosen and fits its type; what is shown is what the
server has, or will be when the answers are in; nothing is created twice; and the user gets the button back.

## Modules

`Kyselykanta`
: The shared tables as committed: `kysely`, `kerta`, `tunnus` are partial functions
from ids to rows, `vastaaja` and `vastaus` sets of rows; `kaytetyt` are the ids the serial
keys have handed out (an id never comes back) and `paiva` is `current_date`. The
validity functions of `V12_3` are `KyselyKaytettavissa`, `KertaKaytettavissa`,
`TunnusKaytettavissa`. The content of a survey is the set of its groups and the set of its questions.

`Vastaaminen`
: The answering page and backend. `vaihe[s]` is where page `s` and its request are:
`AvaaSivu`, `TarkistaPaikat`, `HaeLomake` are the GET; `Laheta` is the button;
`TarkistaTunnus`, `LuoVastaaja`, `Validoi`, `TallennaVastaus` (once per answer) and `Vahvista` (the last
update and the commit) are the POST. What the transaction has written is in
`avoin` and `tallennetut` until `Vahvista`; `Peru` forgets it. `Kuittaa` delivers or loses the OK.
`LuoVastaaja` merges the select and the insert of `luo-vastaaja!`: a code that disappears in
between makes the insert fail just as one that disappears before. A respondent is
identified by page and try, which stands for the serial key.

`Kyselynhallinta`
: The fifteen state-changing handlers of surveys, rounds and codes. A worker takes a request (`Saapuu`),
checks the right (`Valtuuta`), makes the handler's own check (`Tarkista`), and writes and commits (an action named for
the operation). Each of the first three is a separate step, so that anything may
commit in between. A right that reads twice (`kyselykerta-muokkaus?`) is one
read. The writes are one step with the commit, because they come last and
hold row locks to the end. Saving an edited survey is three steps (`PoistaRyhmat`,
`PoistaKysymykset`, `MuokkaaKyselya`) because its two DELETEs can miss rows that another save commits;
`poistuvat` holds the rows an open edit deletes. That one save waits for another's row locks is left
out there, which adds interleavings only. Rows of one key collide: two lists of groups are both numbered
from 0 and `UNIQUE(kyselyid, jarjestys)` refuses the second.
`Poista` is the common shape of the deletions: it waits for the key share locks of open answering
transactions and is refused by the foreign keys of `vastaaja`.

`Aipal`
: Composes the three, adds fairness and states the properties.

`Vastauslupaus`
: What the answering service promises of one sending, as an abstract
specification of three variables: recorded at most once, only after its code was found usable while it was being served.
`Aipal!Lupaus` instantiates it with a refinement mapping.

`MCAipal` gives the constants values; `AipalProofs`, `VastausProofs` and `SarjaProofs` hold the theorems: references between
rows in the first, what becomes of a sending in the second, the rules of a survey's life in the third.

### Modules of the pages

A step is a callback of the browser with the digest that follows it, or a step of the server for one request. Requests are a
set (or a queue, where the order is what matters); most of those that change something are carried out by the server at one moment and
answered at a later one, or fail before or after the work. A variable that only properties read
is called history in its declaration.

`Latausseuranta`
: `seuranta.asetaLatausIndikaattori` and the directives that watch its record: `lataus` is the record of each kind of request,
`virheessa` the indicators that have taken an error from it. Operators that the pages call from their actions.

`Raporttisivu`
: The report page. `raportti` is the object sent, `merkityt` the `.valittu` marks of the items; every
function of the scope is an action (`VaihdaTyyppi`, `Valitse`, `VaihdaKetjutus`, `VaihdaKoulutustoimija`, `ValitseKohde`, ...) with the watches it
fires. Each copy of a school that an organiser's answer brings has a mark of its own (`koulumerkit`). `Tutkintorajaus` is the degrees or fields the server restricts a report to,
`NaytettyTutkintorajaus` those the tab's lists show ticked. `jonot` holds the GETs whose answers replace each other, `oppilaitoshaut` those of schools. `MuodostaRaportti` and `RaporttiVastaus` make a report.

`Tiedote`, `Ohje`
: The notice and the guides. In `Ohje` the save button is that of the `tallenna` directive, with the count the interceptors keep.

`Kyselyluettelo`, `Ryhmaluettelo`
: The list of surveys, which patches its rows by the answers, and the lists of groups and templates, which load anew. `PalvelinTekee` and
`PalvelinMuuttaa` carry a request out. Closing writes `suljettu`; a survey can be deleted while it is a draft or closed and has no respondents, and its rounds go with it.
Respondents answer meanwhile (`VastausTallentuu`). The list's button for surveys in the state `poistettu` is left out: no handler writes that state.

`Ryhmavalinta`, `Kyselylomake`, `Kyselypohjalomake`
: What the survey form and the template form share (uniqueness, order, marks: operators), and each form. `MuutaRyhmia` and `MuutaPohjaa` are the buttons of the groups and the dragging.

`Kysymysryhmalomake`
: The list of questions and the editor that takes its place. `aktiivinen` is the question being edited, `originals` what cancelling puts back.

`Kyselykertasivu`
: The page of a round: form, codes, the dialog that makes codes. `kierros` is what the server has of the survey and the round. The server makes codes in
batches (`PalvelinLuo`), and every code once (`annetut` are those there have been), so several requests to make codes may be in flight together. A
request carries its answer when the server has done it: `vastaus` the code as it then is, `tunnukset` the codes made.

`Vastauslomake`
: The respondent's page with values: every input of every type of question, what is collected, and beside it the server's `validoi-vastaukset`.
`Vastaaminen` has the same POST statement by statement, without values.

`Istunto`
: A session shared by windows. A request that changes it reads it (`LueIstunto`) and later writes it back whole (`KirjoitaIstunto`), as the session middleware does.
Of roles of equal rank any may become the active one: the query that reads them has no order.

`Selain`
: Composes the pages. A page has its own scope, dropped when it is left, and pages share only the server and the two services; so
a behaviour is one visit to one page (`sivu`), the others being at rest (`Levossa`). The report page is composed with the
indicators in its own module because it is one state space with fairness.

`Poiminta`
: Underscore's `_.filter` and `_.reject`, as the forms and lists use them. `SelectSeq` is recursive, and the prover knows nothing of it; here the members
that qualify are listed by their places, and `MCSelain` has TLC compare the two. `PoimintaProofs` proves what the other proofs need: a picked
list keeps order, types and distinctness, and what taking away and moving one member does.

`MCRaporttisivu` and `MCSelain` give the constants values; `RaporttiProofs`, `SivutProofs`, `LomakeProofs` and `LuetteloProofs` hold the theorems.

### What the model assumes

* Users hold the roles the operations ask for; a right is only what it reads of the data. A refusal no modelled state decides
  (role, name taken, more than 10 or 30 own questions, group not published) is `KasittelyKeskeytyy`.
* The groups offered are published and do not change (`RyhmanKysymykset` is a constant).
* Requests are those the pages send: an edit of a survey is offered for drafts and sends `tila` back as loaded, hence `"luonnos"`;
  an edit of a round is offered for unlocked ones and sends `lukittu` back as loaded. That the database may differ by then is modelled.
* Of an answer only its question matters. An answer that the validation of values refuses is a sending that `Keskeytyy`.
* Names are left out. A name taken makes a handler refuse; that rounds can get equal names is a hazard without a property.
* Texts, names and dates typed on forms are left out, and so is the form library's validation of them, except on the respondent's
  page, where it decides what can be sent.
* Codes are made for one respondent each (`henkilokohtainen`); a code for many is among those the round has.
* What the server sends is what it stores. A survey's and a template's groups come each once, by their `jarjestys` (`arkisto/kysely.clj:193`, `arkisto/kyselypohja.clj:81`,
  `arkisto/kysymysryhma.clj:285-299`; primary keys of `kysely_kysymysryhma` and `kysymysryhma_kyselypohja` in `V1_0__aipal_versio1.sql`), in the order the form numbered them when it saved
  (`lisaa-jarjestys`, `rest_api/kysely.clj:60`). A stored question group was saved from the group form, and is what the server stores of it: a question has the fields of its type and a follow-up only if it is a yes-or-no question (`Ehja`). A round belongs to one survey; `vastaajatunnusid` is a serial key.
* Of what a page loads once, the lists a property is about arrive at any moment; the rest is there. Nobody types into a form before it is loaded,
  and nobody leaves a page with the browser's own buttons while a save is in flight.

## Runs

The first seven runs are of `MCAipal`, where each operation is enabled by `Sallitut`; three are of `MCRaporttisivu`, two of `MCSelain`.

| run | instance | checks | shows |
|---|---|---|---|
| `sarja` | 1 worker, all operations but `muokkaaLukumaaraa`, 1 survey, 2 rounds, 2 codes, 1 page | `EiPoistettavatKysytaan`, `LuonnoksellaEiKertoja`, `VastauksetKyselysta`, `JulkaistuaEiMuokata`, `LukkoAvataanPyynnosta` | the rules of a survey's life, with answers at any point, as long as administration requests do not overlap |
| `rinnakkain` | 2 workers, 1 survey, round, code, page; all operations but reopening a survey and locking a code | `TypeOK`, `ViiteEheys`, `KeskeneraistenEheys` | references survive every overlap; this is the inductive invariant |
| `vastaaminen` | 1 worker, all operations, 1 page sent twice; the window ends; `ReiluSpec` | `KaikkiTaiEiMitaan`, `LupausToteutuu`, `LahetysValmistuu`, `PyyntoValmistuu` | answers are all or nothing; refinement of `Vastauslupaus`; every request ends, also when it waits for locks |
| `maksimi` | 2 pages, 1 code for 1 respondent | `MaksimiVastaajat` violated | finding: the maximum is not enforced by POST |
| `muokkaus` | 2 workers: edit and publish | `JulkaistuaEiMuokata` violated | finding: a published survey is edited |
| `sulkeminen` | 1 page, a worker that closes | `SuljettuunEiVastata` violated | finding: a closed survey gets answers of a request in progress |
| `kaksoismuokkaus` | 2 workers: two edits | `EiPoistettavatKysytaan` violated | finding: two saves mix their content |
| `raportti` | five contents of the server (below), 2 GETs of a kind in flight, up to 3 reports; 246 000 states | `MerkinnatVastaavat`, `YksiTutkinto`, `RajauksetTyypista`, `OppilaitoksetToimijoille`, `TiedotKohteesta`, `TaustatValitusta`, `YksiRaporttipyynto`, `NaytettyUusin`, `MuodostusPaattyy` | the marks agree with what is sent, and the degrees and fields a report is restricted to are those its tab shows; late answers; one report at a time, and the button comes back |
| `ketjutus` | as `raportti` | `KehitysYhdesta` violated | finding: chaining lifts the limit of one degree for good |
| `koulut` | as `raportti` | `KoulutNakyvat` violated | finding: schools stay in the report when they have left the page |
| `sivut` | every other page, one at a time; 1.15 million states | the 17 invariants and 2 action properties of the table below | each page against its own requests, in any order, with losses |
| `tiedote` | the notice alone | `TallennettuNaytetaan` violated | finding: a late GET hides the notice just saved |

What `sivut` checks, page by page:

| module | properties |
|---|---|
| `Tiedote` | `TiedoteKannasta`: no text is shown that the server has not had |
| `Ohje` | `OhjeUusimmasta`: once all GETs are in, the newest is shown; `OhjeTallennetaanYksin`: the interceptors' count keeps saves apart |
| `Kyselyluettelo` | `RivitKannasta`: rounds, state, locks and delete button of the rows that stay agree with the server when the answers are in |
| `Ryhmaluettelo` | `LuetteloKannasta`: so does the whole list, however requests overlap |
| `Kyselylomake` | `RyhmatKunnossa`: each group once, national and background groups in the blocks respondents see; `MerkinnatKayttajalta`: marks survive late answers; `TallentuuEsikatseltu`: what is saved is what was previewed; `LuodaanKerran`: created once |
| `Kyselypohjalomake` | `PohjaKunnossa`: the same of templates, and of each one sent |
| `Kysymysryhmalomake` | `LahetettyKunnossa`: what the page sends is complete, and what the server stores of it has the fields and follow-ups of its types only; `EditoriMuuttaaYhta`: the editor changes one question |
| `Kyselykertasivu` | `MuokkausOikein`: two answers, either first, decide editability; `TunnuksetKannasta`: codes agree with the server; `OppilaitosJarjestajalta`: school and organiser agree |
| `Vastauslomake` | `LahetettyValidi`: what the page sends, the server takes; `PuuttuvatLuetellaan`: what keeps the button off is listed; `VastataanKerran`: stored once |
| `Istunto` | `OikeudetIstunnosta`: a window shows the session's rights |

Several of these say "unless": two requests about one row in flight together, a lost answer, answers out of order, another window. The exceptions
are the cases nothing in the code guards; the property says that nothing else goes wrong.

### Findings

1. `vastaajien_lkm` is documented as the maximum number of respondents of a code. Only GET compares it with the
   respondents there are. Two pages opened while one place is free are both recorded, and so is a page sent again
   after its OK was lost.
2. A published survey is said not to be editable. The right to edit is checked before the writes and
   nothing keeps a publication from committing in between; the edit then replaces published
   content and makes the survey a draft.
3. A closed survey is said not to take answers. A request whose code has been
   checked is recorded although the survey is closed before it commits. The window is one transaction long;
   `LupausToteutuu` states what does hold: the code was usable at a moment while the request was served.
4. A question that is not marked `poistettava` is said to stay in a survey. Two overlapping saves of
   a draft, one of them of an empty list of groups, leave a survey with a group and none of its questions.
5. "Only the comparison report takes several degrees" says a comment of the report page, and it clears the choices when the type changes.
   Chaining is a type of its own, takes several, and is switched without clearing; a development report is then sent with two degrees.
6. The text above the schools says that those ticked are used in the comparison. Unticking an organiser takes its schools off the list and leaves them in the report; so does
   the tab that compares organisers, which has no such list. The server restricts the answers to schools nobody sees.
7. "Updates the notice shown if the save succeeds" says a test. The first GET of the notice may be answered after the save and shows the old text.

### Bounds, and why they are enough

* One survey: handlers touch one survey each; two surveys share only ids. Two rounds and two codes (`sarja`) give a
  survey with several rounds of different locks and personal codes; the other runs need one.
* Two workers and one page (`rinnakkain`), one worker and one page that is sent twice (`vastaaminen`): every hazard listed is between two transactions,
  `MaksimiVastaajat` apart, which has two pages. That more pages change nothing for the answers is what `KokonaanTaiEiLainkaan` and `LupausPidetaan` prove.
  Three would be needed for cycles of waiting, but only deletions wait, and only for answering transactions, which wait for nobody.
* `MaxYrityksia`: a page is sent at most once or twice; the second try is what a lost OK leads to.
  In `vastaaminen` the bound matters: with endless new senders a deletion might wait for ever for locks.
* Two questions, one mandatory, one removable, in one group. `EiPoistettavatKysytaan` and the checks of content tell
  no more apart.
* `MaxPaiva` 2 with a window of one day, and `Siirtymaaika` 1 for the 30 days, where the day matters; else one day and no window.
* Symmetry of workers, pages or ids is used in runs of safety properties only.
* `raportti`: what the server holds is one of five contents, each rich in one respect: fields, subfields and degrees with a round; two organisers with a school each;
  two surveys in different states and a round, each with or without organisers; two groups of background questions; and reports (three, so that an error is followed by a success
  and another). Choices of different kinds meet only in changes of tab, which every content has. Two requests of a kind in flight let one overtake another.
* `sivut`: two texts, two or three GETs, two saves: one thing is overtaken by another of its kind. Two surveys, one with a round; two groups; groups that differ
  in what the order and the trash buttons look at (national, background, closed, number of questions, one of them removable). Four actions in the editor of questions: open, change type twice, keep.
  Rounds with every combination of new, usable and locked, and with windows on both sides of today; two organisers with one and two schools. Four forms with every
  type of question, mandatory or not, with and without EOS and follow-ups. A session with two users of two roles each and two windows, and three changes or loads.
* Deadlock is not checked in `sivut`: a visit ends, and counts of user actions are bounded.

### Fairness

`ReiluSpec` assumes weak fairness of the steps of a request that has begun, for each
page's server side and each worker: threads are scheduled, statements return, and a row lock waited for is granted when it is free. It does not
assume that people open or send pages, that requests arrive, that a failure happens or that the day changes.
A waiting deletion is not enabled while the lock is held, so its weak fairness suffices only
because the tries of a page are bounded (see above).

`Raporttisivu!Spec` assumes weak fairness of `RaporttiVastaus`: the server answers a request for a report, with success or an error, or the
connection breaks; the browser calls back in each case. It assumes nothing of the user. The other pages have no liveness property: what they promise is what they show.

## Proofs

`AipalProofs` proves, for every number of surveys, rounds, codes, groups, questions, pages and workers and every bound
(assumptions: `KantaOletus`, `VastaaminenOletus`, `HallintaOletus`, which only give the constants their types):

in `AipalProofs`

* `TyyppiSailyy`: `Spec => []TypeOK`
* `ViitteetEheat`: `Spec => []ViiteEheys`
* `KeskeneraisetEheat`: `Spec => []KeskeneraistenEheys`

and in `VastausProofs`, which rests on it,

* `KokonaanTaiEiLainkaan`: `Spec => KaikkiTaiEiMitaan`
* `LupausPidetaan`: `Spec => LupausToteutuu`

`TypeOK` is inductive by itself. `ViiteEheys` (committed rows refer to rows that exist) is not: a
deletion looks at committed respondents only, so it would leave the respondent of an open transaction, once committed, without its
code. It is inductive together with `KeskeneraistenEheys` (the code and round of an open respondent row exist and
agree), which holds because deletions wait for the key share locks. The new row satisfies it because `ViiteEheys` says that the code's round
exists. The argument goes action by action: `VastausaskelEheys` for the answering side; `PoistoEheys` for
the three deletions, from the foreign keys and the locks; `RivitPysyvat` for every other write, which keeps the round of each code.
The same three formulas are checked by `rinnakkain`.

`KaikkiTaiEiMitaan` and the refinement ask who a respondent is: the answers stored under its id are those of this
request only if nothing was stored under it before. The strengthening is `LahetystenEheys`: stored ids belong to tries whose
request is over (`UudetIdt`), the row of an open transaction has the id of the current try (`AvoimetIdt`), a page not yet
opened has sent nothing (`Avaamattomat`), and what is being saved passed the validation (`Validoidut`).
With `ViiteEheys`, no answer refers to the new id before the commit (`VahvistaKokonaan`).

The refinement proof has a lemma for each action of `Vastauslupaus`: `Laheta` is `Saapuu`, `TarkistaTunnus` is `Hyvaksy`,
`Vahvista` is `Kirjaa`, and every way to fail is `Hylkaa`. Opening a page, reading, validating and saving, and
delivering or losing the OK are stutters (`LupausEnnallaan`). Administration and the change of day may open and close
codes (`AukioloMuuttuu`). They touch no sending (`MuutMuuttamatta`).

### The rules of a survey's life

`SarjaProofs` proves the five properties of run `sarja`, each under the assumption `YksiKasittelija` (one request of the administration at a time; any
number of pages). The findings are what happens without it.

* `LuonnoksellaEiKoskaanKertoja`, `EiPoistettavatAinaKysytaan`: inductive together with `Tarkistukset`, which says that what the request has
  checked is so until it writes: the survey of a new round is published, that of an edit is a draft whose content is what the edit deletes, one returned to draft has no rounds.
  Drafts need the references too: no round refers to the id a new survey gets. That counting no rounds means there are none needs the rounds to be finitely many.
* `JulkaistuaEiKoskaanMuokata`, `LukkoAinaAvataanPyynnosta`: from the same invariant; `Pysyy` is what every write leaves as it is.
* `VastauksetAinaKyselysta`: the questions behind a code stay while the code does (`KysymyksetPysyvat`), because its survey has a round and so is no draft. For a request
  under way `KeskeneraistenEheys` keeps the code, so what it was validated against is what the survey asks at the commit (`LuettuSisalto`).

### The report page

`RaporttiProofs`, for all data a server may hold and any number of requests (`AineistoOletus`: the shape of the data), proves the types and the eight
safety properties of run `raportti`:

* `RaporttisivuTyypit`: the type invariant, in four parts (choices, searches, queues, reports) so that an action is shown to leave alone the parts it does not touch.
* `MerkinnatAinaVastaavat`, `AinaYksiTutkinto`, `RajauksetAinaTyypista`: the marks of the lists, the limit and the restrictions by type are together inductive (`ValinnatKunnossa`). The limit of one degree needs the
  marks to equal the choices, because `Aiemmat` looks at the marks, and the restrictions of the tab, because "no degree" bars choosing. That what restricts a report is what the tab shows follows
  (`NaytettyRajaus`): "no degree" stays set on tabs without its box, but nothing is chosen then. The marks of schools have an invariant of their own (`KoulutKunnossa`): an organiser never unticked is asked
  about once, so there is at most one copy of each of its schools, and the mark and the choice go together.
* `OppilaitoksetAinaToimijoille`: the copies of an organiser's schools and the requests in flight add up to whether it is ticked, unless one failed.
* `TiedotAinaKohteesta`, `TaustatAinaValitusta`: as long as answers have come in order, the last request of the queue is for what is chosen; with an empty queue, what is shown is.
* `AinaYksiRaporttipyynto`, `NaytettyAinaUusin`: a request is in flight exactly while the record says so, and its number is `lahetetty`, the largest given.

### The other pages

`SivutProofs` starts from the lemmas that a step of `Selain` is a step of the open page or leaves the page alone, and then proves page by page:

* `TiedoteAinaKannasta`: whatever may still reach the page (a GET's reading, a save's text once it is stored) is among the server's texts.
* `OhjeAinaYksin`, `OhjeAinaUusimmasta`: the count equals the number of saves, which is at most one while the button obeys it; an up-to-date scope has the newest number.
* `VastataanAinaKerran`: one request with the button off, and respondents at most the lost answers, plus one if the request in flight, or the one that succeeded, was stored.
* `LahetettyAinaValidi`, `PuuttuvatAinaLuetellaan`: per question, the answer, the ticked choices, their count and the follow-up agree with the question's type; then a form the page accepts collects to a request the server accepts. For every form, not only the four of the run.
* `LuetteloAinaKannasta`: unless a load or a change is on its way, the rows are the server's.
* `OikeudetAinaIstunnosta`: what a window shows is the session's, or its own finished change is on its way to it; a request of an earlier visit has no page to answer.
* `LuodaanAinaKerran`: one request while the indicator is not finished. `MuokkausAinaOikein`: editability as decided by the answers that have come. `OppilaitosAinaJarjestajalta`: the newest request is for the organiser chosen.

Their assumptions are those the modules state (`TiedoteOletus`, `VastauslomakeOletus`, `KyselykertasivuOletus`): values that JavaScript
tells apart are different, bounds are numbers, a form has the shape the server gives it.

### The forms

`LomakeProofs` proves the four invariants and the two action properties of the three forms, for any groups, templates and questions.

* Lists of groups first: whatever a button or the dragging does to a list that is in order (`Kunnossa`) leaves one in order; picking, marking and sorting lose and double nothing. The sort cuts the list into
  the four blocks of `Lohko`, keeps the order inside each and puts them one after another (`JarjestettyKunnossa`).
* `RyhmatAinaKunnossa`, `TallentuuAinaEsikatseltu`: inductive together (`LomakkeenLista`). The form's list is in order; while it has not come there is nothing to preview; and what the preview showed is what the list now on the form,
  stripped as a save strips it, would ask. The preview asks less of a question than the save sends, hence the last part.
* `MerkinnatAinaKayttajalta`: answers only append groups that are not on the form; the rest of the list is the same rows.
* `PohjaAinaKunnossa`: `PohjaInv`; groups are asked for only by a form whose list has come.
* `LahetettyAinaKunnossa`, `EditoriAinaMuuttaaYhta`: `RyhmaInv`. Every question but the one in the editor is finished (`Siisti`), and so are the questions a cancel would put back; the one in the editor never has more choices than options, though its type may not use them (`Muokattava`).
  While the group under the editor is the one it was opened on, the other questions are as they were and a cancel puts back the list of then (`EnnenMuistissa`).
  A follow-up stays on a question whose type has changed and is sent; that the server drops it, so that what is stored fits its type, is `TallentuvaEhja`.

### The list of surveys and the codes of a round

`LuetteloProofs` proves the two properties that compare a page with the server while requests about its rows are done at one moment and put onto the page at another.

* `RivitAinaKannasta`: neither the rows nor the server's tables are what they should be while requests are in flight, so the invariant (`LuetteloInv`) says by what they differ. The rounds of a row are the server's and those whose
  deletion is done but not yet answered, each deleted once; a row that says it can be deleted is right about it until somebody answers; a survey that never had two requests has at most one, and until it is answered its state and locks are the server's but for that request; while a GET is in flight nobody changes the surveys.
  After a lost answer or a GET that overtakes a request, only the types are claimed.
* `TunnuksetAinaKannasta`: `TunnusInv`, likewise. The rows are the server's codes, without the batches whose answers are on their way (`Tulossa`) and with the deleted ones whose answers are (`Lahdossa`); batches are disjoint, and nobody has a request about a code the page
  has not been told of; the number and the lock of a row are the server's, or become so when the answer on its way is put onto it. Codes that ever existed (`annetut`) bound everything else: a new batch meets no row, request or code.
  That the list is as long as there are codes follows by a bijection.

Both invariants were checked by TLC before they were proved, on instances somewhat larger than those of `sivut` (three requests and two rounds; four actions and two batches).

### Model-checked only

* Liveness (`LahetysValmistuu`, `PyyntoValmistuu`, `MuodostusPaattyy`), which this prover does not reach.
* That `Poimi` is `SelectSeq`: an assumption of `MCSelain`, evaluated for short lists, because `SelectSeq` is recursive.
* The findings: each is a behaviour TLC exhibits.

Every other property of a passing run is stated by a theorem.

## Plan

1. Groups and templates in the database: their return to draft against surveys that take the group.
2. The values of an answer in the database columns they end in, for requests no page sends.
3. The SQL functions and the views of `V12_3` with three-valued logic.
4. Roles and organisations; login from LDAP against the nightly job.
5. What a synchronisation of a register adds, changes and closes.
6. The server's side of reports: distributions, merging of background questions, the minimum number of respondents.

## Not modelled

* The nightly jobs, LDAP, registers, server side of reports: planned above. They are batches of SQL over external data.
* Vipunen export (reads only), the database tool (runs while the system is down), audit log, provisioning.
* `typeahead.js`, a changed copy of a library's directive: which element shows which suggestion. The Gruntfiles, which build.
* The small report pages (`raportti/kyselyui.js`, `raportti/kyselykerta/`): one GET and layout. Charts, percentages, date pickers, translations.
* The preview page of a form (`lomakeui.js`): shows what it is given.
