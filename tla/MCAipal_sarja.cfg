\* Administration one request at a time, answers at any point;
\* two rounds and two codes, so personal codes are made too.  No rule checked
\* here depends on vastaajien_lkm: changing it is left to other runs
SPECIFICATION Spec
CONSTANTS
  k1 = k1  c1 = c1  c2 = c2  t1 = t1  t2 = t2
  r1 = r1  q1 = q1  q2 = q2  h1 = h1  h2 = h2  s1 = s1  s2 = s2
  Ei = Ei
  Kyselyt = {k1}
  Kerrat = {c1, c2}
  Tunnukset = {t1, t2}
  Ryhmat = {r1}
  Kysymykset = {q1, q2}
  RyhmanKysymykset <- MCYksiRyhma
  Pakolliset = {q1}
  Poistettavat = {q2}
  Ikkunat <- Rajaton
  MaxLkm = 2
  MaxPaiva = 1
  Siirtymaaika = 1
  Istunnot = {s1}
  MaxYrityksia = 1
  Kasittelijat = {h1}
  Sallitut = {"luoKysely", "muokkaaKyselya", "julkaise", "sulje", "palauta",
    "palautaLuonnokseksi", "poistaKysely", "luoKerta", "muokkaaKertaa", "lukitseKerta",
    "poistaKerta", "luoTunnukset", "lukitseTunnus", "poistaTunnus"}
INVARIANTS
  EiPoistettavatKysytaan
  LuonnoksellaEiKertoja
  VastauksetKyselysta
PROPERTIES
  JulkaistuaEiMuokata
  LukkoAvataanPyynnosta
SYMMETRY SymIdt
CHECK_DEADLOCK TRUE
