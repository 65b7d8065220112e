\* One page that may be sent twice, all operations, one request at a time;
\* the round ends with the first day.  Fair scheduling
SPECIFICATION ReiluSpec
CONSTANTS
  k1 = k1  c1 = c1  c2 = c2  t1 = t1  t2 = t2
  r1 = r1  q1 = q1  q2 = q2  h1 = h1  h2 = h2  s1 = s1  s2 = s2
  Ei = Ei
  Kyselyt = {k1}
  Kerrat = {c1}
  Tunnukset = {t1}
  Ryhmat = {r1}
  Kysymykset = {q1, q2}
  RyhmanKysymykset <- MCYksiRyhma
  Pakolliset = {q1}
  Poistettavat = {q2}
  Ikkunat <- Ensipaiva
  MaxLkm = 1
  MaxPaiva = 2
  Siirtymaaika = 1
  Istunnot = {s1}
  MaxYrityksia = 2
  Kasittelijat = {h1}
  Sallitut = {"luoKysely", "muokkaaKyselya", "julkaise", "sulje", "palauta",
    "palautaLuonnokseksi", "poistaKysely", "luoKerta", "muokkaaKertaa", "lukitseKerta",
    "poistaKerta", "luoTunnukset", "lukitseTunnus", "muokkaaLukumaaraa", "poistaTunnus"}
PROPERTIES
  KaikkiTaiEiMitaan
  LupausToteutuu
  LahetysValmistuu
  PyyntoValmistuu
CHECK_DEADLOCK TRUE
