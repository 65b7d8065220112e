\* Two pages opened with one code for one respondent
SPECIFICATION Spec
CONSTANTS
  k1 = k1  c1 = c1  c2 = c2  t1 = t1  t2 = t2
  r1 = r1  q1 = q1  q2 = q2  h1 = h1  h2 = h2  s1 = s1  s2 = s2
  Ei = Ei
  Kyselyt = {k1}
  Kerrat = {c1}
  Tunnukset = {t1}
  Ryhmat = {r1}
  Kysymykset = {q1, q2}
  RyhmanKysymykset <- MCYksiRyhma
  Pakolliset = {q1}
  Poistettavat = {q2}
  Ikkunat <- Rajaton
  MaxLkm = 1
  MaxPaiva = 1
  Siirtymaaika = 1
  Istunnot = {s1, s2}
  MaxYrityksia = 1
  Kasittelijat = {h1}
  Sallitut = {"luoKysely", "julkaise", "luoKerta", "luoTunnukset"}
INVARIANTS
  MaksimiVastaajat
CHECK_DEADLOCK TRUE
