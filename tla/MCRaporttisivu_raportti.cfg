\* A user on the report page, answers in any order
SPECIFICATION Spec
CONSTANTS
  d1 = d1  d2 = d2  o1 = o1  o2 = o2  a1 = a1  k1 = k1  k2 = k2
  s1 = s1  s2 = s2  r1 = r1  g1 = g1  g2 = g2  v1 = v1  j1 = j1
  Ei = Ei
  MaxHaut = 2
  Aineistot <- MCAineistot
INVARIANTS
  MerkinnatVastaavat
  YksiTutkinto
  
  OppilaitoksetToimijoille
  TiedotKohteesta
  TaustatValitusta
  YksiRaporttipyynto
PROPERTIES
  NaytettyUusin
  MuodostusPaattyy
CHECK_DEADLOCK TRUE
