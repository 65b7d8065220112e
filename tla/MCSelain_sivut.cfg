\* Every page but the reports', one at a time
SPECIFICATION Spec
CONSTANTS
  k1 = k1  k2 = k2  c1 = c1  g1 = g1  g2 = g2
  v = v  x = x  o = o  q = q  r = r  t1 = t1  t2 = t2
  j1 = j1  j2 = j2  s1 = s1  s2 = s2  s3 = s3
  a = a  b = b  ay = ay  ak = ak  bv = bv  bk = bk
  Sivut = {"tiedote", "ohje", "kyselyt", "luettelot", "kysely", "kyselypohja", "kysymysryhma",
           "kyselykerta", "vastaus", "istunto"}
  Puuttuu = Puuttuu
  MaxTekstit = 2
  OhjettaEi = OhjettaEi
  MaxOhjetekstit = 2
  MaxOhjehaut = 3
  Luettelokyselyt <- MCLuettelokyselyt
  MaxToimia = 2
  MaxLuettelohaut = 2
  Luettelorivit = {g1, g2}
  MaxRyhmatoimia = 3
  Ryhmatiedot <- MCRyhmatiedot
  Lomaketavat = {"uusi", "muokkaus", "kopio"}
  KyselyOnPalvelin <- MCKyselyOnPalvelin
  Pohjat <- MCPohjat
  MaxLisays = 2
  MaxTallennus = 2
  MaxMuutos = 2
  EiKyselya = EiKyselya
  PohjaOnPalvelin <- MCPohjaOnPalvelin
  MaxPohjatoimia = 3
  EiPohjaa = EiPohjaa
  Ryhmatavat = {"uusi", "muokkaus", "kopio"}
  KysymyksetOnPalvelin <- MCKysymyksetOnPalvelin
  NtmKayttaja = TRUE
  MaxKysymystoimia = 4
  Maaraamaton = Maaraamaton
  Kerrat <- MCKerrat
  Tanaan = 2
  Tunnukset <- MCTunnukset
  UudetTunnukset <- MCUudetTunnukset
  Koulut <- MCKoulut
  OmaToimija = j1
  MaxVastaajia = 2
  MaxKertatoimia = 3
  EiMitaan = EiMitaan
  Lomakkeet <- MCLomakkeet
  MaxLahetyksia = 2
  Maarittelematon = Maarittelematon
  Kayttaja = a
  Roolit <- MCRoolit
  RoolinNimi <- MCRoolinNimi
  Ikkunat = {"i1", "i2"}
  MaxVaihtoja = 3
  EiValittu = EiValittu
INVARIANTS
  TiedoteKannasta
  OhjeUusimmasta
  OhjeTallennetaanYksin
  RivitKannasta
  LuetteloKannasta
  RyhmatKunnossa
  TallentuuEsikatseltu
  LuodaanKerran
  PohjaKunnossa
  LahetettyKunnossa
  MuokkausOikein
  TunnuksetKannasta
  OppilaitosJarjestajalta
  LahetettyValidi
  PuuttuvatLuetellaan
  VastataanKerran
  OikeudetIstunnosta
PROPERTIES
  MerkinnatKayttajalta
  EditoriMuuttaaYhta
CHECK_DEADLOCK FALSE
