------------------------------ MODULE MCAipal ------------------------------
(***************************************************************************)
(* Values of the constants of Aipal for model checking.                    *)
(***************************************************************************)
EXTENDS Aipal, TLC

CONSTANTS k1, c1, c2, t1, t2, r1, q1, q2, h1, h2, s1, s2

\* One group that has all questions
MCYksiRyhma == r1 :> Kysymykset

\* The first day only
Ensipaiva == {[alku |-> 1, loppu |-> 1]}

\* No validity window at all
Rajaton == {[alku |-> Ei, loppu |-> Ei]}

SymKasittelijat == Permutations(Kasittelijat)
SymIdt == Permutations(Kerrat) \cup Permutations(Tunnukset)
=============================================================================
