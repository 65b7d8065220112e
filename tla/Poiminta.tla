------------------------------ MODULE Poiminta ------------------------------
(***************************************************************************)
(* _.filter and _.reject, as the pages use them on their lists.  What      *)
(* SelectSeq does, without recursion, so that theorems can speak of it:    *)
(* the prover knows nothing of SelectSeq.  MCSelain has TLC compare them.  *)
(***************************************************************************)
EXTENDS Naturals, SequencesExt

\* The place of which there are n in I up to it
Kohta(I, n) == CHOOSE i \in I : Cardinality({j \in I : j <= i}) = n

\* The members of s at the places in I, in their order
Kohdista(s, I) == [n \in 1 .. Cardinality(I) |-> s[Kohta(I, n)]]

\* The members of s that qualify, in their order
Poimi(s, Kelpaa(_)) == Kohdista(s, {i \in DOMAIN s : Kelpaa(s[i])})
=============================================================================
