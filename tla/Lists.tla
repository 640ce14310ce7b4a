-------------------------------- MODULE Lists --------------------------------
(***************************************************************************)
(* Filtering lists, for modules that are proved about: the prover knows      *)
(* nothing of SelectSeq, and a test that is a set can be named in a lemma    *)
(* (ListFacts).                                                             *)
(***************************************************************************)
EXTENDS Naturals, SequencesExt

\* The members of s that are in S, in their order.
Kept(s, S) ==
  LET kept[k \in 0..Len(s)] ==
        IF k = 0 THEN <<>>
        ELSE IF s[k] \in S THEN Append(kept[k - 1], s[k]) ELSE kept[k - 1]
  IN  kept[Len(s)]

Without(s, S) == Kept(s, ToSet(s) \ S)

=============================================================================
