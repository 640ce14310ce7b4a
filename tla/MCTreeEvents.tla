---------------------------- MODULE MCTreeEvents ----------------------------
(* A small instance of TreeEvents: a chain of three nodes whose innermost   *)
(* moves, and three registrations at its ends.                              *)
EXTENDS TreeEvents

CONSTANTS root, leaf

MCOffer ==
  {[target |-> leaf, capture |-> FALSE, once |-> once] : once \in BOOLEAN}
  \cup {[target |-> root, capture |-> ~once, once |-> once] : once \in BOOLEAN}

=============================================================================
