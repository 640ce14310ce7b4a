------------------------- MODULE MCMutationObservers -------------------------
(* The small instance of MutationObservers: an element without a parent,    *)
(* in it an element with two text children.                                 *)
EXTENDS MutationObservers

CONSTANTS top, el, textA, textB, o1, o2

MCParsedParent ==
  [n \in Node |-> IF n = el THEN top ELSE IF n = top THEN None ELSE el]

=============================================================================
