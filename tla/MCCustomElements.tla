-------------------------- MODULE MCCustomElements --------------------------
(* The small instance of CustomElements: two elements in a container, one   *)
(* of them with the attribute, and a third that script makes.               *)
EXTENDS CustomElements

CONSTANTS tagX, tagY, tagZ

MCStart == <<tagX, tagY>>

=============================================================================
