---------------------------- MODULE MCShadowSlots ----------------------------
(* The small instance of ShadowSlots: two hosts, a slot of the first, a     *)
(* slot that goes from one shadow tree to the other, and an element that is *)
(* a child of the first host, of the moving slot or of nothing.             *)
EXTENDS ShadowSlots

CONSTANTS doc, h1, h2, r1, r2, s1, s2, a

MCNode == {doc, h1, h2, r1, r2, s1, s2, a}
MCElement == {h1, h2, s1, s2, a}
MCParsed == MCNode \ {r1, r2}
MCParsedParent == [n \in MCNode |-> IF n = h1 THEN doc ELSE None]
MCParsedChildren == [n \in MCNode |-> IF n = doc THEN <<h1>> ELSE <<>>]
MCHost == (h1 :> r1) @@ (h2 :> r2)
MCHomes == (a :> {h1, s2}) @@ (s1 :> {r1}) @@ (s2 :> {r1, r2})

=============================================================================
