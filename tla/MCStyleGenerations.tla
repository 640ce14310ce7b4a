------------------------- MODULE MCStyleGenerations -------------------------
(* A small instance of StyleGenerations, the page                           *)
(*     doc > html > (b > control, a)                                        *)
(* where b is a form and a a style sheet's owner, and a fragment, detached  *)
(* or a shadow root to be.                                                  *)
EXTENDS StyleGenerations

CONSTANTS doc, html, a, b, control, root

MCNode == {doc, html, a, b, control, root}
MCElement == {html, a, b, control}
MCParsed == MCNode \ {root}
MCParent ==
  [n \in Node |-> CASE n = html -> doc [] n \in {a, b} -> html
                    [] n = control -> b [] OTHER -> None]
MCChildren ==
  [n \in Node |-> CASE n = doc -> <<html>> [] n = html -> <<b, a>>
                    [] n = b -> <<control>> [] OTHER -> <<>>]

NoAttr == [n \in Node |-> Blank]

AnySiblings == {[siblings |-> s, forms |-> FALSE] : s \in {"none", "forward", "both"}}
Validity == {[siblings |-> "none", forms |-> TRUE]}
AllScopes == AnySiblings \cup Validity
OnClass == {"on"}

=============================================================================
