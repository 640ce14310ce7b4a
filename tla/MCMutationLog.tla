--------------------------- MODULE MCMutationLog ---------------------------
(* The small instance of MutationLog: the page of MCTreeLists.              *)
EXTENDS MutationLog

CONSTANTS doc, html, a, txt, frag

MCNode == {doc, html, a, txt, frag}
MCElement == {html, a}
MCParsed == {doc, html}
MCParsedParent == [n \in MCNode |-> IF n = html THEN doc ELSE None]
MCParsedChildren == [n \in MCNode |-> IF n = doc THEN <<html>> ELSE <<>>]

=============================================================================
