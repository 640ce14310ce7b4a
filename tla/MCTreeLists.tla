---------------------------- MODULE MCTreeLists ----------------------------
(* The small instance of TreeLists: the page and handles like MCDomTree.      *)
EXTENDS TreeLists

CONSTANTS doc, html, a, txt, frag

MCNode == {doc, html, a, txt, frag}
MCElement == {html, a}
MCParsed == {doc, html}
MCParsedParent == [n \in MCNode |-> IF n = html THEN doc ELSE None]
MCParsedChildren == [n \in MCNode |-> IF n = doc THEN <<html>> ELSE <<>>]

=============================================================================
