------------------------ MODULE MCStorageCollection ------------------------
(* The small instance of StorageCollection: a page of the document and one  *)
(* element parsed with an `is` attribute, and handles for a text node and   *)
(* for a fragment that becomes a shadow root.                               *)
EXTENDS StorageCollection

CONSTANTS doc, html, a, frag

MCNode == {doc, html, a, frag}
MCParsed == {doc, html}
MCParsedParent == [n \in Node |-> IF n = html THEN doc ELSE None]

=============================================================================
