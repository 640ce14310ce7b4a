CONSTANTS
  doc = doc
  html = html
  a = a
  txt = txt
  frag = frag
  None = None
  Node <- MCNode
  Document = doc
  Element <- MCElement
  Text = {txt}
  Fragment = {frag}
  Parsed <- MCParsed
  ParsedParent <- MCParsedParent
  ParsedChildren <- MCParsedChildren
  MaxArgs = 2
  Checked = TRUE
  MaxLog = 2
  Traced = TRUE
SPECIFICATION LogSpec
INVARIANTS
  LogReplays
CHECK_DEADLOCK FALSE
