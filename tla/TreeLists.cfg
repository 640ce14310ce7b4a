CONSTANTS
  doc = doc
  html = html
  a = a
  txt = txt
  frag = frag
  None = None
  Node <- MCNode
  Document = doc
  Element <- MCElement
  Text = {txt}
  Fragment = {frag}
  Parsed <- MCParsed
  ParsedParent <- MCParsedParent
  ParsedChildren <- MCParsedChildren
  MaxArgs = 2
  Checked = FALSE
  Traced = FALSE
SPECIFICATION Spec
INVARIANTS
  LinksAgree
  HandlersAgree
PROPERTY
  Implements
CHECK_DEADLOCK FALSE
