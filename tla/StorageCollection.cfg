CONSTANTS
  doc = doc
  html = html
  a = a
  frag = frag
  None = None
  Node <- MCNode
  Document = doc
  Element = {html}
  Text = {a}
  Fragment = {frag}
  Parsed <- MCParsed
  ParsedParent <- MCParsedParent
  ParsedOrder = {}
  MaxArgs = 1
  ParsedIs = {html}
  Reports = {"custom"}
  Upgraded = {html}
  MaxHeld = 1
  OneRoot = TRUE
SPECIFICATION StorageSpec
INVARIANTS
  Acyclic
  SiblingOrder
  PinsAreLive
  NeverRefused
PROPERTY
  CollectionIsInvisible
CHECK_DEADLOCK FALSE
