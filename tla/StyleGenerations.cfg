CONSTANTS
  doc = doc
  html = html
  a = a
  b = b
  root = root
  control = control
  None = None
  Node <- MCNode
  Document = doc
  Element <- MCElement
  Text = {}
  Fragment = {root}
  Parsed <- MCParsed
  ParsedParent <- MCParent
  ParsedChildren <- MCChildren
  MaxArgs = 1
  Checked = TRUE
  Traced = TRUE
  Form = {b}
  Control = {control}
  Sheet = {a}
  Named <- OnClass
  Filtered = TRUE
  Writes = {"class", "style", "media", "state", "required"}
  Scopes <- AllScopes
  ParsedAttr <- NoAttr
  MaxCalls = 2
SPECIFICATION GenSpec
INVARIANTS
  CachedStyleIsCurrent
CHECK_DEADLOCK FALSE
