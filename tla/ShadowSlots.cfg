CONSTANTS
  doc = doc
  h1 = h1
  h2 = h2
  r2 = r2
  r1 = r1
  s1 = s1
  s2 = s2
  a = a
  None = None
  Node <- MCNode
  Document = doc
  Element <- MCElement
  Text = {}
  Fragment = {r1,r2}
  Parsed <- MCParsed
  ParsedParent <- MCParsedParent
  ParsedChildren <- MCParsedChildren
  MaxArgs = 1
  Checked = TRUE
  Traced = FALSE
  SlotElement = {s1, s2}
  Host <- MCHost
  Name = {"", "x"}
  Unnamed = ""
  Homes <- MCHomes
  Renamed = {s2}
  Slotted = {a}
SPECIFICATION SlotsSpec
INVARIANTS
  NobodyMissesAChange
  FlatTreeAgrees
PROPERTY
  ChangesAreHeard
CHECK_DEADLOCK FALSE
