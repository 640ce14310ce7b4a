CONSTANTS
  top = top
  el = el
  textA = textA
  textB = textB
  o1 = o1
  o2 = o2
  None = None
  Node = {top, el, textA, textB}
  Observer = {o1}
  ParsedParent <- MCParsedParent
  Texts = {textA, textB}
  Watchable = {top, el}
  MaxEvents = 3
SPECIFICATION FairSpec
INVARIANTS
  NothingForgotten
  ObserversAreKept
  NoStaleAnchor
  RecordsReplayUndisturbed
PROPERTIES
  Implements
  EverythingIsDelivered
