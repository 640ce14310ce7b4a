\* Every pair of points for a range, a second record beside it.
CONSTANTS
  body = body
  elA = elA
  elB = elB
  elC = elC
  textS = textS
  textT = textT
  textU = textU
  textV = textV
  textX = textX
  frag = frag
  range = range
  watcher = watcher
  NoNode = NoNode
  Element = {body, elA, elB, elC}
  Text = {textS, textT, textU, textV, textX}
  Fragment = {frag}
  Body = body
  Custom = {elA}
  Char = {1, 2, 3, 4, 5, 6}
  Record = {range, watcher}
  Starts <- MCStarts

SPECIFICATION RangesSpec

INVARIANTS
  PointsFit
  InOrder
  TextIsSelected
  ContentsTakeTheSelection

PROPERTIES
  KeepsSides

CHECK_DEADLOCK FALSE
