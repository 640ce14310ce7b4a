\* Two popovers, one in the other, and a dialog that closes by clicks outside.
CONSTANTS
  menu = menu
  submenu = submenu
  box = box
  NoNode = NoNode
  Popover = {menu, submenu}
  Dialog = {box}
  Inside <- MCInside
  Kinds <- MCKinds
  ClosedBy <- MCClosedBy
  MaxCalls = 4

SPECIFICATION TopLayerSpec

INVARIANTS
  ShownAreFit
  GuardsAreBalanced
  WatchersAreOwned
  TogglesTellTheState

PROPERTIES
  EscapeReachesTheGroup
  TogglesArrive

CHECK_DEADLOCK FALSE
