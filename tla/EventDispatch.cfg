CONSTANTS
  inner = inner
  root = root
  host = host
  window = window
  noNode = noNode
  sig = sig
  noSignal = noSignal
  f = f
  g = g
  Inner = inner
  ShadowRoot = root
  Host = host
  NoNode = noNode
  Window = window
  Signal = {sig}
  NoSignal = noSignal
  Event = {click}
  Callback = {f, g}
  Offer <- MCOffer
  DispatchedAt = {inner, sig}
  Places = {root, host}
  MaxId = 4
  MaxDepth = 2
SPECIFICATION EventSpec
INVARIANTS
  SubscriptionsAgree
PROPERTIES
  KeepsContract
  EveryoneIsCalled
  AbortCompletes
