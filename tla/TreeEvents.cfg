CONSTANTS
  root = root
  leaf = leaf
  Root = root
  Middle = middle
  Leaf = leaf
  NoNode = noNode
  Places = {middle, root}
  Offer <- MCOffer
  MaxListeners = 3
SPECIFICATION TreeEventsSpec
PROPERTIES
  KeepsContract
  EveryoneIsCalled
  DispatchEnds
