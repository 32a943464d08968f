\* Two models with two events each, over three addresses that are allocated
\* again and again, and three callbacks.
CONSTANTS
  ModelDescriptors = {m1, m2}
  CallbackDescriptors = {d1, d2, d3}
  Events = {e1, e2}
  Nodes = {n1, n2, n3}
  NoNode = NoNode
  NoEvent = NoEvent
  StaleDescriptors = FALSE
  RemovesWhileRaised = FALSE
SPECIFICATION FairSpec
INVARIANTS
  TypeOK
  ListsAreSubscriptions
  DescriptorsLead
  InvokeReachesDue
  NodesOwned
  WinsockHeld
PROPERTIES
  InvokeEnds
