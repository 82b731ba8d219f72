\* Peers come, ask and leave while descriptors run out.
SPECIFICATION FairSpec
CONSTANTS
  p1 = p1
  c1 = c1
  c2 = c2
  Null = Null
  Ports <- OnePort
  Conns = {c1, c2}
  Machines <- TightAndRoomy
CHECK_DEADLOCK FALSE
INVARIANTS TypeOK EventsToOwner DescriptorsOwned ListedOnce
PROPERTY NobodyForgotten
