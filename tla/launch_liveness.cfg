SPECIFICATION FairSpec
CONSTANTS
  p1 = p1
  p2 = p2
  l1 = l1
  l2 = l2
  l3 = l3
  l4 = l4
  Procs = {p1, p2}
  Keys = {"k1"}
  Launches = {l1, l2}
  None = None
  LeaseDuration = 1
  MaxNow = 1
  ParentChoices <- NoParents
  PaneChoices <- NoPanes
  MaxLineageDepth = 16
PROPERTIES
  ReservationsResolve
