SPECIFICATION Spec
CONSTANTS
  p1 = p1
  p2 = p2
  l1 = l1
  l2 = l2
  l3 = l3
  l4 = l4
  Procs = {p1, p2}
  Keys = {"k1"}
  Launches = {l1, l2, l3}
  None = None
  LeaseDuration = 1
  MaxNow = 2
  ParentChoices <- NoParents
  PaneChoices <- NoPanes
  MaxLineageDepth = 16
SYMMETRY Symmetry
PROPERTIES
  ActiveNeverLeaseQuarantined
