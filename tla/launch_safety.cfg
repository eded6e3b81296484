SPECIFICATION Spec
ACTION_CONSTRAINT Bounded
CONSTANTS
  p1 = p1
  p2 = p2
  l1 = l1
  l2 = l2
  l3 = l3
  l4 = l4
  Procs = {p1, p2}
  Keys = {"k1"}
  Launches = {l1, l2, l3, l4}
  None = None
  LeaseDuration = 1
  MaxNow = 2
  ParentChoices <- AnyParent
  PaneChoices = {TRUE, FALSE}
  MaxLineageDepth = 3
SYMMETRY Symmetry
INVARIANTS
  OneInFlightPerKey
  LeaseDiscipline
  PaneLostIsTrue
  LineageBounded
PROPERTIES
  ImplementsSlots
