SPECIFICATION FpelSpec
CONSTANTS
  None = None
  p1 = p1
  p2 = p2
  q1 = q1
  q2 = q2
  q3 = q3
  h1 = h1
  h2 = h2
  c1 = c1
  c2 = c2
  t1 = t1
  Procs <- TwoProcs
  Targets <- OneTarget
  Proposals <- TwoProposals
  Hashes <- TwoHashes
  Checkers <- TwoCheckers
SYMMETRY FpelSymmetry
INVARIANTS
  OneActivePerTarget
  SealsAreEarned
  FailIsFinal
  DecisionIsBacked
PROPERTY SealHeedsRejection
