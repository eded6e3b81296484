SPECIFICATION Spec
CHECK_DEADLOCK FALSE
CONSTANTS
  None = None
  p1 = p1
  p2 = p2
  t1 = t1
  a = a
  b = b
  s1 = s1
  q1 = q1
  q2 = q2
  c1 = c1
  Procs <- TwoProcs
  TaskIds <- OneTask
  Plans <- TwoPlans
  Subjects <- OneSubject
  Proposals <- OneProposal
  Checkers <- OneChecker
SYMMETRY GateSymmetry
INVARIANTS
  StartedUnderSeal
