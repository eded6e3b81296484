CONSTANTS
  p1 = p1
  p2 = p2
  t1 = t1
  t2 = t2
  r1 = r1
  r2 = r2
  Pollers = {p1, p2}
  Cancellers = {}
  Tasks = {t1, t2}
  Runs = {r1, r2}
  MaxConcurrent = 1
  GateAnswers = {TRUE}
  SpawnOutcomes = {"handle", "nothing", "no_handle"}
  AgentOutcomes = {"COMPLETED", "FAILED", "crash"}
  MaxCrashes = 0
  KillFails = FALSE
  None = None
SPECIFICATION Spec
SYMMETRY Symmetry
INVARIANTS
  AgentsWithinCap
