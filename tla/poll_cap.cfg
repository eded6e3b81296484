CONSTANTS
  p1 = p1
  t1 = t1
  t2 = t2
  r1 = r1
  r2 = r2
  r3 = r3
  Pollers = {p1}
  Cancellers = {}
  Tasks = {t1, t2}
  Runs = {r1, r2, r3}
  MaxConcurrent = 1
  GateAnswers = {TRUE}
  SpawnOutcomes = {"handle", "nothing", "no_handle"}
  AgentOutcomes = {"COMPLETED", "FAILED", "crash"}
  MaxCrashes = 3
  KillFails = FALSE
  None = None
SPECIFICATION Spec
SYMMETRY Symmetry
INVARIANTS
  AgentsWithinCap
  LiveAgentTakesSlot
