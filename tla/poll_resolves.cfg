CONSTANTS
  p1 = p1
  t1 = t1
  t2 = t2
  r1 = r1
  r2 = r2
  Pollers = {p1}
  Cancellers = {}
  Tasks = {t1, t2}
  Runs = {r1, r2}
  MaxConcurrent = 2
  GateAnswers = {TRUE, FALSE}
  SpawnOutcomes = {"handle", "nothing", "no_handle"}
  AgentOutcomes = {"COMPLETED", "FAILED", "crash"}
  MaxCrashes = 1
  KillFails = TRUE
  None = None
SPECIFICATION FairSpec
PROPERTIES
  UnresolvedRunsEnd
