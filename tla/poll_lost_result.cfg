CONSTANTS
  p1 = p1
  t1 = t1
  r1 = r1
  Pollers = {p1}
  Cancellers = {}
  Tasks = {t1}
  Runs = {r1}
  MaxConcurrent = 1
  GateAnswers = {TRUE}
  SpawnOutcomes = {"handle"}
  AgentOutcomes = {"COMPLETED"}
  MaxCrashes = 0
  KillFails = FALSE
  None = None
SPECIFICATION FairSpec
PROPERTIES
  EndedRunsResolve
