CONSTANTS
  p1 = p1
  c1 = c1
  t1 = t1
  r1 = r1
  r2 = r2
  Pollers = {p1}
  Cancellers = {c1}
  Tasks = {t1}
  Runs = {r1, r2}
  MaxConcurrent = 1
  GateAnswers = {TRUE}
  SpawnOutcomes = {"handle"}
  AgentOutcomes = {}
  MaxCrashes = 0
  KillFails = FALSE
  None = None
SPECIFICATION FairSpec
PROPERTIES
  ApprovedTasksRun
