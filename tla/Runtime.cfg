\* Two versions of the stored settings, five environments, two overlapping
\* checks; two faults of any kind.
CONSTANTS
  Deployments <- MCDeployments
  Values = {a, b, broken, NoValues}
  NoValues = NoValues
  Breaking = {broken}
  Checks = {c1, c2}
  MaxVersions = 2
  FaultKinds = {"dbRead", "fetch", "redeploy", "crash"}
  MaxFaults = 2
CHECK_DEADLOCK FALSE
SPECIFICATION FairSpec
INVARIANTS
  TypeOK
  CycleAlive
  NothingMissed
  NoRestartLoop
PROPERTIES
  NewestValuesRun
