SPECIFICATION FairSpec
CONSTANTS
  p1 = p1
  p2 = p2
  k1 = k1
  k2 = k2
  Runs = {r1, r2}
  Projects = {p1}
  Cases = {k1}
  ProjectOf <- AllInFirst
  Browsers = {b1}
  Threads = {t1, t2}
  Users = {u1}
  MaxConcurrent = 1
  Deletable = {}
  Closable = {p1}
  MaxCrashes = 0
  RunnerFails = TRUE
  NoRun = NoRun
  NoProject = NoProject
CHECK_DEADLOCK FALSE
INVARIANTS
  OneWorkerPerRun
PROPERTIES
  EveryRunEnds
