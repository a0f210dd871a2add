SPECIFICATION Spec
CONSTANTS
  p1 = p1
  p2 = p2
  k1 = k1
  k2 = k2
  Runs = {r1, r2}
  Projects = {p1}
  Cases = {k1, k2}
  ProjectOf <- AllInFirst
  Browsers = {b1}
  Threads = {t1}
  Users = {u1}
  MaxConcurrent = 2
  Deletable = {k1}
  Closable = {}
  MaxCrashes = 1
  RunnerFails = TRUE
  NoRun = NoRun
  NoProject = NoProject
SYMMETRY Symmetry
CHECK_DEADLOCK FALSE
INVARIANTS
  TypeOK
  VerdictIsReported
  ItemsFollowRun
  CancelledBeforeStart
  ReferencesUnique
PROPERTIES
  TerminalIsFinal
  ImplementsContract
