SPECIFICATION Spec
CONSTANTS
  spec = spec
  page = page
  open = open
  check = check
  EmptyLine = EmptyLine
  Paths <- SpecAndPage
  Projections <- TwoProjections
  Corrections <- OneCorrection
  Documents <- OneDocument
  MaxSteps = 1
  Absent = Absent
  None = None
  Nothing = Nothing
  MaxGens = 3
  MaxCalls = 2
  MaxEvents = 1
INVARIANTS TypeOK  DiffTellsTheTruth DotsMatchTheStage
CHECK_DEADLOCK FALSE
