\* Case, models, proposals and commits under two overlapping handlers.
SPECIFICATION Spec
CONSTANTS
  h1 = h1
  h2 = h2
  p1 = p1
  p2 = p2
  p3 = p3
  NoProposal = NoProposal
  Handlers <- TwoHandlers
  Proposals <- TwoProposals
  MaxEdits = 1
  MaxModels = 2
  MaxCommits = 2
SYMMETRY Interchangeable
INVARIANTS
  TypeOK
  AppliedHasCommit
  CommittedCaseCanRun
  StatusFollowsModels
  NoFalseAlarm
PROPERTIES
  DecisionsAreNotSuperseded
CHECK_DEADLOCK FALSE
