\* One live proposal a case, when generations never overlap.
SPECIFICATION Spec
CONSTANTS
  h1 = h1
  h2 = h2
  p1 = p1
  p2 = p2
  p3 = p3
  NoProposal = NoProposal
  Handlers <- OneHandler
  Proposals <- TwoProposals
  MaxEdits = 1
  MaxModels = 2
  MaxCommits = 2
INVARIANTS
  OneLiveProposal
CHECK_DEADLOCK FALSE
