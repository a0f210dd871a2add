\* One case projected and applied over two pages, inspected one at a time.
SPECIFICATION Spec
CONSTANTS
  c1 = c1
  c2 = c2
  i1 = i1
  i2 = i2
  Cases <- OneCase
  Models <- SomeModels
  Pages = {"SignIn", "Home"}
  SignIn = "SignIn"
  Guarded = {"Home"}
  Layout <- Layouts
  Inspectors <- OneInspector
  Variables = {"item"}
  Corrected = {"Home"}
  MaxProposals = 1
INVARIANTS
  TypeOK
  
  ElementsAreToldApart
  ProposalIsClosed
  VerifiedMeansChecked
