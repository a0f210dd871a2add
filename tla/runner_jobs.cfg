\* Two jobs on one working copy, with hanging processes and a restart.
SPECIFICATION FairSpec
CONSTANTS
  j1 = j1
  j2 = j2
  d1 = d1
  Jobs <- TwoJobs
  Dirs <- OneDir
  Manifests = {"gone", "bare", "outOfSync"}
  Reports <- SomeReports
  MaxCheckouts = 1
INVARIANTS
  TypeOK
  VerdictIsOwn
  

  
  

