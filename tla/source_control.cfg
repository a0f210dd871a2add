SPECIFICATION Spec
CONSTANTS
  main = main
  topic = topic
  spec = spec
  Main = main
  Branches <- TwoBranches
  Paths <- OneFile
  Reads <- WatchedReads
  NoRef = NoRef
  Nothing = Nothing
  MaxCommits = 3
  MaxCalls = 2
  MaxActs = 1
 
PROPERTIES RemoteOnlyGrows
CHECK_DEADLOCK FALSE
