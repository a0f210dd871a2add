CONSTANTS
  Starts <- EveryStart
  Links <- Neighbours
  MaxVisits = 2
  MaxSent = 1
  Failing <- Followed
  MaxFails = 1
SPECIFICATION FairSpec
 
PROPERTIES EndIsShown
CHECK_DEADLOCK FALSE
