SPECIFICATION FairSpec
CONSTANTS
  t1 = t1  t2 = t2  b1 = b1  b2 = b2  alice = alice  bob = bob  
  Tabs = {t1, t2}
  Browsers = {b1}
  Accounts = {alice}
  Calls = {1, 2}
  NoTab = NoTab  NoAccount = NoAccount
  BrowserOf <- OneBrowser
  Kinds <- Everything
  MaxPairs = 2
  MaxCalls = 3
  MaxEvents = 2
INVARIANTS TypeOK NeverReplaysItself 
PROPERTIES EveryCallEnds
CHECK_DEADLOCK FALSE
