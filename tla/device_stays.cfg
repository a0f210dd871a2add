SPECIFICATION Spec
CONSTANTS
  t1 = t1  t2 = t2  b1 = b1  b2 = b2  alice = alice  bob = bob
  Tabs = {t1, t2}
  Browsers = {b1, b2}
  Accounts = {alice}
  Calls = {1, 2}
  NoTab = NoTab  NoAccount = NoAccount
  BrowserOf <- TwoBrowsers
  Kinds <- ToStay
  MaxPairs = 3
  MaxCalls = 4
  MaxEvents = 1
INVARIANT ThisDeviceStaysSignedIn
CHECK_DEADLOCK FALSE
