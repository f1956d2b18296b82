SPECIFICATION FairSpec
CONSTANTS
  k1 = k1
  k2 = k2
  d1 = d1
  Clients <- MCClients
  Devs <- MCDevs
  Requests <- MCRequests
  NoDev = NoDev
  All = All
  NoOp = NoOp
  DevTotal = 5
  AllTotal = 7
  Quota = 5
  MaxWaitKinds = {"read", "write"}
  MaxOps = 3
  MaxStalls = 1
INVARIANTS
  BuffersReturned
  SyncAfterWrites
  NeverDies
PROPERTIES
  RequestServed
CHECK_DEADLOCK FALSE
