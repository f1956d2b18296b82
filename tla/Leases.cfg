SPECIFICATION FairSpec
CONSTANTS
  Chunks = {c1, c2}
  Servers = {s1, s2}
  ReadIds = {r1}
  NoLease = NoLease
  NoServer = NoServer
  Striped = {c2}
  Crowded = {c2}
  LeaseInterval = 1
  OwnerDownExpireDelay = 1
  MaxLeaseId = 2
INVARIANTS
  LeaseInv
  ReadersSeeStable
  RelinquishNotLost
PROPERTIES
  ValidLeaseKept
  OrphanedLeaseGoesAway
  ImplementsLeaseTable
