\* Runs that overlap, outlive their leases, fail and crash.
SPECIFICATION FairSpec
CONSTANTS
  p1 = p1
  p2 = p2
  t1 = t1
  None = None
  Names <- TwoNames
  Runs <- ThreeRuns
  JobOf <- JobOfRun
  Timeout <- Timeouts
  MaxTime = 5
  MaxFaults = 1
  MaxCrashes = 1
INVARIANTS
  TypeOK
  OneUnexpiredHolder
  HolderKeepsRow
PROPERTIES
  LeaseProtected
  OrphanRemoved
