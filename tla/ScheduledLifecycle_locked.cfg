\* Two runs of the lifecycle job and one of the price job, kept apart by their locks.
SPECIFICATION ScheduledSpec
CONSTANTS
  t1 = t1
  d1 = d1
  w1 = w1
  w2 = w2
  Tournaments = {t1}
  Decks = {d1}
  Users = {}
  Entrants <- AllDecks
  Initial <- InRegistration
  Tables = {1, 2, 3, 4}
  Pool = TRUE
  LifecycleTasks = {w1, w2}
  PriceTasks = {w3}
  Admins = {}
  MaxBatches = 1
  MaxSnapshots = 0
  MaxCrashes = 1
  MaxFaults = 1
  Timeout <- Leases
  Overrun = FALSE
  MaxTime = 2
  MaxTroubles = 1
  None = None
SYMMETRY Symmetry
INVARIANTS
  OneBody
  RewardsOnlyFinished
  SnapshotBeforePlay
CHECK_DEADLOCK FALSE
