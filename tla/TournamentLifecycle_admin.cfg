\* A PUT and a snapshot by hand at any moment, beside jobs that do not overlap.
SPECIFICATION Spec
CONSTANTS
  t1 = t1
  t2 = t2
  d1 = d1
  d2 = d2
  w1 = w1
  w2 = w2
  a1 = a1
  a2 = a2
  Tournaments <- OneTournament
  Decks = {d1}
  Users = {u1}
  Entrants <- AllDecks
  Initial <- InRegistration
  Tables = {1, 2, 3, 4}
  Pool = TRUE
  LifecycleTasks = {w1}
  PriceTasks = {w1}
  Admins = {a1}
  MaxBatches = 1
  MaxSnapshots = 2
  MaxCrashes = 1
  MaxFaults = 1
  None = None
INVARIANTS
  RewardedOnce
