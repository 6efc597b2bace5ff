\* A process that stops in the middle of finish_tournament.
SPECIFICATION Spec
CONSTANTS
  t1 = t1
  t2 = t2
  d1 = d1
  d2 = d2
  w1 = w1
  w2 = w2
  a1 = a1
  a2 = a2
  Tournaments <- OneTournament
  Decks = {d1, d2}
  Users = {u1, u2}
  Entrants <- AllDecks
  Initial <- InRegistration
  Tables = {1, 2, 3, 4}
  Pool = TRUE
  LifecycleTasks = {w1}
  PriceTasks = {w1}
  Admins = {}
  MaxBatches = 2
  MaxSnapshots = 0
  MaxCrashes = 1
  MaxFaults = 0
  None = None
INVARIANTS
  AllOrNothing
