\* One player, two tournaments, requests that fail and answers that are lost.
SPECIFICATION FairSpec
CONSTANTS
  u1 = u1
  c1 = c1
  c2 = c2
  c3 = c3
  x = x
  y = y
  None = None
  Users = {u1}
  Tournaments = {t1, t2}
  Cards = {c1, c2, c3}
  Owner <- OwnAll
  TokenOf <- TwoTokens
  Expiring = {c3}
  Weights <- LightHeavy
  weight_limit = 3
  DeckSize = 2
  Requests = {r1}
  Overlap = FALSE
  DeckIds <- TwoIds
  TxIds <- ThreeIds
  MaxFaults = 1
INVARIANTS
  DecksAndLocks
PROPERTIES
  MinedIsRegistered
  ImplementsCustody
CHECK_DEADLOCK FALSE
