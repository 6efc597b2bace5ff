\* Concurrent prepares, confirms and the job, a crash and a redeploy.
SPECIFICATION Spec
CONSTANTS
  u1 = u1
  u2 = u2
  k1 = k1
  k2 = k2
  None = None
  Poller = poller
  Users <- OneUser
  Packs <- OnePack
  PackOwner <- OwnOne
  Draws = {d1, d2}
  OpeningIds <- TwoIds
  Contracts = {c1, c2}
  Preparers = {p1, p2}
  Confirmers = {a1}
  PACK_OPENED_POLL_BLOCKS = 1
  BlocksPerPoll = 1
  MaxBlock = 0
  MaxCrashes = 1
  MaxFaults = 0
INVARIANTS
  SignedAsStored
  CardsBackedByMint
  RecordsAgree
PROPERTIES
  HistoryKept
  ImplementsLifecycle
