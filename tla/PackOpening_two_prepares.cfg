\* Two prepare-open requests for the same pack.
SPECIFICATION Spec
CONSTANTS
  u1 = u1
  u2 = u2
  k1 = k1
  k2 = k2
  None = None
  Poller = poller
  Users <- OneUser
  Packs <- OnePack
  PackOwner <- OwnOne
  Draws = {d1, d2}
  OpeningIds <- TwoIds
  Contracts = {c1}
  Preparers = {p1, p2}
  Confirmers = {}
  PACK_OPENED_POLL_BLOCKS = 1
  BlocksPerPoll = 1
  MaxBlock = 1
  MaxCrashes = 0
  MaxFaults = 0
INVARIANT
  OneOpeningPerPack
