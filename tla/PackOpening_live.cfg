\* One prepare at a time, no client confirms; polls and applies fail.
SPECIFICATION FairSpec
CONSTANTS
  u1 = u1
  u2 = u2
  k1 = k1
  k2 = k2
  None = None
  Poller = poller
  Users <- TwoUsers
  Packs <- TwoPacks
  PackOwner <- OwnEach
  Draws = {d1}
  OpeningIds <- TwoIds
  Contracts = {c1}
  Preparers = {p1}
  Confirmers = {}
  PACK_OPENED_POLL_BLOCKS = 3
  BlocksPerPoll = 1
  MaxBlock = 7
  MaxCrashes = 0
  MaxFaults = 2
INVARIANTS
  OneOpeningPerPack
  OneRowPerToken
PROPERTY
  MintedIsRecorded
