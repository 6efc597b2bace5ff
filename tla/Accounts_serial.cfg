\* Two wallets whose own requests do not overlap, two requests served at once.
SPECIFICATION Spec
CONSTANTS
  w1 = w1
  w2 = w2
  r1 = r1
  r2 = r2
  a = a
  b = b
  c = c
  g1 = g1
  g2 = g2
  None = None
  Wallets = {w1, w2}
  Nicknames = {a, b, c}
  PackTypes = {p1, p2}
  STARTER_PACKS_PER_TYPE = 3
  Steps = {"1"}
  Rewards = {g1, g2}
  Tasks = {r1, r2}
  Overlap = FALSE
  Production = FALSE
  MaxNonces = 2
  MaxRequests = 3
  MaxMint = 1
  MaxFaults = 1
SYMMETRY Symmetry
INVARIANTS
  SignInSound
  AnswersKept
CHECK_DEADLOCK FALSE
