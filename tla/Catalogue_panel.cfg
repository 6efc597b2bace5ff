\* One administrator, two renderers, two rankings.
SPECIFICATION Spec
CONSTANTS
  k1 = k1
  k2 = k2
  w1 = w1
  w2 = w2
  r1 = r1
  r2 = r2
  g1 = g1
  g2 = g2
  cash = cash
  nft = nft
  None = None
  Tokens = {t1}
  Rarities = {k1, k2}
  Designs = {classic}
  Wallets = {w1, w2}
  CardIds <- Two
  PrizeIds <- Four
  Positions <- Two
  RewardTypes = {cash, nft}
  Rankers = {g1, g2}
  Admins = {a1}
  Renderers = {r1, r2}
  MaxRequests = 4
  MaxSecond = 2
SYMMETRY Symmetry
INVARIANTS
  CardsConsistent
  TablesReconcile
CHECK_DEADLOCK FALSE
