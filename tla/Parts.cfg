SPECIFICATION Spec
CONSTANTS
  Pools <- BasePools
  Fields <- StrongDecks
  Scores <- DeckScores
  MaxListed = 4

  Tokens <- TokenIds
  Common <- TokenIds
  Feeds <- Quotes
  Caps <- Capitals
  FirstWeight <- Weights
  MaxCycles = 3
  MaxToggles = 1
  NoValue = NoValue

  Symbols = {"a", "b"}
  Cards = {"c1", "c2", "c3"}
  TokenOf <- Token
  Rendered = {"c1", "c2"}
  PackTypes = {1}
  AnySlots <- Offers
  PageSize = 1
  MaxPacks = 2
  MaxEdits = 2
  NoRow = NoRow

  Tours = {1, 2}
  Players = {1, 2}
  Kinds = {"c1", "c2", "c3"}
  TokenOfKind <- KindToken
  Compositions <- DecksOffered
  Batches <- ScoresGiven
  Bonuses = {1, 2}
  Purse <- Prizes
  FirstListed = {"c1", "c2"}
  FirstBonus <- BonusOf
  MaxEntries = 2
  MaxRuns = 2
  MaxChanges = 1
  Touched = {"c1", "c3"}
  None = None

  u1 = u1
  u2 = u2
  s1 = s1
  s2 = s2
  Users = {u1, u2}
  Types = {silver}
  Claims = {claim}
  CommitIds <- CommitNumbers
  CardIds <- CardNumbers
  Amounts = {1, 2}
  Prices = {1, 2}
  Seeds <- OneAndTwo
  MaxIssued = 2
  MaxAdminCalls = 2
  MaxMoves = 2
  NoOne = NoOne
SYMMETRY Symmetry
INVARIANTS PrizesFair DrawKept HistoryComplete  ViewsAgree LiveScores ContractAccounts CommitsKept
 
CHECK_DEADLOCK FALSE
