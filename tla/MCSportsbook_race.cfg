SPECIFICATION Spec
CONSTANTS
  Users = {"ann", "bob"}
  Matches = {"m1", "m2"}
  Selections = {"home"}
  Results = {"home", "away"}
  BetRequests <- Bets
  ParlayRequests <- Parlays
  Sessions = {"s1"}
  Workers = {w1, w2}
  Children <- AnnParent
  CommissionRate <- Half
  Unscored = {}
  EditStatuses = {}
  InitialBalance <- Four
  MaxBets = 1
  MaxParlays = 1
SYMMETRY WorkerSymmetry
INVARIANTS
  BalanceExplained
  ParlayDecidedByLegs
  DecidedParlayIsListed
PROPERTIES
  SettledForGood
