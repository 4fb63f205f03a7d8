SPECIFICATION Spec
CONSTANTS
  Users = {"ann", "bob", "cal"}
  Matches = {"m1"}
  Selections = {"home"}
  Results = {"home", "away"}
  Requests <- BookRequests
  Sessions = {s1, s2}
  Workers = {}
  Unscored = {"m1"}
  EditStatuses = {"live"}
  InitialStatus = "live"
  InitialBalance <- BookBalances
  CommissionRate = 50
  MaxOrders = 4
  MaxStake = 20
  MaxOdds = 3
SYMMETRY SessionSymmetry
INVARIANTS
  PriceProtection
  MatchedIsFilled
  PriceTimePriority
  CrossedOnlyIfUnseen
