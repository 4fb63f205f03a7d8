SPECIFICATION Spec
CONSTANTS
  Users = {"ann", "bob"}
  Matches = {"m1"}
  Selections = {"home"}
  Results = {"home", "away"}
  Requests <- CashOutRequests
  Sessions = {s1, s2}
  Workers = {}
  Unscored = {}
  EditStatuses = {}
  InitialStatus = "live"
  InitialBalance <- CashOutBalances
  CommissionRate = 50
  MaxOrders = 5
  MaxStake = 1000
  MaxOdds = 6
SYMMETRY SessionSymmetry
INVARIANTS
  ReservedMatchesExposure
  CashOutBalanced
