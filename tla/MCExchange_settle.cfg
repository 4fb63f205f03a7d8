SPECIFICATION FairSpec
CONSTANTS
  Users = {"ann", "bob", "cal"}
  Matches = {"m1"}
  Selections = {"home"}
  Results = {"home", "away"}
  Requests <- SettleRequests
  Sessions = {s1}
  Workers = {"w1", "w2"}
  Unscored = {}
  EditStatuses = {}
  InitialStatus = "scheduled"
  InitialBalance <- TwoEach
  CommissionRate = 50
  MaxOrders = 2
  MaxStake = 20
  MaxOdds = 3
INVARIANTS
  TypeOK
  ReservedMatchesExposure
  Solvent
  MoneyConserved
PROPERTIES
  FillsSettleOnce
  FinishedMatchDrains
