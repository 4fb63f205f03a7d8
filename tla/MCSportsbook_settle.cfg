SPECIFICATION FairSpec
CONSTANTS
  Users = {"ann", "bob"}
  Matches = {"m1", "m2"}
  Selections = {"home"}
  Results = {"home", "away"}
  BetRequests <- Bets
  ParlayRequests <- Parlays
  Sessions = {"s1"}
  Workers = {"w1"}
  Children <- AnnParent
  CommissionRate <- Half
  Unscored = {"m1"}
  EditStatuses = {"live"}
  InitialBalance <- Three
  MaxBets = 1
  MaxParlays = 1
INVARIANTS
  TypeOK
PROPERTIES
  FinishedMatchSettles
