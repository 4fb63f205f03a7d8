SPECIFICATION FairSpec
CONSTANTS
  Rupees = TRUE
  Rates = {250, 333}
  InitialBalance = 400
  MaxLaunch = 100
  Launches = {l1}
  LaunchUsd <- OneDollar
  MaxSeamless = 1
  Rounds = {1}
  WinUsd <- Wins
  Settlers = {s1, s2}
  Calls = {"bet", "undo", "free"}
  CallOf <- TwoRounds
  Bets = {b1}
  Stake <- Stakes
INVARIANTS
  ReservedIsInFlight
  AnswersAreTrue
  ExposureIsAtRisk
PROPERTIES
  LedgerIsKept
  RoundsAreSettled
CHECK_DEADLOCK FALSE
