SPECIFICATION Spec
CONSTANTS
  InitialBalance = 100
  Bets = {"b1", "b2"}
  Orders = {"o1", "o2"}
  Stake <- Stakes
  Configs <- Programs
  Overrides <- Terms
  Inherit = Inherit
  Withdrawals = {25}
INVARIANTS
  LockedMatchesCredits
  UnlockedWasWagered
  ClawbackFollowsTerms
  OnlyBetsAndClawbacksOverdraw
  BalanceExplained
CHECK_DEADLOCK FALSE
