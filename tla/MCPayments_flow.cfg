SPECIFICATION FairSpec
CONSTANTS
  Users = {"ann"}
  PkrUsers = {"ann"}
  Rates = {250, 333}
  DepositRequests <- Asked
  WithdrawalRequests <- Wanted
  Answers = {"rejected", "lost", "pending", "completed", "failed"}
  Packages = {"silver", "gold"}
  Threshold <- Thresholds
  Bonus <- Bonuses
  Held <- AnnHolds
  InitialBalance <- AnnHas
  Sessions = {"s1", "s2"}
  Webhooks = {"h1"}
  MaxPayments = 3
  MaxRefs = 2
INVARIANTS
  LedgerMatchesPayments
  HeldIsKept
  CreditedOnce
  RewardsFollowDeposits
  CompletedWasReleased
PROPERTIES
  PaidIsCredited
