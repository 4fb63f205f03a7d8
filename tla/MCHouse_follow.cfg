SPECIFICATION FairSpec
CONSTANTS
  None = None
  Providers = {"mock", "parlayapi"}
  Quotes <- TwoQuotes
  Tracked = {"home"}
  Processes = {p1, p2}
  RefreshModes = {"viewer_gated", "manual_only"}
  Adjustments <- Shifts
  Modes <- BelowOnly
  Switches <- OnOff
  Spread = 10
  MaxChanges = 1
  Cap = 2
  Funds = 20
INVARIANTS
  SharedCap
  LayAboveBack
PROPERTIES
  HouseFollowsQuote
CHECK_DEADLOCK FALSE
