SPECIFICATION Spec
CONSTANTS
  None = None
  Providers = {"parlayapi"}
  Quotes <- OneQuote
  Tracked = {"home"}
  Processes = {p1}
  RefreshModes = {"viewer_gated"}
  Adjustments = {0}
  Modes <- PlainOnly
  Switches <- AlwaysOn
  Spread = 10
  MaxChanges = 0
  Cap = 2
  Funds = 20
INVARIANT NeverArbitraged
CHECK_DEADLOCK FALSE
