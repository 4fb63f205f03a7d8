------------------------------ MODULE Pricing ------------------------------
(***************************************************************************)
(* How a price is made: apps/sports/pricing.py.  Odds, spreads and         *)
(* adjustments are in hundredths.  A Match, a User and their override rows *)
(* are records of the columns that decide a price.                         *)
(***************************************************************************)
EXTENDS Integers

CONSTANT None  \* a column, a row or a user that is not there

ASSUME PricingAssumption == None \notin Int

Opt(S) == S \cup {None}

Selections == {"home", "draw", "away"}

\* A match has odds for some selections: a market of two outcomes has none for
\* the draw.
IsOdds(f) == DOMAIN f \subseteq Selections /\ f \in [DOMAIN f -> Int]

\* fetch_matches drops what has no odds for both teams.
IsQuote(f) ==
  /\ IsOdds(f)
  /\ {"home", "away"} \subseteq DOMAIN f
  /\ \A s \in DOMAIN f : f[s] > 0

\* ResolvedPricingMode, one of the "Custom Odds" scopes.
Mode == [back: {"api", "custom"}, backValue: [Selections -> Opt(Int)],
         lay: {"api_lay", "relative", "custom"}, delta: Opt(Int),
         layValue: [Selections -> Opt(Int)]]

Or(own, default) == IF own # None THEN own ELSE default

\* n / d rounded half up, for positive numbers.
HalfUp(n, d) == (2 * n + d) \div (2 * d)

-----------------------------------------------------------------------------
(* From the provider's quote to the match's odds *)

\* normalize_odds: an outcome's implied probability is its share of the sum of
\* the inverted odds, inflated by the margin, and its odds the inverse of that.
Normalized(quote, margin) ==
  LET h == quote["home"]
      a == quote["away"]
      d == quote["draw"]
      three == "draw" \in DOMAIN quote
      total == IF three THEN h * d + h * a + d * a ELSE h + a
      others == [s \in DOMAIN quote |->
                   CASE s = "home" -> IF three THEN d * a ELSE a
                     [] s = "draw" -> h * a
                     [] s = "away" -> IF three THEN h * d ELSE h]
  IN  [s \in DOMAIN quote |-> HalfUp(10000 * total, (100 + margin) * others[s])]

OddsFloor == 101

\* apply_odds_adjustment: no adjustment, no floor.
Adjust(adjustment, odds) ==
  IF adjustment = 0 THEN odds
  ELSE [s \in DOMAIN odds |->
          IF odds[s] + adjustment > OddsFloor THEN odds[s] + adjustment
          ELSE OddsFloor]

-----------------------------------------------------------------------------
(* Back and lay *)

LaySpreadFloor == 1

Floored(spread) == IF spread > LaySpreadFloor THEN spread ELSE LaySpreadFloor

\* compute_lay_price
LayPrice(back, spread) == back + Floored(spread)

BackOf(raw, mode, s) ==
  IF mode.back = "custom" /\ mode.backValue[s] # None
  THEN mode.backValue[s] ELSE raw

LayOf(back, mode, spread, s) ==
  IF mode.lay = "custom" /\ mode.layValue[s] # None THEN mode.layValue[s]
  ELSE IF mode.lay = "relative" /\ mode.delta # None THEN back + mode.delta
  ELSE LayPrice(back, spread)

BackAndLay_Unclamped(raw, mode, spread, s) ==
  LET back == BackOf(raw, mode, s)
  IN  [back |-> back, lay |-> LayOf(back, mode, spread, s)]

\* compute_back_and_lay
BackAndLay(raw, mode, spread, s) ==
  LET back == BackOf(raw, mode, s)
      lay  == LayOf(back, mode, spread, s)
  IN  [back |-> back,
       lay  |-> IF lay <= back THEN back + LaySpreadFloor ELSE lay]

-----------------------------------------------------------------------------
(* What one user sees: a user has the columns of User and, for this match,  *)
(* the UserMatchOddsOverride row and the two PricingOverride rows           *)

Overrides == [adjustment: Opt(Int), spread: Opt(Int)]

User == [all: Overrides, here: Opt(Overrides),
         modeHere: Opt(Mode), modeAll: Opt(Mode)]

\* The most specific of a user's values that is set: a row that is there and
\* does not set it counts for nothing.
Specific(user, column) ==
  IF user.here # None /\ user.here[column] # None
  THEN user.here[column] ELSE user.all[column]

\* resolve_user_extra_adjustment
ExtraAdjustment(user) ==
  IF user = None THEN 0 ELSE Or(Specific(user, "adjustment"), 0)

\* resolve_user_extra_lay_spread: it replaces the match's.
SpreadFor(user, spread) ==
  IF user = None THEN spread ELSE Or(Specific(user, "spread"), spread)

\* resolve_user_pricing_mode
UserMode(user) ==
  IF user = None THEN None ELSE Or(user.modeHere, user.modeAll)

\* get_effective_odds_for_user: the mode of the match plays no part.
EffectiveOdds(odds, spread, user) ==
  LET shifted == Adjust(ExtraAdjustment(user), odds)
  IN  [s \in DOMAIN odds |->
         IF UserMode(user) = None THEN shifted[s]
         ELSE BackAndLay(shifted[s], UserMode(user), SpreadFor(user, spread), s).back]

\* get_effective_lay_reference_for_user
LayReference(odds, spread, matchMode, user) ==
  LET mode == Or(UserMode(user), matchMode)
  IN  [s \in DOMAIN odds |->
         BackAndLay(EffectiveOdds(odds, spread, user)[s], mode,
                    SpreadFor(user, spread), s).lay]

=============================================================================
