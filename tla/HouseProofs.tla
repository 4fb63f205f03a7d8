---------------------------- MODULE HouseProofs ----------------------------
(*************************************************************************)
(* Two theorems about the house's orders, for any number of processes,   *)
(* quotes, modes and settings. LayStaysAboveBack: the house never lays a *)
(* selection at odds its own back order asks for, nor at two prices on   *)
(* one side, since one pass at a time holds the lock, cancels before it  *)
(* offers, and offers a clamped pair. CapIsShared: what it has matched   *)
(* and offers on a selection stays within the cap, since each of a       *)
(* pass's orders takes half of the headroom and a trade only moves what  *)
(* was on offer. Before them, what the arithmetic of a price guarantees  *)
(* for all values.                                                       *)
(*************************************************************************)
EXTENDS House, SumProofs

-----------------------------------------------------------------------------
(* Prices *)

\* compute_back_and_lay: whatever the mode and the spread, an integral pair
\* with the lay above the back.
LEMMA Clamped ==
  ASSUME NEW raw \in Int, NEW mode \in Mode, NEW spread \in Int, NEW s \in Selections
  PROVE  /\ BackAndLay(raw, mode, spread, s).back \in Int
         /\ BackAndLay(raw, mode, spread, s).lay \in Int
         /\ BackAndLay(raw, mode, spread, s).back < BackAndLay(raw, mode, spread, s).lay
<1>1. /\ mode.backValue[s] \in Opt(Int)
      /\ mode.layValue[s] \in Opt(Int)
      /\ mode.delta \in Opt(Int)
  BY DEF Mode
<1> DEFINE back == BackOf(raw, mode, s)
           lay == LayOf(back, mode, spread, s)
<1>2. back \in Int
  BY <1>1 DEF BackOf, Opt
<1>3. lay \in Int
  <2>1. LayPrice(back, spread) \in Int
    BY <1>2 DEF LayPrice, Floored, LaySpreadFloor
  <2>2. mode.delta # None => back + mode.delta \in Int
    BY <1>1, <1>2 DEF Opt
  <2>3. QED
    BY <1>1, <2>1, <2>2 DEF LayOf, Opt
<1>4. BackAndLay(raw, mode, spread, s) =
        [back |-> back, lay |-> IF lay <= back THEN back + 1 ELSE lay]
  BY DEF BackAndLay, LaySpreadFloor
<1> HIDE DEF back, lay
<1>5. QED
  BY <1>2, <1>3, <1>4

\* apply_odds_adjustment: odds stay integral, on the same selections, and an
\* adjustment that is not zero leaves none below 1.01.
THEOREM AdjustmentFloors ==
  ASSUME NEW adjustment \in Int, NEW odds, IsOdds(odds)
  PROVE  /\ IsOdds(Adjust(adjustment, odds))
         /\ DOMAIN Adjust(adjustment, odds) = DOMAIN odds
         /\ adjustment # 0 =>
              \A s \in DOMAIN odds : Adjust(adjustment, odds)[s] >= OddsFloor
<1>1. CASE adjustment = 0
  BY <1>1 DEF Adjust
<1>2. CASE adjustment # 0
  <2>1. Adjust(adjustment, odds) =
          [s \in DOMAIN odds |-> IF odds[s] + adjustment > OddsFloor
                                 THEN odds[s] + adjustment ELSE OddsFloor]
    BY <1>2 DEF Adjust
  <2>2. \A s \in DOMAIN odds : odds[s] \in Int
    BY DEF IsOdds
  <2>3. QED
    BY <2>1, <2>2 DEF IsOdds, OddsFloor
<1>3. QED
  BY <1>1, <1>2

LEMMA ExtraIsInt ==
  ASSUME NEW user \in Opt(User) PROVE ExtraAdjustment(user) \in Int
<1>1. CASE user = None
  BY <1>1 DEF ExtraAdjustment
<1>2. CASE user # None
  <2>1. user \in User
    BY <1>2 DEF Opt
  <2>2. Specific(user, "adjustment") \in Opt(Int)
    BY <2>1 DEF Specific, User, Overrides, Opt
  <2>3. QED
    BY <1>2, <2>2 DEF ExtraAdjustment, Or, Opt
<1>3. QED
  BY <1>1, <1>2

LEMMA SpreadIsInt ==
  ASSUME NEW user \in Opt(User), NEW spread \in Int PROVE SpreadFor(user, spread) \in Int
<1>1. CASE user = None
  BY <1>1 DEF SpreadFor
<1>2. CASE user # None
  <2>1. user \in User
    BY <1>2 DEF Opt
  <2>2. Specific(user, "spread") \in Opt(Int)
    BY <2>1 DEF Specific, User, Overrides, Opt
  <2>3. QED
    BY <1>2, <2>2 DEF SpreadFor, Or, Opt
<1>3. QED
  BY <1>1, <1>2

LEMMA ModeIsMode ==
  ASSUME NEW user \in Opt(User), UserMode(user) # None PROVE UserMode(user) \in Mode
<1>1. user \in User
  BY DEF UserMode, Opt
<1>2. user.modeHere \in Opt(Mode) /\ user.modeAll \in Opt(Mode)
  BY <1>1 DEF User
<1>3. UserMode(user) = Or(user.modeHere, user.modeAll)
  BY DEF UserMode
<1>4. QED
  BY <1>2, <1>3 DEF Or, Opt

\* The lay reference the match page shows a user, for every match, user and
\* combination of overrides: it is above the back of the mode it is made with, and
\* above the odds the user is charged but for one case, a match with a manual back
\* price below those odds and a user with no mode of his own, since the odds
\* charged pay no regard to the match's mode (get_effective_odds_for_user,
\* get_effective_lay_reference_for_user).
THEOREM ReferenceAboveOdds ==
  ASSUME NEW odds, IsOdds(odds), NEW spread \in Int, NEW user \in Opt(User),
         NEW matchMode \in Mode, NEW s \in DOMAIN odds
  PROVE  LET charged   == EffectiveOdds(odds, spread, user)[s]
             reference == LayReference(odds, spread, matchMode, user)[s]
             mode      == Or(UserMode(user), matchMode)
         IN  /\ BackOf(charged, mode, s) < reference
             /\ \/ charged < reference
                \/ /\ UserMode(user) = None
                   /\ matchMode.back = "custom"
                   /\ matchMode.backValue[s] # None
                   /\ matchMode.backValue[s] < charged
<1> DEFINE shifted == Adjust(ExtraAdjustment(user), odds)
           charged == EffectiveOdds(odds, spread, user)[s]
           reference == LayReference(odds, spread, matchMode, user)[s]
           mode == Or(UserMode(user), matchMode)
           sp == SpreadFor(user, spread)
<1>1. s \in Selections
  BY DEF IsOdds
<1>2. shifted[s] \in Int
  <2>1. IsOdds(shifted) /\ DOMAIN shifted = DOMAIN odds
    BY ExtraIsInt, AdjustmentFloors
  <2>2. QED
    BY <2>1 DEF IsOdds
<1>3. sp \in Int
  BY SpreadIsInt
<1>4. mode \in Mode
  BY ModeIsMode DEF Or
<1>5. charged \in Int
  <2>1. CASE UserMode(user) = None
    BY <1>2, <2>1 DEF EffectiveOdds
  <2>2. CASE UserMode(user) # None
    <3>1. charged = BackAndLay(shifted[s], mode, sp, s).back
      BY <2>2 DEF EffectiveOdds, Or
    <3>2. QED
      BY <1>1, <1>2, <1>3, <1>4, <3>1, Clamped
  <2>3. QED
    BY <2>1, <2>2
<1>6. BackOf(charged, mode, s) < reference
  <2>1. reference = BackAndLay(charged, mode, sp, s).lay
    BY DEF LayReference
  <2>2. BackOf(charged, mode, s) = BackAndLay(charged, mode, sp, s).back
    BY DEF BackAndLay
  <2>3. QED
    BY <1>1, <1>3, <1>4, <1>5, <2>1, <2>2, Clamped
<1>7. CASE UserMode(user) # None
  \* The mode was applied to make the odds: applied again it leaves them.
  <2>1. charged = BackOf(shifted[s], mode, s)
    BY <1>7 DEF EffectiveOdds, BackAndLay, Or
  <2>2. BackOf(charged, mode, s) = charged
    BY <2>1 DEF BackOf
  <2>3. QED
    BY <1>6, <2>2
<1>8. CASE UserMode(user) = None
  <2>1. mode = matchMode
    BY <1>8 DEF Or
  <2>2. CASE matchMode.back = "custom" /\ matchMode.backValue[s] # None
    <3>1. BackOf(charged, mode, s) = matchMode.backValue[s]
      BY <2>1, <2>2 DEF BackOf
    <3>2. matchMode.backValue[s] \in Int /\ reference \in Int
      <4>1. matchMode.backValue[s] \in Int
        BY <1>1, <2>2 DEF Mode, Opt
      <4>2. reference = BackAndLay(charged, mode, sp, s).lay
        BY DEF LayReference
      <4>3. QED
        BY <1>1, <1>3, <1>4, <1>5, <4>1, <4>2, Clamped
    <3>3. charged < reference \/ matchMode.backValue[s] < charged
      <4> HIDE DEF charged, reference
      <4>1. QED
        BY <1>5, <1>6, <3>1, <3>2
    <3>4. QED
      BY <1>6, <1>8, <2>2, <3>3
  <2>3. CASE ~ (matchMode.back = "custom" /\ matchMode.backValue[s] # None)
    <3>1. BackOf(charged, mode, s) = charged
      BY <2>1, <2>3 DEF BackOf
    <3>2. QED
      BY <1>6, <3>1
  <2>4. QED
    BY <2>2, <2>3
<1>9. QED
  BY <1>7, <1>8

-----------------------------------------------------------------------------
(* The inductive invariant *)

AllOdds == UNION {[S -> Int] : S \in SUBSET Selections}

MatchRow == [open: BOOLEAN, odds: AllOdds, adjustment: Opt(Int),
             refresh: RefreshMode, mode: Opt(Mode)]

Settings == [realtime: BOOLEAN, house: BOOLEAN, adjustment: Int, mode: Mode]

Rows ==
  /\ feed \in Quotes
  /\ match \in MatchRow
  /\ config \in Settings

Priced(odds) == IsOdds(odds) /\ DOMAIN odds # {}

\* What a process carries: odds to write or to offer, or the prices of a pass
\* with something left to do.
Carried(r) ==
  /\ r.step \in {"listed", "existing", "written"} => Priced(r.odds)
  /\ r.step \in {"cancel", "back", "lay"} =>
       /\ r.todo # {}
       /\ \A s \in r.todo : r.price[s].back < r.price[s].lay

Loads == \A p \in DOMAIN proc : Carried(proc[p])

\* One pass at a time, which holds the lock.
Alone ==
  \A p \in DOMAIN proc : Passing(p) =>
    houseLock /\ \A q \in DOMAIN proc : Passing(q) => q = p

\* What of its selection a pass leaves in the book while it is at it.
Cleared ==
  \A p \in DOMAIN proc : \A o \in resting :
    o.selection = Current(p) =>
      /\ proc[p].step # "back"
      /\ proc[p].step = "lay" =>
           o.side = "back" /\ o.odds = proc[p].price[Current(p)].back

Orders ==
  \A o \in resting :
    /\ o.side \in Sides
    /\ o = [selection |-> o.selection, side |-> o.side, odds |-> o.odds, left |-> o.left]

IInv == Rows /\ Loads /\ Alone /\ Cleared /\ Orders /\ LayAboveBack

-----------------------------------------------------------------------------
(* Odds and prices *)

LEMMA DropDef ==
  ASSUME NEW f, NEW k
  PROVE  /\ DOMAIN Drop(f, k) = DOMAIN f \ {k}
         /\ \A x \in DOMAIN f \ {k} : Drop(f, k)[x] = f[x]
BY DEF Drop

LEMMA OddsAreOdds == \A f : IsOdds(f) => f \in AllOdds
BY DEF IsOdds, AllOdds

LEMMA HalfUpInt ==
  ASSUME NEW n \in Int, NEW d \in Int, d > 0 PROVE HalfUp(n, d) \in Int
BY DEF HalfUp

LEMMA Positive == \A x, y \in Int : x > 0 /\ y > 0 => x * y \in Int /\ x * y > 0
OBVIOUS

\* A quote is normalised to odds for the same selections.
LEMMA NormalizedIsOdds ==
  ASSUME NEW q, IsQuote(q)
  PROVE  IsOdds(Normalized(q, MarginPercent)) /\ DOMAIN Normalized(q, MarginPercent) = DOMAIN q
<1> DEFINE h == q["home"]
           a == q["away"]
           d == q["draw"]
           three == "draw" \in DOMAIN q
           total == IF three THEN h * d + h * a + d * a ELSE h + a
           others == [s \in DOMAIN q |->
                        CASE s = "home" -> IF three THEN d * a ELSE a
                          [] s = "draw" -> h * a
                          [] s = "away" -> IF three THEN h * d ELSE h]
<1>1. /\ h \in Int /\ h > 0
      /\ a \in Int /\ a > 0
      /\ three => d \in Int /\ d > 0
  BY DEF IsQuote, IsOdds
<1>2. total \in Int
  <2>1. three => h * d \in Int /\ h * a \in Int /\ d * a \in Int
    BY <1>1, Positive
  <2>2. QED
    BY <1>1, <2>1
<1>3. \A s \in DOMAIN q : others[s] \in Int /\ others[s] > 0
  <2>1. /\ h * a \in Int /\ h * a > 0
        /\ three => d * a \in Int /\ d * a > 0 /\ h * d \in Int /\ h * d > 0
    BY <1>1, Positive
  <2>2. DOMAIN q \subseteq Selections
    BY DEF IsQuote, IsOdds
  <2> HIDE DEF h, a, d, three
  <2>3. QED
    BY <1>1, <2>1, <2>2 DEF Selections
<1>4. Normalized(q, MarginPercent) =
        [s \in DOMAIN q |-> HalfUp(10000 * total, 105 * others[s])]
  BY DEF Normalized, MarginPercent
<1> HIDE DEF total, others
<1>5. \A s \in DOMAIN q : HalfUp(10000 * total, 105 * others[s]) \in Int
  BY <1>2, <1>3, HalfUpInt
<1>6. DOMAIN q \subseteq Selections
  BY DEF IsQuote, IsOdds
<1>7. QED
  BY <1>4, <1>5, <1>6 DEF IsOdds

LEMMA PublishedIsPriced ==
  ASSUME NEW q \in Quotes, NEW own \in Opt(Int), NEW default \in Int
  PROVE  Priced(Published(q, own, default))
<1> DEFINE fair == Normalized(q, MarginPercent)
           kept == [s \in Tracked \cap DOMAIN fair |-> fair[s]]
<1>1. IsQuote(q)
  BY OddsAssumption DEF OddsAssumption
<1>2. IsOdds(fair) /\ "home" \in DOMAIN fair
  BY <1>1, NormalizedIsOdds DEF IsQuote
<1>3. IsOdds(kept) /\ "home" \in DOMAIN kept
  BY <1>2, OddsAssumption DEF OddsAssumption, IsOdds
<1>4. Or(own, default) \in Int
  BY DEF Or, Opt
<1>5. Published(q, own, default) = Adjust(Or(own, default), kept)
  BY DEF Published
<1> HIDE DEF kept
<1>6. QED
  BY <1>3, <1>4, <1>5, AdjustmentFloors DEF Priced

LEMMA PricesAreClamped ==
  ASSUME Rows, NEW odds, Priced(odds)
  PROVE  /\ DOMAIN PricesFor(odds) = DOMAIN odds
         /\ \A s \in DOMAIN odds : PricesFor(odds)[s].back < PricesFor(odds)[s].lay
<1>1. Or(match.mode, config.mode) \in Mode
  BY DEF Rows, MatchRow, Settings, Or, Opt
<1>2. Spread \in Int
  BY OddsAssumption DEF OddsAssumption
<1>3. \A s \in DOMAIN odds : odds[s] \in Int /\ s \in Selections
  BY DEF Priced, IsOdds
<1>4. QED
  BY <1>1, <1>2, <1>3, Clamped DEF PricesFor

-----------------------------------------------------------------------------
(* Steps of one process *)

LEMMA GotoLoads ==
  ASSUME Loads, NEW p, NEW r, Carried(r), Goto(p, r)
  PROVE  /\ Loads'
         /\ DOMAIN proc' = DOMAIN proc \cup {p}
         /\ proc'[p] = r
         /\ \A q \in DOMAIN proc \ {p} : proc'[q] = proc[q]
<1>1. /\ DOMAIN proc' = DOMAIN proc \cup {p}
      /\ proc'[p] = r
      /\ \A q \in DOMAIN proc \ {p} : proc'[q] = proc[q]
  BY DEF Goto, Put
<1>2. \A q \in DOMAIN proc' : Carried(proc'[q])
  BY <1>1 DEF Loads
<1>3. QED
  BY <1>1, <1>2 DEF Loads

LEMMA LeaveLoads ==
  ASSUME Loads, NEW p, Leave(p)
  PROVE  /\ Loads'
         /\ DOMAIN proc' = DOMAIN proc \ {p}
         /\ \A q \in DOMAIN proc \ {p} : proc'[q] = proc[q]
<1>1. /\ DOMAIN proc' = DOMAIN proc \ {p}
      /\ \A q \in DOMAIN proc \ {p} : proc'[q] = proc[q]
  BY DropDef DEF Leave
<1>2. \A q \in DOMAIN proc' : Carried(proc'[q])
  BY <1>1 DEF Loads
<1>3. QED
  BY <1>1, <1>2 DEF Loads

\* A step that changes neither the book nor a pass.
LEMMA Apart ==
  ASSUME IInv, Rows', Loads', UNCHANGED houseVars,
         \A p \in DOMAIN proc' :
           Passing(p)' => p \in DOMAIN proc /\ proc'[p] = proc[p]
  PROVE  IInv'
<1>1. resting' = resting /\ houseLock' = houseLock
  BY DEF houseVars
<1>2. \A p \in DOMAIN proc' : Passing(p)' => Passing(p) /\ Current(p)' = Current(p)
  BY DEF Passing, Current
<1>3. Alone'
  BY <1>1, <1>2 DEF IInv, Alone, Passing
<1>4. Cleared'
  <2> SUFFICES ASSUME NEW p \in DOMAIN proc', NEW o \in resting,
                      o.selection = Current(p)'
               PROVE  /\ proc'[p].step # "back"
                      /\ proc'[p].step = "lay" =>
                           o.side = "back" /\ o.odds = proc'[p].price[Current(p)'].back
    BY <1>1 DEF Cleared
  <2>1. CASE Passing(p)'
    <3>1. p \in DOMAIN proc /\ proc'[p] = proc[p] /\ Current(p)' = Current(p)
      BY <2>1, <1>2
    <3>2. QED
      BY <3>1 DEF IInv, Cleared
  <2>2. CASE ~Passing(p)'
    BY <2>2 DEF Passing
  <2>3. QED
    BY <2>1, <2>2
<1>5. Orders' /\ LayAboveBack'
  BY <1>1 DEF IInv, Orders, LayAboveBack
<1>6. QED
  BY <1>3, <1>4, <1>5 DEF IInv

\* One process goes on, but not into a pass, and leaves the book alone.
LEMMA Steps ==
  ASSUME IInv, Rows', UNCHANGED houseVars, NEW p, NEW r, Carried(r),
         r.step \notin {"cancel", "back", "lay"}, Goto(p, r)
  PROVE  IInv'
BY GotoLoads, Apart DEF IInv, Passing

LEMMA Stops ==
  ASSUME IInv, Rows', UNCHANGED houseVars, NEW p, Leave(p)
  PROVE  IInv'
BY LeaveLoads, Apart DEF IInv, Passing

LEMMA Stays ==
  ASSUME IInv, Rows', UNCHANGED <<houseVars, proc>>
  PROVE  IInv'
<1>1. proc' = proc /\ UNCHANGED houseVars
  OBVIOUS
<1>2. Loads'
  BY <1>1 DEF IInv, Loads
<1>3. QED
  BY <1>1, <1>2, Apart

\* A match with other odds, another status or another setting.
LEMMA RowsOfMatch ==
  ASSUME Rows, UNCHANGED <<feed, config>>, match' \in MatchRow PROVE Rows'
BY DEF Rows

LEMMA RowsKept ==
  ASSUME Rows, UNCHANGED <<feed, match, config>> PROVE Rows'
BY DEF Rows

LEMMA PricedOdds ==
  ASSUME Rows
  PROVE  Priced(Published(feed, match.adjustment, config.adjustment))
<1>1. feed \in Quotes /\ match.adjustment \in Opt(Int) /\ config.adjustment \in Int
  BY DEF Rows, MatchRow, Settings
<1>2. QED
  BY <1>1, PublishedIsPriced

LEMMA PlainIsMode == PlainMode \in Mode
BY DEF PlainMode, Mode, Opt

-----------------------------------------------------------------------------
(* The steps outside a pass *)

LEMMA InitInv == Init => IInv
<1> SUFFICES ASSUME Init PROVE IInv
  OBVIOUS
<1>1. feed \in Quotes /\ 0 \in Int /\ None \in Opt(Int) /\ None \in Opt(Mode)
  BY DEF Init, OddsInit, Opt
<1>2. Published(feed, None, 0) \in AllOdds
  BY <1>1, PublishedIsPriced, OddsAreOdds DEF Priced
<1>3. Rows
  <2>1. match \in MatchRow
    BY <1>1, <1>2 DEF Init, OddsInit, MatchRow, RefreshMode
  <2>2. config \in Settings
    BY OddsAssumption DEF Init, OddsInit, Settings, OddsAssumption
  <2>3. QED
    BY <1>1, <2>1, <2>2 DEF Rows
<1>4. DOMAIN proc = {} /\ resting = {}
  BY DEF Init, OddsInit
<1>5. QED
  BY <1>3, <1>4 DEF IInv, Loads, Alone, Cleared, Orders, LayAboveBack

LEMMA RefreshInv ==
  ASSUME IInv, NEW p, Refresh(p), UNCHANGED houseVars PROVE IInv'
<1>1. ASSUME TakeSportLock(p) PROVE IInv'
  <2>1. Goto(p, [step |-> "fetching"]) /\ UNCHANGED <<feed, match, config>>
    BY <1>1 DEF TakeSportLock
  <2>2. Rows' /\ Carried([step |-> "fetching"])
    BY <2>1, RowsKept DEF IInv, Carried
  <2>3. QED
    BY <2>1, <2>2, Steps
<1>2. CASE Answer(p)
  <2> DEFINE r == [step |-> "listed",
                   odds |-> Published(feed, match.adjustment, config.adjustment)]
  <2>1. Rows'
    BY <1>2, RowsKept DEF IInv, Answer
  <2>2. CASE Goto(p, r)
    <3>1. Carried(r)
      BY PricedOdds DEF IInv, Carried
    <3>2. r.step \notin {"cancel", "back", "lay"}
      OBVIOUS
    <3> HIDE DEF r
    <3>3. QED
      BY <2>1, <2>2, <3>1, <3>2, Steps
  <2>3. CASE Leave(p)
    BY <2>1, <2>3, Stops
  <2>4. QED
    BY <1>2, <2>2, <2>3 DEF Answer
<1>3. CASE WriteOdds(p)
  <2> DEFINE r == [step |-> "written", odds |-> proc[p].odds]
  <2>1. Priced(proc[p].odds)
    BY <1>3 DEF WriteOdds, At, IInv, Loads, Carried
  <2>2. match' \in MatchRow
    BY <1>3, <2>1, OddsAreOdds DEF WriteOdds, IInv, Rows, MatchRow, Priced
  <2>3. Rows' /\ Carried(r)
    BY <1>3, <2>1, <2>2, RowsOfMatch DEF WriteOdds, IInv, Carried
  <2>4. Goto(p, r) /\ r.step \notin {"cancel", "back", "lay"}
    BY <1>3 DEF WriteOdds
  <2> HIDE DEF r
  <2>5. QED
    BY <2>3, <2>4, Steps
<1>4. QED
  BY <1>1, <1>2, <1>3 DEF Refresh, Poll, ManualRefresh

LEMMA SyncInv ==
  ASSUME IInv, NEW p, Sync(p), UNCHANGED houseVars PROVE IInv'
<1>1. CASE SyncRead(p)
  <2> DEFINE r == [step |-> "existing",
                   odds |-> Published(feed, match.adjustment, config.adjustment)]
  <2>1. Rows' /\ Carried(r)
    BY <1>1, RowsKept, PricedOdds DEF IInv, SyncRead, Carried
  <2>2. Goto(p, r) /\ r.step \notin {"cancel", "back", "lay"}
    BY <1>1 DEF SyncRead
  <2> HIDE DEF r
  <2>3. QED
    BY <2>1, <2>2, Steps
<1>2. CASE SyncWrite(p)
  <2> DEFINE r == [step |-> "written", odds |-> proc[p].odds]
  <2>1. Priced(proc[p].odds)
    BY <1>2 DEF SyncWrite, At, IInv, Loads, Carried
  <2>2. match' \in MatchRow
    BY <1>2, <2>1, OddsAreOdds DEF SyncWrite, IInv, Rows, MatchRow, Priced
  <2>3. Rows' /\ Carried(r)
    BY <1>2, <2>1, <2>2, RowsOfMatch DEF SyncWrite, IInv, Carried
  <2>4. Goto(p, r) /\ r.step \notin {"cancel", "back", "lay"}
    BY <1>2 DEF SyncWrite
  <2> HIDE DEF r
  <2>5. QED
    BY <2>3, <2>4, Steps
<1>3. QED
  BY <1>1, <1>2 DEF Sync

LEMMA WorldInv ==
  ASSUME IInv, ExpireSportLock \/ World, UNCHANGED houseVars PROVE IInv'
<1>1. CASE ExpireSportLock
  BY <1>1, RowsKept, Stays DEF ExpireSportLock, IInv
<1>2. CASE Requote
  <2>1. Rows'
    BY <1>2 DEF Requote, IInv, Rows
  <2>2. QED
    BY <1>2, <2>1, Stays DEF Requote
<1>3. CASE Finish
  <2>1. match' \in MatchRow
    BY <1>3 DEF Finish, IInv, Rows, MatchRow
  <2>2. QED
    BY <1>3, <2>1, RowsOfMatch, Stays DEF Finish, IInv
<1>4. QED
  BY <1>1, <1>2, <1>3 DEF World

LEMMA AdministrationInv ==
  ASSUME IInv, Administration, UNCHANGED houseVars PROVE IInv'
<1>1. CASE AdjustMatch
  <2>1. match' \in MatchRow
    BY <1>1, OddsAssumption DEF AdjustMatch, IInv, Rows, MatchRow, OddsAssumption
  <2>2. QED
    BY <1>1, <2>1, RowsOfMatch, Stays DEF AdjustMatch, IInv
<1>2. CASE AdjustDefault
  <2>1. \A a \in Adjustments \ {None} : a \in Int
    BY OddsAssumption DEF OddsAssumption, Opt
  <2>2. Rows'
    BY <1>2, <2>1 DEF AdjustDefault, IInv, Rows, Settings
  <2>3. QED
    BY <1>2, <2>2, Stays DEF AdjustDefault
<1>3. CASE OverrideMode
  <2>1. Modes \cup {PlainMode, None} \subseteq Opt(Mode)
    BY OddsAssumption, PlainIsMode DEF OddsAssumption, Opt
  <2>2. match' \in MatchRow
    BY <1>3, <2>1 DEF OverrideMode, IInv, Rows, MatchRow
  <2>3. QED
    BY <1>3, <2>2, RowsOfMatch, Stays DEF OverrideMode, IInv
<1>4. CASE SetRefresh
  <2>1. RefreshModes \subseteq RefreshMode
    BY OddsAssumption DEF OddsAssumption
  <2>2. match' \in MatchRow
    BY <1>4, <2>1 DEF SetRefresh, IInv, Rows, MatchRow
  <2>3. QED
    BY <1>4, <2>2, RowsOfMatch, Stays DEF SetRefresh, IInv
<1>5. CASE Switch
  <2>1. Rows'
    BY <1>5, OddsAssumption DEF Switch, IInv, Rows, Settings, OddsAssumption
  <2>2. QED
    BY <1>5, <2>1, Stays DEF Switch
<1>6. QED
  BY <1>1, <1>2, <1>3, <1>4, <1>5 DEF Administration

-----------------------------------------------------------------------------
(* The steps of a pass, of the exchange and of the lock *)

\* Nobody passes: what the lemmas below conclude of the others.
LEMMA Unlocked ==
  ASSUME IInv, ~houseLock PROVE \A q \in DOMAIN proc : ~Passing(q)
BY DEF IInv, Alone

LEMMA EnterInv ==
  ASSUME IInv, NEW p, EnterPass(p) PROVE IInv'
<1> DEFINE r == [step |-> "cancel", price |-> PricesFor(proc[p].odds),
                 todo |-> DOMAIN proc[p].odds]
<1>1. Rows' /\ p \in DOMAIN proc /\ Priced(proc[p].odds)
  BY RowsKept DEF EnterPass, At, IInv, Loads, Carried
<1>2. CASE ~Admitted
  <2>1. Leave(p) /\ UNCHANGED houseVars
    BY <1>2 DEF EnterPass, houseVars
  <2>2. QED
    BY <1>1, <2>1, Stops
<1>3. CASE Admitted
  <2>1. Carried(r)
    BY <1>1, PricesAreClamped DEF IInv, Carried, Priced
  <2>2. Goto(p, r) /\ houseLock' /\ resting' = resting
    BY <1>3 DEF EnterPass
  <2>3. r.step = "cancel"
    OBVIOUS
  <2> HIDE DEF r
  <2>4. /\ Loads'
        /\ DOMAIN proc' = DOMAIN proc \cup {p}
        /\ proc'[p] = r
        /\ \A q \in DOMAIN proc \ {p} : proc'[q] = proc[q]
    BY <2>1, <2>2, GotoLoads DEF IInv
  <2>5. \A q \in DOMAIN proc : ~Passing(q)
    BY <1>3, Unlocked DEF Admitted
  <2>6. \A q \in DOMAIN proc' : q # p => ~Passing(q)'
    BY <2>4, <2>5 DEF Passing
  <2>7. Alone'
    BY <2>2, <2>6 DEF Alone
  <2>8. Cleared'
    BY <2>3, <2>4, <2>6 DEF Cleared, Passing
  <2>9. Orders' /\ LayAboveBack'
    BY <2>2 DEF IInv, Orders, LayAboveBack
  <2>10. QED
    BY <1>1, <2>4, <2>7, <2>8, <2>9 DEF IInv
<1>4. QED
  BY <1>2, <1>3

\* A pass goes on: the others do not pass.
LEMMA OthersWait ==
  ASSUME IInv, NEW p, Passing(p),
         DOMAIN proc' \subseteq DOMAIN proc,
         \A q \in DOMAIN proc' \ {p} : proc'[q] = proc[q],
         houseLock' = houseLock
  PROVE  Alone' /\ \A q \in DOMAIN proc' : q # p => ~Passing(q)'
<1>1. houseLock /\ \A q \in DOMAIN proc : Passing(q) => q = p
  BY DEF IInv, Alone, Passing
<1>2. \A q \in DOMAIN proc' : q # p => ~Passing(q)'
  BY <1>1 DEF Passing
<1>3. QED
  BY <1>1, <1>2 DEF Alone

LEMMA CancelInv ==
  ASSUME IInv, NEW p, CancelStale(p) PROVE IInv'
<1> DEFINE r == [step |-> "back", price |-> proc[p].price, todo |-> proc[p].todo]
<1>1. Rows' /\ p \in DOMAIN proc /\ Passing(p) /\ houseLock' = houseLock
  BY RowsKept DEF CancelStale, At, IInv, Passing
<1>2. Goto(p, r) /\ Carried(r) /\ r.step = "back" /\ r.todo = proc[p].todo
  BY DEF CancelStale, At, IInv, Loads, Carried
<1> HIDE DEF r
<1>3. /\ Loads'
      /\ DOMAIN proc' = DOMAIN proc \cup {p}
      /\ proc'[p] = r
      /\ \A q \in DOMAIN proc \ {p} : proc'[q] = proc[q]
  BY <1>2, GotoLoads DEF IInv
<1>4. Alone' /\ \A q \in DOMAIN proc' : q # p => ~Passing(q)'
  <2>1. DOMAIN proc' \subseteq DOMAIN proc
    BY <1>1, <1>3
  <2>2. QED
    BY <1>1, <1>3, <2>1, OthersWait
<1>5. Current(p)' = Current(p)
  BY <1>2, <1>3 DEF Current
<1>6. \A o \in resting' : o \in resting /\ o.selection # Current(p)
  BY DEF CancelStale, Stale
<1>7. Cleared'
  BY <1>4, <1>5, <1>6 DEF Cleared, Passing
<1>8. Orders' /\ LayAboveBack'
  BY <1>6 DEF IInv, Orders, LayAboveBack
<1>9. QED
  BY <1>1, <1>3, <1>4, <1>7, <1>8 DEF IInv

\* What comes after the last order of a selection.
LEMMA NextSelectionLoads ==
  ASSUME IInv, NEW p, Passing(p), NextSelection(p)
  PROVE  /\ Loads'
         /\ DOMAIN proc' \subseteq DOMAIN proc
         /\ \A q \in DOMAIN proc' \ {p} : proc'[q] = proc[q]
         /\ p \in DOMAIN proc' => proc'[p].step = "cancel"
<1> DEFINE rest == proc[p].todo \ {Current(p)}
           r == [step |-> "cancel", price |-> proc[p].price, todo |-> rest]
<1>1. p \in DOMAIN proc /\ Carried(proc[p])
  BY DEF Passing, IInv, Loads
<1>2. CASE rest = {}
  <2>1. Leave(p)
    BY <1>2 DEF NextSelection
  <2>2. QED
    BY <2>1, LeaveLoads DEF IInv
<1>3. CASE rest # {}
  <2>1. Goto(p, r) /\ r.step = "cancel"
    BY <1>3 DEF NextSelection
  <2>2. Carried(r)
    BY <1>1, <1>3 DEF Carried, Passing
  <2> HIDE DEF r
  <2>3. QED
    BY <1>1, <2>1, <2>2, GotoLoads DEF IInv
<1>4. QED
  BY <1>2, <1>3

\* A pass that leaves a selection as it is.
LEMMA SkipInv ==
  ASSUME IInv, NEW p, Passing(p), NextSelection(p), Rows',
         Orders', LayAboveBack', houseLock' = houseLock
  PROVE  IInv'
<1>1. /\ Loads'
      /\ DOMAIN proc' \subseteq DOMAIN proc
      /\ \A q \in DOMAIN proc' \ {p} : proc'[q] = proc[q]
      /\ p \in DOMAIN proc' => proc'[p].step = "cancel"
  BY NextSelectionLoads
<1>2. Alone' /\ \A q \in DOMAIN proc' : q # p => ~Passing(q)'
  BY <1>1, OthersWait
<1>3. Cleared'
  BY <1>1, <1>2 DEF Cleared, Passing
<1>4. QED
  BY <1>1, <1>2, <1>3 DEF IInv

LEMMA OrderDef ==
  ASSUME NEW p, NEW side \in Sides, NEW headroom
  PROVE  LET o == Order(p, side, headroom)
         IN  /\ o.selection = Current(p)
             /\ o.side = side
             /\ o.odds = proc[p].price[Current(p)][side]
             /\ o = [selection |-> o.selection, side |-> o.side,
                     odds |-> o.odds, left |-> o.left]
BY DEF Order

LEMMA PlaceBackInv ==
  ASSUME IInv, NEW p, PlaceBack(p) PROVE IInv'
<1> DEFINE o == Order(p, "back", Headroom(p))
           r == [step |-> "lay", price |-> proc[p].price, todo |-> proc[p].todo,
                 headroom |-> Headroom(p)]
<1>1. /\ Rows'
      /\ p \in DOMAIN proc /\ Passing(p) /\ proc[p].step = "back"
      /\ houseLock' = houseLock
  BY RowsKept DEF PlaceBack, At, IInv, Passing
<1>2. CASE Headroom(p) <= 0
  <2>1. NextSelection(p) /\ resting' = resting
    BY <1>2 DEF PlaceBack
  <2>2. Orders' /\ LayAboveBack'
    BY <2>1 DEF IInv, Orders, LayAboveBack
  <2>3. QED
    BY <1>1, <2>1, <2>2, SkipInv
<1>3. CASE ~(Headroom(p) <= 0)
  <2>1. Goto(p, r) /\ r.step = "lay" /\ r.todo = proc[p].todo /\ r.price = proc[p].price
    BY <1>3 DEF PlaceBack
  <2>2. Carried(r)
    BY <1>1 DEF IInv, Loads, Carried
  <2> HIDE DEF r
  <2>3. /\ Loads'
        /\ DOMAIN proc' = DOMAIN proc \cup {p}
        /\ proc'[p] = r
        /\ \A q \in DOMAIN proc \ {p} : proc'[q] = proc[q]
    BY <2>1, <2>2, GotoLoads DEF IInv
  <2>4. Alone' /\ \A q \in DOMAIN proc' : q # p => ~Passing(q)'
    <3>1. DOMAIN proc' \subseteq DOMAIN proc
      BY <1>1, <2>3
    <3>2. QED
      BY <1>1, <2>3, <3>1, OthersWait
  <2>5. Current(p)' = Current(p)
    BY <2>1, <2>3 DEF Current
  <2>6. /\ o.selection = Current(p) /\ o.side = "back" /\ o.side \in Sides
        /\ o.odds = proc[p].price[Current(p)].back
        /\ o = [selection |-> o.selection, side |-> o.side, odds |-> o.odds, left |-> o.left]
    BY OrderDef DEF Sides
  <2>7. resting' \subseteq resting \cup {o}
    BY <1>3 DEF PlaceBack, Placed
  <2> HIDE DEF o
  <2>8. \A a \in resting : a.selection # Current(p)
    BY <1>1 DEF IInv, Cleared
  <2>9. Cleared'
    BY <2>1, <2>3, <2>4, <2>5, <2>6, <2>7, <2>8 DEF Cleared, Passing
  <2>10. Orders'
    BY <2>6, <2>7 DEF IInv, Orders
  <2>11. LayAboveBack'
    BY <2>6, <2>7, <2>8 DEF IInv, LayAboveBack
  <2>12. QED
    BY <1>1, <2>3, <2>4, <2>9, <2>10, <2>11 DEF IInv
<1>4. QED
  BY <1>2, <1>3

LEMMA PlaceLayInv ==
  ASSUME IInv, NEW p, PlaceLay(p) PROVE IInv'
<1> DEFINE o == Order(p, "lay", proc[p].headroom)
<1>1. /\ Rows'
      /\ p \in DOMAIN proc /\ Passing(p) /\ proc[p].step = "lay"
      /\ houseLock' = houseLock
      /\ NextSelection(p)
  BY RowsKept DEF PlaceLay, At, IInv, Passing
<1>2. /\ o.selection = Current(p) /\ o.side = "lay" /\ o.side \in Sides
      /\ o.odds = proc[p].price[Current(p)].lay
      /\ o = [selection |-> o.selection, side |-> o.side, odds |-> o.odds, left |-> o.left]
  BY OrderDef DEF Sides
<1>3. resting' \subseteq resting \cup {o}
  BY DEF PlaceLay, Placed
<1> HIDE DEF o
<1>4. \A a \in resting : a.selection = Current(p) =>
        a.side = "back" /\ a.odds = proc[p].price[Current(p)].back
  BY <1>1 DEF IInv, Cleared
<1>5. proc[p].price[Current(p)].back < proc[p].price[Current(p)].lay
  <2>1. proc[p].todo # {} /\ \A s \in proc[p].todo : proc[p].price[s].back < proc[p].price[s].lay
    BY <1>1 DEF IInv, Loads, Carried
  <2>2. Current(p) \in proc[p].todo
    BY <2>1 DEF Current, Foremost
  <2>3. QED
    BY <2>1, <2>2
<1>6. Orders'
  BY <1>2, <1>3 DEF IInv, Orders
<1>7. LayAboveBack'
  BY <1>2, <1>3, <1>4, <1>5 DEF IInv, LayAboveBack
<1>8. QED
  BY <1>1, <1>6, <1>7, SkipInv

\* The book shrinks, or an order of it does.
LEMMA BookShrinks ==
  ASSUME IInv, UNCHANGED <<feed, match, config, proc, houseLock>>,
         NEW o, NEW n,
         o \in resting,
         n.selection = o.selection /\ n.side = o.side /\ n.odds = o.odds,
         n = [selection |-> n.selection, side |-> n.side, odds |-> n.odds, left |-> n.left],
         resting' \subseteq (resting \ {o}) \cup {n}
  PROVE  IInv'
<1>1. Rows' /\ Loads' /\ Alone'
  BY RowsKept DEF IInv, Loads, Alone, Passing
<1>2. Cleared'
  BY DEF IInv, Cleared, Current
<1>3. Orders' /\ LayAboveBack'
  BY DEF IInv, Orders, LayAboveBack
<1>4. QED
  BY <1>1, <1>2, <1>3 DEF IInv

LEMMA TradeInv ==
  ASSUME IInv, NEW o \in resting, NEW stake, Trade(o, stake) PROVE IInv'
<1> DEFINE n == [o EXCEPT !.left = @ - stake]
<1>1. o = [selection |-> o.selection, side |-> o.side, odds |-> o.odds, left |-> o.left]
  BY DEF IInv, Orders
<1>2. /\ n.selection = o.selection /\ n.side = o.side /\ n.odds = o.odds
      /\ n = [selection |-> n.selection, side |-> n.side, odds |-> n.odds, left |-> n.left]
  BY <1>1
<1>3. /\ UNCHANGED <<feed, match, config, proc, houseLock>>
      /\ resting' \subseteq (resting \ {o}) \cup {n}
  BY DEF Trade
<1> HIDE DEF n
<1>4. QED
  BY <1>2, <1>3, BookShrinks

LEMMA ReleaseInv ==
  ASSUME IInv, Release PROVE IInv'
<1>1. resting' = {} /\ proc' = proc /\ houseLock' = houseLock /\ Rows'
  BY RowsKept DEF Release, IInv
<1>2. Loads' /\ Alone'
  BY <1>1 DEF IInv, Loads, Alone, Passing
<1>3. QED
  BY <1>1, <1>2 DEF IInv, Cleared, Orders, LayAboveBack

LEMMA ExpireInv ==
  ASSUME IInv, ExpireHouseLock PROVE IInv'
<1>1. /\ resting' = resting /\ proc' = proc /\ Rows'
      /\ \A p \in DOMAIN proc : ~Passing(p)
  BY RowsKept DEF ExpireHouseLock, IInv
<1>2. Alone'
  BY <1>1 DEF Alone, Passing
<1>3. QED
  BY <1>1, <1>2 DEF IInv, Loads, Cleared, Orders, LayAboveBack, Current

-----------------------------------------------------------------------------
(* The theorem *)

LEMMA NextInv == IInv /\ [Next]_vars => IInv'
<1> SUFFICES ASSUME IInv, [Next]_vars PROVE IInv'
  OBVIOUS
<1>1. ASSUME NEW p \in Processes, Pass(p) PROVE IInv'
  BY <1>1, EnterInv, CancelInv, PlaceBackInv, PlaceLayInv DEF Pass
<1>2. ASSUME NEW p \in Processes, Dies(p), UNCHANGED houseVars PROVE IInv'
  BY <1>2, RowsKept, Stops DEF Dies, IInv
<1>3. ASSUME NEW p \in Processes, (Refresh(p) \/ Sync(p) \/ Dies(p)) /\ UNCHANGED houseVars
      PROVE  IInv'
  BY <1>2, <1>3, RefreshInv, SyncInv
<1>4. CASE (ExpireSportLock \/ World \/ Administration) /\ UNCHANGED houseVars
  BY <1>4, WorldInv, AdministrationInv
<1>5. CASE ExpireHouseLock
  BY <1>5, ExpireInv
<1>6. ASSUME NEW o \in resting, NEW stake \in 1 .. o.left, Trade(o, stake) PROVE IInv'
  BY <1>6, TradeInv
<1>7. CASE Release
  BY <1>7, ReleaseInv
<1>8. CASE UNCHANGED vars
  <2>1. Rows' /\ UNCHANGED <<proc, houseVars>>
    BY <1>8, RowsKept DEF vars, houseVars, IInv
  <2>2. QED
    BY <2>1, Stays
<1>9. QED
  BY <1>1, <1>3, <1>4, <1>5, <1>6, <1>7, <1>8 DEF Next

\* At no time does the house offer a selection at two prices on one side, nor
\* lay it at the odds its own back order asks for or shorter ones: whatever the
\* number of requests that refresh the match and reseed it
\* (sync_house_orders_for_match), the settings and the trades in between.
THEOREM LayStaysAboveBack == Spec => []LayAboveBack
<1>1. IInv => LayAboveBack
  BY DEF IInv
<1>2. QED
  BY InitInv, NextInv, <1>1, PTL DEF Spec

-----------------------------------------------------------------------------
(* What a book and a table of trades are worth *)

Liability(o) == o.left * Rate(o.side, o.odds)

Here(R, s) == {r \in R : r.selection = s}

OfferIn(R, s) == SumFunction([o \in Here(R, s) |-> Liability(o)])

\* What a trade, or a row, counts towards a selection.
Share(x, s, worth) == IF x.selection = s THEN worth ELSE 0

Sound(x) == x.side \in Sides /\ x.odds \in Int /\ x.odds > 100

SoundOrder(o) == Sound(o) /\ o.left \in Nat

SoundBook(R) == IsFiniteSet(R) /\ \A o \in R : SoundOrder(o)

CommittedIn(m, s) ==
  SumFunction([k \in Here(DOMAIN m, s) |-> m[k] * Rate(k.side, k.odds)])

SoundTrades(m) ==
  /\ IsFiniteSet(DOMAIN m)
  /\ \A k \in DOMAIN m : Sound(k) /\ m[k] \in Nat

LEMMA Product == \A a, b \in Nat : a * b \in Nat
OBVIOUS

LEMMA Distributes ==
  ASSUME NEW a \in Int, NEW b \in Int, NEW r \in Int
  PROVE  (a + b) * r = a * r + b * r /\ (a - b) * r = a * r - b * r
OBVIOUS

LEMMA RateNat == ASSUME NEW x, Sound(x) PROVE Rate(x.side, x.odds) \in Nat \ {0}
BY DEF Sound, Rate, Sides

LEMMA LiabilityNat == ASSUME NEW o, SoundOrder(o) PROVE Liability(o) \in Nat
<1>1. o.left \in Nat /\ Rate(o.side, o.odds) \in Nat
  BY RateNat DEF SoundOrder
<1>2. QED
  BY <1>1, Product DEF Liability

\* The sum over a book, of one function for all books within U.
LEMMA OfferIs ==
  ASSUME NEW U, NEW R, R \subseteq U, SoundBook(R), NEW s
  PROVE  /\ IsFiniteSet(Here(R, s))
         /\ OfferIn(R, s) = SumFunctionOnSet([o \in U |-> Liability(o)], Here(R, s))
         /\ \A o \in Here(R, s) : [x \in U |-> Liability(x)][o] \in Nat
<1>1. Here(R, s) \subseteq R
  BY DEF Here
<1>2. IsFiniteSet(Here(R, s))
  BY <1>1, FS_Subset DEF SoundBook
<1> DEFINE worth == [o \in U |-> Liability(o)]
           t == [o \in Here(R, s) |-> Liability(o)]
<1>3. \A o \in Here(R, s) : worth[o] = Liability(o) /\ worth[o] \in Nat
  BY <1>1, LiabilityNat DEF SoundBook
<1>4. DOMAIN t = Here(R, s) /\ \A o \in DOMAIN t : t[o] = worth[o]
  BY <1>3
<1>5. OfferIn(R, s) = SumFunction(t)
  BY DEF OfferIn
<1> HIDE DEF worth, t
<1>6. SumFunction(t) = SumFunctionOnSet(worth, Here(R, s))
  BY <1>2, <1>4, SumOfTable
<1>7. QED
  BY <1>2, <1>3, <1>5, <1>6 DEF worth

LEMMA OfferNat ==
  ASSUME NEW R, SoundBook(R), NEW s PROVE OfferIn(R, s) \in Nat
<1> DEFINE worth == [o \in R |-> Liability(o)]
<1>1. /\ IsFiniteSet(Here(R, s))
      /\ OfferIn(R, s) = SumFunctionOnSet(worth, Here(R, s))
      /\ \A o \in Here(R, s) : worth[o] \in Nat
  BY OfferIs
<1> HIDE DEF worth
<1>2. QED
  BY <1>1, SumNat

LEMMA OfferNone ==
  ASSUME NEW R, SoundBook(R), NEW s, \A o \in R : o.selection # s
  PROVE  OfferIn(R, s) = 0
<1> DEFINE worth == [o \in R |-> Liability(o)]
<1>1. OfferIn(R, s) = SumFunctionOnSet(worth, Here(R, s))
  BY OfferIs
<1>2. Here(R, s) = {}
  BY DEF Here
<1> HIDE DEF worth
<1>3. QED
  BY <1>1, <1>2, SumEmpty

\* Fewer orders are worth no more.
LEMMA OfferFewer ==
  ASSUME NEW R, SoundBook(R), NEW T, T \subseteq R, NEW s
  PROVE  SoundBook(T) /\ OfferIn(T, s) <= OfferIn(R, s)
<1> DEFINE worth == [o \in R |-> Liability(o)]
<1>1. SoundBook(T)
  BY FS_Subset DEF SoundBook
<1>2. OfferIn(T, s) = SumFunctionOnSet(worth, Here(T, s))
  BY <1>1, OfferIs
<1>3. /\ IsFiniteSet(Here(R, s))
      /\ OfferIn(R, s) = SumFunctionOnSet(worth, Here(R, s))
      /\ \A o \in Here(R, s) : worth[o] \in Nat
  BY OfferIs
<1>4. Here(T, s) \in SUBSET Here(R, s)
  BY DEF Here
<1> HIDE DEF worth
<1>5. SumFunctionOnSet(worth, Here(T, s)) <= SumFunctionOnSet(worth, Here(R, s))
  BY <1>3, <1>4, SumPartLe
<1>6. QED
  BY <1>1, <1>2, <1>3, <1>5

LEMMA ShareNat ==
  ASSUME NEW x, NEW s, NEW w \in Nat PROVE Share(x, s, w) \in Nat
BY DEF Share

\* An order more, which the book may have had before.
LEMMA OfferMore ==
  ASSUME NEW R, SoundBook(R), NEW o, SoundOrder(o), NEW s
  PROVE  /\ SoundBook(R \cup {o})
         /\ OfferIn(R \cup {o}, s) <= OfferIn(R, s) + Share(o, s, Liability(o))
<1> DEFINE U == R \cup {o}
           worth == [x \in U |-> Liability(x)]
<1>1. SoundBook(U)
  BY FS_AddElement DEF SoundBook
<1>2. /\ IsFiniteSet(Here(U, s))
      /\ OfferIn(U, s) = SumFunctionOnSet(worth, Here(U, s))
  BY <1>1, OfferIs
<1>3. /\ IsFiniteSet(Here(R, s))
      /\ OfferIn(R, s) = SumFunctionOnSet(worth, Here(R, s))
      /\ \A x \in Here(R, s) : worth[x] \in Nat
  BY OfferIs
<1>4. worth[o] = Liability(o) /\ Liability(o) \in Nat
  BY LiabilityNat
<1>5. OfferIn(R, s) \in Nat
  BY OfferNat
<1>6. CASE o.selection = s /\ o \notin R
  <2>1. Here(U, s) = Here(R, s) \cup {o} /\ o \notin Here(R, s)
    BY <1>6 DEF Here
  <2> HIDE DEF worth, U
  <2>2. SumFunctionOnSet(worth, Here(R, s) \cup {o})
          = worth[o] + SumFunctionOnSet(worth, Here(R, s))
    <3>1. \A x \in Here(R, s) : worth[x] \in Int
      BY <1>3
    <3>2. worth[o] \in Int
      BY <1>4
    <3>3. QED
      BY <1>3, <2>1, <3>1, <3>2, SumAdd
  <2>3. Share(o, s, Liability(o)) = worth[o]
    BY <1>4, <1>6 DEF Share
  <2>4. OfferIn(U, s) = OfferIn(R, s) + worth[o]
    BY <1>2, <1>3, <1>4, <1>5, <2>1, <2>2
  <2>5. QED
    BY <1>1, <1>4, <1>5, <2>3, <2>4 DEF U
<1>7. CASE ~(o.selection = s /\ o \notin R)
  <2>1. Here(U, s) = Here(R, s)
    BY <1>7 DEF Here
  <2>2. OfferIn(U, s) = OfferIn(R, s)
    BY <1>2, <1>3, <2>1, Zenon
  <2>3. Share(o, s, Liability(o)) \in Nat
    BY <1>4, ShareNat
  <2> HIDE DEF worth, U
  <2>4. QED
    BY <1>1, <1>5, <2>2, <2>3 DEF U
<1>8. QED
  BY <1>6, <1>7

LEMMA OfferLess ==
  ASSUME NEW R, SoundBook(R), NEW o \in R, NEW s
  PROVE  OfferIn(R \ {o}, s) = OfferIn(R, s) - Share(o, s, Liability(o))
<1> DEFINE T == R \ {o}
           worth == [x \in R |-> Liability(x)]
<1>1. SoundBook(T) /\ OfferIn(T, s) \in Nat
  BY OfferFewer, OfferNat
<1>2. /\ IsFiniteSet(Here(R, s))
      /\ OfferIn(R, s) = SumFunctionOnSet(worth, Here(R, s))
      /\ \A x \in Here(R, s) : worth[x] \in Nat
  BY OfferIs
<1>3. OfferIn(T, s) = SumFunctionOnSet(worth, Here(T, s))
  BY <1>1, OfferIs
<1>4. worth[o] = Liability(o) /\ Liability(o) \in Nat
  BY LiabilityNat DEF SoundBook
<1>5. CASE o.selection = s
  <2>1. o \in Here(R, s) /\ Here(T, s) = Here(R, s) \ {o}
    BY <1>5 DEF Here
  <2> HIDE DEF worth, T
  <2>2. \A x \in Here(R, s) : worth[x] \in Int
    BY <1>2
  <2>3. SumFunctionOnSet(worth, Here(R, s))
          = worth[o] + SumFunctionOnSet(worth, Here(R, s) \ {o})
    BY <1>2, <2>1, <2>2, SumTake
  <2>4. Share(o, s, Liability(o)) = Liability(o)
    BY <1>5 DEF Share
  <2>5. OfferIn(R, s) = Liability(o) + OfferIn(T, s)
    BY <1>2, <1>3, <1>4, <2>1, <2>3, Zenon
  <2>6. QED
    BY <1>1, <1>4, <2>4, <2>5 DEF T
<1>6. CASE o.selection # s
  <2>1. Here(T, s) = Here(R, s)
    BY <1>6 DEF Here
  <2>2. OfferIn(R, s) = OfferIn(T, s)
    BY <1>2, <1>3, <2>1, Zenon
  <2>3. Share(o, s, Liability(o)) = 0
    BY <1>6 DEF Share
  <2> HIDE DEF worth, T
  <2>4. QED
    BY <1>1, <2>2, <2>3 DEF T
<1>7. QED
  BY <1>5, <1>6

\* The liabilities of a table of trades, as one function.
Worth(m) == [k \in DOMAIN m |-> m[k] * Rate(k.side, k.odds)]

LEMMA CommittedIs ==
  ASSUME NEW m, SoundTrades(m), NEW s
  PROVE  /\ IsFiniteSet(Here(DOMAIN m, s))
         /\ Here(DOMAIN m, s) \subseteq DOMAIN m
         /\ CommittedIn(m, s) = SumFunctionOnSet(Worth(m), Here(DOMAIN m, s))
         /\ \A k \in DOMAIN m : /\ Worth(m)[k] = m[k] * Rate(k.side, k.odds)
                                /\ Worth(m)[k] \in Nat
<1>1. Here(DOMAIN m, s) \subseteq DOMAIN m
  BY DEF Here
<1>2. IsFiniteSet(Here(DOMAIN m, s))
  BY <1>1, FS_Subset DEF SoundTrades
<1>3. \A k \in DOMAIN m : /\ Worth(m)[k] = m[k] * Rate(k.side, k.odds)
                          /\ Worth(m)[k] \in Nat
  <2>1. \A k \in DOMAIN m : m[k] \in Nat /\ Rate(k.side, k.odds) \in Nat
    BY RateNat DEF SoundTrades
  <2>2. QED
    BY <2>1, Product DEF Worth
<1> DEFINE t == [k \in Here(DOMAIN m, s) |-> m[k] * Rate(k.side, k.odds)]
<1>4. DOMAIN t = Here(DOMAIN m, s) /\ \A k \in DOMAIN t : t[k] = Worth(m)[k]
  BY <1>1, <1>3
<1>5. CommittedIn(m, s) = SumFunction(t)
  BY DEF CommittedIn
<1> HIDE DEF t
<1>6. SumFunction(t) = SumFunctionOnSet(Worth(m), Here(DOMAIN m, s))
  BY <1>2, <1>4, SumOfTable
<1>7. QED
  BY <1>1, <1>2, <1>3, <1>5, <1>6

LEMMA CommittedNat ==
  ASSUME NEW m, SoundTrades(m), NEW s PROVE CommittedIn(m, s) \in Nat
<1>1. /\ IsFiniteSet(Here(DOMAIN m, s))
      /\ CommittedIn(m, s) = SumFunctionOnSet(Worth(m), Here(DOMAIN m, s))
      /\ \A k \in Here(DOMAIN m, s) : Worth(m)[k] \in Nat
  BY CommittedIs
<1>2. QED
  BY <1>1, SumNat

Before(m, k) == IF k \in DOMAIN m THEN m[k] ELSE 0

\* A trade commits its stake at its rate, on its selection alone.
LEMMA CommittedMore ==
  ASSUME NEW m, SoundTrades(m), NEW k, Sound(k), NEW stake \in Nat, NEW s
  PROVE  LET n == Put(m, k, Before(m, k) + stake)
         IN  /\ SoundTrades(n)
             /\ CommittedIn(n, s)
                  = CommittedIn(m, s) + Share(k, s, stake * Rate(k.side, k.odds))
<1> PICK r : r = Rate(k.side, k.odds)
  OBVIOUS
<1> PICK before : before = Before(m, k)
  OBVIOUS
<1> PICK n : n = Put(m, k, before + stake)
  OBVIOUS
<1>1. before \in Nat /\ before + stake \in Nat /\ r \in Nat
  BY RateNat DEF Before, SoundTrades
<1>2. /\ DOMAIN n = DOMAIN m \cup {k}
      /\ n[k] = before + stake
      /\ \A x \in DOMAIN m \ {k} : n[x] = m[x]
  BY DEF Put
<1>3. SoundTrades(n)
  <2>1. IsFiniteSet(DOMAIN n)
    BY <1>2, FS_AddElement DEF SoundTrades
  <2>2. QED
    BY <1>1, <1>2, <2>1 DEF SoundTrades
<1> DEFINE D == Here(DOMAIN m, s)
           E == Here(DOMAIN n, s)
           f == Worth(m)
           g == Worth(n)
<1>4. /\ IsFiniteSet(D) /\ D \subseteq DOMAIN m
      /\ CommittedIn(m, s) = SumFunctionOnSet(f, D)
      /\ \A x \in DOMAIN m : f[x] = m[x] * Rate(x.side, x.odds) /\ f[x] \in Nat
  BY CommittedIs
<1>5. /\ IsFiniteSet(E) /\ E \subseteq DOMAIN n
      /\ CommittedIn(n, s) = SumFunctionOnSet(g, E)
      /\ \A x \in DOMAIN n : g[x] = n[x] * Rate(x.side, x.odds) /\ g[x] \in Nat
  BY <1>3, CommittedIs
<1>6. \A x \in DOMAIN m \ {k} : g[x] = f[x]
  BY <1>2, <1>4, <1>5
<1>7. g[k] = (before + stake) * r /\ g[k] \in Nat
  BY <1>2, <1>5
<1>8. (before + stake) * r = before * r + stake * r /\ stake * r \in Nat /\ before * r \in Nat
  BY <1>1, Distributes, Product
<1>9. CommittedIn(m, s) \in Nat
  BY CommittedNat
<1>10. \A x \in D : f[x] \in Int
  BY <1>4
<1>11. CASE k.selection # s
  <2>1. E = D /\ k \notin D
    BY <1>2, <1>11 DEF Here
  <2>2. \A x \in D : f[x] = g[x]
    BY <1>4, <1>6, <2>1
  <2> HIDE DEF D, E, f, g
  <2>3. SumFunctionOnSet(f, D) = SumFunctionOnSet(g, D)
    BY <1>4, <2>2, SumSame
  <2>4. Share(k, s, stake * r) = 0
    BY <1>11 DEF Share
  <2>5. CommittedIn(n, s) = CommittedIn(m, s)
    BY <1>4, <1>5, <2>1, <2>3, Zenon
  <2>6. QED
    BY <1>3, <1>9, <2>4, <2>5
<1>12. CASE k.selection = s /\ k \in DOMAIN m
  <2>1. E = D /\ k \in D
    BY <1>2, <1>12 DEF Here
  <2>2. \A x \in D \ {k} : g[x] = f[x]
    BY <1>4, <1>6
  <2>3. f[k] = before * r
    BY <1>4, <1>12 DEF Before
  <2>4. Share(k, s, stake * r) = stake * r
    BY <1>12 DEF Share
  <2>5. g[k] \in Int
    BY <1>7
  <2> HIDE DEF D, E, f, g
  <2>6. SumFunctionOnSet(g, D) = SumFunctionOnSet(f, D) - f[k] + g[k]
    BY <1>4, <1>10, <2>1, <2>2, <2>5, SumChange
  <2>7. CommittedIn(n, s) = CommittedIn(m, s) - f[k] + g[k]
    BY <1>4, <1>5, <2>1, <2>6, Zenon
  <2>8. QED
    BY <1>3, <1>7, <1>8, <1>9, <2>3, <2>4, <2>7
<1>13. CASE k.selection = s /\ k \notin DOMAIN m
  <2>1. E = D \cup {k} /\ k \notin D
    BY <1>2, <1>4, <1>13 DEF Here
  <2>2. \A x \in D : f[x] = g[x] /\ g[x] \in Int
    BY <1>2, <1>4, <1>5, <1>6, <2>1
  <2>3. before = 0
    BY <1>13 DEF Before
  <2>4. Share(k, s, stake * r) = stake * r
    BY <1>13 DEF Share
  <2>5. g[k] \in Int
    BY <1>7
  <2> HIDE DEF D, E, f, g
  <2>6. SumFunctionOnSet(f, D) = SumFunctionOnSet(g, D)
    BY <1>4, <2>2, SumSame
  <2>7. SumFunctionOnSet(g, D \cup {k}) = g[k] + SumFunctionOnSet(g, D)
    BY <1>4, <2>1, <2>2, <2>5, SumAdd
  <2>8. CommittedIn(n, s) = g[k] + CommittedIn(m, s)
    BY <1>4, <1>5, <2>1, <2>6, <2>7, Zenon
  <2>9. g[k] = stake * r
    BY <1>1, <1>7, <2>3
  <2>10. QED
    BY <1>3, <1>8, <1>9, <2>4, <2>8, <2>9
<1>14. QED
  BY <1>11, <1>12, <1>13

-----------------------------------------------------------------------------
(* The cap holds *)

\* The orders and the trades are finitely many, at odds above 1.00.
Kept == SoundBook(resting) /\ SoundTrades(matched)

\* Prices in hand are numbers.
Numbers ==
  \A p \in DOMAIN proc : Passing(p) =>
    \A s \in proc[p].todo : proc[p].price[s].back \in Int /\ proc[p].price[s].lay \in Int

\* Once its back order is placed, a pass has left room for its lay order:
\* half of the headroom it measured.
Room ==
  \A p \in DOMAIN proc : proc[p].step = "lay" =>
    /\ proc[p].headroom \in Nat
    /\ 2 * (CommittedIn(matched, Current(p)) + OfferIn(resting, Current(p)))
         + proc[p].headroom <= 200 * Cap

CapInv == Kept /\ Numbers /\ Room /\ SharedCap

LEMMA InTables ==
  /\ \A s : Committed(s) = CommittedIn(matched, s)
  /\ \A s : OnOffer(s) = OfferIn(resting, s)
BY DEF Committed, CommittedIn, OnOffer, OfferIn, Here, Liability

LEMMA InTablesNext ==
  /\ \A s : Committed(s)' = CommittedIn(matched', s)
  /\ \A s : OnOffer(s)' = OfferIn(resting', s)
BY DEF Committed, CommittedIn, OnOffer, OfferIn, Here, Liability

LEMMA InNat ==
  ASSUME Kept
  PROVE  \A s : Committed(s) \in Nat /\ OnOffer(s) \in Nat
BY InTables, CommittedNat, OfferNat DEF Kept

\* What keeps the cap: no selection is worth more than before.
NoMore ==
  \A s : Committed(s)' + OnOffer(s)' <= Committed(s) + OnOffer(s)

LEMMA NoMoreKeeps ==
  ASSUME CapInv, Kept', NoMore
  PROVE  SharedCap'
<1>1. \A s : /\ Committed(s) \in Nat /\ OnOffer(s) \in Nat
             /\ Committed(s)' \in Nat /\ OnOffer(s)' \in Nat
  <2>1. Kept
    BY DEF CapInv
  <2>2. \A s : Committed(s)' \in Nat /\ OnOffer(s)' \in Nat
    BY InTablesNext, CommittedNat, OfferNat DEF Kept
  <2>3. QED
    BY <2>1, <2>2, InNat
<1>2. Cap \in Nat
  BY HouseAssumption DEF HouseAssumption
<1>3. QED
  BY <1>1, <1>2 DEF CapInv, SharedCap, NoMore

\* Half of the headroom, rounded down to what stakes in units carry.
LEMMA Quotient ==
  ASSUME NEW h \in Nat, NEW d \in Nat \ {0}
  PROVE  h \div d \in Nat /\ (h \div d) * d <= h
OBVIOUS

LEMMA Halves ==
  ASSUME NEW h \in Nat, NEW r \in Nat \ {0}
  PROVE  /\ h \div (2 * r) \in Nat
         /\ 2 * ((h \div (2 * r)) * r) <= h
<1> PICK d : d = 2 * r
  OBVIOUS
<1> PICK q : q = h \div d
  OBVIOUS
<1>1. d \in Nat \ {0}
  OBVIOUS
<1>2. q \in Nat /\ q * d <= h
  BY <1>1, Quotient
<1>3. q * d = 2 * (q * r)
  BY <1>2
<1>4. QED
  BY <1>2, <1>3

LEMMA OfferHalf ==
  ASSUME NEW p, NEW side \in Sides, NEW h \in Nat,
         proc[p].price[Current(p)][side] \in Int,
         proc[p].price[Current(p)][side] > 100
  PROVE  /\ SoundOrder(Order(p, side, h))
         /\ 2 * Liability(Order(p, side, h)) <= h
<1> PICK odds : odds = proc[p].price[Current(p)][side]
  OBVIOUS
<1> PICK r : r = Rate(side, odds)
  OBVIOUS
<1>1. r \in Nat \ {0}
  BY DEF Rate
<1>2. h \div (2 * r) \in Nat /\ 2 * ((h \div (2 * r)) * r) <= h
  BY <1>1, Halves
<1> DEFINE o == Order(p, side, h)
<1>3. o.side = side /\ o.odds = odds /\ o.left = h \div (2 * r)
  BY DEF Order, Offer
<1>4. SoundOrder(o)
  BY <1>2, <1>3 DEF SoundOrder, Sound
<1>5. Liability(o) = (h \div (2 * r)) * r
  BY <1>3 DEF Liability
<1>6. QED
  BY <1>2, <1>4, <1>5

\* What place_order leaves in the book.
LEMMA PlacedBook ==
  ASSUME Kept, NEW p, NEW side \in Sides, NEW h \in Nat,
         proc[p].price[Current(p)][side] \in Int,
         resting' = Placed(Order(p, side, h)), matched' = matched, NEW s
  PROVE  /\ Kept'
         /\ Committed(s)' = Committed(s)
         /\ s # Current(p) => OnOffer(s)' <= OnOffer(s)
         /\ 2 * OnOffer(s)' <= 2 * OnOffer(s) + h
<1> PICK o : o = Order(p, side, h)
  OBVIOUS
<1>1. /\ Committed(s)' = Committed(s)
      /\ OnOffer(s) = OfferIn(resting, s) /\ OnOffer(s)' = OfferIn(resting', s)
      /\ OnOffer(s) \in Nat
  BY InTables, InTablesNext, InNat
<1>2. CASE ~Accepted(o)
  <2>1. resting' = resting
    BY <1>2 DEF Placed
  <2>2. QED
    BY <1>1, <2>1 DEF Kept
<1>3. CASE Accepted(o)
  <2>1. resting' = resting \cup {o} /\ o.odds > 100
    BY <1>3 DEF Placed, Accepted
  <2>2. proc[p].price[Current(p)][side] > 100
    BY <2>1 DEF Order
  <2>3. SoundOrder(o) /\ 2 * Liability(o) <= h
    BY <2>2, OfferHalf
  <2>4. /\ SoundBook(resting')
        /\ OfferIn(resting', s) <= OfferIn(resting, s) + Share(o, s, Liability(o))
    BY <2>1, <2>3, OfferMore DEF Kept
  <2>5. OfferIn(resting', s) \in Nat
    BY <2>4, OfferNat
  <2>6. /\ Share(o, s, Liability(o)) \in Nat
        /\ 2 * Share(o, s, Liability(o)) <= h
        /\ s # Current(p) => Share(o, s, Liability(o)) = 0
    <3>1. Liability(o) \in Nat
      BY <2>3, LiabilityNat
    <3>2. o.selection = Current(p)
      BY DEF Order
    <3>3. QED
      BY <2>3, <3>1, <3>2 DEF Share
  <2>7. QED
    BY <1>1, <2>4, <2>5, <2>6 DEF Kept
<1>4. QED
  BY <1>2, <1>3

-----------------------------------------------------------------------------
(* Step by step *)

LEMMA SameIsNoMore ==
  ASSUME Kept, UNCHANGED <<resting, matched>>
  PROVE  Kept' /\ NoMore
BY InTables, InTablesNext, InNat DEF Kept, NoMore

\* A step that makes no selection worth more, and places no back order.
LEMMA GoOn ==
  ASSUME CapInv, Kept', NoMore, Numbers',
         \A p \in DOMAIN proc' : proc'[p].step = "lay" =>
           p \in DOMAIN proc /\ proc'[p] = proc[p]
  PROVE  CapInv'
<1>1. SharedCap'
  BY NoMoreKeeps
<1>2. Room'
  <2> SUFFICES ASSUME NEW p \in DOMAIN proc', proc'[p].step = "lay"
               PROVE  /\ proc'[p].headroom \in Nat
                      /\ 2 * (CommittedIn(matched', Current(p)')
                              + OfferIn(resting', Current(p)'))
                           + proc'[p].headroom <= 200 * Cap
    BY DEF Room
  <2>1. p \in DOMAIN proc /\ proc'[p] = proc[p] /\ Current(p)' = Current(p)
    BY DEF Current
  <2> PICK s : s = Current(p)
    OBVIOUS
  <2>2. /\ proc[p].headroom \in Nat
        /\ 2 * (Committed(s) + OnOffer(s)) + proc[p].headroom <= 200 * Cap
    BY <2>1, InTables DEF CapInv, Room
  <2>3. Committed(s)' + OnOffer(s)' <= Committed(s) + OnOffer(s)
    BY DEF NoMore
  <2>4. /\ Committed(s) \in Nat /\ OnOffer(s) \in Nat
        /\ Committed(s)' \in Nat /\ OnOffer(s)' \in Nat
    BY InNat, InTablesNext, CommittedNat, OfferNat DEF CapInv, Kept
  <2>5. QED
    BY <2>1, <2>2, <2>3, <2>4, InTablesNext, HouseAssumption DEF HouseAssumption
<1>3. QED
  BY <1>1, <1>2 DEF CapInv

\* A step outside the passes and the book.
LEMMA ApartCap ==
  ASSUME CapInv, UNCHANGED <<resting, matched>>,
         \A p \in DOMAIN proc' :
           Passing(p)' => p \in DOMAIN proc /\ proc'[p] = proc[p]
  PROVE  CapInv'
<1>1. Kept' /\ NoMore
  BY SameIsNoMore DEF CapInv
<1>2. Numbers'
  BY DEF CapInv, Numbers, Passing
<1>3. \A p \in DOMAIN proc' : proc'[p].step = "lay" =>
        p \in DOMAIN proc /\ proc'[p] = proc[p]
  BY DEF Passing
<1>4. QED
  BY <1>1, <1>2, <1>3, GoOn

\* One process goes on outside a pass, or ends.
LEMMA GotoCap ==
  ASSUME CapInv, UNCHANGED houseVars, NEW p, NEW r,
         r.step \notin {"cancel", "back", "lay"}, Goto(p, r)
  PROVE  CapInv'
<1>1. /\ DOMAIN proc' = DOMAIN proc \cup {p}
      /\ proc'[p] = r
      /\ \A q \in DOMAIN proc \ {p} : proc'[q] = proc[q]
  BY DEF Goto, Put
<1>2. \A q \in DOMAIN proc' : Passing(q)' => q \in DOMAIN proc /\ proc'[q] = proc[q]
  BY <1>1 DEF Passing
<1>3. QED
  BY <1>2, ApartCap DEF houseVars

LEMMA LeaveCap ==
  ASSUME CapInv, UNCHANGED <<resting, matched>>, NEW p, Leave(p)
  PROVE  CapInv'
<1>1. proc' = Drop(proc, p)
  BY DEF Leave
<1>2. /\ DOMAIN proc' = DOMAIN proc \ {p}
      /\ \A q \in DOMAIN proc \ {p} : proc'[q] = proc[q]
  BY <1>1, DropDef, Zenon
<1>3. QED
  BY <1>2, ApartCap

LEMMA StayCap ==
  ASSUME CapInv, UNCHANGED <<resting, matched, proc>> PROVE CapInv'
<1>1. \A p \in DOMAIN proc' : Passing(p)' => p \in DOMAIN proc /\ proc'[p] = proc[p]
  OBVIOUS
<1>2. QED
  BY <1>1, ApartCap

LEMMA RefreshCap ==
  ASSUME CapInv, NEW p, Refresh(p) \/ Sync(p) \/ Dies(p), UNCHANGED houseVars
  PROVE  CapInv'
<1>1. CASE Leave(p)
  BY <1>1, LeaveCap DEF houseVars
<1>2. ASSUME NEW r, r.step \notin {"cancel", "back", "lay"}, Goto(p, r) PROVE CapInv'
  BY <1>2, GotoCap
<1>3. CASE TakeSportLock(p)
  <2>1. Goto(p, [step |-> "fetching"])
    BY <1>3 DEF TakeSportLock
  <2>2. QED
    BY <1>2, <2>1
<1>4. CASE Answer(p) \/ SyncRead(p)
  <2>1. PICK odds : odds = Published(feed, match.adjustment, config.adjustment)
    OBVIOUS
  <2>2. \/ Leave(p)
        \/ Goto(p, [step |-> "listed", odds |-> odds])
        \/ Goto(p, [step |-> "existing", odds |-> odds])
    BY <1>4, <2>1 DEF Answer, SyncRead
  <2>3. QED
    BY <1>1, <1>2, <2>2
<1>5. CASE WriteOdds(p) \/ SyncWrite(p)
  <2>1. Goto(p, [step |-> "written", odds |-> proc[p].odds])
    BY <1>5 DEF WriteOdds, SyncWrite
  <2>2. QED
    BY <1>2, <2>1
<1>6. QED
  BY <1>1, <1>3, <1>4, <1>5 DEF Refresh, Poll, ManualRefresh, Sync, Dies

\* The prices of a pass are numbers.
LEMMA PricesAreNumbers ==
  ASSUME Rows, NEW odds, Priced(odds)
  PROVE  \A s \in DOMAIN odds : /\ PricesFor(odds)[s].back \in Int
                                /\ PricesFor(odds)[s].lay \in Int
<1>1. Or(match.mode, config.mode) \in Mode
  BY DEF Rows, MatchRow, Settings, Or, Opt
<1>2. Spread \in Int
  BY OddsAssumption DEF OddsAssumption
<1>3. \A s \in DOMAIN odds : odds[s] \in Int /\ s \in Selections
  BY DEF Priced, IsOdds
<1>4. QED
  BY <1>1, <1>2, <1>3, Clamped DEF PricesFor

\* A process whose prices are numbers goes on in its pass.
LEMMA GotoNumbers ==
  ASSUME Numbers, NEW p, NEW r, Goto(p, r),
         \A s \in r.todo : r.price[s].back \in Int /\ r.price[s].lay \in Int
  PROVE  /\ Numbers'
         /\ DOMAIN proc' = DOMAIN proc \cup {p}
         /\ proc'[p] = r
         /\ \A q \in DOMAIN proc \ {p} : proc'[q] = proc[q]
<1>1. /\ DOMAIN proc' = DOMAIN proc \cup {p}
      /\ proc'[p] = r
      /\ \A q \in DOMAIN proc \ {p} : proc'[q] = proc[q]
  BY DEF Goto, Put
<1>2. QED
  BY <1>1 DEF Numbers, Passing

LEMMA EnterCap ==
  ASSUME IInv, CapInv, NEW p, EnterPass(p) PROVE CapInv'
<1> DEFINE r == [step |-> "cancel", price |-> PricesFor(proc[p].odds),
                 todo |-> DOMAIN proc[p].odds]
<1>1. CASE ~Admitted
  BY <1>1, LeaveCap DEF EnterPass
<1>2. CASE Admitted
  <2>1. Priced(proc[p].odds)
    BY DEF EnterPass, At, IInv, Loads, Carried
  <2>2. Goto(p, r) /\ r.step = "cancel"
    BY <1>2 DEF EnterPass
  <2>3. \A s \in r.todo : r.price[s].back \in Int /\ r.price[s].lay \in Int
    BY <2>1, PricesAreNumbers DEF IInv
  <2> HIDE DEF r
  <2>4. /\ Numbers'
        /\ DOMAIN proc' = DOMAIN proc \cup {p}
        /\ proc'[p] = r
        /\ \A q \in DOMAIN proc \ {p} : proc'[q] = proc[q]
    BY <2>2, <2>3, GotoNumbers DEF CapInv
  <2>5. \A q \in DOMAIN proc' : proc'[q].step = "lay" =>
          q \in DOMAIN proc /\ proc'[q] = proc[q]
    BY <2>2, <2>4
  <2>6. Kept' /\ NoMore
    BY SameIsNoMore DEF EnterPass, CapInv
  <2>7. QED
    BY <2>4, <2>5, <2>6, GoOn
<1>3. QED
  BY <1>1, <1>2

\* Part of the book goes.
LEMMA FewerIsNoMore ==
  ASSUME Kept, resting' \subseteq resting, matched' = matched
  PROVE  Kept' /\ NoMore
<1>1. SoundBook(resting')
  BY OfferFewer DEF Kept
<1>2. Kept'
  BY <1>1 DEF Kept
<1>3. ASSUME NEW s
      PROVE  Committed(s)' + OnOffer(s)' <= Committed(s) + OnOffer(s)
  <2>1. OfferIn(resting', s) <= OfferIn(resting, s)
    BY OfferFewer DEF Kept
  <2>2. OfferIn(resting', s) \in Nat
    BY <1>1, OfferNat
  <2>3. QED
    BY <2>1, <2>2, InNat, InTables, InTablesNext
<1>4. QED
  BY <1>2, <1>3 DEF NoMore

LEMMA CancelCap ==
  ASSUME IInv, CapInv, NEW p, CancelStale(p) PROVE CapInv'
<1> DEFINE r == [step |-> "back", price |-> proc[p].price, todo |-> proc[p].todo]
<1>1. Goto(p, r) /\ r.step = "back"
  BY DEF CancelStale
<1>2. \A s \in r.todo : r.price[s].back \in Int /\ r.price[s].lay \in Int
  BY DEF CancelStale, At, CapInv, Numbers, Passing
<1> HIDE DEF r
<1>3. /\ Numbers'
      /\ DOMAIN proc' = DOMAIN proc \cup {p}
      /\ proc'[p] = r
      /\ \A q \in DOMAIN proc \ {p} : proc'[q] = proc[q]
  BY <1>1, <1>2, GotoNumbers DEF CapInv
<1>4. Kept' /\ NoMore
  BY FewerIsNoMore DEF CancelStale, CapInv
<1>5. QED
  BY <1>1, <1>3, <1>4, GoOn

\* After the last order of a selection: no pass is at its lay order.
LEMMA NextSelectionCap ==
  ASSUME IInv, CapInv, NEW p, Passing(p), NextSelection(p)
  PROVE  /\ Numbers'
         /\ \A q \in DOMAIN proc' : proc'[q].step # "lay"
<1> DEFINE rest == proc[p].todo \ {Current(p)}
           r == [step |-> "cancel", price |-> proc[p].price, todo |-> rest]
<1>1. \A q \in DOMAIN proc : Passing(q) => q = p
  BY DEF IInv, Alone, Passing
<1>2. CASE rest = {}
  <2>1. Leave(p)
    BY <1>2 DEF NextSelection
  <2>2. /\ DOMAIN proc' = DOMAIN proc \ {p}
        /\ \A q \in DOMAIN proc \ {p} : proc'[q] = proc[q]
    BY <2>1, DropDef DEF Leave
  <2>3. QED
    BY <1>1, <2>2 DEF CapInv, Numbers, Passing
<1>3. CASE rest # {}
  <2>1. Goto(p, r) /\ r.step = "cancel"
    BY <1>3 DEF NextSelection
  <2>2. \A s \in r.todo : r.price[s].back \in Int /\ r.price[s].lay \in Int
    BY DEF CapInv, Numbers, Passing
  <2> HIDE DEF r
  <2>3. /\ Numbers'
        /\ DOMAIN proc' = DOMAIN proc \cup {p}
        /\ proc'[p] = r
        /\ \A q \in DOMAIN proc \ {p} : proc'[q] = proc[q]
    BY <2>1, <2>2, GotoNumbers DEF CapInv
  <2>4. QED
    BY <1>1, <2>1, <2>3 DEF Passing
<1>4. QED
  BY <1>2, <1>3

LEMMA PricesInHand ==
  ASSUME IInv, CapInv, NEW p, Passing(p), NEW side \in Sides
  PROVE  /\ Current(p) \in proc[p].todo
         /\ proc[p].price[Current(p)][side] \in Int
<1>1. p \in DOMAIN proc /\ Carried(proc[p])
  BY DEF Passing, IInv, Loads
<1>2. proc[p].todo # {}
  BY <1>1 DEF Carried, Passing
<1>3. Current(p) \in proc[p].todo
  BY <1>2 DEF Current, Foremost
<1>4. QED
  BY <1>1, <1>3 DEF CapInv, Numbers, Sides

LEMMA PlaceBackCap ==
  ASSUME IInv, CapInv, NEW p, PlaceBack(p) PROVE CapInv'
<1>1. Passing(p) /\ p \in DOMAIN proc /\ proc[p].step = "back" /\ matched' = matched
  BY DEF PlaceBack, At, Passing
<1> PICK s : s = Current(p)
  OBVIOUS
<1> PICK h : h = Headroom(p)
  OBVIOUS
<1>2. CASE h <= 0
  <2>1. NextSelection(p) /\ resting' = resting
    BY <1>2 DEF PlaceBack
  <2>2. Kept' /\ NoMore
    BY <1>1, <2>1, SameIsNoMore DEF CapInv
  <2>3. Numbers' /\ \A q \in DOMAIN proc' : proc'[q].step # "lay"
    BY <1>1, <2>1, NextSelectionCap
  <2>4. QED
    BY <2>2, <2>3, GoOn
<1>3. CASE ~(h <= 0)
  <2> DEFINE r == [step |-> "lay", price |-> proc[p].price, todo |-> proc[p].todo,
                   headroom |-> Headroom(p)]
  <2>1. Committed(s) \in Nat /\ h = 100 * Cap - Committed(s) /\ Cap \in Nat
    BY InNat, HouseAssumption DEF CapInv, Headroom, HouseAssumption
  <2>2. h \in Nat
    BY <1>3, <2>1
  <2>3. /\ Goto(p, r) /\ r.headroom = h /\ r.todo = proc[p].todo
        /\ resting' = Placed(Order(p, "back", h))
    BY <1>3 DEF PlaceBack
  <2>4. \A x \in r.todo : r.price[x].back \in Int /\ r.price[x].lay \in Int
    BY <1>1 DEF CapInv, Numbers
  <2> HIDE DEF r
  <2>5. /\ Numbers'
        /\ DOMAIN proc' = DOMAIN proc \cup {p}
        /\ proc'[p] = r
        /\ \A q \in DOMAIN proc \ {p} : proc'[q] = proc[q]
    BY <2>3, <2>4, GotoNumbers DEF CapInv
  <2>6. Current(p)' = s
    BY <2>3, <2>5 DEF Current
  <2>7. "back" \in Sides /\ proc[p].price[Current(p)]["back"] \in Int
    BY <1>1, PricesInHand DEF Sides
  <2>8. \A x : /\ Kept'
               /\ Committed(x)' = Committed(x)
               /\ x # s => OnOffer(x)' <= OnOffer(x)
               /\ 2 * OnOffer(x)' <= 2 * OnOffer(x) + h
    BY <1>1, <2>2, <2>3, <2>7, PlacedBook DEF CapInv
  <2>9. OnOffer(s) = 0
    <3>1. \A o \in resting : o.selection # s
      BY <1>1 DEF IInv, Cleared
    <3>2. QED
      BY <3>1, OfferNone, InTables DEF CapInv, Kept
  <2>10. \A x : /\ Committed(x) \in Nat /\ OnOffer(x) \in Nat
                /\ Committed(x)' \in Nat /\ OnOffer(x)' \in Nat
    BY <2>8, InNat, InTablesNext, CommittedNat, OfferNat DEF CapInv, Kept
  <2>11. 2 * (Committed(s)' + OnOffer(s)') + h <= 200 * Cap
    BY <2>1, <2>2, <2>8, <2>9, <2>10
  <2>12. SharedCap'
    <3>1. ASSUME NEW x \in Tracked PROVE Committed(x)' + OnOffer(x)' <= 100 * Cap
      <4>1. CASE x = s
        <5>1. Committed(s)' + OnOffer(s)' <= 100 * Cap
          BY <2>1, <2>2, <2>10, <2>11
        <5>2. QED
          BY <4>1, <5>1
      <4>2. CASE x # s
        <5>1. Committed(x) + OnOffer(x) <= 100 * Cap
          BY DEF CapInv, SharedCap
        <5>2. QED
          BY <2>1, <2>8, <2>10, <4>2, <5>1
      <4>3. QED
        BY <4>1, <4>2
    <3>2. QED
      BY <3>1 DEF SharedCap
  <2>13. Room'
    <3>1. \A q \in DOMAIN proc : Passing(q) => q = p
      BY <1>1 DEF IInv, Alone
    <3>2. \A q \in DOMAIN proc' : proc'[q].step = "lay" => q = p
      BY <2>5, <3>1 DEF Passing
    <3>3. /\ 2 * (CommittedIn(matched', s) + OfferIn(resting', s)) + h <= 200 * Cap
          /\ proc'[p].headroom = h
      BY <2>3, <2>5, <2>11, InTablesNext
    <3>4. QED
      BY <2>2, <2>6, <3>2, <3>3 DEF Room
  <2>14. QED
    BY <2>5, <2>8, <2>12, <2>13 DEF CapInv
<1>4. QED
  BY <1>2, <1>3

LEMMA PlaceLayCap ==
  ASSUME IInv, CapInv, NEW p, PlaceLay(p) PROVE CapInv'
<1>1. /\ Passing(p) /\ p \in DOMAIN proc /\ proc[p].step = "lay"
      /\ matched' = matched /\ NextSelection(p)
      /\ resting' = Placed(Order(p, "lay", proc[p].headroom))
  BY DEF PlaceLay, At, Passing
<1> PICK s : s = Current(p)
  OBVIOUS
<1> PICK h : h = proc[p].headroom
  OBVIOUS
<1>2. /\ h \in Nat /\ Cap \in Nat
      /\ 2 * (Committed(s) + OnOffer(s)) + h <= 200 * Cap
  BY <1>1, InTables, HouseAssumption DEF CapInv, Room, HouseAssumption
<1>3. Numbers' /\ \A q \in DOMAIN proc' : proc'[q].step # "lay"
  BY <1>1, NextSelectionCap
<1>4. "lay" \in Sides /\ proc[p].price[Current(p)]["lay"] \in Int
  BY <1>1, PricesInHand DEF Sides
<1>5. \A x : /\ Kept'
             /\ Committed(x)' = Committed(x)
             /\ x # s => OnOffer(x)' <= OnOffer(x)
             /\ 2 * OnOffer(x)' <= 2 * OnOffer(x) + h
  BY <1>1, <1>2, <1>4, PlacedBook DEF CapInv
<1>6. \A x : /\ Committed(x) \in Nat /\ OnOffer(x) \in Nat
             /\ Committed(x)' \in Nat /\ OnOffer(x)' \in Nat
  BY <1>5, InNat, InTablesNext, CommittedNat, OfferNat DEF CapInv, Kept
<1>7. SharedCap'
  <2>1. ASSUME NEW x \in Tracked PROVE Committed(x)' + OnOffer(x)' <= 100 * Cap
    <3>1. CASE x = s
      <4>1. Committed(s)' + OnOffer(s)' <= 100 * Cap
        BY <1>2, <1>5, <1>6
      <4>2. QED
        BY <3>1, <4>1
    <3>2. CASE x # s
      <4>1. Committed(x) + OnOffer(x) <= 100 * Cap
        BY DEF CapInv, SharedCap
      <4>2. QED
        BY <1>2, <1>5, <1>6, <3>2, <4>1
    <3>3. QED
      BY <3>1, <3>2
  <2>2. QED
    BY <2>1 DEF SharedCap
<1>8. Room'
  BY <1>3 DEF Room
<1>9. QED
  BY <1>3, <1>5, <1>7, <1>8 DEF CapInv

\* A trade moves a liability from the book to the trades.
LEMMA TradeMoves ==
  ASSUME Orders, Kept, NEW o \in resting, NEW stake \in 1 .. o.left, Trade(o, stake)
  PROVE  Kept' /\ NoMore
<1> PICK k : k = [selection |-> o.selection, side |-> o.side, odds |-> o.odds]
  OBVIOUS
<1> PICK r : r = Rate(o.side, o.odds)
  OBVIOUS
<1> PICK n : n = [o EXCEPT !.left = @ - stake]
  OBVIOUS
<1>1. SoundOrder(o) /\ r \in Nat /\ o.left \in Nat /\ stake \in Nat /\ stake <= o.left
  BY RateNat DEF Kept, SoundBook, SoundOrder
<1>2. /\ k.side = o.side /\ k.odds = o.odds /\ k.selection = o.selection /\ Sound(k)
      /\ matched' = Put(matched, k, Before(matched, k) + stake)
  BY <1>1 DEF Trade, SoundOrder, Sound, Before
<1>3. \A s : /\ SoundTrades(matched')
             /\ CommittedIn(matched', s)
                  = CommittedIn(matched, s) + Share(k, s, stake * r)
  BY <1>1, <1>2, CommittedMore DEF Kept
<1> PICK R : R = resting \ {o}
  OBVIOUS
<1>4. SoundBook(R)
  BY OfferFewer DEF Kept
<1>5. \A s : OfferIn(R, s) = OfferIn(resting, s) - Share(o, s, Liability(o))
  BY OfferLess DEF Kept
<1>6. Liability(o) = o.left * r
  BY DEF Liability
<1>7. stake * r \in Nat /\ o.left * r \in Nat /\ stake * r <= o.left * r
  <2>1. stake * r \in Nat /\ o.left * r \in Nat /\ (o.left - stake) * r \in Nat
    BY <1>1, Product
  <2>2. (o.left - stake) * r = o.left * r - stake * r
    BY <1>1, Distributes
  <2>3. QED
    BY <2>1, <2>2
<1>8. \A s : Share(k, s, stake * r) = Share(o, s, stake * r)
  BY <1>2 DEF Share
<1>9. \A s : /\ CommittedIn(matched, s) \in Nat
             /\ OfferIn(resting, s) \in Nat
             /\ OfferIn(R, s) \in Nat
  BY <1>4, CommittedNat, OfferNat DEF Kept
<1>10. CASE stake = o.left
  <2>1. resting' = R
    BY <1>10 DEF Trade
  <2>2. ASSUME NEW s PROVE Committed(s)' + OnOffer(s)' <= Committed(s) + OnOffer(s)
    <3>1. Share(k, s, stake * r) = Share(o, s, Liability(o))
      BY <1>6, <1>8, <1>10
    <3>2. Share(o, s, Liability(o)) \in Nat
      BY <1>6, <1>7, ShareNat
    <3>3. /\ CommittedIn(matched', s) = CommittedIn(matched, s) + Share(k, s, stake * r)
          /\ OfferIn(resting', s) = OfferIn(resting, s) - Share(o, s, Liability(o))
      BY <1>3, <1>5, <2>1
    <3>4. CommittedIn(matched', s) + OfferIn(resting', s)
            <= CommittedIn(matched, s) + OfferIn(resting, s)
      BY <1>9, <3>1, <3>2, <3>3
    <3>5. QED
      BY <3>4, InTables, InTablesNext
  <2>3. QED
    BY <1>3, <1>4, <2>1, <2>2 DEF Kept, NoMore
<1>11. CASE stake # o.left
  <2>1. resting' = R \cup {n}
    BY <1>11 DEF Trade
  <2>2. o = [selection |-> o.selection, side |-> o.side, odds |-> o.odds, left |-> o.left]
    BY DEF Orders
  <2>3. n.side = o.side /\ n.odds = o.odds /\ n.selection = o.selection
    OBVIOUS
  <2>4. n.left = o.left - stake
    BY <2>2
  <2>5. SoundOrder(n)
    BY <1>1, <2>3, <2>4 DEF SoundOrder, Sound
  <2>6. Liability(n) = o.left * r - stake * r
    <3>1. Liability(n) = (o.left - stake) * r
      BY <2>3, <2>4 DEF Liability
    <3>2. QED
      BY <1>1, <3>1, Distributes
  <2>7. /\ SoundBook(resting')
        /\ \A s : OfferIn(resting', s) <= OfferIn(R, s) + Share(n, s, Liability(n))
    BY <1>4, <2>1, <2>5, OfferMore
  <2>8. ASSUME NEW s PROVE Committed(s)' + OnOffer(s)' <= Committed(s) + OnOffer(s)
    <3>1. Share(o, s, Liability(o)) = Share(k, s, stake * r) + Share(n, s, Liability(n))
      BY <1>2, <1>6, <1>7, <2>3, <2>6 DEF Share
    <3>2. /\ Share(o, s, Liability(o)) \in Nat
          /\ Share(n, s, Liability(n)) \in Nat
          /\ Share(k, s, stake * r) \in Nat
      BY <1>6, <1>7, <2>6, ShareNat
    <3>3. OfferIn(resting', s) \in Nat
      BY <2>7, OfferNat
    <3>4. /\ CommittedIn(matched', s) = CommittedIn(matched, s) + Share(k, s, stake * r)
          /\ OfferIn(R, s) = OfferIn(resting, s) - Share(o, s, Liability(o))
          /\ OfferIn(resting', s) <= OfferIn(R, s) + Share(n, s, Liability(n))
      BY <1>3, <1>5, <2>7
    <3>5. CommittedIn(matched', s) + OfferIn(resting', s)
            <= CommittedIn(matched, s) + OfferIn(resting, s)
      BY <1>9, <3>1, <3>2, <3>3, <3>4
    <3>6. QED
      BY <3>5, InTables, InTablesNext
  <2>9. QED
    BY <1>3, <2>7, <2>8 DEF Kept, NoMore
<1>12. QED
  BY <1>10, <1>11

LEMMA TradeCap ==
  ASSUME IInv, CapInv, NEW o \in resting, NEW stake \in 1 .. o.left, Trade(o, stake)
  PROVE  CapInv'
<1>1. Kept' /\ NoMore
  BY TradeMoves DEF IInv, CapInv
<1>2. proc' = proc
  BY DEF Trade
<1>3. Numbers'
  BY <1>2 DEF CapInv, Numbers, Passing
<1>4. QED
  BY <1>1, <1>2, <1>3, GoOn

LEMMA ReleaseCap ==
  ASSUME CapInv, Release PROVE CapInv'
<1>1. proc' = proc /\ matched' = matched /\ resting' \subseteq resting
  BY DEF Release
<1>2. Kept' /\ NoMore
  BY <1>1, FewerIsNoMore DEF CapInv
<1>3. Numbers'
  BY <1>1 DEF CapInv, Numbers, Passing
<1>4. QED
  BY <1>1, <1>2, <1>3, GoOn

LEMMA InitCap == Init => CapInv
<1> SUFFICES ASSUME Init PROVE CapInv
  OBVIOUS
<1>1. resting = {} /\ DOMAIN matched = {} /\ DOMAIN proc = {}
  BY DEF Init, OddsInit
<1>2. Kept
  BY <1>1, FS_EmptySet DEF Kept, SoundBook, SoundTrades
<1>3. Numbers /\ Room
  BY <1>1 DEF Numbers, Room
<1>4. ASSUME NEW s PROVE Committed(s) = 0 /\ OnOffer(s) = 0
  <2>1. OnOffer(s) = 0
    BY <1>1, <1>2, OfferNone, InTables DEF Kept
  <2>2. CommittedIn(matched, s) = SumFunctionOnSet(Worth(matched), Here(DOMAIN matched, s))
    BY <1>2, CommittedIs DEF Kept
  <2>3. Here(DOMAIN matched, s) = {}
    BY <1>1 DEF Here
  <2>4. CommittedIn(matched, s) = 0
    BY <2>2, <2>3, SumEmpty
  <2>5. QED
    BY <2>1, <2>4, InTables
<1>5. Cap \in Nat
  BY HouseAssumption DEF HouseAssumption
<1>6. SharedCap
  BY <1>4, <1>5 DEF SharedCap
<1>7. QED
  BY <1>2, <1>3, <1>6 DEF CapInv

LEMMA NextCap == IInv /\ CapInv /\ [Next]_vars => CapInv'
<1> SUFFICES ASSUME IInv, CapInv, [Next]_vars PROVE CapInv'
  OBVIOUS
<1>1. ASSUME NEW p \in Processes, Pass(p) PROVE CapInv'
  BY <1>1, EnterCap, CancelCap, PlaceBackCap, PlaceLayCap DEF Pass
<1>2. ASSUME NEW p \in Processes, (Refresh(p) \/ Sync(p) \/ Dies(p)) /\ UNCHANGED houseVars
      PROVE  CapInv'
  BY <1>2, RefreshCap
<1>3. CASE (ExpireSportLock \/ World \/ Administration) /\ UNCHANGED houseVars
  <2>1. proc' = proc
    BY <1>3 DEF ExpireSportLock, World, Requote, Finish, Administration, AdjustMatch,
                AdjustDefault, OverrideMode, SetRefresh, Switch
  <2>2. QED
    BY <1>3, <2>1, StayCap DEF houseVars
<1>4. CASE ExpireHouseLock
  BY <1>4, StayCap DEF ExpireHouseLock
<1>5. ASSUME NEW o \in resting, NEW stake \in 1 .. o.left, Trade(o, stake) PROVE CapInv'
  BY <1>5, TradeCap
<1>6. CASE Release
  BY <1>6, ReleaseCap
<1>7. CASE UNCHANGED vars
  BY <1>7, StayCap DEF vars
<1>8. QED
  BY <1>1, <1>2, <1>3, <1>4, <1>5, <1>6, <1>7 DEF Next

\* Whatever trades between and within its passes, the house's matched and
\* offered liability on a selection stays within the cap that both its orders
\* share (sync_house_orders_for_match).
THEOREM CapIsShared == Spec => []SharedCap
<1>1. CapInv => SharedCap
  BY DEF CapInv
<1>2. QED
  BY InitInv, NextInv, InitCap, NextCap, <1>1, PTL DEF Spec

=============================================================================
