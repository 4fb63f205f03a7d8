------------------------------- MODULE House -------------------------------
(***************************************************************************)
(* The house account's resting orders (sync_house_orders_for_match in      *)
(* apps/exchange/services.py) composed with the odds they follow           *)
(* (Odds.tla).  After each writing of the odds a pass cancels, selection    *)
(* by selection, what the house has left in the book and offers a back and  *)
(* a lay order at the new prices, while customers trade with them.          *)
(* Stakes are in units, liabilities in hundredths of one.                   *)
(***************************************************************************)
EXTENDS Odds

CONSTANTS
  Cap,     \* the effective maximal liability per selection
  Funds    \* the balance of the house wallet

ASSUME HouseAssumption ==
  /\ Cap \in Nat
  /\ Funds \in Nat

VARIABLES
  resting,    \* the house's open orders with something unmatched
  matched,    \* what it has matched: a stake for each selection, side and odds
  houseLock   \* the house_lay_reseed_lock entry of the cache is there

houseVars == <<resting, matched, houseLock>>

vars == <<provider, feed, match, config, sportLock, changes, proc,
          resting, matched, houseLock>>

Sides == {"back", "lay"}

Init ==
  /\ OddsInit
  /\ resting = {}
  /\ matched = [k \in {} |-> 0]
  /\ houseLock = FALSE

-----------------------------------------------------------------------------
(* Exposure *)

\* _exposure_rate
Rate(side, odds) == IF side = "lay" THEN odds - 100 ELSE 100

\* _house_committed_liability: its orders' matched stakes, of both sides.
Committed(s) ==
  SumFunction([k \in {j \in DOMAIN matched : j.selection = s} |->
                 matched[k] * Rate(k.side, k.odds)])

OnOffer(s) ==
  SumFunction([o \in {r \in resting : r.selection = s} |->
                 o.left * Rate(o.side, o.odds)])

\* Wallet.available_balance of the house: this market is all it trades on.
Available ==
  100 * Funds - SumFunction([s \in Tracked |-> Committed(s) + OnOffer(s)])

-----------------------------------------------------------------------------
(* sync_house_orders_for_match *)

Passing(p) == p \in DOMAIN proc /\ proc[p].step \in {"cancel", "back", "lay"}

\* The row was open when it was read; cache.add lets one pass in.
Admitted == config.house /\ ~houseLock

\* The prices of the pass: its own odds under the mode in force now.
PricesFor(odds) ==
  [s \in DOMAIN odds |-> BackAndLay(odds[s], Or(match.mode, config.mode), Spread, s)]

EnterPass(p) ==
  /\ At(p, "written")
  /\ IF Admitted
     THEN /\ houseLock' = TRUE
          /\ Goto(p, [step |-> "cancel", price |-> PricesFor(proc[p].odds),
                      todo |-> DOMAIN proc[p].odds])
     ELSE Leave(p) /\ UNCHANGED houseLock
  /\ UNCHANGED <<provider, feed, match, config, sportLock, changes, resting, matched>>

\* The selections are taken in a fixed order.
Foremost(todo) == CHOOSE s \in todo : TRUE

Current(p) == Foremost(proc[p].todo)

NextSelection(p) ==
  LET rest == proc[p].todo \ {Current(p)}
  IN  IF rest = {} THEN Leave(p)
      ELSE Goto(p, [step |-> "cancel", price |-> proc[p].price, todo |-> rest])

Stale_Untouched(o, p) ==
  /\ o.selection = Current(p)
  /\ \A k \in DOMAIN matched : <<k.selection, k.side, k.odds>> # <<o.selection, o.side, o.odds>>

Stale(o, p) == o.selection = Current(p)

\* One transaction cancels what is unmatched of the selection's open orders.
CancelStale(p) ==
  /\ At(p, "cancel")
  /\ resting' = {o \in resting : ~Stale(o, p)}
  /\ Goto(p, [step |-> "back", price |-> proc[p].price, todo |-> proc[p].todo])
  /\ UNCHANGED <<provider, feed, match, config, sportLock, changes, matched, houseLock>>

Offer_Whole(headroom, side, odds) == headroom \div Rate(side, odds)

\* The stake that half of the headroom carries, rounded down.
Offer(headroom, side, odds) == headroom \div (2 * Rate(side, odds))

Order(p, side, headroom) ==
  LET s == Current(p)
      odds == proc[p].price[s][side]
  IN  [selection |-> s, side |-> side, odds |-> odds,
       left |-> Offer(headroom, side, odds)]

\* place_order: its checks, on the match as it is now, and the reservation.
\* An order it refuses is logged and skipped.
Accepted(o) ==
  /\ o.left > 0
  /\ o.odds > 100
  /\ match.open
  /\ o.selection = "draw" => "draw" \in DOMAIN match.odds
  /\ o.left * Rate(o.side, o.odds) <= Available

Placed(o) == IF Accepted(o) THEN resting \cup {o} ELSE resting

Headroom(p) == 100 * Cap - Committed(Current(p))

\* Nothing of the selection is on offer here, so what is committed does not
\* change between its measurement and the order.
PlaceBack(p) ==
  /\ At(p, "back")
  /\ IF Headroom(p) <= 0
     THEN NextSelection(p) /\ UNCHANGED resting
     ELSE /\ resting' = Placed(Order(p, "back", Headroom(p)))
          /\ Goto(p, [step |-> "lay", price |-> proc[p].price, todo |-> proc[p].todo,
                      headroom |-> Headroom(p)])
  /\ UNCHANGED <<provider, feed, match, config, sportLock, changes, matched, houseLock>>

PlaceLay(p) ==
  /\ At(p, "lay")
  /\ resting' = Placed(Order(p, "lay", proc[p].headroom))
  /\ NextSelection(p)
  /\ UNCHANGED <<provider, feed, match, config, sportLock, changes, matched, houseLock>>

\* A pass ends well within the 15 seconds of its lock.
ExpireHouseLock ==
  /\ houseLock
  /\ \A p \in DOMAIN proc : ~Passing(p)
  /\ houseLock' = FALSE
  /\ UNCHANGED <<provider, feed, match, config, sportLock, changes, proc, resting, matched>>

-----------------------------------------------------------------------------
(* The rest of the exchange, as the house meets it: see Exchange.tla *)

\* A customer's order trades with one of the house's, or the other way round;
\* at its own odds, or better for the house.
Trade(o, stake) ==
  /\ match.open
  /\ stake <= o.left
  /\ LET k == [selection |-> o.selection, side |-> o.side, odds |-> o.odds]
         before == IF k \in DOMAIN matched THEN matched[k] ELSE 0
     IN  matched' = Put(matched, k, before + stake)
  /\ resting' = (resting \ {o}) \cup
                (IF stake = o.left THEN {} ELSE {[o EXCEPT !.left = @ - stake]})
  /\ UNCHANGED <<provider, feed, match, config, sportLock, changes, proc, houseLock>>

\* settle_exchange_for_match closes what is still open once the match is over.
Release ==
  /\ ~match.open
  /\ resting # {}
  /\ resting' = {}
  /\ UNCHANGED <<provider, feed, match, config, sportLock, changes, proc, matched, houseLock>>

Pass(p) ==
  EnterPass(p) \/ CancelStale(p) \/ PlaceBack(p) \/ PlaceLay(p)

Next ==
  \/ \E p \in Processes : \/ Pass(p)
                          \/ (Refresh(p) \/ Sync(p) \/ Dies(p)) /\ UNCHANGED houseVars
  \/ (ExpireSportLock \/ World \/ Administration) /\ UNCHANGED houseVars
  \/ ExpireHouseLock
  \/ \E o \in resting : \E stake \in 1 .. o.left : Trade(o, stake)
  \/ Release

Spec == Init /\ [][Next]_vars

\* What a process that serves a poll or runs the command does next.
Continue(p) ==
  Pass(p) \/ ((Answer(p) \/ WriteOdds(p) \/ SyncWrite(p)) /\ UNCHANGED houseVars)

\* Open pages poll on, requests and commands that started go on, and the
\* entries of the cache expire.
Fairness ==
  /\ WF_vars((\E p \in Processes : Poll(p)) /\ UNCHANGED houseVars)
  /\ \A p \in Processes : WF_vars(Continue(p))
  /\ WF_vars(ExpireSportLock /\ UNCHANGED houseVars)
  /\ WF_vars(ExpireHouseLock)

FairSpec == Spec /\ Fairness

-----------------------------------------------------------------------------
(* Properties *)

\* What the house has matched on a selection and what it offers there never
\* add up to more than the cap, whatever trades between and within passes:
\* the comment in sync_house_orders_for_match calls it a shared ceiling.
SharedCap == \A s \in Tracked : Committed(s) + OnOffer(s) <= 100 * Cap

\* The house never offers a selection at two prices on one side, nor lays it
\* at odds that its own back order asks for (compute_back_and_lay's clamp, and
\* a pass that cancels before it offers).
LayAboveBack ==
  \A a, b \in resting :
    a.selection = b.selection =>
      /\ a.side = b.side => a = b
      /\ a.side = "back" /\ b.side = "lay" => a.odds < b.odds

\* What the house's trades on a selection bring it, before commission, if the
\* selection wins and if it does not.
IfWon(s) ==
  SumFunction([k \in {j \in DOMAIN matched : j.selection = s} |->
                 matched[k] * (IF k.side = "back" THEN 1 ELSE -1) * (k.odds - 100)])

IfLost(s) ==
  SumFunction([k \in {j \in DOMAIN matched : j.selection = s} |->
                 matched[k] * (IF k.side = "back" THEN -100 ELSE 100)])

\* HouseLiquidityConfig's docstring: the spread is "the entire guarantee that a
\* computed lay price can never be arbitraged against its back price": at one
\* pair of prices no trades leave the house with nothing to win and something
\* to lose.
NeverArbitraged ==
  \A s \in Tracked : IfWon(s) <= 0 /\ IfLost(s) <= 0 => IfWon(s) = 0 /\ IfLost(s) = 0

\* A request or a command that goes no further where it could have.
Lost(p) ==
  Dies(p) /\ UNCHANGED houseVars /\ ~Continue(p)

\* The quote and the settings stay as they are, fetches succeed and nothing
\* dies any more.
Calm ==
  /\ <>[][UNCHANGED <<feed, config, match.mode, match.adjustment, match.refresh>>]_vars
  /\ <>[][\A p \in Processes : ~Lost(p)]_vars

PriceNow(o) ==
  /\ o.selection \in DOMAIN match.odds
  /\ o.odds = PricesFor(match.odds)[o.selection][o.side]

\* Whatever was fetched, lost or overtaken before, a match somebody watches
\* ends with the odds of the latest quote, and all that the house still offers
\* is at the prices these odds make (maybe_refresh_sport_odds, its locks, and
\* sync_house_orders_for_match).
HouseFollowsQuote ==
  Calm /\ <>[](Timed /\ config.house)
    => <>[](/\ match.odds = Published(feed, match.adjustment, config.adjustment)
            /\ \A o \in resting : PriceNow(o))

=============================================================================
