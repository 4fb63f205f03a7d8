# QuickPayBet: TLA+ models and proofs

QuickPayBet is a Django betting site. A bookmaker (single bets and parlays), a betting exchange with cash-out,
payments, cashback, rewards and a casino gateway all move money in one wallet row per user. This directory holds
TLA+ models of that code, the instances TLC checks, and theorems TLAPS proves about them.

All source paths below are relative to `src/backend/`; `PROJECT.json` maps every definition to the lines it models.

## 1. The system

PostgreSQL holds all state and runs READ COMMITTED; there is no `ATOMIC_REQUESTS`, so a request is a sequence of
transactions and of reads between them. Rows are protected with `select_for_update`. Requests run on several gunicorn
workers, periodic work on a Celery worker fed by beat (`config/celery.py`); Redis is only a cache. Any two requests,
or a request and a task, interleave at transaction boundaries and at row locks. A process can die between two
transactions; what was committed stays and nothing records what was left to do.

| Component | State | Operations | What is hard | What makes it correct |
|---|---|---|---|---|
| Exchange `apps/exchange` | orders (stake, matched, status), fills, reserved balances | `place_order`, `_match_order`, `cancel_order`, `cash_out_order`, `settle_exchange_for_match` | takers share the resting orders; reads before locks; settlement is many transactions and may run twice | reservations equal what is at risk; price-time priority; fills settle once; finished matches drain |
| Sportsbook `apps/bets` | bets, parlays, legs, balances | `place_bet`, `place_parlay_bet`, `settle_bets_for_match`, `settle_parlays_for_match` | bets committed late; two matches of a parlay settled at once; a run that dies half way | every wallet is what the rows explain; a parlay follows its legs; nothing stays pending |
| Match lifecycle `apps/bets/tasks.py`, `sync_results`, admin views | status and scores of a match | mark live, finish, edit, cancel, settle | many writers, none of them reads under a lock | a finished match is settled by somebody |
| House liquidity `sync_house_orders_for_match` | the house's resting orders | cancel stale, reseed | a cache lock that times out; two reseeds at once | committed liability stays within the cap |
| Wallet `apps/wallet` | balance, reserved, locked cashback, ledger, USD/PKR rate | `deposit_funds`, `withdraw_funds`, conversion, hourly refresh | three amounts that overlap; rounding of conversions | the ledger adds up to the balance |
| Payments `apps/payments` | CryptoPayment: pending, completed, failed | create deposit, webhook, create withdrawal, manual payout | provider callbacks repeat and race; time-outs; crashes around the provider call | each deposit credited once, each withdrawal debited once or refunded |
| Rewards `apps/rewards` | claims, commission rate of a user | `apply_reward_packages` | runs inside a deposit | a package is claimed once, from real deposits |
| Cashback `apps/cashback` | credits with a wagering progress, locked balance | credit, `record_wager` | called inside other transactions on the same wallet | locked balance is the sum of locked credits |
| Casino `apps/casino` | sessions, rounds, wallet events | launch, round settlement, wallet events | repeated callbacks; a crash around the provider call | each event moves money once; nothing stays reserved |
| Live overlay `run_ai_blur_tracker`, `apps/casino` | heartbeats, the game's regions, watchers of a daemon | poll, track, position by hand | an old watcher overlaps a new one; crashes leave a region behind | old regions are not shown; watchers stop; a host in view is covered |
| Odds `apps/sports` | odds, overrides, refresh lock and viewers in the cache | sync, price, refresh on demand | cache read-modify-write; locks that expire | one fetch for each interval; lay odds above back odds |
| Accounts, web, reports, audit, backup, configuration | users and parents; the rest reads or does I/O | forms and queries | whole-row saves of stale objects | see the list of components in `PROJECT.json` |

How they interact: the exchange, the sportsbook, payments, cashback and the casino all lock and change the same
`Wallet` row. The writers of a match call `settle_bets_for_match` and then `settle_exchange_for_match`, synchronously.
The beat task `settle_matches_with_results` does the same every 5 minutes for every finished match that has scores.
Refreshed odds reseed the house's orders; a confirmed deposit applies rewards; a placed or lost bet feeds cashback.

`PROJECT.json` lists every component with its status, and under "hazards" each place where this code is hard to test.

## 2. The modules

| Module | What it is |
|---|---|
| `Exchange.tla` | the exchange: orders, matching, cash-out, settlement, row locks, transactions in flight |
| `MCExchange.tla`, `MCExchange_*.cfg` | its instances for TLC |
| `ExchangeProofs.tla` | the invariants of `Exchange`, layer by layer, and the theorems |
| `Sportsbook.tla` | single bets and parlays, their placing and settlement |
| `MCSportsbook.tla`, `MCSportsbook_*.cfg`, `SportsbookProofs.tla` | its instances for TLC, and the theorems |
| `Payments.tla` | crypto deposits, withdrawals, manual payouts, reward packages, the rupee rate |
| `MCPayments.tla`, `MCPayments_*.cfg`, `PaymentsProofs.tla` | its instances for TLC, and the theorems |
| `WalletLedger.tla` | the abstract specification of a wallet: the balance moves by posting an entry, each entry once |
| `Casino.tla` | the casino gateway on one wallet; implements `WalletLedger` |
| `MCCasino.tla`, `MCCasino_wallet.cfg`, `CasinoProofs.tla` | its instance for TLC, and the proofs of the refinement and the invariants |
| `Cashback.tla` | cashback credits, wagering and clawback among bets, orders and withdrawals |
| `MCCashback.tla`, `MCCashback_wager.cfg`, `CashbackProofs.tla` | its instance for TLC, and the theorems |
| `Pricing.tla` | the arithmetic of prices as operators |
| `Odds.tla` | the writers of a match's odds: refresh on demand, `sync_odds`, administrators; the lock in the cache |
| `House.tla` | the house's orders, composed with `Odds`: passes, the cap, customers' trades |
| `MCHouse.tla`, `MCHouse_*.cfg`, `HouseProofs.tla` | its instances for TLC; what prices guarantee for all values, and the proofs that the house is never crossed and keeps its cap |
| `LiveBlur.tla` | the overlay on a live casino game: pages, the tracking daemon and its watchers, administrators |
| `MCLiveBlur.tla`, `MCLiveBlur_watch.cfg`, `LiveBlurProofs.tla` | its instance for TLC, and the proof that old detections are not shown |
| `SumProofs.tla` | lemmas about sums over finite sets, for all the proofs about money |

`House` EXTENDS `Odds`, which EXTENDS `Pricing`; `Casino` takes `WalletLedger` by `INSTANCE ... WITH`. The other
modules stand alone: they share the `Wallet` row, and each states what it needs of it.

### Exchange

State: `matches`, `wallets` (balance and reserved balance), `orders`, `fills` and `nextId` are the committed rows;
`tx` holds each transaction in flight with its phase, the row locks it has and the writes it will commit; `worker`
holds each settlement with the Match object it captured and the ids it has still to do; `seen` and `cashouts` are
history, for properties only.

A `place_order` call is four kinds of step, as the code interleaves:

1. `PlaceCheck` reads the match and the input outside any transaction; `PlaceReject` ends a call that has no funds.
2. `PlaceReserve` locks the wallet, checks `available_balance`, reserves and inserts the order (rows 64-81), and runs
   the query of `_match_order`: the committed rows it sees, sorted.
3. `LockBook` is the wait of `SELECT ... FOR UPDATE` for rows another transaction holds, with PostgreSQL's recheck of
   the rows waited for.
4. `MatchNext` takes one resting order of the list; `Commit` publishes all writes at once. `Abort` is an error, a
   deadlock victim or a request killed at any point, and leaves no trace.

A cash-out adds `CashOutWalk` (locks the rows it walks and sizes the opposing order level by level), `CashOutReserve`
(caps the stake to what the wallet carries, inserts the leg and runs the same matching query again), `CashOutGiveUp`,
and, in `Commit`, the kill of the unfilled part. A settlement is `ListFills`, one `SettleFill` for each fill (settled
or voided, by the status captured at the start), `ListOrders`, one `ReleaseOrder` for each open order, and
`FinishSettlement`; `Crash` ends it anywhere. `MarkLive`, `EditStatus`, `FinishMatch`, `FinishUnscored`, `CancelMatch`
and `SettleTask` are the writers and the starters.

### Sportsbook

State: `matches`, `balance`, `bets`, `parlays` (with their legs, one for each match), `session` (requests checked and
not yet written), `worker` (settlements) and the history `stranded`.

`CheckBet` and `CheckParlay` read the match outside the transaction; `WriteBet` and `WriteParlay` are the transactions,
`GiveUp` their failures. A settlement is `ListBets`, one `SettleBet` for each listed bet, `ListLegs` (locks the pending
legs and lists their parlays), `UpdateLegs` (the queryset is evaluated again to write the outcomes, so it also writes
legs committed since), one `FinalizeParlay` for each listed parlay, `FinishSettlement`; `Crash` ends it anywhere.
`WithCommission` is the parent's share of a lost stake, rounded half-even when the column is written.

The parents of users are the constant `Children`.

### Payments

State: `rate`, `balance`, `payments` (the CryptoPayment rows), `ledger` (for each payment the amounts of the
WalletTransaction rows made for it, refunds included), `claims` and `commission` (rewards), `remote` (the provider's
invoices and payouts, external), `handler` (requests between two of their steps) and `codes` (the batch ids kept in
the administrator's session).

A deposit is `AskInvoice` (the provider is called first), `StoreDeposit` (the wallet amount is fixed at the rate of the
moment), then, for each notification of the provider, `ReadPending` (the unlocked read of handle_deposit_success) and
`CreditDeposit` (its transaction: wallet, ledger row, reward packages, status). `MarkFailed` is a notification of
failure. A withdrawal is `RequestWithdrawal` (debit and row in one transaction), `CallProvider`, and `Refund` or
`RecordAnswer`. A manual payout is `InitiatePayout`, `CreateBatch`, `SaveBatch`, then `StartVerify`, `VerifyPayout`,
`ConfirmPayout`; the last three read no status, as in the code. `GiveUp` is a thread that dies, or whose call fails,
anywhere. `RefreshRate` is the hourly refresh; `PayInvoice` and `FailRemote` are what happens outside.
`Answers` lists what the provider may do with an automatic payout: refuse it, accept it with its answer lost, or answer
each of the statuses the code tells apart. What orders reserve and cashback locks is the constant `Held`.

### Casino and WalletLedger

One player, one game. State: `rate`, `balance`, `reserved`, `ledger` (a partial function from entries to amounts: the
`WalletTransaction` rows), `launch` (how far each launch is, and what it reserved), `sessions`, `held` (what the
provider believes it was handed), `rows` (settled serial numbers), `settling` (notifications between the serial check
and the insert), `events` and `answers` (the calls of the provider on the live wallet and what it was told).

A launch is `Reserve`, `CallProvider` (the provider answers, refuses, or its answer is lost) and `Open` or `Release`;
`Die` is a process that ends in between. A settle notification is `LockSession` (the lock of the newest session and the
look at the serial number) and `InsertRound`, whose insert fails when another notification was first; `SettlerDies` is
an error in between. A call of the live-wallet provider is one locked transaction: `Apply`, `Bounce` (no funds),
`RecordBonus` (a free round, recorded without money) or `DeliverAgain`. `Send` and `CallProvider` are the external side.
`Exposure` is `get_wallet_and_exposure_status`.

`WalletLedger` has two variables and one action, `Post(e)`: entry `e` is not posted yet, and its amount is the change of
the balance. `LedgerIsKept` is that specification with `cash <- balance`, `posted <- ledger`, `Opening <-
InitialBalance` and the entries of `Casino`: every step of the gateway is a stutter of the wallet or one posting.

### Cashback

State: `config` and `override` (terms), `balance`, `reserved` and `locked` of the wallet, `credits`, `wagers` (how far
each bet and order is), and the totals `clawed`, `withdrawn` and `turnover`. The actions are the transactions that call
the two services: `PlaceBet` and `PlaceOrder` record a wager (`RecordWager`), `LoseBet` and `LoseOrder` credit
(`CreditForLoss`), `WinBet`, `CancelOrder`, `Withdraw` and `ChangeTerms` do neither. An order is matched whole: what it
reserves is its stake.

### Pricing, Odds and House

`Pricing` holds `normalize_odds`, the adjustments and overrides and their precedence, `compute_back_and_lay` and the two
functions that price for a user, over odds in hundredths. `Odds` has the committed row (`match`), the settings
(`config`), the cache entry (`sportLock`), the provider's quote (`feed`) and what each busy process carries (`proc`). A
refresh is `Poll` or `ManualRefresh` (cache.add), `Answer` (the quote, the default adjustment and the open matches are
read) and `WriteOdds`; `sync_odds` is `SyncRead` and `SyncWrite`. `Dies` is a fetch that raises or a process that ends: the
lock stays until `ExpireSportLock`. The administrators' actions change what prices depend on at any moment.

`House` adds `resting` and `matched`, the house's orders and trades, and `houseLock`. A pass is `EnterPass`, then for each
selection `CancelStale`, `PlaceBack` and `PlaceLay`; `Trade` is a customer at any moment in between, `Release` the settlement.

### LiveBlur

One game. State: `open` and `polled` (the players' pages), `viewers` (heartbeats), `game` (flag, fixed region, detected
region and its age), `form` (a page of Django's admin site as rendered), `daemon`, `current` (its dictionary of watchers)
and `watching` (the coroutines that have not ended), `camera`, and the history `unwatched`. A poll is `Poll`
(`Heartbeat`, and `Shown` is what it answers). The daemon is `Start`, `Query`, `Act` and `Die`. A watcher is `Launch`, then
`Loop`, `Shoot` and, when a host was seen twice at one place, `Save`; asked to stop or raising, it is `Close`. `LaunchFails`,
`ScreenshotFails`, `Raise` and `CloseFails` (the cleanup raises before it has cleared the region) are its failures. `Second`
is time: ages are counted up to the first one that is too old.

## 3. What is checked

Invariants, action properties and liveness are stated at the end of each module, each with the behaviour it is about.

| Run | Question | Instance |
|---|---|---|
| `book` | Do concurrent takers, cancels and edits of the status keep price protection, price-time priority, and matched stakes equal to the fills; can a crossed book arise only from orders that could not see each other? | 3 users, 4 orders from a menu of 4 at two prices (one of which does not cross), 2 sessions, an edit of the status, a match finished without scores |
| `settle` | Do reservations stay equal to what is at risk, wallets solvent, money conserved and fills settled once, while two settlements race, die, and orders arrive late? Is a finished match drained in the end? | 2 users trading, 1 match that is scheduled first, 2 settlements, either result and cancellation |
| `cashout` | Do reservations stay equal to what is at risk with cash-outs, and is a full cash-out of a book nobody joined balanced? | 2 users, a book of two levels, 5 orders, 2 sessions, wallets that do and do not cap the leg |
| `bets_race` | Is every wallet what the bet and parlay rows explain, and a parlay decided exactly as its legs say, while two settlements race over its two matches with results that may change? | a bet and a parlay of one bettor, a parent with 50 % commission, 2 matches, 2 settlements |
| `bets_settle` | Is what is on a finished match settled in the end, bets placed late, reopened matches and dying settlements included? | the same rows, funds for one of them, 1 settlement, reopening and a match without scores |
| `payments` | Do deposits, withdrawals, refunds and manual payouts of one wallet move money once and as quoted while the rate moves, keep what is held, earn the packages they reach, and is a paid invoice credited in the end? | 1 rupee user, 3 payments, 2 invoices or payouts, 2 sessions, 1 thread for notifications, all answers, 2 rates, 2 packages |
| `casino` | Do launches, settle notifications and live-wallet calls, repeated, reordered and lost, move money once, answer truthfully and end every reservation; is every round settled? | 1 rupee user, 1 launch, 1 seamless session, 1 round, 2 threads, a debit, its rollback and a free round, a bet, 2 rates |
| `cashback` | Is the locked total what the credits say, does a credit unlock exactly when its wagering is done, is it taken back by the terms it was given on, and what can push the balance below what is reserved? | 2 bets, 2 orders, one withdrawal size, 2 programmes, 3 terms of the player |
| `markets` | Does the house stay under its cap and uncrossed while odds are rewritten, settings change and customers trade; do odds and offers end at the latest quote? | 1 selection, 2 processes, the mock and a real provider, 2 quotes, 3 adjustments, a pricing mode whose lay is below its back, one change |
| `overlay` | Is an old detection never shown, does no watcher outlive its players, and is a host in view covered again and again? | 1 player, 2 watchers at a time, 3 frames (two hosts to cover, one near the first and not to be covered), a fixed region, 3 changes or failures |

Two runs are expected to end in a violation; each shows a disagreement of the code with its own words, quoted under
"findings":

- `deposit_twice`: two deliveries of one confirmation, served at the same time, both credit the wallet.
- `house_arbitrage`: a customer backs with the house's LAY order and lays with its BACK order, both of one pass, at the
  better odds on each side, and the house is left with nothing to win.

The third finding is a promise that the code keeps in part. `create_withdrawal_request` says that a user whose withdrawal
fails gets the money back (`payments/services.py:69-71`, 119-120). It gives the debit back when the provider's call raises.
When the provider answers `failed` or `rejected` (135-136), or a notification fails the payment later
(`payments/views.py:78-83`), the withdrawal is FAILED and the debit stays. `payments` reaches both, by `RecordAnswer` and
`MarkFailed`: `LedgerMatchesPayments` says that a failed withdrawal is given back or has a payout that the provider took
and then failed (`PayoutFailed`), so no other failed withdrawal keeps its debit.

Reading the code for the models turned up more that no run is about:

- A cash-out's matching query runs after its walk and sees orders committed in between, against the comment at
  `exchange/services.py:429-431`; cashing out one order twice places a second full opposing leg.
- `_cash_out_target_notional` (`exchange/services.py:282`) adds the pending fills' profit to `matched_stake`, which counts
  settled fills too: after an edit sets a match live again in the middle of its settlement, a cash-out trades a full
  leg against a position that is already decided.
- `settle_match` and the beat task look at finished matches only: what is committed on a match just cancelled, or left
  by a settlement that died there, keeps its reservation.
- A settlement that dies between a match's legs and its parlays, and a leg committed between the list of parlays and the
  write of the legs, leave a parlay pending that nothing looks at again.
- The refund of a refused withdrawal is a row of type deposit and counts towards reward packages.
- A manual payout may start while the user's own request is still waiting for the provider. If that request is then
  refused, the debit is given back, and the batch can still be confirmed: `confirm_manual_payout` asks for no status, and
  the withdrawal ends completed with its debit returned. `LedgerMatchesPayments` allows it.
- A withdrawal whose request died between its debit and the answer stays pending with its debit until an administrator
  pays it out by hand; nothing gives it back.
- `sync_odds` with another provider than the mock calls `_process_match` without an argument and raises; with the mock
  it sets finished and live matches back to scheduled (85-88).
- A quote with a thin margin is normalised to odds of 1.00 or less, and only an adjustment other than zero applies the
  floor of 1.01.
- Switching house liquidity off leaves its orders resting at old prices, and so does a quote that loses its draw for
  the orders on the draw.
- The match-level manual back price is what the house trades at, and `get_effective_odds_for_user` does not look at it
  (against `exchange/services.py:634-639`). The lay reference is made from that price, so a user without a mode of his
  own may be shown a lay at or below the odds he is charged (`ReferenceAboveOdds` names the case).
- The lock of a sport's refresh lives as long as the interval of the match that took it: a page of a scheduled match
  keeps a live match of the sport waiting.
- A watcher whose launch fails, or that raises in a tick or in its cleanup, stays in the daemon's dictionary: the game is
  not tracked again before its players left.

`Solvent` and `AlwaysSolvent` speak of the exchange alone: they say that trading never takes a wallet below what it
reserved, but for the half unit that capping a cash-out rounds up. `place_bet` compares a stake with the whole balance
and can spend what orders have reserved; that is listed as a hazard. `payments` has one thread for notifications
because `deposit_twice` shows what two do; everything else in it is concurrent. `Cashback` has both sides of that hazard
in one wallet: `OnlyBetsAndClawbacksOverdraw` says how far below its reservations a wallet can get, and by what.

`HouseFollowsQuote` is about the odds as `WriteOdds` and `SyncWrite` leave them once quote and settings stay (`Calm`): before,
a fetch that was overtaken may write older odds over newer ones, and the house may offer at them. `WatchedIsShown` sets
aside a watcher that ended while the daemon's dictionary holds it (`Abandoned`: its launch failed, or it raised in a tick
or in the cleanup), and needs a daemon that runs.

The type invariant `TypeOK` of `Payments`, `Casino` and `Cashback` describes their state; no run lists it, and it is proved.

### Bounds and why they are enough

- `MaxOrders`, `MaxBets`, `MaxParlays` bound the rows ever inserted. Two crossing orders suffice for a settlement to
  race over; four give two takers, two price levels and an order that does not cross; a cash-out needs the two orders of a position, two levels to walk
  and its leg. A parlay on two matches with a bet on one of them is the smallest case in which two settlements meet.
- `Sessions` and `Workers` have two members wherever the question is a race of two; a third adds waiters, not new
  orders of commits on the same row.
- `Requests`, `BetRequests` and `ParlayRequests` are menus chosen so that each branch is taken: improved prices,
  partial fills, unfunded requests, stakes that divide unevenly.
- `MaxStake`, `MaxOdds` stand for the widths of the columns; no instance comes near them, the proofs use `MaxOdds`.
- `MaxPayments` is three: two deposits, or a deposit next to a withdrawal refunded by then, reach the second package;
  `MaxRefs` is two: an automatic payout and a batch, or two batches, of one withdrawal. The wallet pays one withdrawal
  and then needs a deposit or a refund for another, and holds back part of what it has.
- `casino`: one launch holds at most one reservation, so that a lost answer, a death and a second thread meet on it; two
  threads settle one round, which is where the serial number decides. The calls are a debit, its rollback and a free
  round, each delivered any number of times. The balance pays one launch of a dollar at either rate and a bet beside it
  at one of them.
- `cashback`: two bets and two orders give two credits that progress together and one that unlocks another's stake;
  odd stakes make halves to round.
- `markets`: `Tracked` has one selection, since selections share only the house's wallet, which `Funds` keeps ample; with
  two, TLC takes five minutes for the same answers. Two processes overlap a refresh with a refresh, or with `sync_odds`.
  The stake on offer is 1 or 0 units, so `Cap` is reached by two trades. `MaxChanges = 1` puts one change of quote or settings
  anywhere between two steps.
- `overlay`: two watchers are the smallest case in which an old one clears what a new one wrote; limits of 1 and 2
  seconds keep the order of the real ones (2, 5 and 10): a heartbeat is written well before it is too old, and a
  detection ages out before a viewer. Two players give no other answers and four times the states.
- Runs over interchangeable sessions or settlements use symmetry, never together with liveness.

### Fairness

`FairSpec` of each module assumes only what the deployment does. A request that has started runs to its end or fails
(weak fairness of its steps; beginning a request is never fair). A settlement goes on until it ends or dies. Beat
starts a settlement of every finished match with scores every 5 minutes: weak fairness in `Exchange`, whose
liveness instances have one match; strong fairness in `Sportsbook`, because there one match's settlement can make
another wait again and again, and the Celery worker is not taken up by what admins do. No fairness is
assumed of admins, of the results feed or of crashes. The liveness properties say "once settlements stop dying"
(`CrashesEnd`): a settlement that dies forever settles nothing; the premise leaves every finite number of crashes.
In `Payments` a notification that was read goes on (weak fairness), and the provider repeats each notification until it
succeeds, as the docstring of `PaymentWebhookView` says (strong fairness for each invoice: the one thread may be busy
with another); nothing else is fair, so the rates, sessions and the provider may stop.

`Casino`: the provider repeats settle notifications until they succeed, and they may find the lock of a session taken by
another (strong fairness of `LockSession` for each round); what is locked goes on (weak). `House`: open pages poll, a
request or a pass that started goes on, cache entries expire (all weak); fetches may fail, and `Calm` says that they stop
failing in the end. `LiveBlur`: open pages poll, time passes and the coroutines of a living daemon go on; nothing starts it
again, since nothing in the project does, and its failures are bounded by `MaxChanges`.

## 4. What is proved

Every safety invariant and every action property that a passing run checks is also a theorem, for every value of the
constants that satisfies the module's assumption; so is the refinement. Three of the theorems need one hypothesis more
about the constants, given below with what happens without it. Each `*Proofs` module extends its model.

The assumptions are named in the module that declares the constants, and TLC evaluates them on each instance. They say
what columns, forms and settings allow (bounds are naturals, requests fit the columns, a commission is at most 100
percent, rates are positive, opening balances are natural and cover what is held), and that the sets a sum ranges over
are finite (`Users`, `Launches`, `Bets`, `Orders`, `Packages`).

### Sums

Most of these invariants are about money, and so about sums over sets of rows that steps change. `SumProofs` proves what
they need of the library's `SumFunctionOnSet` for any finite set and any function: that it is an integer (`SumInt`), can
be taken apart at any element (`SumTake`) or any subset (`SumParts`), follows a change of one entry (`SumChange`) or the
exchange of one element (`SumSwap`), respects order and sums of functions (`SumLe`, `SumPlus`), and can be regrouped by a
key (`SumGroups`). The library's induction theorems take an operator as a parameter, which the provers cannot
instantiate. `SumProofs` does without: strict inclusion is well-founded on the subsets of a finite set, so a set where
a claim fails has a smallest one (`SmallestSubset`), and taking one element out of that one is a contradiction.

### Exchange

| Theorem of `ExchangeProofs` | Statement |
|---|---|
| `TypeCorrect` | `Spec => []TypeOK` |
| `AlwaysSolvent` | `Solvent`: whatever is traded, cancelled, cashed out, settled or interrupted, no wallet has more reserved than it holds, but for what capping a cash-out rounds up |
| `PricesProtected` | `PriceProtection` |
| `FillsNeverResettled` | `FillsSettleOnce`, an action property |
| `MatchedExactly` | `MatchedIsFilled`: what an order counts as matched is the sum of its fills |
| `MoneyOnlyMoves` | `MoneyConserved`: balances and commissions add up to what there was at the start |
| `PriorityRespected`, `CrossedWereUnseen` | `PriceTimePriority` and `CrossedOnlyIfUnseen` |
| `ReservedIsAtRisk` | `ReservedMatchesExposure` |
| `CashOutsBalance` | `CashOutBalanced`, where `NoReopening` |

None of these invariants is inductive: what a transaction in flight will write is in `tx`, and they say nothing of it.
The invariant is built in layers, each proved from the ones before.

`IInv` (theorem `Inductive`) has the types, and `TxsInv`: each transaction's order is not yet a row, what it took is from
rows it has locked, at the row's price and no more than the row had left, and it may trade with every row on its list;
`LocksInv`: locks of two transactions are disjoint, and two busy transactions have different users and order ids;
`OrdersInv`: no order has more matched than its stake, and ids are given in order; `FundsInv`: next to `Solvent`, each
wallet still carries the order its transaction is about to write. Two actions carry the arithmetic. For `Commit`, the
reservation of the new order is covered because the user's wallet was locked and nothing moved it. For `SettleFill`, a
loss at the fill's odds never exceeds the reservation at the order's odds (`FillFacts`, `MulMono`), and a commission never
exceeds the winnings (`CommissionBound`).

`BooksInv` says that running totals are sums: of the fills a transaction holds for its order, of the fills of each
row, and of the money of all users and the house. A fill is one row for a pair of orders, so settling it swaps one
element of the sum (`SumSwap`).

`PriorityInv` follows the matching loop: what it passed over it has emptied, and so has it what comes before any row it
took from. Rows that are gone stay gone (`GoneStays`), so this survives the commits of others between a query and the
end of its transaction; after the commit it speaks of the order (`SeenDone`) and of its fills (`FillsPrio`).

`ReservedInv` states a reservation order by order: what of its stake can still trade or has traded and is not decided,
at its rate. That form is inductive; `ReservedMatchesExposure` follows by regrouping it into open orders, backed fills
and laid fills, a sum for each.

`LifeInv` and `CashInv` are about cash-outs. While a cash-out is in flight it holds the locks of its own order and of the
rows it walked, so what it sized its leg on is still true (`CashTx`). If its query saw only rows of its walk and the leg
is used up, it took exactly what it added up (`FullMatch`, `LegTradesSizing`), and what it covers and what it trades differ
by the rounding of its last level. `NoReopening` says that no edit makes a match bettable again. Without it the claim is
false: a fill settled by a run that has not closed the order yet, the match set live again by hand, and the cash-out
counts the settled fill in `matched_stake` and has nothing pending to set against it. With it, settled fills belong to
closed matches (`LifeInv`), where a cash-out is refused. The run `cashout` has no edits.

### Sportsbook

| Theorem of `SportsbookProofs` | Statement |
|---|---|
| `TypeCorrect` | `Spec => []TypeOK` |
| `WalletsAreExplained` | `BalanceExplained`: a wallet holds what the rows explain, each once, to half a unit for each commission stored |
| `LegsDecide`, `DecidedIsListed` | `ParlayDecidedByLegs` and `DecidedParlayIsListed` |
| `SettledStays` | `SettledForGood`, an action property |

The inductive invariant is `Good`: `WalletsOK` bounds, for each user, the distance between a hundred times the balance and
the exact sum over all rows by fifty for each commission paid; `BetsOK` and `ParlaysOK` number the rows and tie a
parlay's status to its legs; `SessionsOK` and `WorkersOK` say what a request or settlement in progress holds (its lists
are of rows that exist); `Listed` is the hand-over from legs to parlays, where a settlement that dies leaves `stranded`
behind. A row is written only while pending, and that guard is what makes a second settlement add nothing.

### Payments

| Theorem of `PaymentsProofs` | Statement |
|---|---|
| `TypeCorrect` | `Spec => []TypeOK` |
| `LedgerIsExact` | `LedgerMatchesPayments`: each payment has the ledger rows its kind and status allow, a failed withdrawal keeps its debit only if the provider took and failed a payout of it, each balance is what the rows add up to |
| `HeldStaysInWallet` | `HeldIsKept` |
| `RewardsAreEarned` | `RewardsFollowDeposits` |
| `CompletedIsReleased` | `CompletedWasReleased`: no withdrawal is completed without a payout the provider let go |
| `OneThreadCreditsOnce` | `CreditedOnce`, where `OneNotification` |

`Good` says of each row what its ledger entries may be (`RowsOK`), of each wallet what it sums up to and which packages it
must and may have (`WalletsOK`), of each request between two steps what it may still rely on (`Threads`: a debited
withdrawal has its one debit and no other request works on it, a verified payout was let go), of invoices and payouts
what they belong to (`RemoteOK`, `CodesOK`). Crediting twice is within `Good`: the books stay exact when it happens, since
each crediting writes its own row. `OneThreadCreditsOnce` needs that one thread serves notifications (`OneNotification`);
with two it is false, which is the run `deposit_twice`. `LedgerIsExact` needs a second layer, `Promised`: a request that was
answered `failed` had a payout made, a withdrawal names a batch of its own, so a notification that fails it is about a
payout of its own, and a payout that ended stays ended (`EndsStay`).

### Casino

| Theorem of `CasinoProofs` | Statement |
|---|---|
| `LedgerKept` | `Spec => LedgerIsKept`: the gateway implements `WalletLedger` |
| `TypeCorrect` | `Spec => []TypeOK` |
| `ReservedByLaunches` | `ReservedIsInFlight` |
| `AnswersHold` | `AnswersAreTrue` |
| `RiskIsReal` | `ExposureIsAtRisk`, where `OneDebit` |

For the refinement, the invariant adds to the shapes of the variables `Marked`: an entry that is posted left a mark for
good (the launch is open, the serial number is a row, the call is recorded). Each action that posts is guarded by the
absence of its mark, so the entry is new; `PostRefines` then makes it the abstract `Post`. Every other action leaves balance
and ledger alone. `Reservations` adds the sum over launches, `Books` the tie between the events recorded, the answers
given and the ledger. `OneDebit` is about the provider, not about this code: it reports one debit of a round, as often
as it likes.

### Cashback

`IInv` of `CashbackProofs` has the five properties of the run, `TypeOK`, the same for reservations (`ReservedMatchesOrders`)
and `GivenBefore`: a credit is not younger than what has been staked so far. Each property is a theorem (`LockedIsWhatIsLocked`,
`UnlockedByWagers`, `ClawbackByTerms`, `Overdrafts`, `BalanceIsItsHistory`). The argument turns on one fact of `RecordWager`: it
adds a stake to every locked credit and to the turnover alike, so a credit's progress is the turnover since it was
given, capped by what it requires.

### Prices and the house

`AdjustmentFloors` (`HouseProofs`): an adjustment other than zero leaves no odds below 1.01. `ReferenceAboveOdds`: for every
match, user and combination of overrides the lay reference shown is above the back price of the mode it is made with, and
above the odds the user is charged unless the user has no mode of his own and the match has a manual back price below
those odds; then it may be at or below them. Both rest on lemmas about the operators; `Clamped` is the one about `compute_back_and_lay`.

`LayStaysAboveBack`: `Spec => []LayAboveBack`, for any number of processes, quotes, modes and settings. It is not inductive:
`IInv` adds that prices in hand are clamped pairs (`Loads`), that at most one pass is under way and holds the lock
(`Alone`), and that a pass has cleared its selection before it offers there (`Cleared`). `Alone` is where the assumption
enters that a pass ends within the 15 seconds of its lock.

`CapIsShared`: `Spec => []SharedCap`. `CapInv` adds to `IInv` that a pass between its back and its lay order has left half of
the headroom it measured (`Room`). A trade moves a liability from the book to the trades and adds none (`TradeMoves`), so
nothing that happens between the two orders takes that room; each order takes half of the headroom at most (`OfferHalf`).

### The overlay

`OldDetectionsFallBack` (`LiveBlurProofs`): `Spec => []FallsBack`. `IInv` says that no detected region, in the row or in a form
somebody has open, is younger than the last watcher (`Aged`), and that the count of unwatched seconds is zero while one
runs (`Running`).

### What is left to TLC alone

- Liveness (`FinishedMatchDrains`, `FinishedMatchSettles`, `PaidIsCredited`, `RoundsAreSettled`, `HouseFollowsQuote`,
  `WatchersStop`, `WatchedIsShown`): fairness and ENABLED are out of the prover's reach.
- What the two violation runs show is a trace, and TLC's alone.

## 5. Abstractions

- Amounts are integers of the smallest unit of an 8-decimal column; odds are integers, so stake times odds is exact.
  Rounding is modelled where a quotient is stored: commissions, the capped stake and the walked stake. What separate
  rounding of 2-decimal odds adds to it is planned below.
- Scores are the selection they make win. `Selections` has one member in the instances: books of different
  selections share only the wallets.
- The ledger (`WalletTransaction`) is state of `Payments` and `Casino`; audit rows and messages are left out. In `Exchange`
  and `Sportsbook`, `record_wager` and `credit_cashback_for_loss` are left out: `Cashback` has them.
- The odds of a bet, its tolerance and the limits of a user are part of the request considered.
- `mark_starting_matches_live` is an action of `Exchange`; `Sportsbook` starts with live matches, since a scheduled
  match takes bets just as a live one does. (The docstring of that task says no new bets can be placed after the
  game begins; `place_bet` accepts them.)
- The checks of the legs of a parlay, one query each, are one step: a leg checked and one just finished differ in
  nothing from a leg that finishes right after the check.
- In `Payments`, dollars and wallet amounts are in hundredths, and a quote is rounded to hundredths half-even as
  `quantize` does. Batch id and administrator's session are saved in one step: a death between the two only makes
  the administrator log in again. A lapsed JWT, a wrong code and every other error of the provider are `GiveUp`.
- An admin's edit writes the status alone; that it saves the whole row as it read it is listed as a hazard.
- In `Casino` there is one player and one game, and wallet-wide checks of the callback (signature, time stamp, user name)
  hold. Session rows of the two kinds of provider are in one sequence: only the newest one's lock matters.
- In `Odds`, scheduled and live matches are one state: both are refreshed and seeded. Who is counted as viewing and how
  long an interval lasts are left to chance. Parsing a feed is `IsQuote`, a market with or without a draw.
- In `House`, a pass outlived by its lock is assumed away, a trade is at the house's own odds, and the house trades on one
  market.
- In `LiveBlur`, a face is a place on one axis and whether it is to be covered, and regions are named by the place they
  cover; padding, image processing and the models are left out.

## 6. Plan

1. `WalletLedger` as what `Payments` implements with one thread of notifications, for each user's wallet.
2. Action properties of `Payments` and `Cashback`: a ledger row is never changed, a credit never locks again.
3. `Accounts` and the match lifecycle: whole-row saves of stale objects, the hierarchy of parents and who manages whom.
4. `Rounding`: exposures as decimal columns store them, part by part.
5. `LockOrder`: the order in which each operation acquires row locks, and which of them can wait in a cycle.

### Not modelled

Templates, forms and REST wrappers, parsing of provider responses, the catalogue of casino games, image processing of the
blur tracker, registration and sign-in, reports and the audit log, database backups, configuration: they hold no state
another component decides by, or are I/O. `PROJECT.json` lists each with its reason.
