------------------------------ MODULE Exchange ------------------------------
(***************************************************************************)
(* The betting exchange: apps/exchange/services.py with its two models,    *)
(* the wallet columns it moves, and the writers of Match that start a      *)
(* settlement.  One action is one database transaction, or, where the code *)
(* reads before it locks, the read and the transaction are two actions.    *)
(* Requests run on gunicorn threads (Sessions); settlements run on Celery  *)
(* or admin threads (Workers).  PostgreSQL runs READ COMMITTED, so a       *)
(* SELECT FOR UPDATE sees the rows committed when it starts, waits for the *)
(* locks, and rechecks each row it waited for.  The writes of a            *)
(* transaction in flight are kept in its tx record until Commit.           *)
(***************************************************************************)
EXTENDS Integers, FiniteSets, Functions

CONSTANTS
  Users,           \* accounts with a wallet
  Matches,         \* Match rows
  Selections,      \* the selections a match offers
  Results,         \* the selections a match can end with
  Requests,        \* the place_order calls considered
  Sessions,        \* threads serving place_order and cash_out_order
  Workers,         \* threads running settle_exchange_for_match
  Unscored,        \* the matches the results feed may give no scores for
  EditStatuses,    \* the statuses admin_edit_match_view is used to set
  InitialStatus,   \* the status of the matches at the start
  InitialBalance,  \* what each wallet holds at the start
  CommissionRate,  \* ExchangeConfig.commission_rate, in percent
  MaxOrders,       \* bound: order rows ever inserted
  MaxStake,        \* bound: the largest stake the stake column can hold
  MaxOdds          \* bound: the largest odds the odds column can hold

Sides == {"back", "lay"}
Statuses == {"scheduled", "live", "finished", "cancelled"}
OpenStatuses == {"scheduled", "live"}
NoResult == "none"
OrderIds == 1 .. MaxOrders
Keys == OrderIds \X OrderIds

Request == [user: Users, match: Matches, selection: Selections,
            side: Sides, odds: Nat, stake: Nat]

ASSUME ConstantsAssumption ==
  /\ InitialStatus \in OpenStatuses
  /\ IsFiniteSet(Users)
  /\ InitialBalance \in [Users -> Nat]
  /\ CommissionRate \in 0 .. 100
  /\ MaxOrders \in Nat
  /\ MaxStake \in Nat
  /\ MaxOdds \in Nat \ {0}
  /\ Requests \subseteq Request
  /\ \A r \in Requests : r.odds <= MaxOdds
  /\ Unscored \subseteq Matches
  /\ EditStatuses \subseteq Statuses
  /\ Selections \subseteq Results
  /\ NoResult \notin Results

VARIABLES
  matches,   \* Match: status and the result its scores give
  wallets,   \* Wallet: balance and reserved_balance
  orders,    \* committed ExchangeOrder rows, a function on the ids in use
  fills,     \* committed ExchangeFill rows
  nextId,    \* the id, and so the created_at rank, of the next order
  tx,        \* transactions in flight, a function on the busy sessions
  worker,    \* settlements in progress, a function on the busy workers
  seen,      \* history: the resting orders each order's matching query saw
  cashouts   \* history: the cash-outs committed

vars == <<matches, wallets, orders, fills, nextId, tx, worker, seen, cashouts>>

-----------------------------------------------------------------------------
(* Rows *)

Order == [user: Users, match: Matches, selection: Selections, side: Sides,
          odds: Nat, stake: Nat, matched: Nat,
          status: {"open", "cancelled", "settled", "void"}]

Fill == [taker: OrderIds, maker: OrderIds, stake: Nat, odds: Nat,
         status: {"pending", "back_won", "lay_won", "void"},
         commission: Nat]

\* A transaction in flight.  order is the row it inserts, takes the fills it
\* has made, locks the order rows it holds; origin, covered, walked and
\* reached belong to a cash-out (origin is 0 for a plain order).
Tx == [phase: {"checked", "walked", "reserved", "matching"},
       order: Order, id: Nat, book: SUBSET OrderIds, seen: SUBSET OrderIds,
       takes: SUBSET Fill, locks: SUBSET OrderIds, origin: Nat,
       covered: SUBSET Keys, walked: SUBSET OrderIds,
       reached: BOOLEAN]

\* A run of settle_exchange_for_match with the Match object it captured.
Settlement == [phase: {"captured", "fills", "orders"}, match: Matches,
               status: Statuses, result: Results \cup {NoResult},
               pending: SUBSET Keys,
               open: SUBSET OrderIds]

Opposite(side) == IF side = "back" THEN "lay" ELSE "back"

ExposureRate(side, odds) == IF side = "lay" THEN odds - 1 ELSE 1

Exposure(o, stake) == stake * ExposureRate(o.side, o.odds)

Unmatched(o) == o.stake - o.matched

Available(u) == wallets[u].balance - wallets[u].reserved

Key(f) == <<f.taker, f.maker>>

BackOrder(f) == IF orders[f.taker].side = "back" THEN f.taker ELSE f.maker
LayOrder(f)  == IF orders[f.taker].side = "back" THEN f.maker ELSE f.taker

\* a / d quantized to the unit of the money columns: half-even, the rounding
\* of Decimal's default context.
Quantized(a, d) ==
  LET q == a \div d
      r == 2 * (a % d)
  IN  IF r > d \/ (r = d /\ q % 2 = 1) THEN q + 1 ELSE q

Commission_SignedLoss(profit) == Quantized(-profit * CommissionRate, 100)

Commission(profit) == Quantized(profit * CommissionRate, 100)

NetWin_Gross(profit) == profit

NetWin(profit) == profit - Commission(profit)

-----------------------------------------------------------------------------
(* Row locks held by transactions in flight *)

WalletLocked(u) ==
  \E s \in DOMAIN tx : /\ tx[s].phase \in {"reserved", "matching"}
                       /\ tx[s].order.user = u

RowLocked(i) == \E s \in DOMAIN tx : i \in tx[s].locks

LockedByOther_Never(i, s) == FALSE

LockedByOther(i, s) == \E t \in DOMAIN tx \ {s} : i \in tx[t].locks

-----------------------------------------------------------------------------
(* The book *)

Acceptable_AnyPrice(o, resting) == TRUE

\* The price filter and the ordering of the matching query for an order on
\* this side: a back takes the highest lay first, a lay the lowest back.
Acceptable(o, resting) ==
  IF o.side = "back" THEN resting.odds >= o.odds ELSE resting.odds <= o.odds

Precedes(side, i, j) ==
  \/ IF side = "back" THEN orders[i].odds > orders[j].odds
                      ELSE orders[i].odds < orders[j].odds
  \/ orders[i].odds = orders[j].odds /\ i < j

Best_Oldest(side, rows) == {i \in rows : \A j \in rows \ {i} : i < j}

Best(side, rows) == {i \in rows : \A j \in rows \ {i} : Precedes(side, i, j)}

SameMarket(o, p) == o.match = p.match /\ o.selection = p.selection

\* The open orders of other users that could trade with o, whatever the price.
Counterparties(o) ==
  {i \in DOMAIN orders : /\ SameMarket(orders[i], o)
                         /\ orders[i].side = Opposite(o.side)
                         /\ orders[i].status = "open"
                         /\ orders[i].user # o.user}

Compatible(o) == {i \in Counterparties(o) : Acceptable(o, orders[i])}

-----------------------------------------------------------------------------
(* Cash-out sizing *)

\* Fills still pending on one side of an order's position.
PendingFillsOf(i) == {f \in fills : f.status = "pending" /\ i \in {f.taker, f.maker}}

Notional(F) == SumFunction([f \in F |-> f.stake * f.odds])

CashOutTarget_Winnings(i) ==
  SumFunction([f \in PendingFillsOf(i) |-> f.stake * (f.odds - 1)])

CashOutTarget(i) ==
  orders[i].matched
    + SumFunction([f \in PendingFillsOf(i) |-> f.stake * (f.odds - 1)])

\* The walk over the book rows with something left, best price first: full
\* levels until one of them covers what is still missing of the target, then
\* the exact fraction of that level.  last is the level it ends on.
Levels(rows) == {i \in rows : Unmatched(orders[i]) > 0}

LevelNotional(i) == Unmatched(orders[i]) * orders[i].odds

Ahead(side, rows, i) == {j \in Levels(rows) : Precedes(side, j, i)}

Missing(side, rows, target, i) ==
  target - SumFunction([j \in Ahead(side, rows, i) |-> LevelNotional(j)])

Covers(side, rows, target, i) ==
  LevelNotional(i) >= Missing(side, rows, target, i)

WalkEndsAt(side, rows, target, last) ==
  LET covering == {i \in Levels(rows) : Covers(side, rows, target, i)}
  IN  IF covering # {} THEN last \in Best(side, covering)
      ELSE /\ last \in Levels(rows)
           /\ \A j \in Levels(rows) \ {last} : Precedes(side, j, last)

WalkStake(side, rows, target, last) ==
  SumFunction([i \in Ahead(side, rows, last) |-> Unmatched(orders[i])])
    + IF Covers(side, rows, target, last)
      THEN Quantized(Missing(side, rows, target, last), orders[last].odds)
      ELSE Unmatched(orders[last])

-----------------------------------------------------------------------------
(* place_order and _match_order *)

Init ==
  /\ matches = [m \in Matches |-> [status |-> InitialStatus, result |-> NoResult]]
  /\ wallets = [u \in Users |-> [balance |-> InitialBalance[u], reserved |-> 0]]
  /\ orders = [i \in {} |-> {}]
  /\ fills = {}
  /\ nextId = 1
  /\ tx = [s \in {} |-> {}]
  /\ worker = [w \in {} |-> {}]
  /\ seen = [i \in {} |-> {}]
  /\ cashouts = {}

ValidRequest(r) == r.odds > 1 /\ r.stake > 0

NewOrder(user, match, selection, side, odds, stake) ==
  [user |-> user, match |-> match, selection |-> selection, side |-> side,
   odds |-> odds, stake |-> stake, matched |-> 0, status |-> "open"]

NewTx(phase, order) ==
  [phase |-> phase, order |-> order, id |-> 0, book |-> {}, seen |-> {},
   takes |-> {}, locks |-> {}, origin |-> 0, covered |-> {}, walked |-> {},
   reached |-> FALSE]

PutTx(s, t) == tx' = [r \in DOMAIN tx \cup {s} |-> IF r = s THEN t ELSE tx[r]]

DropTx(s) == tx' = [r \in DOMAIN tx \ {s} |-> tx[r]]

\* The checks place_order makes before its transaction: the match status is
\* read here, and nothing reads it again.
PlaceCheck(s) ==
  /\ s \notin DOMAIN tx
  /\ \E r \in Requests :
       /\ ValidRequest(r)
       /\ matches[r.match].status \in OpenStatuses
       /\ PutTx(s, NewTx("checked", NewOrder(r.user, r.match, r.selection,
                                             r.side, r.odds, r.stake)))
  /\ UNCHANGED <<matches, wallets, orders, fills, nextId, worker, seen, cashouts>>

CanReserve_Balance(o) == Exposure(o, o.stake) <= wallets[o.user].balance

CanReserve(o) == Exposure(o, o.stake) <= Available(o.user)

\* With the wallet locked: reserve the exposure, insert the order, and start
\* the matching query, which sees the orders committed now.
Reserve(s, t) ==
  /\ nextId <= MaxOrders
  /\ nextId' = nextId + 1
  /\ PutTx(s, [t EXCEPT !.phase = "reserved", !.id = nextId,
                        !.book = Compatible(t.order),
                        !.seen = Compatible(t.order)])
  /\ UNCHANGED <<matches, wallets, orders, fills, worker, seen, cashouts>>

PlaceReserve(s) ==
  /\ s \in DOMAIN tx
  /\ tx[s].phase = "checked"
  /\ ~WalletLocked(tx[s].order.user)
  /\ CanReserve(tx[s].order)
  /\ Reserve(s, tx[s])

PlaceReject(s) ==
  /\ s \in DOMAIN tx
  /\ tx[s].phase = "checked"
  /\ ~WalletLocked(tx[s].order.user)
  /\ ~CanReserve(tx[s].order)
  /\ DropTx(s)
  /\ UNCHANGED <<matches, wallets, orders, fills, nextId, worker, seen, cashouts>>

\* The matching query has waited for every row lock; a row that is no longer
\* open is dropped by the recheck.
LockBook(s) ==
  /\ s \in DOMAIN tx
  /\ tx[s].phase = "reserved"
  /\ \A i \in tx[s].book : ~LockedByOther(i, s)
  /\ LET rows == {i \in tx[s].book : orders[i].status = "open"}
     IN  PutTx(s, [tx[s] EXCEPT !.phase = "matching", !.book = rows,
                                !.locks = @ \cup rows])
  /\ UNCHANGED <<matches, wallets, orders, fills, nextId, worker, seen, cashouts>>

\* One iteration of the matching loop: the next resting row in price-time
\* order, at its own price.
MatchNext(s) ==
  /\ s \in DOMAIN tx
  /\ tx[s].phase = "matching"
  /\ Unmatched(tx[s].order) > 0
  /\ \E i \in Best(tx[s].order.side, tx[s].book) :
       LET mine == Unmatched(tx[s].order)
           rest == Unmatched(orders[i])
           size == IF mine <= rest THEN mine ELSE rest
           fill == [taker |-> tx[s].id, maker |-> i, stake |-> size,
                    odds |-> orders[i].odds, status |-> "pending",
                    commission |-> 0]
       IN  PutTx(s, [tx[s] EXCEPT
                       !.book = @ \ {i},
                       !.order.matched = @ + size,
                       !.takes = IF size = 0 THEN @ ELSE @ \cup {fill}])
  /\ UNCHANGED <<matches, wallets, orders, fills, nextId, worker, seen, cashouts>>

MatchingOver_OneFill(t) == t.book = {} \/ t.takes # {}

MatchingOver(t) == t.book = {} \/ Unmatched(t.order) = 0

\* The unfilled part of a cash-out leg does not stay in the book.
Killed(t) == t.origin # 0 /\ Unmatched(t.order) > 0

Kept_Matched(t) == t.order.matched

\* The stake whose exposure stays reserved.
Kept(t) == IF Killed(t) THEN t.order.matched ELSE t.order.stake

\* The transaction commits: its order and fills appear, the matched stakes of
\* the resting orders and the reservation are written.  The unfilled part of
\* a cash-out leg is cancelled and its exposure released first.
Commit(s) ==
  /\ s \in DOMAIN tx
  /\ tx[s].phase = "matching"
  /\ MatchingOver(tx[s])
  /\ LET t   == tx[s]
         row == IF Killed(t) THEN [t.order EXCEPT !.status = "cancelled"]
                             ELSE t.order
         taken(i) == {f \in t.takes : f.maker = i}
     IN  /\ orders' =
              [i \in DOMAIN orders \cup {t.id} |->
                 IF i = t.id THEN row
                 ELSE IF taken(i) # {}
                 THEN [orders[i] EXCEPT
                         !.matched = @ + (CHOOSE f \in taken(i) : TRUE).stake]
                 ELSE orders[i]]
         /\ fills' = fills \cup t.takes
         /\ wallets' = [wallets EXCEPT
              ![t.order.user].reserved = @ + Exposure(t.order, Kept(t))]
         /\ seen' = [i \in DOMAIN seen \cup {t.id} |->
                       IF i = t.id THEN t.seen ELSE seen[i]]
         /\ cashouts' =
              IF t.origin = 0 \/ t.order.matched = 0 THEN cashouts
              ELSE cashouts \cup
                     {[origin |-> t.origin, leg |-> t.id, covered |-> t.covered,
                       walked |-> t.walked, full |-> t.reached /\ ~Killed(t)]}
  /\ DropTx(s)
  /\ UNCHANGED <<matches, nextId, worker>>

\* The transaction is rolled back: an error, a deadlock chosen by PostgreSQL,
\* a killed worker.  The order id it drew is not used again.
Abort(s) ==
  /\ s \in DOMAIN tx
  /\ DropTx(s)
  /\ UNCHANGED <<matches, wallets, orders, fills, nextId, worker, seen, cashouts>>

cancel_order(i) ==
  /\ i \in DOMAIN orders
  /\ ~RowLocked(i)
  /\ ~WalletLocked(orders[i].user)
  /\ orders[i].status = "open"
  /\ Unmatched(orders[i]) > 0
  /\ wallets' = [wallets EXCEPT
       ![orders[i].user].reserved = @ - Exposure(orders[i], Unmatched(orders[i]))]
  /\ orders' = [orders EXCEPT ![i].status = "cancelled"]
  /\ UNCHANGED <<matches, fills, nextId, tx, worker, seen, cashouts>>

-----------------------------------------------------------------------------
(* cash_out_order *)

\* The order and the book rows it would trade with are locked, the position
\* and the book are read, and the opposing leg is sized and priced.
CashOutWalk(s, i) ==
  /\ s \notin DOMAIN tx
  /\ i \in DOMAIN orders
  /\ ~RowLocked(i)
  /\ orders[i].status = "open"
  /\ orders[i].matched > 0
  /\ matches[orders[i].match].status \in OpenStatuses
  /\ LET o      == orders[i]
         side   == Opposite(o.side)
         leg    == NewOrder(o.user, o.match, o.selection, side, 2, 0)
         rows   == Counterparties(leg)
         target == CashOutTarget(i)
     IN  /\ \A j \in rows : ~RowLocked(j)
         /\ \E last \in rows :
              /\ WalkEndsAt(side, rows, target, last)
              /\ WalkStake(side, rows, target, last) \in 0 .. MaxStake
              /\ PutTx(s, [NewTx("walked",
                     [leg EXCEPT !.odds = orders[last].odds,
                                 !.stake = WalkStake(side, rows, target, last)])
                   EXCEPT !.locks = {i} \cup rows, !.origin = i,
                          !.covered = {Key(f) : f \in PendingFillsOf(i)},
                          !.walked = rows,
                          !.reached = Covers(side, rows, target, last)])
  /\ UNCHANGED <<matches, wallets, orders, fills, nextId, worker, seen, cashouts>>

Affordable_Uncapped(o) == o.stake

\* The stake a wallet can carry, when the walk asks for more than that.
Affordable(o) ==
  LET most == Quantized(Available(o.user), ExposureRate(o.side, o.odds))
  IN  IF Available(o.user) >= Exposure(o, o.stake) THEN o.stake
      ELSE IF most <= o.stake THEN most ELSE o.stake

CashOutReserve(s) ==
  /\ s \in DOMAIN tx
  /\ tx[s].phase = "walked"
  /\ ~WalletLocked(tx[s].order.user)
  /\ Affordable(tx[s].order) > 0
  /\ LET stake == Affordable(tx[s].order)
     IN  Reserve(s, [tx[s] EXCEPT
           !.order.stake = stake,
           !.reached = @ /\ Available(tx[s].order.user)
                              >= Exposure(tx[s].order, tx[s].order.stake)])

CashOutGiveUp(s) ==
  /\ s \in DOMAIN tx
  /\ tx[s].phase = "walked"
  /\ ~WalletLocked(tx[s].order.user)
  /\ Affordable(tx[s].order) <= 0
  /\ DropTx(s)
  /\ UNCHANGED <<matches, wallets, orders, fills, nextId, worker, seen, cashouts>>

-----------------------------------------------------------------------------
(* The writers of a match's status, and the settlements they start *)

MarkLive(m) ==
  /\ matches[m].status = "scheduled"
  /\ matches' = [matches EXCEPT ![m].status = "live"]
  /\ UNCHANGED <<wallets, orders, fills, nextId, tx, worker, seen, cashouts>>

\* admin_edit_match_view saves any status and settles nothing.
EditStatus(m) ==
  /\ \E status \in EditStatuses :
       matches' = [matches EXCEPT ![m].status = status]
  /\ UNCHANGED <<wallets, orders, fills, nextId, tx, worker, seen, cashouts>>

\* A worker starts settle_exchange_for_match with the Match object it holds.
StartSettlement(w, m, status, result) ==
  worker' = [v \in DOMAIN worker \cup {w} |->
               IF v = w THEN [phase |-> "captured", match |-> m,
                              status |-> status, result |-> result,
                              pending |-> {}, open |-> {}]
               ELSE worker[v]]

PutWorker(w, r) == worker' = [worker EXCEPT ![w] = r]

StopWorker(w) == worker' = [v \in DOMAIN worker \ {w} |-> worker[v]]

\* sync_results and the admin settle view: FINISHED with a score, then settle.
\* The admin view does not ask whether the match was finished before.
FinishMatch(w, m, result) ==
  /\ w \notin DOMAIN worker
  /\ matches' = [matches EXCEPT ![m] = [status |-> "finished", result |-> result]]
  /\ StartSettlement(w, m, "finished", result)
  /\ UNCHANGED <<wallets, orders, fills, nextId, tx, seen, cashouts>>

\* sync_results marks a completed match finished when the feed gives no scores
\* for it: settle_exchange_for_match returns at once.
FinishUnscored(m) ==
  /\ m \in Unscored
  /\ matches[m].status # "finished"
  /\ matches' = [matches EXCEPT ![m] = [status |-> "finished", result |-> NoResult]]
  /\ UNCHANGED <<wallets, orders, fills, nextId, tx, worker, seen, cashouts>>

CancelMatch(w, m) ==
  /\ w \notin DOMAIN worker
  /\ matches' = [matches EXCEPT ![m].status = "cancelled"]
  /\ StartSettlement(w, m, "cancelled", matches[m].result)
  /\ UNCHANGED <<wallets, orders, fills, nextId, tx, seen, cashouts>>

Scored(m) == matches[m].status = "finished" /\ matches[m].result # NoResult

NeedsSettling_OnlyFills(m) ==
  /\ Scored(m)
  /\ \E f \in fills : f.status = "pending" /\ orders[f.taker].match = m

NeedsSettling(m) == Scored(m)

\* The beat task settle_matches_with_results: FINISHED matches with scores only.
SettleTask(w, m) ==
  /\ w \notin DOMAIN worker
  /\ NeedsSettling(m)
  /\ StartSettlement(w, m, "finished", matches[m].result)
  /\ UNCHANGED <<matches, wallets, orders, fills, nextId, tx, seen, cashouts>>

-----------------------------------------------------------------------------
(* settle_exchange_for_match, _settle_fill, _void_fill *)

ListFills(w) ==
  /\ w \in DOMAIN worker
  /\ worker[w].phase = "captured"
  /\ LET pending == {f \in fills : /\ f.status = "pending"
                                   /\ orders[f.taker].match = worker[w].match}
     IN  PutWorker(w, [worker[w] EXCEPT !.phase = "fills",
                                        !.pending = {Key(f) : f \in pending}])
  /\ UNCHANGED <<matches, wallets, orders, fills, nextId, tx, seen, cashouts>>

\* Replaces a fill by its settled form.
Close(f, status, commission) ==
  fills' = (fills \ {f}) \cup
             {[f EXCEPT !.status = status, !.commission = commission]}

\* What both sides reserved for this fill, by each order's own odds.
BackRelease(f) == Exposure(orders[BackOrder(f)], f.stake)
LayRelease_FillOdds(f) == f.stake * (f.odds - 1)
LayRelease(f)  == Exposure(orders[LayOrder(f)], f.stake)

settle_fill(f, result) ==
  LET backer     == orders[BackOrder(f)].user
      layer      == orders[LayOrder(f)].user
      backWon    == orders[f.taker].selection = result
      profit     == IF backWon THEN f.stake * (f.odds - 1) ELSE f.stake
      winner     == IF backWon THEN backer ELSE layer
      moved(u)   == IF u = winner THEN NetWin(profit) ELSE -profit
  IN  /\ wallets' = [wallets EXCEPT
           ![backer] = [balance  |-> @.balance + moved(backer),
                        reserved |-> @.reserved - BackRelease(f)],
           ![layer]  = [balance  |-> @.balance + moved(layer),
                        reserved |-> @.reserved - LayRelease(f)]]
      /\ Close(f, IF backWon THEN "back_won" ELSE "lay_won", Commission(profit))

void_fill(f) ==
  /\ wallets' = [wallets EXCEPT
       ![orders[BackOrder(f)].user].reserved = @ - BackRelease(f),
       ![orders[LayOrder(f)].user].reserved  = @ - LayRelease(f)]
  /\ Close(f, "void", 0)

AlreadySettled_Unchecked(f) == FALSE

AlreadySettled(f) == f.status # "pending"

\* The next fill of the list, in one transaction: a fill that is no longer
\* pending is skipped.
SettleFill(w) ==
  /\ w \in DOMAIN worker
  /\ worker[w].phase = "fills"
  /\ \E f \in fills :
       /\ Key(f) \in worker[w].pending
       /\ IF AlreadySettled(f) THEN UNCHANGED <<wallets, fills>>
          ELSE /\ ~WalletLocked(orders[f.taker].user)
               /\ ~WalletLocked(orders[f.maker].user)
               /\ IF worker[w].status = "cancelled" THEN void_fill(f)
                  ELSE settle_fill(f, worker[w].result)
       /\ PutWorker(w, [worker[w] EXCEPT !.pending = @ \ {Key(f)}])
  /\ UNCHANGED <<matches, orders, nextId, tx, seen, cashouts>>

ListOrders(w) ==
  /\ w \in DOMAIN worker
  /\ worker[w].phase = "fills"
  /\ worker[w].pending = {}
  /\ LET open == {i \in DOMAIN orders : /\ orders[i].status = "open"
                                        /\ orders[i].match = worker[w].match}
     IN  PutWorker(w, [worker[w] EXCEPT !.phase = "orders", !.open = open])
  /\ UNCHANGED <<matches, wallets, orders, fills, nextId, tx, seen, cashouts>>

\* The next order of the list: release its remainder and make it terminal.
ReleaseOrder(w) ==
  /\ w \in DOMAIN worker
  /\ worker[w].phase = "orders"
  /\ \E i \in worker[w].open :
       /\ ~RowLocked(i)
       /\ IF orders[i].status # "open" THEN UNCHANGED <<wallets, orders>>
          ELSE /\ Unmatched(orders[i]) > 0 => ~WalletLocked(orders[i].user)
               /\ wallets' = [wallets EXCEPT ![orders[i].user].reserved =
                    @ - Exposure(orders[i], Unmatched(orders[i]))]
               /\ orders' = [orders EXCEPT ![i].status =
                    IF worker[w].status = "cancelled" THEN "void" ELSE "settled"]
       /\ PutWorker(w, [worker[w] EXCEPT !.open = @ \ {i}])
  /\ UNCHANGED <<matches, fills, nextId, tx, seen, cashouts>>

FinishSettlement(w) ==
  /\ w \in DOMAIN worker
  /\ worker[w].phase = "orders"
  /\ worker[w].open = {}
  /\ StopWorker(w)
  /\ UNCHANGED <<matches, wallets, orders, fills, nextId, tx, seen, cashouts>>

\* The process settling the match dies between two of its transactions.
Crash(w) ==
  /\ w \in DOMAIN worker
  /\ StopWorker(w)
  /\ UNCHANGED <<matches, wallets, orders, fills, nextId, tx, seen, cashouts>>

-----------------------------------------------------------------------------

SessionStep(s) ==
  \/ PlaceCheck(s)
  \/ PlaceReserve(s)
  \/ PlaceReject(s)
  \/ LockBook(s)
  \/ MatchNext(s)
  \/ Commit(s)
  \/ Abort(s)
  \/ \E i \in OrderIds : CashOutWalk(s, i)
  \/ CashOutReserve(s)
  \/ CashOutGiveUp(s)

WorkerStep(w) ==
  \/ \E m \in Matches : \/ \E r \in Results : FinishMatch(w, m, r)
                        \/ CancelMatch(w, m)
                        \/ SettleTask(w, m)
  \/ ListFills(w)
  \/ SettleFill(w)
  \/ ListOrders(w)
  \/ ReleaseOrder(w)
  \/ FinishSettlement(w)
  \/ Crash(w)

Next ==
  \/ \E s \in Sessions : SessionStep(s)
  \/ \E w \in Workers : WorkerStep(w)
  \/ \E i \in OrderIds : cancel_order(i)
  \/ \E m \in Matches : MarkLive(m) \/ EditStatus(m) \/ FinishUnscored(m)

Spec == Init /\ [][Next]_vars

\* Gunicorn and the database finish the requests they started, a settlement
\* goes on until it ends or dies, and beat starts one again every 5 minutes.
Fairness ==
  /\ \A s \in Sessions :
       /\ WF_vars(PlaceReserve(s) \/ PlaceReject(s) \/ LockBook(s))
       /\ WF_vars(MatchNext(s) \/ Commit(s))
       /\ WF_vars(CashOutReserve(s) \/ CashOutGiveUp(s))
  /\ \A w \in Workers :
       /\ WF_vars(ListFills(w) \/ SettleFill(w) \/ ListOrders(w))
       /\ WF_vars(ReleaseOrder(w) \/ FinishSettlement(w))
  /\ \A m \in Matches : WF_vars(\E w \in Workers : SettleTask(w, m))

FairSpec == Spec /\ Fairness

-----------------------------------------------------------------------------
(* Properties *)

TypeOK ==
  /\ matches \in [Matches -> [status: Statuses, result: Results \cup {NoResult}]]
  /\ wallets \in [Users -> [balance: Int, reserved: Int]]
  /\ DOMAIN orders \subseteq OrderIds
  /\ \A i \in DOMAIN orders : orders[i] \in Order
  /\ fills \subseteq Fill
  /\ nextId \in Nat \ {0}
  /\ DOMAIN tx \subseteq Sessions
  /\ \A s \in DOMAIN tx : tx[s] \in Tx
  /\ DOMAIN worker \subseteq Workers
  /\ \A w \in DOMAIN worker : worker[w] \in Settlement
  /\ DOMAIN seen = DOMAIN orders

\* What a user has at risk: the unmatched part of the open orders and the
\* pending fills, each priced by the order's own odds.
AtRisk(u) ==
  LET open == {i \in DOMAIN orders : orders[i].user = u /\ orders[i].status = "open"}
      back == {f \in fills : f.status = "pending" /\ orders[BackOrder(f)].user = u}
      lay  == {f \in fills : f.status = "pending" /\ orders[LayOrder(f)].user = u}
  IN  SumFunction([i \in open |-> Exposure(orders[i], Unmatched(orders[i]))])
        + SumFunction([f \in back |-> BackRelease(f)])
        + SumFunction([f \in lay |-> LayRelease(f)])

\* The reservation of every wallet is exactly what its owner has at risk,
\* through matching, cancelling, cash-out, settlement, crashes and late
\* orders: releases are exactly balanced to what was reserved
\* (_exposure_rate, place_order, cancel_order, _settle_fill, _void_fill).
ReservedMatchesExposure == \A u \in Users : wallets[u].reserved = AtRisk(u)

\* However a match ends, no wallet holds less than it has reserved by more
\* than half a unit for each point of odds, what capping a cash-out can round
\* up: a fill's loss never exceeds what the loser reserved for it, although
\* the loss uses the fill's odds and the reservation the order's
\* (_settle_fill, cash_out_order).
Solvent ==
  \A u \in Users : 2 * (wallets[u].reserved - wallets[u].balance) < MaxOdds

\* Every fill is at the resting order's price, no worse than either side
\* asked for, between two users on opposite sides of one market (_match_order).
PriceProtection ==
  \A f \in fills :
    /\ f.odds = orders[f.maker].odds
    /\ orders[BackOrder(f)].odds <= f.odds
    /\ f.odds <= orders[LayOrder(f)].odds
    /\ orders[f.taker].side # orders[f.maker].side
    /\ orders[f.taker].user # orders[f.maker].user
    /\ SameMarket(orders[f.taker], orders[f.maker])

\* Concurrent takers never share out more of an order than its stake, and its
\* matched stake is exactly what its fills add up to (_match_order).
MatchedIsFilled ==
  \A i \in DOMAIN orders :
    /\ orders[i].matched <= orders[i].stake
    /\ orders[i].matched =
         SumFunction([f \in {g \in fills : i \in {g.taker, g.maker}} |-> f.stake])

\* Price-time priority: an order that traded with a resting order left nothing
\* of the better ones its query saw, unless they closed (_match_order).
PriceTimePriority ==
  \A f \in fills : \A j \in seen[f.taker] :
    Precedes(orders[f.taker].side, j, f.maker)
      => Unmatched(orders[j]) = 0 \/ orders[j].status # "open"

Crossed(i, j) ==
  /\ i < j
  /\ orders[i].status = "open" /\ orders[j].status = "open"
  /\ Unmatched(orders[i]) > 0 /\ Unmatched(orders[j]) > 0
  /\ i \in Compatible(orders[j])

\* Two orders that could trade rest side by side only if the younger one's
\* matching query could not see the older one: its transaction had not
\* committed yet (place_order, _match_order).
CrossedOnlyIfUnseen ==
  \A i, j \in DOMAIN orders : Crossed(i, j) => i \notin seen[j]

\* Money only changes hands: the balances and the commission taken always add
\* up to what was there at the start (_settle_fill).
MoneyConserved ==
  SumFunction([u \in Users |-> wallets[u].balance])
    + SumFunction([f \in fills |-> f.commission])
    = SumFunction(InitialBalance)

\* A fill is settled at most once, and keeps its parties, stake and odds: two
\* settlements of one match, a repeated task or a changed score cannot settle
\* it again (_settle_fill, _void_fill).
FillsSettleOnce ==
  [][\A f \in fills :
       \E g \in fills' :
         /\ [f EXCEPT !.status = g.status, !.commission = g.commission] = g
         /\ f.status # "pending" => g = f]_vars

LegFills(c) == {f \in fills : f.taker = c.leg}

CoveredFills(c) == {f \in fills : Key(f) \in c.covered}

\* A full cash-out whose matching query saw no order that the walk had not
\* locked makes the user's gross result the same whatever the outcome: both
\* legs have the same stake times odds, up to the half unit of stake that
\* quantize rounds (cash_out_order, _simulate_cash_out_walk, _match_order).
CashOutBalanced ==
  \A c \in cashouts :
    c.full /\ seen[c.leg] \subseteq c.walked
      => LET gap == Notional(CoveredFills(c)) - Notional(LegFills(c))
         IN  2 * gap \in -orders[c.leg].odds .. orders[c.leg].odds

Drained(m) ==
  /\ \A i \in DOMAIN orders :
       orders[i].match = m => orders[i].status # "open" \/ Unmatched(orders[i]) = 0
  /\ \A f \in fills : orders[f.taker].match = m => f.status # "pending"

\* A settlement dies with something left to do: not at its last step.
Dies(w) == Crash(w) /\ ~FinishSettlement(w)

CrashesEnd == <>[][\A w \in Workers : ~Dies(w)]_vars

\* Once a match stays finished with scores and settlements stop dying, every
\* fill of it is settled and every reservation released, the late orders'
\* included.
FinishedMatchDrains ==
  CrashesEnd =>
    \A m \in Matches : (<>[]Scored(m)) => <>[]Drained(m)

=============================================================================
