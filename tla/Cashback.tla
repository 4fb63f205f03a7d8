------------------------------ MODULE Cashback ------------------------------
(***************************************************************************)
(* Loss cashback (apps/cashback/services.py) on the wallet of one player,  *)
(* with the bets, parlays and exchange orders that earn it and wager it:   *)
(* a lost stake is credited in part, the credit stays locked until enough  *)
(* has been staked, and may then be taken back.  Amounts are in units of   *)
(* the last decimal kept, rates in percent, multipliers in hundredths.     *)
(***************************************************************************)
EXTENDS Integers, Sequences, FiniteSets, Functions

CONSTANTS
  InitialBalance,  \* what the wallet holds at the start
  Bets,            \* single bets and parlays, staked from the balance
  Orders,          \* exchange orders that are matched, staked from what is free
  Stake,           \* the stake of each
  Configs,         \* values of CashbackConfig
  Overrides,       \* values of the user's three override columns
  Inherit,         \* an override that is None
  Withdrawals      \* amounts the player withdraws

Setting == [enabled: BOOLEAN, rate: Nat, multiplier: Nat, deduct: BOOLEAN]

ASSUME CashbackAssumption ==
  /\ InitialBalance \in Nat
  /\ IsFiniteSet(Bets)
  /\ IsFiniteSet(Orders)
  /\ Bets \cap Orders = {}
  /\ Stake \in [Bets \cup Orders -> Nat \ {0}]
  /\ Configs \subseteq Setting
  /\ Overrides \subseteq [enabled: BOOLEAN \cup {Inherit},
                          rate: Nat \cup {Inherit},
                          multiplier: Nat \cup {Inherit}]
  /\ Withdrawals \subseteq Nat \ {0}

VARIABLES
  config,     \* CashbackConfig
  override,   \* User.cashback_*_override
  balance,    \* Wallet.balance
  reserved,   \* Wallet.reserved_balance
  locked,     \* Wallet.locked_cashback_balance
  credits,    \* CashbackCredit rows, oldest first
  wagers,     \* how far each bet and order is
  clawed,     \* the CASHBACK_CLAWBACK rows, in total
  withdrawn,  \* the WITHDRAWAL rows, in total
  turnover    \* all that was ever staked

vars == <<config, override, balance, reserved, locked, credits, wagers, clawed,
          withdrawn, turnover>>

-----------------------------------------------------------------------------

Wagers == Bets \cup Orders

\* A row, with the turnover when it was made.
Credit == [amount: Nat, required: Nat, progress: Nat, deduct: BOOLEAN,
           status: {"locked", "unlocked"}, since: Nat]

\* a / 100 rounded half-even, as quantize does.
Cents(a) ==
  LET q == a \div 100
      r == a % 100
  IN  IF r > 50 \/ (r = 50 /\ q % 2 = 1) THEN q + 1 ELSE q

Least(a, b) == IF a < b THEN a ELSE b

Init ==
  /\ config \in Configs
  /\ override \in Overrides
  /\ balance = InitialBalance
  /\ reserved = 0
  /\ locked = 0
  /\ credits = <<>>
  /\ wagers = [w \in Wagers |-> "new"]
  /\ clawed = 0
  /\ withdrawn = 0
  /\ turnover = 0

-----------------------------------------------------------------------------
(* Wagering: record_wager *)

Advanced_Overall(c, stake) ==
  [c EXCEPT !.progress = Least(c.required, turnover + stake)]

\* Every locked credit gets the whole stake, up to what it requires.
Advanced(c, stake) ==
  [c EXCEPT !.progress = Least(c.required, c.progress + stake)]

Reached(c, stake) ==
  c.status = "locked" /\ Advanced(c, stake).progress = c.required

Wagered(c, stake) ==
  IF c.status = "unlocked" THEN c
  ELSE [Advanced(c, stake) EXCEPT
          !.status = IF Reached(c, stake) THEN "unlocked" ELSE "locked"]

Deducts_Today(c) == config.deduct

Deducts(c) == c.deduct

SumOf(rows) == SumFunction([i \in rows |-> credits[i].amount])

\* What is taken back stops at an empty wallet.  `left` is the balance when the
\* stake has been taken.
RecordWager(stake, left) ==
  LET unlocking == {i \in DOMAIN credits : Reached(credits[i], stake)}
      due == SumOf({i \in unlocking : Deducts(credits[i])})
      taken == Least(left, due)
  IN  /\ credits' = [i \in DOMAIN credits |-> Wagered(credits[i], stake)]
      /\ locked' = locked - SumOf(unlocking)
      /\ balance' = left - taken
      /\ clawed' = clawed + taken
      /\ turnover' = turnover + stake

PlaceBet_StaleWallet(b) ==
  /\ wagers[b] = "new"
  /\ balance >= Stake[b]
  /\ RecordWager(Stake[b], balance)
  /\ wagers' = [wagers EXCEPT ![b] = "open"]
  /\ UNCHANGED <<config, override, reserved, withdrawn>>

\* place_bet and place_parlay_bet look at the balance.
PlaceBet(b) ==
  /\ wagers[b] = "new"
  /\ balance >= Stake[b]
  /\ RecordWager(Stake[b], balance - Stake[b])
  /\ wagers' = [wagers EXCEPT ![b] = "open"]
  /\ UNCHANGED <<config, override, reserved, withdrawn>>

\* place_order looks at what is not reserved, and reserves.
PlaceOrder(o) ==
  /\ wagers[o] = "new"
  /\ balance - reserved >= Stake[o]
  /\ reserved' = reserved + Stake[o]
  /\ RecordWager(Stake[o], balance)
  /\ wagers' = [wagers EXCEPT ![o] = "open"]
  /\ UNCHANGED <<config, override, withdrawn>>

-----------------------------------------------------------------------------
(* Losing: credit_cashback_for_loss *)

Or(own, global) == IF own = Inherit THEN global ELSE own

\* get_effective_settings: a user's override, if there is one.
Effective ==
  [enabled    |-> Or(override.enabled, config.enabled),
   rate       |-> Or(override.rate, config.rate),
   multiplier |-> Or(override.multiplier, config.multiplier),
   deduct     |-> config.deduct]

Percentage(loss) ==
  IF Effective.enabled THEN Cents(loss * Effective.rate) ELSE 0

NewCredit(amount) ==
  LET required == Cents(amount * Effective.multiplier)
  IN  [amount |-> amount, required |-> required, progress |-> 0,
       deduct |-> Effective.deduct, since |-> turnover,
       status |-> IF required > 0 THEN "locked" ELSE "unlocked"]

CreditForLoss_AlwaysLocks(loss, left) ==
  LET amount == Percentage(loss)
      credit == NewCredit(amount)
  IN  /\ credits' = IF amount > 0 THEN Append(credits, credit) ELSE credits
      /\ balance' = left + amount
      /\ locked' = locked + amount

\* `left` is the balance when the loss has been taken.
CreditForLoss(loss, left) ==
  LET amount == Percentage(loss)
      credit == NewCredit(amount)
  IN  /\ credits' = IF amount > 0 THEN Append(credits, credit) ELSE credits
      /\ balance' = left + amount
      /\ locked' = IF credit.status = "locked" THEN locked + amount ELSE locked

\* settle_bet, _settle_parlay_if_ready: the stake went when the bet was made.
LoseBet(b) ==
  /\ wagers[b] = "open"
  /\ CreditForLoss(Stake[b], balance)
  /\ wagers' = [wagers EXCEPT ![b] = "lost"]
  /\ UNCHANGED <<config, override, reserved, clawed, withdrawn, turnover>>

WinBet(b) ==
  /\ wagers[b] = "open"
  /\ balance' = balance + 2 * Stake[b]
  /\ wagers' = [wagers EXCEPT ![b] = "won"]
  /\ UNCHANGED <<config, override, reserved, locked, credits, clawed, withdrawn,
                 turnover>>

\* _settle_fill: the loser pays now.
LoseOrder(o) ==
  /\ wagers[o] = "open"
  /\ reserved' = reserved - Stake[o]
  /\ CreditForLoss(Stake[o], balance - Stake[o])
  /\ wagers' = [wagers EXCEPT ![o] = "lost"]
  /\ UNCHANGED <<config, override, clawed, withdrawn, turnover>>

\* cancel_order and _void_fill; what was staked stays wagered.
CancelOrder(o) ==
  /\ wagers[o] = "open"
  /\ reserved' = reserved - Stake[o]
  /\ wagers' = [wagers EXCEPT ![o] = "cancelled"]
  /\ UNCHANGED <<config, override, balance, locked, credits, clawed, withdrawn,
                 turnover>>

-----------------------------------------------------------------------------

Withdrawable_Reserved == balance - locked

Withdrawable == balance - reserved - locked

\* withdraw_funds looks at withdrawable_balance.
Withdraw(amount) ==
  /\ Withdrawable >= amount
  /\ balance' = balance - amount
  /\ withdrawn' = withdrawn + amount
  /\ UNCHANGED <<config, override, reserved, locked, credits, wagers, clawed,
                 turnover>>

\* The administrator edits the program, or the player's part in it.
ChangeTerms ==
  /\ config' \in Configs
  /\ override' \in Overrides
  /\ UNCHANGED <<balance, reserved, locked, credits, wagers, clawed, withdrawn,
                 turnover>>

Next ==
  \/ \E b \in Bets : PlaceBet(b) \/ LoseBet(b) \/ WinBet(b)
  \/ \E o \in Orders : PlaceOrder(o) \/ LoseOrder(o) \/ CancelOrder(o)
  \/ \E amount \in Withdrawals : Withdraw(amount)
  \/ ChangeTerms

Spec == Init /\ [][Next]_vars

-----------------------------------------------------------------------------
(* Properties *)

TypeOK ==
  /\ config \in Configs
  /\ override \in Overrides
  /\ balance \in Int
  /\ reserved \in Nat
  /\ locked \in Nat
  /\ credits \in Seq(Credit)
  /\ wagers \in [Wagers -> {"new", "open", "lost", "won", "cancelled"}]
  /\ clawed \in Nat
  /\ withdrawn \in Nat
  /\ turnover \in Nat

\* The running total of the wallet is what its locked credits add up to, through
\* every order of losses, wagers and changes of the terms: what it withholds
\* from withdrawals is no more and no less (Wallet.withdrawable_balance).
LockedMatchesCredits ==
  locked = SumOf({i \in DOMAIN credits : credits[i].status = "locked"})

\* A credit's progress is all that was staked since it was given and nothing
\* before, and it unlocks when that reaches what it required then (record_wager).
UnlockedWasWagered ==
  \A i \in DOMAIN credits :
    LET c == credits[i]
    IN  /\ c.progress = Least(c.required, turnover - c.since)
        /\ (c.status = "unlocked") = (c.progress = c.required)

\* CashbackCredit's docstring: "a later admin settings change can never
\* retroactively alter an already-issued credit": only credits given to be taken
\* back are, once unlocked, and no more than was given.
ClawbackFollowsTerms ==
  clawed <= SumOf({i \in DOMAIN credits : /\ credits[i].status = "unlocked"
                                          /\ credits[i].deduct})

Staked == SumFunctionOnSet(Stake, {b \in Bets : wagers[b] # "new"})

\* Orders, withdrawals and losses keep what is reserved covered; only the stakes
\* of bets and what is taken back when a credit unlocks reach below it, and the
\* latter never empties the wallet further than to nothing (record_wager).
OnlyBetsAndClawbacksOverdraw ==
  /\ balance + Staked + clawed >= reserved
  /\ balance < 0 => \E o \in Orders : wagers[o] = "lost"

Returned == 2 * SumFunctionOnSet(Stake, {b \in Bets : wagers[b] = "won"})

LostOrders == SumFunctionOnSet(Stake, {o \in Orders : wagers[o] = "lost"})

\* Every credit and every clawback reaches the balance once, and nothing else
\* does but bets, orders and withdrawals.
BalanceExplained ==
  balance = InitialBalance - Staked + Returned - LostOrders - withdrawn
              + SumOf(DOMAIN credits) - clawed

=============================================================================
