------------------------------ MODULE Payments ------------------------------
(***************************************************************************)
(* Crypto deposits and withdrawals: apps/payments, the wallet mutations of *)
(* apps/wallet/services.py it calls and the reward packages a confirmed    *)
(* deposit earns (apps/rewards).  Every request is a sequence of           *)
(* transactions and calls to the provider, and may die between any two.    *)
(* Dollars and wallet amounts are in hundredths of their unit.             *)
(***************************************************************************)
EXTENDS Integers, FiniteSets, Functions, Sequences

CONSTANTS
  Users,               \* accounts with a wallet
  PkrUsers,            \* those whose wallet is in rupees
  Rates,               \* USD to PKR rates, in hundredths
  DepositRequests,     \* the create_deposit calls considered
  WithdrawalRequests,  \* the create_withdrawal_request calls considered
  Answers,             \* what the provider does with an automatic payout
  Packages,            \* the active reward packages
  Threshold,           \* RewardPackage.deposit_threshold
  Bonus,               \* RewardPackage.commission_rate_bonus
  Held,                \* reserved_balance + locked_cashback_balance
  InitialBalance,      \* what each wallet holds at the start
  Sessions,            \* threads serving users and the administrator
  Webhooks,            \* threads serving the provider's notifications
  MaxPayments,         \* bound: CryptoPayment rows ever inserted
  MaxRefs              \* bound: invoices and payouts the provider makes

PaymentRequest == [user: Users, usd: Nat]

AllAnswers == {"rejected", "lost", "pending", "completed", "failed"}

ASSUME PaymentsAssumption ==
  /\ PkrUsers \subseteq Users
  /\ Rates \subseteq Nat \ {0}
  /\ Rates # {}
  /\ DepositRequests \subseteq PaymentRequest
  /\ WithdrawalRequests \subseteq PaymentRequest
  /\ Answers \subseteq AllAnswers
  /\ IsFiniteSet(Packages)
  /\ Threshold \in [Packages -> Nat \ {0}]
  /\ Bonus \in [Packages -> Nat]
  /\ Held \in [Users -> Nat]
  /\ InitialBalance \in [Users -> Nat]
  /\ \A u \in Users : Held[u] <= InitialBalance[u]
  /\ Sessions \cap Webhooks = {}
  /\ MaxPayments \in Nat
  /\ MaxRefs \in Nat

VARIABLES
  rate,        \* FxRateConfig.usd_pkr_rate
  balance,     \* Wallet.balance
  payments,    \* CryptoPayment rows, a function on the ids in use
  ledger,      \* amounts of the WalletTransaction rows made for each payment
  claims,      \* packages of the UserRewardClaim rows
  commission,  \* User.commission_rate
  remote,      \* the provider's invoices and payouts, on the refs it gave out
  handler,     \* requests between two of their steps, on the busy threads
  codes        \* payout_session_<id>: payments with a batch awaiting its code

vars == <<rate, balance, payments, ledger, claims, commission, remote,
          handler, codes>>

wallets == <<balance, ledger, claims, commission>>

-----------------------------------------------------------------------------
(* Rows *)

PaymentIds == 1 .. MaxPayments
Refs == 1 .. MaxRefs

\* The id a withdrawal gives itself, which the provider is never told.
OwnRef == 0

Payment == [user: Users, kind: {"deposit", "withdrawal"}, usd: Nat, amount: Nat,
            status: {"pending", "completed", "failed"}, ref: Refs \cup {OwnRef}]

Remote == [kind: {"invoice", "payout"}, payment: PaymentIds \cup {0},
           state: {"open", "paid", "released", "returned", "failed"}]

Handler ==
       [op: {"invoiced"}, request: DepositRequests, ref: Refs]
  \cup [op: {"debited", "refused", "batching", "crediting"}, payment: PaymentIds]
  \cup [op: {"answered"}, payment: PaymentIds,
        status: {"pending", "completed", "failed"}]
  \cup [op: {"batched", "verifying", "verified"}, payment: PaymentIds, ref: Refs]

\* a / 100 rounded half-even, as quantize does.
Cents(a) ==
  LET q == a \div 100
      r == a % 100
  IN  IF r > 50 \/ (r = 50 /\ q % 2 = 1) THEN q + 1 ELSE q

\* convert_usd_to_wallet_currency
Quote(user, usd) == IF user \in PkrUsers THEN Cents(usd * rate) ELSE usd

Put(f, k, v) == [x \in DOMAIN f \cup {k} |-> IF x = k THEN v ELSE f[x]]

Drop(f, k) == [x \in DOMAIN f \ {k} |-> f[x]]

Init ==
  /\ rate \in Rates
  /\ balance = InitialBalance
  /\ payments = [p \in {} |-> {}]
  /\ ledger = [p \in {} |-> {}]
  /\ claims = [u \in Users |-> {}]
  /\ commission = [u \in Users |-> 0]
  /\ remote = [k \in {} |-> {}]
  /\ handler = [s \in {} |-> {}]
  /\ codes = [p \in {} |-> {}]

Idle(s) == s \notin DOMAIN handler

At(s, op) == s \in DOMAIN handler /\ handler[s].op = op

Pid(s) == handler[s].payment

Row(s) == payments[Pid(s)]

NextId == Cardinality(DOMAIN payments) + 1

NextRef == Cardinality(DOMAIN remote) + 1

Advance(s, h) == handler' = Put(handler, s, h)

Return(s) == handler' = Drop(handler, s)

SetStatus(p, status) == payments' = [payments EXCEPT ![p].status = status]

\* A payout the provider has accepted for payment p.
MakePayout(p, state) ==
  /\ NextRef \in Refs
  /\ remote' = Put(remote, NextRef,
                   [kind |-> "payout", payment |-> p, state |-> state])

-----------------------------------------------------------------------------
(* Deposits *)

\* create_deposit asks the provider for an invoice before it stores anything.
AskInvoice(s) ==
  /\ Idle(s)
  /\ NextRef \in Refs
  /\ \E r \in DepositRequests :
       /\ r.usd > 0
       /\ remote' = Put(remote, NextRef,
                        [kind |-> "invoice", payment |-> 0, state |-> "open"])
       /\ Advance(s, [op |-> "invoiced", request |-> r, ref |-> NextRef])
  /\ UNCHANGED <<rate, wallets, payments, codes>>

\* The amount the wallet will get is fixed here, at the rate of the moment.
StoreDeposit(s) ==
  /\ At(s, "invoiced")
  /\ NextId \in PaymentIds
  /\ LET r == handler[s].request
     IN  payments' = Put(payments, NextId,
           [user |-> r.user, kind |-> "deposit", usd |-> r.usd,
            amount |-> Quote(r.user, r.usd), status |-> "pending",
            ref |-> handler[s].ref])
  /\ ledger' = Put(ledger, NextId, <<>>)
  /\ Return(s)
  /\ UNCHANGED <<rate, balance, claims, commission, remote, codes>>

Pending_AnyStatus(p) == TRUE

Pending(p) == payments[p].status = "pending"

\* handle_deposit_success, up to its transaction: the row is read once.
ReadPending(s, k) ==
  /\ Idle(s)
  /\ k \in DOMAIN remote
  /\ remote[k].state = "paid"
  /\ \E p \in DOMAIN payments :
       /\ payments[p].ref = k
       /\ payments[p].kind = "deposit"
       /\ Pending(p)
       /\ Advance(s, [op |-> "crediting", payment |-> p])
  /\ UNCHANGED <<rate, wallets, payments, remote, codes>>

\* What the deposit rows made for a payment add up to: refunds of withdrawals
\* are among them.
Credits(rows) == SumFunctionOnSet(rows, {i \in DOMAIN rows : rows[i] > 0})

PaymentsOf(u) == {p \in DOMAIN payments : payments[p].user = u}

\* get_lifetime_deposit_total
LifetimeDeposits(book, u) ==
  SumFunction([p \in PaymentsOf(u) |-> Credits(book[p])])

Qualifying_BeforeDeposit(u, book) ==
  {k \in Packages : Threshold[k] <= LifetimeDeposits(ledger, u)}

Qualifying(u, book) ==
  {k \in Packages : Threshold[k] <= LifetimeDeposits(book, u)}

\* apply_reward_packages
ApplyRewards(u, book) ==
  LET new == Qualifying(u, book) \ claims[u]
  IN  /\ claims' = [claims EXCEPT ![u] = @ \cup new]
      /\ commission' = [commission EXCEPT
            ![u] = @ + SumFunctionOnSet(Bonus, new)]

\* The transaction of handle_deposit_success.  deposit_funds refuses an amount
\* that was rounded to nothing.
CreditDeposit(s) ==
  /\ At(s, "crediting")
  /\ Row(s).amount > 0
  /\ balance' = [balance EXCEPT ![Row(s).user] = @ + Row(s).amount]
  /\ ledger' = [ledger EXCEPT ![Pid(s)] = Append(@, Row(s).amount)]
  /\ ApplyRewards(Row(s).user, ledger')
  /\ SetStatus(Pid(s), "completed")
  /\ Return(s)
  /\ UNCHANGED <<rate, remote, codes>>

Failing_AllPending(k) == {p \in DOMAIN payments : Pending(p)}

Failing(k) == {p \in DOMAIN payments : payments[p].ref = k /\ Pending(p)}

\* PaymentWebhookView, told that an invoice or a payout failed.
MarkFailed(k) ==
  /\ k \in DOMAIN remote
  /\ remote[k].state \in {"failed", "returned"}
  /\ payments' = [p \in DOMAIN payments |->
                    IF p \in Failing(k)
                    THEN [payments[p] EXCEPT !.status = "failed"]
                    ELSE payments[p]]
  /\ UNCHANGED <<rate, wallets, remote, handler, codes>>

-----------------------------------------------------------------------------
(* Withdrawals *)

Withdrawable_Balance(u) == balance[u]

Withdrawable(u) == balance[u] - Held[u]

CanWithdraw(u, amount) == Withdrawable(u) >= amount

\* create_withdrawal_request, up to the end of its first transaction; that the
\* rate is read just before it is not told apart.
RequestWithdrawal(s) ==
  /\ Idle(s)
  /\ NextId \in PaymentIds
  /\ \E r \in WithdrawalRequests :
       LET amount == Quote(r.user, r.usd)
       IN  /\ amount > 0
           /\ CanWithdraw(r.user, amount)
           /\ balance' = [balance EXCEPT ![r.user] = @ - amount]
           /\ ledger' = Put(ledger, NextId, <<-amount>>)
           /\ payments' = Put(payments, NextId,
                [user |-> r.user, kind |-> "withdrawal", usd |-> r.usd,
                 amount |-> amount, status |-> "pending", ref |-> OwnRef])
           /\ Advance(s, [op |-> "debited", payment |-> NextId])
  /\ UNCHANGED <<rate, claims, commission, remote, codes>>

PayoutState(answer) ==
  CASE answer = "pending"   -> "open"
    [] answer = "completed" -> "released"
    [] answer = "failed"    -> "failed"
    [] answer = "lost"      -> "open"

\* The provider's create_withdrawal: refused, accepted but not heard of, or
\* accepted with a status.
CallProvider(s) ==
  /\ At(s, "debited")
  /\ \E answer \in Answers :
       /\ IF answer = "rejected" THEN UNCHANGED remote
          ELSE MakePayout(Pid(s), PayoutState(answer))
       /\ Advance(s, IF answer \in {"rejected", "lost"}
                     THEN [op |-> "refused", payment |-> Pid(s)]
                     ELSE [op |-> "answered", payment |-> Pid(s),
                           status |-> answer])
  /\ UNCHANGED <<rate, wallets, payments, codes>>

RefundOf_TodaysRate(row) == Quote(row.user, row.usd)

RefundOf(row) == row.amount

\* The except branch: the wallet gets the debit back.
Refund(s) ==
  /\ At(s, "refused")
  /\ balance' = [balance EXCEPT ![Row(s).user] = @ + RefundOf(Row(s))]
  /\ ledger' = [ledger EXCEPT ![Pid(s)] = Append(@, RefundOf(Row(s)))]
  /\ SetStatus(Pid(s), "failed")
  /\ Return(s)
  /\ UNCHANGED <<rate, claims, commission, remote, codes>>

\* The request saves the status its object has: that of the answer, or still
\* PENDING whatever became of the row.
RecordAnswer(s) ==
  /\ At(s, "answered")
  /\ SetStatus(Pid(s), handler[s].status)
  /\ Return(s)
  /\ UNCHANGED <<rate, wallets, remote, codes>>

-----------------------------------------------------------------------------
(* The administrator's two-step payout: admin_withdrawal_process_view *)

\* initiate_manual_payout reads a pending withdrawal and logs in.
InitiatePayout(s, p) ==
  /\ Idle(s)
  /\ p \in DOMAIN payments
  /\ payments[p].kind = "withdrawal"
  /\ Pending(p)
  /\ Advance(s, [op |-> "batching", payment |-> p])
  /\ UNCHANGED <<rate, wallets, payments, remote, codes>>

CreateBatch(s) ==
  /\ At(s, "batching")
  /\ MakePayout(Pid(s), "open")
  /\ Advance(s, [op |-> "batched", payment |-> Pid(s), ref |-> NextRef])
  /\ UNCHANGED <<rate, wallets, payments, codes>>

\* The batch's id goes to the row and to the administrator's session.
SaveBatch(s) ==
  /\ At(s, "batched")
  /\ payments' = [payments EXCEPT ![Pid(s)].ref = handler[s].ref]
  /\ codes' = Put(codes, Pid(s), handler[s].ref)
  /\ Return(s)
  /\ UNCHANGED <<rate, wallets, remote>>

\* confirm_manual_payout reads the withdrawal, whatever its status.
StartVerify(s, p) ==
  /\ Idle(s)
  /\ p \in DOMAIN codes
  /\ Advance(s, [op |-> "verifying", payment |-> p, ref |-> codes[p]])
  /\ UNCHANGED <<rate, wallets, payments, remote, codes>>

Verifiable_AnyBatch(k) == TRUE

\* A batch is released by its first right code, if it has not failed.
Verifiable(k) == remote[k].state = "open"

VerifyPayout(s) ==
  /\ At(s, "verifying")
  /\ Verifiable(handler[s].ref)
  /\ remote' = [remote EXCEPT
        ![handler[s].ref].state = IF @ = "open" THEN "released" ELSE @]
  /\ Advance(s, [handler[s] EXCEPT !.op = "verified"])
  /\ UNCHANGED <<rate, wallets, payments, codes>>

ConfirmPayout(s) ==
  /\ At(s, "verified")
  /\ SetStatus(Pid(s), "completed")
  /\ codes' = Drop(codes, Pid(s))
  /\ Return(s)
  /\ UNCHANGED <<rate, wallets, remote>>

-----------------------------------------------------------------------------
(* The rate, the provider and failures *)

\* refresh_fx_rate, when it gets a rate and no override is set.
RefreshRate ==
  /\ \E r \in Rates : rate' = r
  /\ UNCHANGED <<wallets, payments, remote, handler, codes>>

\* A user pays the invoice of a deposit he was shown.
PayInvoice(k) ==
  /\ k \in DOMAIN remote
  /\ remote[k].kind = "invoice"
  /\ remote[k].state = "open"
  /\ \E p \in DOMAIN payments : payments[p].ref = k
  /\ remote' = [remote EXCEPT ![k].state = "paid"]
  /\ UNCHANGED <<rate, wallets, payments, handler, codes>>

\* An invoice or a batch lapses, or a released payout comes back.
FailRemote(k) ==
  /\ k \in DOMAIN remote
  /\ remote[k].state \in {"open", "released"}
  /\ remote' = [remote EXCEPT
        ![k].state = IF @ = "open" THEN "failed" ELSE "returned"]
  /\ UNCHANGED <<rate, wallets, payments, handler, codes>>

\* The thread dies, or a call it makes fails: what it committed stays.
GiveUp(s) ==
  /\ s \in DOMAIN handler
  /\ Return(s)
  /\ UNCHANGED <<rate, wallets, payments, remote, codes>>

-----------------------------------------------------------------------------

SessionStep(s) ==
  \/ AskInvoice(s)
  \/ StoreDeposit(s)
  \/ RequestWithdrawal(s)
  \/ CallProvider(s)
  \/ Refund(s)
  \/ RecordAnswer(s)
  \/ \E p \in PaymentIds : InitiatePayout(s, p) \/ StartVerify(s, p)
  \/ CreateBatch(s)
  \/ SaveBatch(s)
  \/ VerifyPayout(s)
  \/ ConfirmPayout(s)
  \/ GiveUp(s)

WebhookStep(h) ==
  \/ \E k \in Refs : ReadPending(h, k)
  \/ CreditDeposit(h)
  \/ GiveUp(h)

Next ==
  \/ \E s \in Sessions : SessionStep(s)
  \/ \E h \in Webhooks : WebhookStep(h)
  \/ \E k \in Refs : MarkFailed(k) \/ PayInvoice(k) \/ FailRemote(k)
  \/ RefreshRate

Spec == Init /\ [][Next]_vars

\* The provider repeats a notification until it is answered with success, so a
\* thread gets to it in the end; a thread that runs goes on until it ends.
Fairness ==
  /\ \A h \in Webhooks : WF_vars(CreditDeposit(h))
  /\ \A k \in Refs : SF_vars(\E h \in Webhooks : ReadPending(h, k))

FairSpec == Spec /\ Fairness

-----------------------------------------------------------------------------
(* Properties *)

TypeOK ==
  /\ rate \in Rates
  /\ balance \in [Users -> Nat]
  /\ DOMAIN payments \subseteq PaymentIds
  /\ \A p \in DOMAIN payments : payments[p] \in Payment
  /\ DOMAIN ledger = DOMAIN payments
  /\ \A p \in DOMAIN ledger : ledger[p] \in Seq(Int)
  /\ claims \in [Users -> SUBSET Packages]
  /\ commission \in [Users -> Nat]
  /\ DOMAIN remote \subseteq Refs
  /\ \A k \in DOMAIN remote : remote[k] \in Remote
  /\ DOMAIN handler \subseteq Sessions \cup Webhooks
  /\ \A s \in DOMAIN handler : handler[s] \in Handler
  /\ DOMAIN codes \subseteq DOMAIN payments
  /\ \A p \in DOMAIN codes : codes[p] \in Refs

DebitedOnly(p) == ledger[p] = <<-payments[p].amount>>

GivenBack(p) == ledger[p] = <<-payments[p].amount, payments[p].amount>>

\* The provider took a payout of withdrawal p and did not pay it out, or got it
\* back.
PayoutFailed(p) ==
  \E k \in DOMAIN remote : /\ remote[k].payment = p
                           /\ remote[k].state \in {"failed", "returned"}

\* Money moves as it was quoted, and the statuses say how: a deposit's rows are of
\* the amount fixed when it was asked for, and there are some exactly when it is
\* completed; a withdrawal is debited once and given back at most once, in full,
\* whatever the rate has become, and not while it is pending; and the rows
\* explain the wallet (handle_deposit_success, create_withdrawal_request).
\* create_withdrawal_request promises that "the user must get their money back"
\* when there is no payout in flight.  What the code keeps of that is: a failed
\* withdrawal that is not given back is one whose payout the provider took and
\* then failed, in its answer or in a notification.
LedgerMatchesPayments ==
  /\ \A p \in DOMAIN payments :
       LET row == payments[p]
       IN  IF row.kind = "deposit"
           THEN /\ (ledger[p] # <<>>) = (row.status = "completed")
                /\ \A i \in DOMAIN ledger[p] : ledger[p][i] = row.amount
           ELSE /\ DebitedOnly(p) \/ GivenBack(p)
                /\ row.status = "pending" => DebitedOnly(p)
                /\ row.status = "failed" => GivenBack(p) \/ PayoutFailed(p)
  /\ \A u \in Users :
       balance[u] = InitialBalance[u]
                      + SumFunction([p \in PaymentsOf(u) |-> SumFunction(ledger[p])])

\* No sequence of withdrawals, refunds and deposits takes out what exchange
\* orders reserve or cashback locks (withdraw_funds, withdrawable_balance).
HeldIsKept == \A u \in Users : balance[u] >= Held[u]

\* apply_reward_packages' docstring: handle_deposit_success's "own
\* PENDING-status guard is what makes this safe to call exactly once per real
\* deposit": a paid invoice is credited at most once.
CreditedOnce ==
  \A p \in DOMAIN payments :
    payments[p].kind = "deposit" => Len(ledger[p]) <= 1

ConfirmedDeposits(u) ==
  SumFunction([p \in {q \in PaymentsOf(u) : /\ payments[q].kind = "deposit"
                                            /\ payments[q].status = "completed"}
                 |-> payments[p].amount])

\* A user has every package his confirmed deposits reach as soon as they are
\* confirmed, and none his deposit rows do not; each raised his commission once
\* (apply_reward_packages).
RewardsFollowDeposits ==
  \A u \in Users :
    /\ \A k \in Packages :
         /\ Threshold[k] <= ConfirmedDeposits(u) => k \in claims[u]
         /\ k \in claims[u] => Threshold[k] <= LifetimeDeposits(ledger, u)
    /\ commission[u] = SumFunctionOnSet(Bonus, claims[u])

\* A withdrawal is completed only if the provider let a payout of it go, however
\* often the administrator starts the two steps again and whichever batches
\* lapse meanwhile (confirm_manual_payout).
CompletedWasReleased ==
  \A p \in DOMAIN payments :
    payments[p].kind = "withdrawal" /\ payments[p].status = "completed"
      => \E k \in DOMAIN remote : /\ remote[k].payment = p
                                  /\ remote[k].state \in {"released", "returned"}

CrashesEnd == <>[][\A h \in Webhooks : ~GiveUp(h)]_vars

\* Once notifications stop dying, an invoice that was paid is credited, whatever
\* other invoices and payouts fail (PaymentWebhookView, handle_deposit_success).
PaidIsCredited ==
  CrashesEnd =>
    \A k \in Refs :
      (k \in DOMAIN remote /\ remote[k].state = "paid")
        ~> (\E p \in DOMAIN payments : /\ payments[p].ref = k
                                       /\ payments[p].status = "completed"
                                       /\ ledger[p] # <<>>)

=============================================================================
