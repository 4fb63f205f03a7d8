------------------------------- MODULE Casino -------------------------------
(***************************************************************************)
(* The casino gateway (apps/casino/services.py and views.py) on the wallet *)
(* of one player and one game: launches that hand money over, the settle   *)
(* notifications of a provider that holds it, and the debits and credits   *)
(* of a provider that plays on the live wallet.  Both providers repeat     *)
(* what they report, in any order, and lose answers; a request may die     *)
(* between two of its transactions.  Amounts are in hundredths.            *)
(***************************************************************************)
EXTENDS Integers, Sequences, FiniteSets, Functions, SequencesExt

CONSTANTS
  Rupees,          \* whether the wallet is in rupees
  Rates,           \* USD to PKR rates, in hundredths
  InitialBalance,  \* what the wallet holds at the start
  MaxLaunch,       \* CasinoConfig.max_launch_balance
  Launches,        \* requests for a game of a provider that is handed money
  LaunchUsd,       \* what each asks to hand over
  MaxSeamless,     \* bound: launches with a provider on the live wallet
  Rounds,          \* serial numbers of settled rounds
  WinUsd,          \* what each round won
  Settlers,        \* threads serving settle notifications
  Calls,           \* call_ids of the provider on the live wallet
  CallOf,          \* each call: its round, kind and amount
  Bets,            \* sports bets the player places meanwhile
  Stake            \* their stakes

CallKinds == {"debit", "bonus", "credit", "rollback"}

Call == [round: Nat, kind: CallKinds, usd: Nat]

ASSUME CasinoAssumption ==
  /\ Rupees \in BOOLEAN
  /\ Rates \subseteq Nat \ {0}
  /\ InitialBalance \in Nat
  /\ MaxLaunch \in Nat
  /\ IsFiniteSet(Launches)
  /\ LaunchUsd \in [Launches -> Nat]
  /\ MaxSeamless \in Nat
  /\ WinUsd \in [Rounds -> Nat]
  /\ CallOf \in [Calls -> Call]
  /\ Stake \in [Bets -> Nat \ {0}]

VARIABLES
  rate,       \* FxRateConfig.usd_pkr_rate
  balance,    \* Wallet.balance
  reserved,   \* Wallet.reserved_balance
  ledger,     \* the WalletTransaction rows: amounts, on the entries there are
  launch,     \* how far each launch request is, and what it reserved
  sessions,   \* CasinoSession rows, oldest first: a launch, or Seamless
  held,       \* launches whose money the provider believes it holds
  rows,       \* serial numbers of the CasinoRoundSettlement rows
  settling,   \* notifications between the serial check and the insert
  events,     \* CasinoWalletEvent rows by id: the call and its wallet_amount
  answers     \* what the provider knows of each call

wallet == <<balance, reserved, ledger>>
upfront == <<launch, sessions, held, rows, settling>>
seamless == <<events, answers>>

vars == <<rate, wallet, upfront, seamless>>

-----------------------------------------------------------------------------

Seamless == "seamless"

Entries == ({"launch"} \X Launches) \cup ({"round"} \X Rounds)
             \cup ({"call"} \X Calls) \cup ({"bet"} \X Bets)

LaunchStages == {"new", "calling", "confirmed", "failed", "open", "released",
                 "dead"}

\* The stages in which a launch has money reserved.
Holding == {"calling", "confirmed", "failed", "dead"}

Event == [call: Calls, amount: Nat]

Idle == [round |-> 0, session |-> 0]

\* a / 100 rounded half-even, as quantize does.
Cents(a) ==
  LET q == a \div 100
      r == a % 100
  IN  IF r > 50 \/ (r = 50 /\ q % 2 = 1) THEN q + 1 ELSE q

\* convert_usd_to_wallet_currency
Quote(usd) == IF Rupees THEN Cents(usd * rate) ELSE usd

Available == balance - reserved

Init ==
  /\ rate \in Rates
  /\ balance = InitialBalance
  /\ reserved = 0
  /\ ledger = [e \in {} |-> 0]
  /\ launch = [l \in Launches |-> [at |-> "new", amount |-> 0]]
  /\ sessions = <<>>
  /\ held = {}
  /\ rows = {}
  /\ settling = [s \in Settlers |-> Idle]
  /\ events = <<>>
  /\ answers = [c \in Calls |-> "unsent"]

\* A WalletTransaction row, and the change of the balance it records.
Post(entry, amount) ==
  /\ balance' = balance + amount
  /\ ledger' = [e \in DOMAIN ledger \cup {entry} |->
                  IF e = entry THEN amount ELSE ledger[e]]

-----------------------------------------------------------------------------
(* Launching: launch_game.  A launch that is refused, because the casino, the *)
(* brand or the game is off or the provider is out, is not made.            *)

\* A seamless provider is handed nothing: the wallet is not touched.
OpenSeamless ==
  /\ Len(SelectSeq(sessions, LAMBDA k : k = Seamless)) < MaxSeamless
  /\ sessions' = Append(sessions, Seamless)
  /\ UNCHANGED <<rate, wallet, launch, held, rows, settling, seamless>>

\* The first transaction reserves the amount, at the rate read just before.
Reserve(l) ==
  /\ launch[l].at = "new"
  /\ LaunchUsd[l] > 0
  /\ LaunchUsd[l] <= MaxLaunch
  /\ Available >= Quote(LaunchUsd[l])
  /\ reserved' = reserved + Quote(LaunchUsd[l])
  /\ launch' = [launch EXCEPT ![l] = [at |-> "calling",
                                      amount |-> Quote(LaunchUsd[l])]]
  /\ UNCHANGED <<rate, balance, ledger, sessions, held, rows, settling,
                 seamless>>

\* The provider opens the game or refuses; an answer that is lost is an
\* exception all the same.
CallProvider(l) ==
  /\ launch[l].at = "calling"
  /\ \E answer \in {"url", "refused", "lost"} :
       /\ held' = IF answer = "refused" THEN held ELSE held \cup {l}
       /\ launch' = [launch EXCEPT
            ![l].at = IF answer = "url" THEN "confirmed" ELSE "failed"]
  /\ UNCHANGED <<rate, wallet, sessions, rows, settling, seamless>>

Unreserved(l) == reserved - launch[l].amount

Release_Nothing(l) ==
  /\ launch[l].at = "failed"
  /\ launch' = [launch EXCEPT ![l].at = "released"]
  /\ UNCHANGED <<rate, wallet, sessions, held, rows, settling, seamless>>

\* The except branch.
Release(l) ==
  /\ launch[l].at = "failed"
  /\ reserved' = Unreserved(l)
  /\ launch' = [launch EXCEPT ![l].at = "released"]
  /\ UNCHANGED <<rate, balance, ledger, sessions, held, rows, settling,
                 seamless>>

\* The second transaction: the reservation becomes a debit and a session.
Open(l) ==
  /\ launch[l].at = "confirmed"
  /\ reserved' = Unreserved(l)
  /\ Post(<<"launch", l>>, -launch[l].amount)
  /\ sessions' = Append(sessions, l)
  /\ launch' = [launch EXCEPT ![l].at = "open"]
  /\ UNCHANGED <<rate, held, rows, settling, seamless>>

\* The process dies between two of them: what it reserved stays reserved.
Die(l) ==
  /\ launch[l].at \in {"calling", "confirmed", "failed"}
  /\ launch' = [launch EXCEPT ![l].at = "dead"]
  /\ UNCHANGED <<rate, wallet, sessions, held, rows, settling, seamless>>

-----------------------------------------------------------------------------
(* Settle notifications: handle_round_settlement.  A provider that holds    *)
(* money reports each round until it is answered with success.              *)

Locked(k) == \E s \in Settlers : settling[s].session = k

Latest == Len(sessions)

LockSession_Funded(s, r) ==
  /\ settling[s] = Idle
  /\ held # {}
  /\ Latest > 0
  /\ sessions[Latest] # Seamless
  /\ ~Locked(Latest)
  /\ r \notin rows
  /\ settling' = [settling EXCEPT ![s] = [round |-> r, session |-> Latest]]
  /\ UNCHANGED <<rate, wallet, launch, sessions, held, rows, seamless>>

\* The newest open session is locked, and the serial number looked up.  Nothing
\* closes a session.
LockSession(s, r) ==
  /\ settling[s] = Idle
  /\ held # {}
  /\ Latest > 0
  /\ ~Locked(Latest)
  /\ r \notin rows
  /\ settling' = [settling EXCEPT ![s] = [round |-> r, session |-> Latest]]
  /\ UNCHANGED <<rate, wallet, launch, sessions, held, rows, seamless>>

Insertable_Unconstrained(r) == TRUE

\* The unique constraint on provider_serial_number.
Insertable(r) == r \notin rows

\* The row, and the win if there is one; a transaction whose insert fails is
\* rolled back.
InsertRound(s) ==
  LET r == settling[s].round
      win == Quote(WinUsd[r])
  IN  /\ settling[s] # Idle
      /\ settling' = [settling EXCEPT ![s] = Idle]
      /\ rows' = rows \cup {r}
      /\ IF Insertable(r) /\ win > 0
         THEN Post(<<"round", r>>, win)
         ELSE UNCHANGED <<balance, ledger>>
      /\ UNCHANGED <<rate, reserved, launch, sessions, held, seamless>>

SettlerDies(s) ==
  /\ settling[s] # Idle
  /\ settling' = [settling EXCEPT ![s] = Idle]
  /\ UNCHANGED <<rate, wallet, launch, sessions, held, rows, seamless>>

-----------------------------------------------------------------------------
(* Wallet calls: handle_waija_wallet_event.  A round is a debit, then a      *)
(* credit of what it won, or a rollback if the provider gave it up.          *)

Recorded == {events[i].call : i \in DOMAIN events}

IsDebit(c) == CallOf[c].kind \in {"debit", "bonus"}

DebitOf(c, d) == IsDebit(d) /\ CallOf[d].round = CallOf[c].round

MayBeSent(c) ==
  CASE IsDebit(c) -> sessions # <<>>
    [] CallOf[c].kind = "credit" ->
         \E d \in Calls : DebitOf(c, d) /\ answers[d] = "ok"
    [] CallOf[c].kind = "rollback" ->
         \E d \in Calls : DebitOf(c, d) /\ answers[d] \in {"sent", "ok"}

Send(c) ==
  /\ answers[c] = "unsent"
  /\ MayBeSent(c)
  /\ answers' = [answers EXCEPT ![c] = "sent"]
  /\ UNCHANGED <<rate, wallet, upfront, events>>

\* The answer reaches the provider, which listens to the first, or is lost.
Answer(c, result) ==
  \/ UNCHANGED answers
  \/ /\ answers[c] = "sent"
     /\ answers' = [answers EXCEPT ![c] = result]

Record(c) == events' = Append(events, [call |-> c, amount |-> Quote(CallOf[c].usd)])

Signed(c) == IF IsDebit(c) THEN -Quote(CallOf[c].usd) ELSE Quote(CallOf[c].usd)

\* Already applied: safe to deliver again.
DeliverAgain(c) ==
  /\ answers[c] # "unsent"
  /\ c \in Recorded
  /\ Answer(c, "ok")
  /\ UNCHANGED <<rate, wallet, upfront, events>>

Bounce_Accepted(c) ==
  /\ answers[c] # "unsent"
  /\ c \notin Recorded
  /\ CallOf[c].kind = "debit"
  /\ Available < Quote(CallOf[c].usd)
  /\ Answer(c, "ok")
  /\ UNCHANGED <<rate, wallet, upfront, events>>

\* A debit the wallet cannot cover is answered so, and not recorded.
Bounce(c) ==
  /\ answers[c] # "unsent"
  /\ c \notin Recorded
  /\ CallOf[c].kind = "debit"
  /\ Available < Quote(CallOf[c].usd)
  /\ Answer(c, "bounced")
  /\ UNCHANGED <<rate, wallet, upfront, events>>

\* A free round's debit never touches cash.
RecordBonus(c) ==
  /\ answers[c] # "unsent"
  /\ c \notin Recorded
  /\ CallOf[c].kind = "bonus"
  /\ Record(c)
  /\ Answer(c, "ok")
  /\ UNCHANGED <<rate, wallet, upfront>>

Apply(c) ==
  /\ answers[c] # "unsent"
  /\ c \notin Recorded
  /\ CallOf[c].kind # "bonus"
  /\ CallOf[c].kind = "debit" => Available >= Quote(CallOf[c].usd)
  /\ Post(<<"call", c>>, Signed(c))
  /\ Record(c)
  /\ Answer(c, "ok")
  /\ UNCHANGED <<rate, reserved, upfront>>

-----------------------------------------------------------------------------
(* The rest of the system *)

\* A sports bet looks at the balance, not at what is available.
PlaceBet(b) ==
  /\ <<"bet", b>> \notin DOMAIN ledger
  /\ balance >= Stake[b]
  /\ Post(<<"bet", b>>, -Stake[b])
  /\ UNCHANGED <<rate, reserved, upfront, seamless>>

RefreshRate ==
  /\ \E r \in Rates : rate' = r
  /\ UNCHANGED <<wallet, upfront, seamless>>

-----------------------------------------------------------------------------

LaunchStep(l) ==
  \/ Reserve(l)
  \/ CallProvider(l)
  \/ Release(l)
  \/ Open(l)
  \/ Die(l)

SettleStep(s) ==
  \/ \E r \in Rounds : LockSession(s, r)
  \/ InsertRound(s)
  \/ SettlerDies(s)

CallStep(c) ==
  \/ Send(c)
  \/ DeliverAgain(c)
  \/ Bounce(c)
  \/ RecordBonus(c)
  \/ Apply(c)

Next ==
  \/ OpenSeamless
  \/ \E l \in Launches : LaunchStep(l)
  \/ \E s \in Settlers : SettleStep(s)
  \/ \E c \in Calls : CallStep(c)
  \/ \E b \in Bets : PlaceBet(b)
  \/ RefreshRate

Spec == Init /\ [][Next]_vars

\* A notification is repeated until it succeeds, so some thread gets to it in
\* the end, and a thread that runs goes on.
Fairness ==
  /\ \A r \in Rounds : SF_vars(\E s \in Settlers : LockSession(s, r))
  /\ \A s \in Settlers : WF_vars(InsertRound(s))

FairSpec == Spec /\ Fairness

-----------------------------------------------------------------------------
(* Properties *)

TypeOK ==
  /\ rate \in Rates
  /\ balance \in Int
  /\ reserved \in Nat
  /\ DOMAIN ledger \subseteq Entries
  /\ \A e \in DOMAIN ledger : ledger[e] \in Int
  /\ launch \in [Launches -> [at: LaunchStages, amount: Nat]]
  /\ sessions \in Seq(Launches \cup {Seamless})
  /\ held \subseteq Launches
  /\ rows \subseteq Rounds
  /\ settling \in [Settlers -> [round: Rounds, session: Nat \ {0}] \cup {Idle}]
  /\ events \in Seq(Event)
  /\ answers \in [Calls -> {"unsent", "sent", "ok", "bounced"}]

\* What is reserved is what launches under way have reserved, and those that
\* died: however they interleave, an answer or an error gives each its own back
\* once (launch_game).
ReservedIsInFlight ==
  reserved = SumFunctionOnSet([l \in Launches |-> launch[l].amount],
                              {l \in Launches : launch[l].at \in Holding})

\* The provider is told a call succeeded only if it is recorded, and a recorded
\* one moved money unless it is a free round's debit; nothing else did
\* (handle_waija_wallet_event).
AnswersAreTrue ==
  \A c \in Calls :
    /\ answers[c] = "ok" => c \in Recorded
    /\ (<<"call", c>> \in DOMAIN ledger)
         <=> (c \in Recorded /\ CallOf[c].kind # "bonus")

RoundOf(e) == CallOf[e.call].round

Exposure_AnyDebit ==
  IF events = <<>> THEN 0
  ELSE LET e == Last(events)
       IN  IF /\ IsDebit(e.call)
              /\ \A i \in DOMAIN events :
                   RoundOf(events[i]) = RoundOf(e) => IsDebit(events[i].call)
           THEN e.amount
           ELSE 0

\* get_wallet_and_exposure_status: what the player sees at risk.
Exposure ==
  IF events = <<>> THEN 0
  ELSE LET e == Last(events)
       IN  IF /\ CallOf[e.call].kind = "debit"
              /\ \A i \in DOMAIN events :
                   RoundOf(events[i]) = RoundOf(e) => IsDebit(events[i].call)
           THEN e.amount
           ELSE 0

RoundNet(n) ==
  SumFunctionOnSet(ledger,
    {e \in DOMAIN ledger : e[1] = "call" /\ CallOf[e[2]].round = n})

\* What the player is shown at risk is what some round took and has not given
\* back, whatever order debits, credits, rollbacks and free rounds arrive in.
ExposureIsAtRisk ==
  Exposure > 0 => \E c \in Recorded : RoundNet(CallOf[c].round) = -Exposure

\* The wallet's promise: each launch, round and call moves money once.
Wallet == INSTANCE WalletLedger WITH
            Opening <- InitialBalance, cash <- balance, posted <- ledger

LedgerIsKept == Wallet!Spec

DeathsEnd == <>[][\A s \in Settlers : ~SettlerDies(s)]_vars

\* A provider that repeats its notifications gets every round settled once
\* there is a session, though notifications wait for each other's lock on the
\* newest session while newer ones are opened (handle_round_settlement).
RoundsAreSettled ==
  DeathsEnd =>
    \A r \in Rounds : (held # {} /\ sessions # <<>>) ~> (r \in rows)

=============================================================================
