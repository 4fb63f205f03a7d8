---------------------------- MODULE CasinoProofs ----------------------------
(*************************************************************************)
(* What holds of Casino for every value of its constants, any number of  *)
(* launches, rounds, calls and threads: it keeps the promise of          *)
(* WalletLedger, what it has reserved is what its launches hold, the     *)
(* provider is told the truth, and the exposure it shows is what         *)
(* unsettled rounds have at risk.                                        *)
(*************************************************************************)
EXTENDS Casino, SumProofs

\* What each entry of the ledger leaves behind for good.
Marked ==
  /\ \A l \in Launches : <<"launch", l>> \in DOMAIN ledger => launch[l].at = "open"
  /\ \A r \in Rounds : <<"round", r>> \in DOMAIN ledger => r \in rows
  /\ \A c \in Calls : <<"call", c>> \in DOMAIN ledger => c \in Recorded

Shapes ==
  /\ rate \in Rates
  /\ balance \in Int
  /\ launch \in [Launches -> [at: LaunchStages, amount: Nat]]
  /\ settling \in [Settlers -> [round: Rounds, session: Nat \ {0}] \cup {Idle}]
  /\ rows \subseteq Rounds
  /\ events \in Seq(Event)
  /\ sessions \in Seq(Launches \cup {Seamless})

IInv == Shapes /\ Marked

-----------------------------------------------------------------------------

\* Money is converted to whole hundredths.
LEMMA CentsNat == ASSUME NEW a \in Nat PROVE Cents(a) \in Nat
  BY SMT DEF Cents

LEMMA QuoteNat == ASSUME rate \in Rates, NEW usd \in Nat PROVE Quote(usd) \in Nat
<1>1. rate \in Nat /\ usd * rate \in Nat
  BY CasinoAssumption, SMT DEF CasinoAssumption
<1> QED
  BY <1>1, CentsNat DEF Quote

\* A posting of a new entry is a step of the wallet's promise.
LEMMA PostRefines ==
  ASSUME NEW e \in Entries, NEW amount \in Int, balance \in Int,
         e \notin DOMAIN ledger, Post(e, amount)
  PROVE  Wallet!Next
<1>1. balance' - balance = amount
  BY SMT DEF Post
<1>2. Wallet!Post(e)
  BY <1>1 DEF Post, Wallet!Post
<1> QED
  BY <1>2 DEF Wallet!Next

\* Recording a call keeps those recorded.
LEMMA RecordGrows ==
  ASSUME Shapes, NEW c \in Calls, Record(c)
  PROVE  /\ events' \in Seq(Event)
         /\ Recorded \subseteq Recorded'
         /\ c \in Recorded'
<1>1. CallOf[c].usd \in Nat
  BY CasinoAssumption DEF Call
<1>2. Quote(CallOf[c].usd) \in Nat
  BY <1>1, QuoteNat DEF Shapes
<1> DEFINE e == [call |-> c, amount |-> Quote(CallOf[c].usd)]
<1>3. e \in Event
  BY <1>2 DEF Event
<1>4. events' = Append(events, e)
  BY DEF Record
<1> HIDE DEF e
<1>5. /\ events' \in Seq(Event)
      /\ DOMAIN events' = 1 .. Len(events) + 1
      /\ \A i \in DOMAIN events : i \in DOMAIN events' /\ events'[i] = events[i]
      /\ Len(events) + 1 \in DOMAIN events'
      /\ events'[Len(events) + 1] = e
  BY <1>3, <1>4, SMT DEF Shapes
<1>6. e.call = c
  BY DEF e
<1> QED
  BY <1>5, <1>6 DEF Recorded

-----------------------------------------------------------------------------

LEMMA InitInv == Init => IInv
  BY CasinoAssumption, SMT
  DEF Init, IInv, Shapes, Marked, Idle, LaunchStages, Recorded

\* A step that posts nothing and forgets nothing.
LEMMA QuietStep ==
  ASSUME IInv, Shapes', UNCHANGED <<balance, ledger>>,
         \A l \in Launches : launch[l].at = "open" => launch'[l].at = "open",
         rows \subseteq rows', Recorded \subseteq Recorded'
  PROVE  IInv' /\ UNCHANGED Wallet!ledgerVars
  BY DEF IInv, Marked, Wallet!ledgerVars

LEMMA StepInv == ASSUME IInv, [Next]_vars PROVE IInv' /\ [Wallet!Next]_(Wallet!ledgerVars)
<1> USE DEF IInv
<1>0. Shapes /\ Marked
  OBVIOUS
<1>1. CASE OpenSeamless
  <2>1. Shapes'
    BY <1>0, <1>1, SMT DEF OpenSeamless, Shapes, wallet, upfront, seamless
  <2> QED
    BY <2>1, <1>1, QuietStep DEF OpenSeamless, wallet, seamless, Recorded
<1>2. ASSUME NEW l \in Launches, LaunchStep(l)
      PROVE  IInv' /\ [Wallet!Next]_(Wallet!ledgerVars)
  <2>1. CASE Reserve(l)
    <3>1. LaunchUsd[l] \in Nat
      BY CasinoAssumption
    <3>2. Quote(LaunchUsd[l]) \in Nat
      BY <1>0, <3>1, QuoteNat DEF Shapes
    <3>3. Shapes'
      BY <1>0, <2>1, <3>2 DEF Reserve, Shapes, LaunchStages, seamless
    <3> QED
      BY <1>0, <3>3, <2>1, QuietStep DEF Reserve, Shapes, seamless, Recorded
  <2>2. CASE CallProvider(l)
    <3>1. Shapes'
      BY <1>0, <2>2 DEF CallProvider, Shapes, LaunchStages, seamless, wallet
    <3> QED
      BY <1>0, <3>1, <2>2, QuietStep
      DEF CallProvider, Shapes, seamless, wallet, Recorded
  <2>3. CASE Release(l)
    <3>1. Shapes'
      BY <1>0, <2>3 DEF Release, Shapes, LaunchStages, seamless
    <3> QED
      BY <1>0, <3>1, <2>3, QuietStep DEF Release, Shapes, seamless, Recorded
  <2>4. CASE Die(l)
    <3>1. Shapes'
      BY <1>0, <2>4 DEF Die, Shapes, LaunchStages, seamless, wallet
    <3> QED
      BY <1>0, <3>1, <2>4, QuietStep DEF Die, Shapes, seamless, wallet, Recorded
  <2>5. CASE Open(l)
    <3>1. -launch[l].amount \in Int
      BY <1>0 DEF Shapes
    <3>2. <<"launch", l>> \in Entries /\ <<"launch", l>> \notin DOMAIN ledger
      BY <1>0, <2>5 DEF Open, Marked, Entries
    <3>3. Wallet!Next
      BY <1>0, <2>5, <3>1, <3>2, PostRefines DEF Open, Shapes
    <3>4. Shapes'
      BY <1>0, <2>5, <3>1, SMT DEF Open, Post, Shapes, LaunchStages, seamless
    <3>5. Marked'
      BY <1>0, <2>5 DEF Open, Post, Marked, Shapes, seamless, Recorded
    <3> QED
      BY <3>3, <3>4, <3>5
  <2> QED
    BY <1>2, <2>1, <2>2, <2>3, <2>4, <2>5 DEF LaunchStep
<1>3. ASSUME NEW s \in Settlers, SettleStep(s)
      PROVE  IInv' /\ [Wallet!Next]_(Wallet!ledgerVars)
  <2>1. ASSUME NEW r \in Rounds, LockSession(s, r)
        PROVE  IInv' /\ [Wallet!Next]_(Wallet!ledgerVars)
    <3>1. Latest \in Nat \ {0}
      BY <1>0, <2>1, SMT DEF LockSession, Latest, Shapes
    <3>2. Shapes'
      BY <1>0, <2>1, <3>1 DEF LockSession, Shapes, seamless, wallet
    <3> QED
      BY <3>2, <2>1, QuietStep DEF LockSession, seamless, wallet, Recorded
  <2>2. CASE InsertRound(s)
    <3> DEFINE r == settling[s].round
               win == Quote(WinUsd[r])
    <3>1. r \in Rounds
      BY <1>0, <2>2 DEF InsertRound, Shapes
    <3>2. win \in Nat
      BY <1>0, <3>1, CasinoAssumption, QuoteNat DEF Shapes
    <3>3. /\ settling' = [settling EXCEPT ![s] = Idle]
          /\ rows' = rows \cup {r}
          /\ UNCHANGED <<rate, reserved, launch, sessions, held, seamless>>
      BY <2>2 DEF InsertRound
    <3>4. CASE Insertable(r) /\ win > 0
      <4>1. Post(<<"round", r>>, win)
        BY <2>2, <3>4 DEF InsertRound
      <4>2. <<"round", r>> \in Entries /\ <<"round", r>> \notin DOMAIN ledger
        BY <1>0, <3>1, <3>4 DEF Insertable, Marked, Entries
      <4>3. Wallet!Next
        BY <1>0, <3>2, <4>1, <4>2, PostRefines DEF Shapes
      <4>4. balance' \in Int
        BY <1>0, <3>2, <4>1, SMT DEF Post, Shapes
      <4>5. Shapes'
        BY <1>0, <3>1, <3>3, <4>4 DEF Shapes, seamless
      <4>6. Marked'
        BY <1>0, <3>1, <3>3, <4>1 DEF Post, Marked, seamless, Recorded
      <4> QED
        BY <4>3, <4>5, <4>6
    <3>5. CASE ~(Insertable(r) /\ win > 0)
      <4>1. UNCHANGED <<balance, ledger>>
        BY <2>2, <3>5 DEF InsertRound
      <4>2. Shapes'
        BY <1>0, <3>1, <3>3, <4>1 DEF Shapes, seamless
      <4> QED
        BY <3>3, <4>1, <4>2, QuietStep DEF seamless, Recorded
    <3> QED
      BY <3>4, <3>5
  <2>3. CASE SettlerDies(s)
    <3>1. Shapes'
      BY <1>0, <2>3 DEF SettlerDies, Shapes, seamless, wallet
    <3> QED
      BY <3>1, <2>3, QuietStep DEF SettlerDies, seamless, wallet, Recorded
  <2> QED
    BY <1>3, <2>1, <2>2, <2>3 DEF SettleStep
<1>4. ASSUME NEW c \in Calls, CallStep(c)
      PROVE  IInv' /\ [Wallet!Next]_(Wallet!ledgerVars)
  <2>1. CASE Send(c) \/ DeliverAgain(c) \/ Bounce(c)
    <3>1. UNCHANGED <<rate, wallet, upfront, events>>
      BY <2>1 DEF Send, DeliverAgain, Bounce
    <3>2. Shapes'
      BY <1>0, <3>1 DEF Shapes, wallet, upfront
    <3> QED
      BY <3>1, <3>2, QuietStep DEF wallet, upfront, Recorded
  <2>2. CASE RecordBonus(c)
    <3>1. Record(c) /\ UNCHANGED <<rate, wallet, upfront>>
      BY <2>2 DEF RecordBonus
    <3>2. Shapes'
      BY <1>0, <3>1, RecordGrows DEF Shapes, wallet, upfront
    <3> QED
      BY <1>0, <3>1, <3>2, RecordGrows, QuietStep DEF wallet, upfront
  <2>3. CASE Apply(c)
    <3>1. /\ Record(c)
          /\ Post(<<"call", c>>, Signed(c))
          /\ UNCHANGED <<rate, reserved, upfront>>
      BY <2>3 DEF Apply
    <3>2. CallOf[c].usd \in Nat
      BY CasinoAssumption DEF Call
    <3>3. Signed(c) \in Int
      BY <1>0, <3>2, QuoteNat, SMT DEF Signed, Shapes
    <3>4. <<"call", c>> \in Entries /\ <<"call", c>> \notin DOMAIN ledger
      BY <1>0, <2>3 DEF Apply, Marked, Entries
    <3>5. Wallet!Next
      BY <1>0, <3>1, <3>3, <3>4, PostRefines DEF Shapes
    <3>6. balance' \in Int
      BY <1>0, <3>1, <3>3, SMT DEF Post, Shapes
    <3>7. Shapes'
      BY <1>0, <3>1, <3>6, RecordGrows DEF Shapes, upfront
    <3>8. Marked'
      BY <1>0, <3>1, RecordGrows DEF Post, Marked, upfront
    <3> QED
      BY <3>5, <3>7, <3>8
  <2> QED
    BY <1>4, <2>1, <2>2, <2>3 DEF CallStep
<1>5. ASSUME NEW b \in Bets, PlaceBet(b)
      PROVE  IInv' /\ [Wallet!Next]_(Wallet!ledgerVars)
  <2>1. -Stake[b] \in Int
    BY CasinoAssumption
  <2>2. <<"bet", b>> \in Entries
    BY DEF Entries
  <2>3. Wallet!Next
    BY <1>0, <1>5, <2>1, <2>2, PostRefines DEF PlaceBet, Shapes
  <2>4. balance' \in Int
    BY <1>0, <1>5, <2>1, SMT DEF PlaceBet, Post, Shapes
  <2>5. Shapes'
    BY <1>0, <1>5, <2>4 DEF PlaceBet, Shapes, upfront, seamless
  <2>6. Marked'
    BY <1>0, <1>5 DEF PlaceBet, Post, Marked, upfront, seamless, Recorded
  <2> QED
    BY <2>3, <2>5, <2>6
<1>6. CASE RefreshRate
  <2>1. Shapes'
    BY <1>0, <1>6, CasinoAssumption DEF RefreshRate, Shapes, wallet, upfront, seamless
  <2> QED
    BY <1>6, <2>1, QuietStep DEF RefreshRate, wallet, upfront, seamless, Recorded
<1>7. CASE UNCHANGED vars
  <2>1. Shapes'
    BY <1>0, <1>7 DEF vars, Shapes, wallet, upfront, seamless
  <2> QED
    BY <1>7, <2>1, QuietStep DEF vars, wallet, upfront, seamless, Recorded
<1> QED
  BY <1>1, <1>2, <1>3, <1>4, <1>5, <1>6, <1>7 DEF Next

-----------------------------------------------------------------------------

\* Nothing the casino does moves the wallet but a posting, and each launch,
\* round, call and bet is posted once at most: launch_game,
\* handle_round_settlement and handle_waija_wallet_event implement the wallet's
\* promise, whatever is repeated, reordered, lost or killed.
THEOREM LedgerKept == Spec => LedgerIsKept
<1>1. Init => Wallet!Init
  BY DEF Init, Wallet!Init
<1>2. IInv /\ [Next]_vars => IInv' /\ [Wallet!Next]_(Wallet!ledgerVars)
  BY StepInv
<1> QED
  BY InitInv, <1>1, <1>2, PTL DEF Spec, LedgerIsKept, Wallet!Spec

-----------------------------------------------------------------------------
(* What is reserved *)

\* What a launch has reserved, by its row.
HeldIn(row) == IF row.at \in Holding THEN row.amount ELSE 0

HeldBy(ls) == SumFunctionOnSet([l \in Launches |-> HeldIn(ls[l])], Launches)

LaunchRow == [at: LaunchStages, amount: Nat]

LEMMA HeldBySum ==
  ASSUME NEW ls \in [Launches -> LaunchRow]
  PROVE  /\ HeldBy(ls) \in Nat
         /\ HeldBy(ls) = SumFunctionOnSet([l \in Launches |-> ls[l].amount],
                                          {l \in Launches : ls[l].at \in Holding})
<1> DEFINE f == [l \in Launches |-> HeldIn(ls[l])]
           g == [l \in Launches |-> ls[l].amount]
           P == {l \in Launches : ls[l].at \in Holding}
<1>1. IsFiniteSet(Launches)
  BY CasinoAssumption DEF CasinoAssumption
<1>2. /\ \A l \in Launches : f[l] \in Nat /\ f[l] \in Int
      /\ P \in SUBSET Launches
      /\ \A l \in Launches \ P : f[l] = 0
      /\ \A l \in P : f[l] = g[l]
  BY DEF HeldIn, LaunchRow
<1> HIDE DEF f, g, P
<1>3. SumFunctionOnSet(f, Launches) = SumFunctionOnSet(f, P)
  BY <1>1, <1>2, SumFilter
<1>4. SumFunctionOnSet(f, P) = SumFunctionOnSet(g, P)
  BY <1>1, <1>2, FS_Subset, SumSame
<1>5. SumFunctionOnSet(f, Launches) \in Nat
  BY <1>1, <1>2, SumNat
<1> QED
  BY <1>3, <1>4, <1>5, Zenon DEF f, g, P, HeldBy

\* One launch moves on.
LEMMA HeldByChange ==
  ASSUME NEW ls \in [Launches -> LaunchRow], NEW l \in Launches,
         NEW row \in LaunchRow
  PROVE  HeldBy([ls EXCEPT ![l] = row]) = HeldBy(ls) - HeldIn(ls[l]) + HeldIn(row)
<1> DEFINE ls2 == [ls EXCEPT ![l] = row]
           f == [k \in Launches |-> HeldIn(ls[k])]
           g == [k \in Launches |-> HeldIn(ls2[k])]
<1>1. IsFiniteSet(Launches)
  BY CasinoAssumption DEF CasinoAssumption
<1>2. /\ \A k \in Launches : f[k] \in Int
      /\ f[l] = HeldIn(ls[l])
      /\ g[l] = HeldIn(row) /\ g[l] \in Int
      /\ \A k \in Launches \ {l} : g[k] = f[k]
  BY DEF HeldIn, LaunchRow
<1>3. HeldBy(ls2) = SumFunctionOnSet(g, Launches)
      /\ HeldBy(ls) = SumFunctionOnSet(f, Launches)
  BY DEF HeldBy
<1> HIDE DEF f, g, ls2
<1>4. SumFunctionOnSet(g, Launches) = SumFunctionOnSet(f, Launches) - f[l] + g[l]
  BY <1>1, <1>2, SumChange
<1> QED
  BY <1>2, <1>3, <1>4 DEF ls2

Reservations == reserved = HeldBy(launch)

LEMMA StepReserves == ASSUME IInv, Reservations, [Next]_vars PROVE Reservations'
<1>1. launch \in [Launches -> LaunchRow]
  BY DEF IInv, Shapes, LaunchRow
<1>2. HeldBy(launch) \in Nat
  BY <1>1, HeldBySum
<1>3. ASSUME UNCHANGED <<reserved, launch>> PROVE Reservations'
  BY <1>3 DEF Reservations, HeldBy
<1>4. ASSUME NEW l \in Launches, NEW row \in LaunchRow,
             launch' = [launch EXCEPT ![l] = row],
             reserved' = reserved - HeldIn(launch[l]) + HeldIn(row)
      PROVE  Reservations'
  <2>1. HeldBy([launch EXCEPT ![l] = row])
          = HeldBy(launch) - HeldIn(launch[l]) + HeldIn(row)
    BY <1>1, HeldByChange
  <2> QED
    BY <1>4, <2>1, Zenon DEF Reservations
<1>5. \A l \in Launches : launch[l] \in LaunchRow
  BY <1>1
<1>6. reserved \in Nat
  BY <1>2 DEF Reservations
<1>7. ASSUME NEW l \in Launches, LaunchStep(l) PROVE Reservations'
  <2> DEFINE at(stage) == [launch[l] EXCEPT !.at = stage]
  <2>1. \A stage \in LaunchStages :
          /\ at(stage) \in LaunchRow
          /\ at(stage).at = stage /\ at(stage).amount = launch[l].amount
          /\ [launch EXCEPT ![l].at = stage] = [launch EXCEPT ![l] = at(stage)]
    BY <1>1, <1>5 DEF LaunchRow
  <2>2. HeldIn(launch[l]) \in Nat /\ launch[l].amount \in Nat
    BY <1>5 DEF HeldIn, LaunchRow
  <2>3. \A stage \in LaunchStages :
          HeldIn(at(stage)) = IF stage \in Holding THEN launch[l].amount ELSE 0
    BY <2>1 DEF HeldIn
  <2> HIDE DEF at
  <2>4. CASE Reserve(l)
    <3> DEFINE row == [at |-> "calling", amount |-> Quote(LaunchUsd[l])]
    <3>1. Quote(LaunchUsd[l]) \in Nat
      BY CasinoAssumption, QuoteNat DEF CasinoAssumption, IInv, Shapes
    <3>2. /\ row \in LaunchRow /\ HeldIn(row) = Quote(LaunchUsd[l])
          /\ HeldIn(launch[l]) = 0
      BY <2>4, <3>1 DEF LaunchRow, LaunchStages, HeldIn, Holding, Reserve
    <3>3. /\ launch' = [launch EXCEPT ![l] = row]
          /\ reserved' = reserved + Quote(LaunchUsd[l])
      BY <2>4 DEF Reserve
    <3> HIDE DEF row
    <3>4. reserved' = reserved - HeldIn(launch[l]) + HeldIn(row)
      BY <1>6, <3>1, <3>2, <3>3
    <3> QED
      BY <1>4, <3>2, <3>3, <3>4
  <2>5. CASE CallProvider(l) \/ Die(l)
    <3>1. PICK stage \in {"confirmed", "failed", "dead"} :
            launch' = [launch EXCEPT ![l].at = stage]
      BY <2>5 DEF CallProvider, Die
    <3>2. stage \in LaunchStages /\ stage \in Holding
      BY DEF LaunchStages, Holding
    <3>3. HeldIn(launch[l]) = launch[l].amount
      BY <2>5 DEF CallProvider, Die, HeldIn, Holding
    <3>4. UNCHANGED reserved
      BY <2>5 DEF CallProvider, Die, wallet
    <3>5. launch' = [launch EXCEPT ![l] = at(stage)]
      BY <2>1, <3>1, <3>2, Zenon
    <3>6. reserved' = reserved - HeldIn(launch[l]) + HeldIn(at(stage))
      BY <1>6, <2>2, <2>3, <3>2, <3>3, <3>4
    <3> QED
      BY <1>4, <2>1, <3>2, <3>5, <3>6
  <2>6. CASE Release(l) \/ Open(l)
    <3>1. PICK stage \in {"released", "open"} :
            launch' = [launch EXCEPT ![l].at = stage]
      BY <2>6 DEF Release, Open
    <3>2. stage \in LaunchStages /\ stage \notin Holding
      BY DEF LaunchStages, Holding
    <3>3. HeldIn(launch[l]) = launch[l].amount
      BY <2>6 DEF Release, Open, HeldIn, Holding
    <3>4. reserved' = reserved - launch[l].amount
      BY <2>6 DEF Release, Open, Unreserved
    <3>5. launch' = [launch EXCEPT ![l] = at(stage)]
      BY <2>1, <3>1, <3>2, Zenon
    <3>6. reserved' = reserved - HeldIn(launch[l]) + HeldIn(at(stage))
      BY <1>6, <2>2, <2>3, <3>2, <3>3, <3>4
    <3> QED
      BY <1>4, <2>1, <3>2, <3>5, <3>6
  <2> QED
    BY <1>7, <2>4, <2>5, <2>6 DEF LaunchStep
<1>8. CASE OpenSeamless \/ RefreshRate \/ UNCHANGED vars
  BY <1>3, <1>8 DEF OpenSeamless, RefreshRate, vars, wallet, upfront
<1>9. ASSUME NEW s \in Settlers, SettleStep(s) PROVE Reservations'
  BY <1>3, <1>9 DEF SettleStep, LockSession, InsertRound, SettlerDies, wallet
<1>10. ASSUME NEW c \in Calls, CallStep(c) PROVE Reservations'
  BY <1>3, <1>10
     DEF CallStep, Send, DeliverAgain, Bounce, RecordBonus, Apply, wallet, upfront
<1>11. ASSUME NEW b \in Bets, PlaceBet(b) PROVE Reservations'
  BY <1>3, <1>11 DEF PlaceBet, upfront
<1> QED
  BY <1>7, <1>8, <1>9, <1>10, <1>11 DEF Next

-----------------------------------------------------------------------------
(* What the provider is told *)

CallEntry(c) == <<"call", c>>

\* The entries there are, and the row each debit left: its entry is what the
\* event says.
Books ==
  /\ held \subseteq Launches
  /\ DOMAIN ledger \subseteq Entries
  /\ \A e \in DOMAIN ledger : ledger[e] \in Int
  /\ answers \in [Calls -> {"unsent", "sent", "ok", "bounced"}]
  /\ \A c \in Calls :
       /\ answers[c] = "ok" => c \in Recorded
       /\ (CallEntry(c) \in DOMAIN ledger)
            <=> (c \in Recorded /\ CallOf[c].kind # "bonus")
  /\ \A i \in DOMAIN events :
       CallOf[events[i].call].kind = "debit" =>
         ledger[CallEntry(events[i].call)] = -events[i].amount

\* An entry that is no call's leaves what is known of the calls.
LEMMA OtherEntry ==
  ASSUME Books, NEW e \in Entries, NEW amount \in Int, Post(e, amount),
         \A c \in Calls : e # CallEntry(c), events \in Seq(Event),
         held' \subseteq Launches, UNCHANGED seamless
  PROVE  Books'
<1>1. /\ DOMAIN ledger' = DOMAIN ledger \cup {e}
      /\ \A x \in DOMAIN ledger' : ledger'[x] = IF x = e THEN amount ELSE ledger[x]
  BY DEF Post
<1>2. \A i \in DOMAIN events : events[i].call \in Calls
  <2>1. \A i \in DOMAIN events : events[i] \in Event
    OBVIOUS
  <2> QED
    BY <2>1 DEF Event
<1>3. \A i \in DOMAIN events :
        CallOf[events[i].call].kind = "debit" =>
          CallEntry(events[i].call) \in DOMAIN ledger
  BY <1>2 DEF Books, Recorded
<1>4. UNCHANGED <<events, answers>> /\ UNCHANGED Recorded
  BY DEF seamless, Recorded
<1> QED
  BY <1>1, <1>2, <1>3, <1>4 DEF Books, CallEntry

LEMMA BooksStand ==
  ASSUME Books, UNCHANGED <<ledger, events, answers>>, held' \subseteq Launches
  PROVE  Books'
  BY DEF Books, Recorded, CallEntry

LEMMA StepBooks == ASSUME IInv, Books, [Next]_vars PROVE Books'
<1> USE DEF CallEntry
<1>0. Shapes /\ Marked /\ events \in Seq(Event) /\ held \subseteq Launches
  BY DEF IInv, Shapes, Books
<1>1. CASE OpenSeamless \/ RefreshRate \/ UNCHANGED vars
  BY <1>0, <1>1, BooksStand
     DEF OpenSeamless, RefreshRate, vars, wallet, upfront, seamless
<1>2. ASSUME NEW l \in Launches, LaunchStep(l) PROVE Books'
  <2>1. CASE Reserve(l) \/ CallProvider(l) \/ Release(l) \/ Die(l)
    <3>1. held' \subseteq Launches
      BY <1>0, <2>1 DEF Reserve, CallProvider, Release, Die
    <3> QED
      BY <2>1, <3>1, BooksStand
         DEF Reserve, CallProvider, Release, Die, wallet, seamless
  <2>2. CASE Open(l)
    <3>1. -launch[l].amount \in Int
      BY <1>0 DEF Shapes
    <3>2. <<"launch", l>> \in Entries /\ \A c \in Calls : <<"launch", l>> # CallEntry(c)
      BY DEF Entries
    <3> QED
      BY <1>0, <2>2, <3>1, <3>2, OtherEntry DEF Open
  <2> QED
    BY <1>2, <2>1, <2>2 DEF LaunchStep
<1>3. ASSUME NEW s \in Settlers, SettleStep(s) PROVE Books'
  <2>1. CASE (\E r \in Rounds : LockSession(s, r)) \/ SettlerDies(s)
    BY <1>0, <2>1, BooksStand DEF LockSession, SettlerDies, wallet, seamless
  <2>2. CASE InsertRound(s)
    <3> DEFINE r == settling[s].round
               win == Quote(WinUsd[r])
    <3>1. r \in Rounds
      BY <1>0, <2>2 DEF InsertRound, Shapes
    <3>2. win \in Int
      <4>1. WinUsd[r] \in Nat
        BY <3>1, CasinoAssumption DEF CasinoAssumption
      <4>2. rate \in Rates
        BY <1>0 DEF Shapes
      <4>3. Quote(WinUsd[r]) \in Nat
        BY <4>1, <4>2, QuoteNat
      <4> QED
        BY <4>3
    <3>3. <<"round", r>> \in Entries /\ \A c \in Calls : <<"round", r>> # CallEntry(c)
      BY <3>1 DEF Entries
    <3>4. UNCHANGED <<held, seamless>>
          /\ (Post(<<"round", r>>, win) \/ UNCHANGED <<balance, ledger>>)
      BY <2>2 DEF InsertRound
    <3> HIDE DEF r, win
    <3>5. CASE Post(<<"round", r>>, win)
      BY <1>0, <3>2, <3>3, <3>4, <3>5, OtherEntry
    <3>6. CASE UNCHANGED <<balance, ledger>>
      BY <1>0, <3>4, <3>6, BooksStand DEF seamless
    <3> QED
      BY <3>4, <3>5, <3>6
  <2> QED
    BY <1>3, <2>1, <2>2 DEF SettleStep
<1>4. ASSUME NEW c \in Calls, CallStep(c) PROVE Books'
  <2>1. CASE Send(c)
    BY <2>1 DEF Send, Books, Recorded, wallet, upfront
  <2>2. CASE DeliverAgain(c)
    BY <2>2 DEF DeliverAgain, Answer, Books, Recorded, wallet, upfront
  <2>3. CASE Bounce(c)
    BY <2>3 DEF Bounce, Answer, Books, Recorded, wallet, upfront
  <2>4. ASSUME Record(c), Answer(c, "ok"), c \notin Recorded
        PROVE  /\ answers' \in [Calls -> {"unsent", "sent", "ok", "bounced"}]
               /\ \A d \in Calls : answers'[d] = "ok" => d \in Recorded'
               /\ \A d \in Calls : d \in Recorded' <=> d \in Recorded \/ d = c
               /\ DOMAIN events' = DOMAIN events \cup {Len(events) + 1}
               /\ \A i \in DOMAIN events : events'[i] = events[i]
               /\ events'[Len(events) + 1]
                    = [call |-> c, amount |-> Quote(CallOf[c].usd)]
    <3> DEFINE n == Len(events) + 1
               e == [call |-> c, amount |-> Quote(CallOf[c].usd)]
    <3>1. Quote(CallOf[c].usd) \in Nat
      BY <1>0, CasinoAssumption, QuoteNat DEF CasinoAssumption, Call, Shapes
    <3>2. e \in Event /\ e.call = c
      BY <3>1 DEF Event
    <3>3. events' = Append(events, e)
      BY <2>4 DEF Record
    <3> HIDE DEF e
    <3>4. /\ DOMAIN events' = DOMAIN events \cup {n}
          /\ \A i \in DOMAIN events : events'[i] = events[i]
          /\ events'[n] = e
      BY <1>0, <3>2, <3>3
    <3> HIDE DEF n
    <3>5. \A d \in Calls : d \in Recorded' <=> d \in Recorded \/ d = c
      BY <3>2, <3>4 DEF Recorded
    <3>6. /\ answers' \in [Calls -> {"unsent", "sent", "ok", "bounced"}]
          /\ \A d \in Calls : answers'[d] = "ok" => d \in Recorded'
      BY <2>4, <3>5 DEF Answer, Books
    <3> QED
      BY <3>4, <3>5, <3>6 DEF n, e
  <2>5. CASE RecordBonus(c)
    <3>1. /\ Record(c) /\ Answer(c, "ok") /\ c \notin Recorded
          /\ CallOf[c].kind = "bonus" /\ UNCHANGED <<ledger, held>>
      BY <2>5 DEF RecordBonus, wallet, upfront
    <3> QED
      BY <2>4, <3>1 DEF Books
  <2>6. CASE Apply(c)
    <3>1. /\ Record(c) /\ Answer(c, "ok") /\ c \notin Recorded
          /\ CallOf[c].kind # "bonus" /\ UNCHANGED held
          /\ Post(<<"call", c>>, Signed(c))
      BY <2>6 DEF Apply, upfront
    <3>2. Quote(CallOf[c].usd) \in Nat
      BY <1>0, CasinoAssumption, QuoteNat DEF CasinoAssumption, Call, Shapes
    <3>3. Signed(c) \in Int /\ (CallOf[c].kind = "debit" => Signed(c) = -Quote(CallOf[c].usd))
      BY <3>2 DEF Signed, IsDebit
    <3>4. /\ DOMAIN ledger' = DOMAIN ledger \cup {<<"call", c>>}
          /\ \A x \in DOMAIN ledger' :
               ledger'[x] = IF x = <<"call", c>> THEN Signed(c) ELSE ledger[x]
      BY <3>1 DEF Post
    <3>5. <<"call", c>> \in Entries
      BY DEF Entries
    <3>6. \A i \in DOMAIN events : events[i].call \in Calls /\ events[i].call # c
      <4>1. \A i \in DOMAIN events : events[i] \in Event
        BY <1>0
      <4> QED
        BY <3>1, <4>1 DEF Event, Recorded
    <3>7. \A i \in DOMAIN events :
            CallOf[events[i].call].kind = "debit" =>
              <<"call", events[i].call>> \in DOMAIN ledger
      BY <3>6 DEF Books, Recorded
    <3>8. \A i \in DOMAIN events' :
            CallOf[events'[i].call].kind = "debit" =>
              ledger'[<<"call", events'[i].call>>] = -events'[i].amount
      BY <2>4, <3>1, <3>3, <3>4, <3>6, <3>7 DEF Books
    <3>9. \A d \in Calls : (<<"call", d>> \in DOMAIN ledger')
                             <=> (d \in Recorded' /\ CallOf[d].kind # "bonus")
      BY <2>4, <3>1, <3>4 DEF Books
    <3>10. DOMAIN ledger' \subseteq Entries /\ \A e \in DOMAIN ledger' : ledger'[e] \in Int
      BY <3>3, <3>4, <3>5 DEF Books
    <3> QED
      BY <2>4, <3>1, <3>8, <3>9, <3>10 DEF Books
  <2> QED
    BY <1>4, <2>1, <2>2, <2>3, <2>5, <2>6 DEF CallStep
<1>5. ASSUME NEW b \in Bets, PlaceBet(b) PROVE Books'
  <2>1. -Stake[b] \in Int
    BY CasinoAssumption DEF CasinoAssumption
  <2>2. <<"bet", b>> \in Entries /\ \A c \in Calls : <<"bet", b>> # CallEntry(c)
    BY DEF Entries
  <2> QED
    BY <1>0, <1>5, <2>1, <2>2, OtherEntry DEF PlaceBet, upfront
<1> QED
  BY <1>1, <1>2, <1>3, <1>4, <1>5 DEF Next

-----------------------------------------------------------------------------

Good == IInv /\ Reservations /\ Books

LEMMA InitGood == Init => Good
<1> SUFFICES ASSUME Init PROVE Good
  OBVIOUS
<1>1. Books
  BY DEF Init, Books, Recorded, CallEntry
<1>2. launch \in [Launches -> LaunchRow] /\ \A l \in Launches : launch[l].at = "new"
  BY DEF Init, LaunchRow, LaunchStages
<1>3. HeldBy(launch) = 0
  <2> DEFINE f == [l \in Launches |-> HeldIn(launch[l])]
  <2>1. IsFiniteSet(Launches)
    BY CasinoAssumption DEF CasinoAssumption
  <2>2. \A l \in Launches : f[l] = 0
    BY <1>2 DEF HeldIn, Holding
  <2> HIDE DEF f
  <2>3. SumFunctionOnSet(f, Launches) = 0
    BY <2>1, <2>2, SumZero
  <2> QED
    BY <2>3 DEF HeldBy, f
<1> QED
  BY <1>1, <1>3, InitInv DEF Good, Reservations, Init

\* The inductive invariant: what each entry leaves behind, what the launches
\* under way hold, and the row and the entry of each call.
THEOREM GoodHolds == Spec => []Good
<1>1. Good /\ [Next]_vars => Good'
  BY StepInv, StepReserves, StepBooks DEF Good
<1> QED
  BY InitGood, <1>1, PTL DEF Spec

\* Every variable keeps its type; what is reserved is never negative.
THEOREM TypeCorrect == Spec => []TypeOK
<1>1. Good => TypeOK
  <2> SUFFICES ASSUME Good PROVE TypeOK
    OBVIOUS
  <2>1. launch \in [Launches -> LaunchRow]
    BY DEF Good, IInv, Shapes, LaunchRow
  <2>2. reserved \in Nat
    BY <2>1, HeldBySum DEF Good, Reservations
  <2> QED
    BY <2>2 DEF Good, IInv, Shapes, Books, TypeOK
<1> QED
  BY <1>1, GoodHolds, PTL

\* What is reserved is what launches under way, or dead, have reserved
\* (launch_game).
THEOREM ReservedByLaunches == Spec => []ReservedIsInFlight
<1>1. Good => ReservedIsInFlight
  <2> SUFFICES ASSUME Good PROVE ReservedIsInFlight
    OBVIOUS
  <2>1. launch \in [Launches -> LaunchRow]
    BY DEF Good, IInv, Shapes, LaunchRow
  <2> QED
    BY <2>1, HeldBySum DEF Good, Reservations, ReservedIsInFlight
<1> QED
  BY <1>1, GoodHolds, PTL

\* A call answered as applied is recorded, and a recorded one moved money unless
\* it was a free round's debit (handle_waija_wallet_event).
THEOREM AnswersHold == Spec => []AnswersAreTrue
<1>1. Good => AnswersAreTrue
  BY DEF Good, Books, CallEntry, AnswersAreTrue
<1> QED
  BY <1>1, GoodHolds, PTL

\* A round is bet on once: the provider reports one debit of it, though as often
\* as it likes.
OneDebit ==
  \A c, d \in Calls :
    CallOf[c].kind = "debit" /\ CallOf[d].kind = "debit"
      /\ CallOf[c].round = CallOf[d].round => c = d

\* What the player is shown at risk is what a round took and has not given back,
\* if a round is bet on once (get_wallet_and_exposure_status).
THEOREM RiskIsReal == ASSUME OneDebit PROVE Spec => []ExposureIsAtRisk
<1>1. Good => ExposureIsAtRisk
  <2> SUFFICES ASSUME Good, Exposure > 0
               PROVE  \E c \in Recorded : RoundNet(CallOf[c].round) = -Exposure
    BY DEF ExposureIsAtRisk
  <2> DEFINE n == Len(events)
             e == events[n]
             c == e.call
             mine == {x \in DOMAIN ledger : x[1] = "call" /\ CallOf[x[2]].round = CallOf[c].round}
  <2>1. events # <<>>
    BY DEF Exposure
  <2>2. /\ events \in Seq(Event) /\ n \in DOMAIN events
        /\ e = Last(events) /\ e \in Event
    <3>1. events \in Seq(Event)
      BY DEF Good, IInv, Shapes
    <3>2. n \in DOMAIN events
      BY <2>1, <3>1
    <3> QED
      BY <3>1, <3>2 DEF Last
  <2>3. /\ CallOf[c].kind = "debit"
        /\ \A i \in DOMAIN events :
             CallOf[events[i].call].round = CallOf[c].round => IsDebit(events[i].call)
        /\ Exposure = e.amount
    BY <2>1, <2>2 DEF Exposure, RoundOf
  <2>4. c \in Recorded /\ c \in Calls
    BY <2>2 DEF Recorded, Event
  <2>5. CallEntry(c) \in DOMAIN ledger /\ ledger[CallEntry(c)] = -e.amount
    BY <2>2, <2>3, <2>4 DEF Good, Books
  <2>6. ASSUME NEW x \in mine PROVE x = CallEntry(c)
    <3>1. PICK d \in Calls : x = CallEntry(d)
      BY DEF Good, Books, Entries, CallEntry
    <3>2. d \in Recorded /\ CallOf[d].kind # "bonus"
      BY <3>1 DEF Good, Books
    <3>3. CallOf[d].round = CallOf[c].round
      BY <3>1 DEF CallEntry
    <3>4. IsDebit(d)
      BY <2>3, <3>2, <3>3 DEF Recorded
    <3>5. CallOf[d].kind = "debit"
      BY <3>2, <3>4 DEF IsDebit
    <3> QED
      BY <2>3, <2>4, <3>1, <3>3, <3>5 DEF OneDebit
  <2>7. mine = {CallEntry(c)}
    BY <2>5, <2>6 DEF CallEntry
  <2>8. SumFunctionOnSet(ledger, {CallEntry(c)}) = ledger[CallEntry(c)]
    <3> DEFINE x == CallEntry(c)
    <3>1. ledger[x] \in Int
      BY <2>5 DEF Good, Books
    <3> HIDE DEF x
    <3>2. SumFunctionOnSet(ledger, {} \cup {x}) = ledger[x] + SumFunctionOnSet(ledger, {})
      BY <3>1, FS_EmptySet, SumAdd
    <3>3. {} \cup {x} = {x}
      OBVIOUS
    <3> QED
      BY <3>1, <3>2, <3>3, SumEmpty DEF x
  <2>9. RoundNet(CallOf[c].round) = SumFunctionOnSet(ledger, mine)
    BY Zenon DEF RoundNet
  <2> QED
    BY <2>3, <2>4, <2>5, <2>7, <2>8, <2>9
<1> QED
  BY <1>1, GoodHolds, PTL


=============================================================================
