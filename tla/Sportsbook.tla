----------------------------- MODULE Sportsbook -----------------------------
(***************************************************************************)
(* The bookmaker: apps/bets/services.py and apps/bets/tasks.py, with the   *)
(* writers of Match that start a settlement.  Single bets and parlays are  *)
(* placed in one transaction after checks made outside it, and settled by  *)
(* a sequence of transactions: one per bet, one that writes the outcomes   *)
(* of the match's parlay legs, then one per parlay it listed.              *)
(***************************************************************************)
EXTENDS Integers, FiniteSets, Functions

CONSTANTS
  Users,            \* accounts with a wallet
  Matches,          \* Match rows
  Selections,       \* what a bet can be on
  Results,          \* the selections a match can end with
  BetRequests,      \* the place_bet calls considered
  ParlayRequests,   \* the place_parlay_bet calls considered
  Sessions,         \* threads serving place_bet and place_parlay_bet
  Workers,          \* threads running settle_bets_for_match
  Children,         \* the users whose parent a user is
  CommissionRate,   \* User.commission_rate, in percent
  Unscored,         \* the matches the results feed may give no scores for
  EditStatuses,     \* the statuses admin_edit_match_view is used to set
  InitialBalance,   \* what each wallet holds at the start
  MaxBets,          \* bound: Bet rows ever inserted
  MaxParlays        \* bound: ParlayBet rows ever inserted

Statuses == {"scheduled", "live", "finished", "cancelled"}
OpenStatuses == {"scheduled", "live"}
NoResult == "none"
Outcomes == {"pending", "won", "lost", "refunded"}

BetRequest == [user: Users, match: Matches, selection: Selections,
               odds: Nat, stake: Nat]

\* legs holds a selection for each of the matches the parlay is on.
ParlayRequest == [user: Users, odds: Nat, stake: Nat,
                  legs: UNION {[M -> Selections] : M \in SUBSET Matches}]

ASSUME SportsbookAssumption ==
  /\ BetRequests \subseteq BetRequest
  /\ ParlayRequests \subseteq ParlayRequest
  /\ Children \in [Users -> SUBSET Users]
  /\ \A u, v \in Users : u # v => Children[u] \cap Children[v] = {}
  /\ CommissionRate \in [Users -> Nat]
  /\ InitialBalance \in [Users -> Nat]
  /\ Unscored \subseteq Matches
  /\ EditStatuses \subseteq Statuses
  /\ Selections \subseteq Results
  /\ NoResult \notin Results
  /\ MaxBets \in Nat
  /\ MaxParlays \in Nat

VARIABLES
  matches,   \* Match: status and the result its scores give
  balance,   \* Wallet.balance
  bets,      \* Bet rows, a function on the ids in use
  parlays,   \* ParlayBet rows with their ParlayLeg rows
  session,   \* checked requests not yet written, on the busy sessions
  worker,    \* settlements in progress, on the busy workers
  stranded   \* history: parlays whose finalisation was lost

vars == <<matches, balance, bets, parlays, session, worker, stranded>>

-----------------------------------------------------------------------------
(* Rows *)

BetIds == 1 .. MaxBets
ParlayIds == 1 .. MaxParlays

Bet == [user: Users, match: Matches, selection: Selections,
        odds: Nat, stake: Nat, status: Outcomes]

Leg == [selection: Selections, outcome: Outcomes]

ParlayBet == [user: Users, odds: Nat, stake: Nat, status: Outcomes,
              legs: UNION {[M -> Leg] : M \in SUBSET Matches}]

\* A run of settle_bets_for_match with the Match object it captured.
Settlement == [phase: {"captured", "bets", "legs", "parlays"}, match: Matches,
               status: Statuses, result: Results \cup {NoResult},
               bets: SUBSET BetIds, parlays: SUBSET ParlayIds]

\* a / 100 as a decimal column keeps it: rounded half-even.
Percent(a) ==
  LET q == a \div 100
      r == a % 100
  IN  IF r > 50 \/ (r = 50 /\ q % 2 = 1) THEN q + 1 ELSE q

Put(f, k, v) == [x \in DOMAIN f \cup {k} |-> IF x = k THEN v ELSE f[x]]

Drop(f, k) == [x \in DOMAIN f \ {k} |-> f[x]]

\* A scheduled match takes bets just as a live one does, so what
\* mark_starting_matches_live does changes nothing here.
Init ==
  /\ matches = [m \in Matches |-> [status |-> "live", result |-> NoResult]]
  /\ balance = InitialBalance
  /\ bets = [i \in {} |-> {}]
  /\ parlays = [i \in {} |-> {}]
  /\ session = [s \in {} |-> {}]
  /\ worker = [w \in {} |-> {}]
  /\ stranded = {}

-----------------------------------------------------------------------------
(* place_bet and place_parlay_bet *)

Open(m) == matches[m].status \in OpenStatuses

\* The checks before the transaction: nothing reads the match again.
CheckBet(s) ==
  /\ s \notin DOMAIN session
  /\ \E r \in BetRequests :
       /\ r.stake > 0
       /\ Open(r.match)
       /\ session' = Put(session, s, [kind |-> "bet", request |-> r])
  /\ UNCHANGED <<matches, balance, bets, parlays, worker, stranded>>

CheckParlay(s) ==
  /\ s \notin DOMAIN session
  /\ \E r \in ParlayRequests :
       /\ r.stake > 0
       /\ Cardinality(DOMAIN r.legs) >= 2
       /\ \A m \in DOMAIN r.legs : Open(m)
       /\ session' = Put(session, s, [kind |-> "parlay", request |-> r])
  /\ UNCHANGED <<matches, balance, bets, parlays, worker, stranded>>

CanStake_Unchecked(u, stake) == TRUE

CanStake(u, stake) == balance[u] >= stake

Requested(s) == session[s].request

Staked(s) ==
  [balance EXCEPT ![Requested(s).user] = @ - Requested(s).stake]

\* The transaction of place_bet.
WriteBet(s) ==
  /\ s \in DOMAIN session
  /\ session[s].kind = "bet"
  /\ CanStake(Requested(s).user, Requested(s).stake)
  /\ Cardinality(DOMAIN bets) < MaxBets
  /\ LET r == Requested(s)
     IN  bets' = Put(bets, Cardinality(DOMAIN bets) + 1,
                     [user |-> r.user, match |-> r.match, odds |-> r.odds,
                      selection |-> r.selection, stake |-> r.stake,
                      status |-> "pending"])
  /\ balance' = Staked(s)
  /\ session' = Drop(session, s)
  /\ UNCHANGED <<matches, parlays, worker, stranded>>

\* The transaction of place_parlay_bet: the parlay and its legs.
WriteParlay(s) ==
  /\ s \in DOMAIN session
  /\ session[s].kind = "parlay"
  /\ CanStake(Requested(s).user, Requested(s).stake)
  /\ Cardinality(DOMAIN parlays) < MaxParlays
  /\ LET r == Requested(s)
     IN  parlays' = Put(parlays, Cardinality(DOMAIN parlays) + 1,
                        [user |-> r.user, odds |-> r.odds, stake |-> r.stake,
                         status |-> "pending",
                         legs |-> [m \in DOMAIN r.legs |->
                                     [selection |-> r.legs[m],
                                      outcome |-> "pending"]]])
  /\ balance' = Staked(s)
  /\ session' = Drop(session, s)
  /\ UNCHANGED <<matches, bets, worker, stranded>>

\* The stake is not there, or the request fails before it commits.
GiveUp(s) ==
  /\ s \in DOMAIN session
  /\ session' = Drop(session, s)
  /\ UNCHANGED <<matches, balance, bets, parlays, worker, stranded>>

-----------------------------------------------------------------------------
(* The writers of a match's status *)

\* admin_edit_match_view saves any status and settles nothing.
EditStatus(m) ==
  /\ \E status \in EditStatuses :
       matches' = [matches EXCEPT ![m].status = status]
  /\ UNCHANGED <<balance, bets, parlays, session, worker, stranded>>

StartSettlement(w, m, status, result) ==
  worker' = Put(worker, w, [phase |-> "captured", match |-> m, status |-> status,
                            result |-> result, bets |-> {}, parlays |-> {}])

\* sync_results and the admin settle view: finished with scores, then settled.
\* The admin view does not ask whether the match was finished before.
FinishMatch(w, m, result) ==
  /\ w \notin DOMAIN worker
  /\ matches' = [matches EXCEPT ![m] = [status |-> "finished", result |-> result]]
  /\ StartSettlement(w, m, "finished", result)
  /\ UNCHANGED <<balance, bets, parlays, session, stranded>>

\* sync_results marks a completed match finished when the feed gives no scores
\* for it: settle_bets_for_match finds nothing to do.
FinishUnscored(m) ==
  /\ m \in Unscored
  /\ matches[m].status # "finished"
  /\ matches' = [matches EXCEPT ![m] = [status |-> "finished", result |-> NoResult]]
  /\ UNCHANGED <<balance, bets, parlays, session, worker, stranded>>

CancelMatch(w, m) ==
  /\ w \notin DOMAIN worker
  /\ matches' = [matches EXCEPT ![m].status = "cancelled"]
  /\ StartSettlement(w, m, "cancelled", matches[m].result)
  /\ UNCHANGED <<balance, bets, parlays, session, stranded>>

Settleable(m) == matches[m].status = "finished" /\ matches[m].result # NoResult

Selected_WithBets(m) ==
  Settleable(m) /\ \E i \in DOMAIN bets :
                     bets[i].match = m /\ bets[i].status = "pending"

\* The matches the beat task settle_matches_with_results takes up.
Selected(m) == Settleable(m)

SettleTask(w, m) ==
  /\ w \notin DOMAIN worker
  /\ Selected(m)
  /\ StartSettlement(w, m, "finished", matches[m].result)
  /\ UNCHANGED <<matches, balance, bets, parlays, session, stranded>>

-----------------------------------------------------------------------------
(* settle_bets_for_match *)

PutWorker(w, r) == worker' = [worker EXCEPT ![w] = r]

StopWorker(w) == worker' = Drop(worker, w)

ListBets(w) ==
  /\ w \in DOMAIN worker
  /\ worker[w].phase = "captured"
  /\ PutWorker(w, [worker[w] EXCEPT !.phase = "bets",
       !.bets = {i \in DOMAIN bets : /\ bets[i].match = worker[w].match
                                     /\ bets[i].status = "pending"}])
  /\ UNCHANGED <<matches, balance, bets, parlays, session, stranded>>

\* The direct parent's wallet once a percentage of a lost stake is added.
WithCommission(user, stake) ==
  [u \in Users |-> IF user \in Children[u]
                   THEN Percent(100 * balance[u] + stake * CommissionRate[u])
                   ELSE balance[u]]

StillPending_Unchecked(row) == TRUE

StillPending(row) == row.status = "pending"

\* settle_bet for a finished match, refund_bet for a cancelled one.
Outcome(r, selection) ==
  IF r.status = "cancelled" THEN "refunded"
  ELSE IF selection = r.result THEN "won" ELSE "lost"

\* What settling a row with this outcome does to the wallets.
Settled(row, outcome) ==
  CASE outcome = "won"      -> [balance EXCEPT ![row.user] = @ + row.stake * row.odds]
    [] outcome = "refunded" -> [balance EXCEPT ![row.user] = @ + row.stake]
    [] outcome = "lost"     -> WithCommission(row.user, row.stake)

\* The next bet of the list, in one transaction.
SettleBet(w) ==
  /\ w \in DOMAIN worker
  /\ worker[w].phase = "bets"
  /\ \E i \in worker[w].bets :
       /\ PutWorker(w, [worker[w] EXCEPT !.bets = @ \ {i}])
       /\ IF StillPending(bets[i])
          THEN LET outcome == Outcome(worker[w], bets[i].selection)
               IN  /\ bets' = [bets EXCEPT ![i].status = outcome]
                   /\ balance' = Settled(bets[i], outcome)
          ELSE UNCHANGED <<bets, balance>>
  /\ UNCHANGED <<matches, parlays, session, stranded>>

-----------------------------------------------------------------------------
(* settle_parlays_for_match and _settle_parlay_if_ready *)

HasLeg(p, m, outcomes) ==
  m \in DOMAIN parlays[p].legs /\ parlays[p].legs[m].outcome \in outcomes

WithPendingLeg_AnyLeg(m) == {p \in DOMAIN parlays : HasLeg(p, m, Outcomes)}

\* The queryset of the match's pending legs, by the parlays they belong to.
WithPendingLeg(m) == {p \in DOMAIN parlays : HasLeg(p, m, {"pending"})}

\* The match's pending legs are locked and their parlays listed.  A settlement
\* that holds them already is waited for.
ListLegs(w) ==
  /\ w \in DOMAIN worker
  /\ worker[w].phase = "bets"
  /\ worker[w].bets = {}
  /\ \A v \in DOMAIN worker \ {w} :
       ~(worker[v].phase = "legs" /\ worker[v].match = worker[w].match)
  /\ LET affected == WithPendingLeg(worker[w].match)
     IN  IF affected = {} THEN StopWorker(w)
         ELSE PutWorker(w, [worker[w] EXCEPT !.phase = "legs",
                                             !.parlays = affected])
  /\ UNCHANGED <<matches, balance, bets, parlays, session, stranded>>

\* The queryset is evaluated again to write the outcomes, and then also holds
\* the legs committed since the parlays were listed.
UpdateLegs(w) ==
  /\ w \in DOMAIN worker
  /\ worker[w].phase = "legs"
  /\ LET r    == worker[w]
         rows == WithPendingLeg(r.match)
     IN  /\ parlays' = [p \in DOMAIN parlays |->
              IF p \notin rows THEN parlays[p]
              ELSE [parlays[p] EXCEPT !.legs[r.match].outcome =
                      Outcome(r, parlays[p].legs[r.match].selection)]]
         /\ PutWorker(w, [r EXCEPT !.phase = "parlays"])
         /\ stranded' = stranded \cup (rows \ r.parlays)
  /\ UNCHANGED <<matches, balance, bets, session>>

HasOutcome(p, outcome) ==
  \E m \in DOMAIN parlays[p].legs : parlays[p].legs[m].outcome = outcome

Ready_AnyLost(p) == ~HasOutcome(p, "pending") \/ HasOutcome(p, "lost")

Ready_NoRefund(p) == ~HasOutcome(p, "pending") /\ ~HasOutcome(p, "refunded")

Ready(p) == ~HasOutcome(p, "pending")

ParlayOutcome(p) ==
  IF HasOutcome(p, "lost") THEN "lost"
  ELSE IF HasOutcome(p, "refunded") THEN "refunded" ELSE "won"

\* The next parlay of the list, in one transaction.
FinalizeParlay(w) ==
  /\ w \in DOMAIN worker
  /\ worker[w].phase = "parlays"
  /\ \E p \in worker[w].parlays :
       /\ PutWorker(w, [worker[w] EXCEPT !.parlays = @ \ {p}])
       /\ IF StillPending(parlays[p]) /\ Ready(p)
          THEN /\ parlays' = [parlays EXCEPT ![p].status = ParlayOutcome(p)]
               /\ balance' = Settled(parlays[p], ParlayOutcome(p))
          ELSE UNCHANGED <<parlays, balance>>
  /\ UNCHANGED <<matches, bets, session, stranded>>

FinishSettlement(w) ==
  /\ w \in DOMAIN worker
  /\ worker[w].phase = "parlays"
  /\ worker[w].parlays = {}
  /\ StopWorker(w)
  /\ UNCHANGED <<matches, balance, bets, parlays, session, stranded>>

\* The process settling the match dies, or a query fails: what was committed
\* stays, the rest of the lists is forgotten.
Crash(w) ==
  /\ w \in DOMAIN worker
  /\ StopWorker(w)
  /\ stranded' = IF worker[w].phase = "parlays"
                 THEN stranded \cup worker[w].parlays ELSE stranded
  /\ UNCHANGED <<matches, balance, bets, parlays, session>>

-----------------------------------------------------------------------------

SessionStep(s) ==
  \/ CheckBet(s)
  \/ CheckParlay(s)
  \/ WriteBet(s)
  \/ WriteParlay(s)
  \/ GiveUp(s)

WorkerStep(w) ==
  \/ \E m \in Matches : \/ \E r \in Results : FinishMatch(w, m, r)
                        \/ CancelMatch(w, m)
                        \/ SettleTask(w, m)
  \/ ListBets(w)
  \/ SettleBet(w)
  \/ ListLegs(w)
  \/ UpdateLegs(w)
  \/ FinalizeParlay(w)
  \/ FinishSettlement(w)
  \/ Crash(w)

Next ==
  \/ \E s \in Sessions : SessionStep(s)
  \/ \E w \in Workers : WorkerStep(w)
  \/ \E m \in Matches : EditStatus(m) \/ FinishUnscored(m)

Spec == Init /\ [][Next]_vars

\* Requests end, settlements go on until they end or die, and beat starts a
\* settlement of every finished match with scores every 5 minutes: strong
\* fairness, because the Celery worker is not taken up by what admins settle.
Fairness ==
  /\ \A s \in Sessions : WF_vars(WriteBet(s) \/ WriteParlay(s) \/ GiveUp(s))
  /\ \A w \in Workers :
       WF_vars(\/ ListBets(w) \/ SettleBet(w) \/ ListLegs(w) \/ UpdateLegs(w)
               \/ FinalizeParlay(w) \/ FinishSettlement(w))
  /\ \A m \in Matches : SF_vars(\E w \in Workers : SettleTask(w, m))

FairSpec == Spec /\ Fairness

-----------------------------------------------------------------------------
(* Properties *)

TypeOK ==
  /\ matches \in [Matches -> [status: Statuses, result: Results \cup {NoResult}]]
  /\ balance \in [Users -> Nat]
  /\ DOMAIN bets \subseteq BetIds
  /\ \A i \in DOMAIN bets : bets[i] \in Bet
  /\ DOMAIN parlays \subseteq ParlayIds
  /\ \A p \in DOMAIN parlays : parlays[p] \in ParlayBet
  /\ DOMAIN session \subseteq Sessions
  /\ \A s \in DOMAIN session :
       \/ session[s].kind = "bet" /\ session[s].request \in BetRequests
       \/ session[s].kind = "parlay" /\ session[s].request \in ParlayRequests
  /\ DOMAIN worker \subseteq Workers
  /\ \A w \in DOMAIN worker : worker[w] \in Settlement
  /\ stranded \subseteq DOMAIN parlays

RowsOf(table, users, statuses) ==
  {i \in DOMAIN table : table[i].user \in users /\ table[i].status \in statuses}

Stakes(table, users, statuses) ==
  SumFunction([i \in RowsOf(table, users, statuses) |-> table[i].stake])

Payouts(table, u) ==
  SumFunction([i \in RowsOf(table, {u}, {"won"}) |-> table[i].stake * table[i].odds])

\* What a user's rows say the wallet should hold, in hundredths of a unit.
Explained(table, u) ==
  100 * (Payouts(table, u) - Stakes(table, {u}, {"pending", "won", "lost"}))
    + CommissionRate[u] * Stakes(table, Children[u], {"lost"})

LostByChildren(u) ==
  Cardinality(RowsOf(bets, Children[u], {"lost"}))
    + Cardinality(RowsOf(parlays, Children[u], {"lost"}))

\* Every wallet holds exactly what the bet and parlay rows explain: each row
\* took its stake once, and paid, refunded or earned the parent a commission
\* at most once, however many settlements ran over it and wherever they died,
\* up to the half unit that storing each commission rounds (place_bet,
\* settle_bet, refund_bet, _settle_parlay_if_ready, _credit_affiliate_commission).
BalanceExplained ==
  \A u \in Users :
    LET gap == 100 * (balance[u] - InitialBalance[u])
                 - Explained(bets, u) - Explained(parlays, u)
        most == 100 * LostByChildren(u)
    IN  2 * gap \in -most .. most

\* A settled row is never settled again, and a leg keeps the outcome its
\* parlay was or will be judged by, although the scores of a finished match
\* can be changed and settled again (settle_bet, settle_parlays_for_match).
SettledForGood ==
  [][/\ \A i \in DOMAIN bets :
          bets[i].status # "pending" => bets'[i] = bets[i]
     /\ \A p \in DOMAIN parlays :
          /\ parlays[p].status # "pending" => parlays'[p] = parlays[p]
          /\ \A m \in DOMAIN parlays[p].legs :
               parlays[p].legs[m].outcome # "pending"
                 => parlays'[p].legs[m] = parlays[p].legs[m]]_vars

AllDecided(p) ==
  \A m \in DOMAIN parlays[p].legs : parlays[p].legs[m].outcome # "pending"

\* A parlay is decided only when all its legs are, and as they say, even when
\* two settlements of two of its matches race to finalise it, each seeing the
\* legs the other has committed (_settle_parlay_if_ready).
ParlayDecidedByLegs ==
  \A p \in DOMAIN parlays :
    parlays[p].status # "pending"
      => AllDecided(p) /\ parlays[p].status = ParlayOutcome(p)

\* A parlay whose legs are all decided is itself decided, or on the list of a
\* settlement, unless a settlement died between the legs and the parlay or
\* wrote a leg it had not listed (settle_parlays_for_match).
DecidedParlayIsListed ==
  \A p \in DOMAIN parlays :
    /\ parlays[p].status = "pending"
    /\ AllDecided(p)
    /\ p \notin stranded
    => \E w \in DOMAIN worker :
         worker[w].phase = "parlays" /\ p \in worker[w].parlays

\* A settlement dies with something left to do: not at its last step.
Dies(w) == Crash(w) /\ ~ListLegs(w) /\ ~FinishSettlement(w)

CrashesEnd == <>[][\A w \in Workers : ~Dies(w)]_vars

\* Once a match stays finished with scores and settlements stop dying, no bet
\* and no leg on it stays pending, those placed late included.
FinishedMatchSettles ==
  CrashesEnd =>
    \A m \in Matches :
      <>[]Settleable(m)
        => <>[](/\ \A i \in DOMAIN bets :
                     bets[i].match = m => bets[i].status # "pending"
                /\ \A p \in DOMAIN parlays : ~HasLeg(p, m, {"pending"}))

=============================================================================
