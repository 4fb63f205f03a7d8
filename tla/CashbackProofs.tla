--------------------------- MODULE CashbackProofs ---------------------------
(***************************************************************************)
(* What holds of Cashback for any bets, orders, stakes, terms and          *)
(* withdrawals: its running totals are what its rows add up to, a credit   *)
(* unlocks when what it required has been staked since, and only bets and  *)
(* clawbacks reach below what is reserved.                                 *)
(***************************************************************************)
EXTENDS Cashback, SumProofs

(* Arithmetic *)

LEMMA CentsNat == ASSUME NEW a \in Nat PROVE Cents(a) \in Nat
  BY SMT DEF Cents

LEMMA LeastFacts ==
  ASSUME NEW a \in Int, NEW b \in Int
  PROVE  /\ Least(a, b) \in {a, b}
         /\ Least(a, b) <= a
         /\ Least(a, b) <= b
  BY DEF Least

-----------------------------------------------------------------------------
(* Sums of credits *)

\* What some rows of a list add up to, and the rows the invariants speak of.
Total(list, rows) == SumFunction([i \in rows |-> list[i].amount])

LockedRows(list) == {i \in DOMAIN list : list[i].status = "locked"}

TakenBackRows(list) ==
  {i \in DOMAIN list : list[i].status = "unlocked" /\ list[i].deduct}

LEMMA RowsFinite ==
  ASSUME NEW list \in Seq(Credit), NEW rows \in SUBSET DOMAIN list
  PROVE  /\ IsFiniteSet(rows)
         /\ \A i \in DOMAIN list : list[i].amount \in Nat /\ list[i] \in Credit
<1>1. DOMAIN list = 1 .. Len(list) /\ Len(list) \in Nat
  OBVIOUS
<1>2. IsFiniteSet(DOMAIN list)
  BY <1>1, FS_Interval
<1>3. IsFiniteSet(rows)
  BY <1>2, FS_Subset
<1>4. \A i \in DOMAIN list : list[i] \in Credit
  OBVIOUS
<1> QED
  BY <1>3, <1>4 DEF Credit

\* Lists that agree on the amounts of some rows agree on what these add up to.
LEMMA TotalSame ==
  ASSUME NEW list, NEW other, NEW rows,
         \A i \in rows : list[i].amount = other[i].amount
  PROVE  Total(list, rows) = Total(other, rows)
<1>1. [i \in rows |-> list[i].amount] = [i \in rows |-> other[i].amount]
  OBVIOUS
<1> QED
  BY <1>1 DEF Total

LEMMA TotalOnSet ==
  ASSUME NEW list \in Seq(Credit), NEW rows \in SUBSET DOMAIN list
  PROVE  Total(list, rows)
           = SumFunctionOnSet([i \in DOMAIN list |-> list[i].amount], rows)
<1> DEFINE f == [i \in rows |-> list[i].amount]
           g == [i \in DOMAIN list |-> list[i].amount]
<1>1. IsFiniteSet(rows)
  BY RowsFinite
<1>2. \A i \in rows : f[i] = g[i]
  OBVIOUS
<1>3. DOMAIN f = rows
  OBVIOUS
<1>4. Total(list, rows) = SumFunctionOnSet(f, DOMAIN f)
  BY DEF Total, SumFunction
<1> HIDE DEF f, g
<1>5. Total(list, rows) = SumFunctionOnSet(g, rows)
  BY <1>1, <1>2, <1>3, <1>4, SumSame
<1> QED
  BY <1>5 DEF g

LEMMA TotalNat ==
  ASSUME NEW list \in Seq(Credit), NEW rows \in SUBSET DOMAIN list
  PROVE  Total(list, rows) \in Nat
<1> DEFINE g == [i \in DOMAIN list |-> list[i].amount]
<1>1. IsFiniteSet(rows) /\ \A i \in rows : g[i] \in Nat
  BY RowsFinite
<1>2. Total(list, rows) = SumFunctionOnSet(g, rows)
  BY TotalOnSet
<1> HIDE DEF g
<1> QED
  BY <1>1, <1>2, SumNat

LEMMA TotalParts ==
  ASSUME NEW list \in Seq(Credit), NEW rows \in SUBSET DOMAIN list,
         NEW part \in SUBSET rows
  PROVE  Total(list, rows) = Total(list, part) + Total(list, rows \ part)
<1> DEFINE g == [i \in DOMAIN list |-> list[i].amount]
<1>1. IsFiniteSet(rows) /\ \A i \in rows : g[i] \in Int
  BY RowsFinite
<1>2. part \in SUBSET DOMAIN list /\ rows \ part \in SUBSET DOMAIN list
  OBVIOUS
<1>3. /\ Total(list, rows) = SumFunctionOnSet(g, rows)
      /\ Total(list, part) = SumFunctionOnSet(g, part)
      /\ Total(list, rows \ part) = SumFunctionOnSet(g, rows \ part)
  BY <1>2, TotalOnSet
<1> HIDE DEF g
<1> QED
  BY <1>1, <1>3, SumParts

\* A row more adds its amount.
LEMMA TotalAppend ==
  ASSUME NEW list \in Seq(Credit), NEW c \in Credit,
         NEW rows \in SUBSET DOMAIN list
  PROVE  LET new == Append(list, c)
             n == Len(list) + 1
         IN  /\ new \in Seq(Credit)
             /\ DOMAIN new = DOMAIN list \cup {n}
             /\ n \notin DOMAIN list
             /\ new[n] = c
             /\ \A i \in DOMAIN list : new[i] = list[i]
             /\ Total(new, rows) = Total(list, rows)
             /\ Total(new, rows \cup {n}) = Total(list, rows) + c.amount
<1> DEFINE new == Append(list, c)
           n == Len(list) + 1
           g == [i \in DOMAIN new |-> new[i].amount]
<1>1. /\ new \in Seq(Credit)
      /\ DOMAIN new = DOMAIN list \cup {n}
      /\ n \notin DOMAIN list
      /\ new[n] = c
      /\ \A i \in DOMAIN list : new[i] = list[i]
  OBVIOUS
<1> HIDE DEF new, n
<1>2. Total(new, rows) = Total(list, rows)
  BY <1>1, TotalSame
<1>3. rows \in SUBSET DOMAIN new /\ rows \cup {n} \in SUBSET DOMAIN new
      /\ n \notin rows
  BY <1>1
<1>4. /\ Total(new, rows) = SumFunctionOnSet(g, rows)
      /\ Total(new, rows \cup {n}) = SumFunctionOnSet(g, rows \cup {n})
  BY <1>1, <1>3, TotalOnSet
<1>5. IsFiniteSet(rows) /\ (\A i \in rows : g[i] \in Int) /\ g[n] = c.amount
      /\ g[n] \in Int
  <2>1. IsFiniteSet(rows) /\ \A i \in DOMAIN new : new[i].amount \in Nat
    BY <1>1, <1>3, RowsFinite
  <2>2. n \in DOMAIN new
    BY <1>1
  <2>3. \A i \in DOMAIN new : g[i] = new[i].amount
    OBVIOUS
  <2> HIDE DEF g
  <2> QED
    BY <1>1, <1>3, <2>1, <2>2, <2>3
<1> HIDE DEF g
<1>6. SumFunctionOnSet(g, rows \cup {n}) = g[n] + SumFunctionOnSet(g, rows)
  BY <1>3, <1>5, SumAdd
<1>7. SumFunctionOnSet(g, rows) \in Int
  BY <1>5, SumInt
<1>8. Total(new, rows \cup {n}) = Total(list, rows) + c.amount
  BY <1>2, <1>4, <1>5, <1>6, <1>7
<1> QED
  BY <1>1, <1>2, <1>8 DEF new, n

-----------------------------------------------------------------------------
(* The inductive invariant *)

\* What open orders reserve, and a turnover no credit is younger than.
ReservedMatchesOrders ==
  reserved = SumFunctionOnSet(Stake, {o \in Orders : wagers[o] = "open"})

GivenBefore == \A i \in DOMAIN credits : credits[i].since <= turnover

\* A row that is as old as a turnover and has the progress made since.
RowOK(c, now) ==
  /\ c.since <= now
  /\ c.progress = Least(c.required, now - c.since)
  /\ c.status = "unlocked" <=> c.progress = c.required

\* The same of the rows, the two totals and the turnover, as values.
CreditsOK(list, total, taken, now) ==
  /\ list \in Seq(Credit)
  /\ total \in Nat
  /\ taken \in Nat
  /\ now \in Nat
  /\ \A i \in DOMAIN list : RowOK(list[i], now)
  /\ total = Total(list, LockedRows(list))
  /\ taken <= Total(list, TakenBackRows(list))

IInv ==
  /\ TypeOK
  /\ GivenBefore
  /\ LockedMatchesCredits
  /\ UnlockedWasWagered
  /\ ClawbackFollowsTerms
  /\ OnlyBetsAndClawbacksOverdraw
  /\ BalanceExplained
  /\ ReservedMatchesOrders

LEMMA SetStake ==
  ASSUME NEW W \in SUBSET Wagers
  PROVE  /\ IsFiniteSet(W)
         /\ \A w \in W : Stake[w] \in Nat /\ Stake[w] \in Int
         /\ SumFunctionOnSet(Stake, W) \in Nat
<1>1. IsFiniteSet(Wagers)
  BY CashbackAssumption, FS_Union DEF CashbackAssumption, Wagers
<1>2. IsFiniteSet(W)
  BY <1>1, FS_Subset
<1>3. \A w \in W : Stake[w] \in Nat /\ Stake[w] \in Int
  BY CashbackAssumption DEF CashbackAssumption, Wagers
<1> QED
  BY <1>2, <1>3, SumNat

\* What the wagers of a set that are in one of some states stake.
StakeIn(W, at, states) == SumFunctionOnSet(Stake, {w \in W : at[w] \in states})

Placed == {"open", "lost", "won", "cancelled"}

LEMMA StakeNat ==
  ASSUME NEW W \in SUBSET Wagers, NEW at, NEW states
  PROVE  StakeIn(W, at, states) \in Nat
  BY SetStake DEF StakeIn

\* The wallet and what it went through, as values.
AccountsOK(bal, res, given, at, taken, out) ==
  /\ bal \in Int
  /\ out \in Nat
  /\ at \in [Wagers -> {"new"} \cup Placed]
  /\ res = StakeIn(Orders, at, {"open"})
  /\ bal = InitialBalance - StakeIn(Bets, at, Placed)
             + 2 * StakeIn(Bets, at, {"won"}) - StakeIn(Orders, at, {"lost"})
             - out + given - taken
  /\ bal + StakeIn(Bets, at, Placed) + taken >= res
  /\ bal < 0 => \E o \in Orders : at[o] = "lost"

LEMMA AccountsAsValues ==
  ASSUME wagers \in [Wagers -> {"new"} \cup Placed]
  PROVE  /\ Staked = StakeIn(Bets, wagers, Placed)
         /\ Returned = 2 * StakeIn(Bets, wagers, {"won"})
         /\ LostOrders = StakeIn(Orders, wagers, {"lost"})
         /\ SumFunctionOnSet(Stake, {o \in Orders : wagers[o] = "open"})
              = StakeIn(Orders, wagers, {"open"})
         /\ SumOf(DOMAIN credits) = Total(credits, DOMAIN credits)
<1>1. {b \in Bets : wagers[b] # "new"} = {b \in Bets : wagers[b] \in Placed}
  BY DEF Wagers, Placed
<1>2. /\ {b \in Bets : wagers[b] = "won"} = {b \in Bets : wagers[b] \in {"won"}}
      /\ {o \in Orders : wagers[o] = "lost"} = {o \in Orders : wagers[o] \in {"lost"}}
      /\ {o \in Orders : wagers[o] = "open"} = {o \in Orders : wagers[o] \in {"open"}}
  OBVIOUS
<1> QED
  BY Zenon, <1>1, <1>2 DEF Staked, Returned, LostOrders, StakeIn, SumOf, Total

LEMMA CreditsAsValues ==
  /\ TypeOK /\ GivenBefore /\ LockedMatchesCredits /\ UnlockedWasWagered
       /\ ClawbackFollowsTerms => CreditsOK(credits, locked, clawed, turnover)
  /\ CreditsOK(credits, locked, clawed, turnover)
       => GivenBefore /\ LockedMatchesCredits /\ UnlockedWasWagered
            /\ ClawbackFollowsTerms
  BY DEF CreditsOK, TypeOK, GivenBefore, LockedMatchesCredits, UnlockedWasWagered,
         ClawbackFollowsTerms, RowOK, SumOf, Total, LockedRows, TakenBackRows

-----------------------------------------------------------------------------
(* Wagering *)

\* A row that is wagered keeps its invariant.
LEMMA WageredRow ==
  ASSUME NEW c \in Credit, NEW stake \in Nat, NEW t \in Nat, RowOK(c, t)
  PROVE  /\ Wagered(c, stake) \in Credit
         /\ Wagered(c, stake).amount = c.amount
         /\ Wagered(c, stake).deduct = c.deduct
         /\ RowOK(Wagered(c, stake), t + stake)
         /\ Wagered(c, stake).status = "locked"
              <=> (c.status = "locked" /\ ~Reached(c, stake))
         /\ Reached(c, stake) => c.status = "locked"
<1>1. /\ c.required \in Nat /\ c.progress \in Nat /\ c.since \in Nat
      /\ c.status \in {"locked", "unlocked"} /\ c.since <= t
      /\ c.progress = Least(c.required, t - c.since)
      /\ c.status = "unlocked" <=> c.progress = c.required
  BY DEF Credit, RowOK
<1> DEFINE p == Least(c.required, c.progress + stake)
<1>2. p = Least(c.required, (t + stake) - c.since) /\ p \in Nat
  BY <1>1 DEF Least
<1>3. CASE c.status = "unlocked"
  <2>1. Wagered(c, stake) = c /\ ~Reached(c, stake)
    BY <1>3 DEF Wagered, Reached
  <2>2. c.progress = Least(c.required, (t + stake) - c.since)
    BY <1>1, <1>3 DEF Least
  <2>3. c.since <= t + stake
    BY <1>1
  <2>4. RowOK(c, t + stake)
    BY <1>1, <2>2, <2>3 DEF RowOK
  <2> QED
    BY <1>1, <1>3, <2>1, <2>4
<1>4. CASE c.status = "locked"
  <2>1. Advanced(c, stake) = [c EXCEPT !.progress = p]
    BY DEF Advanced
  <2>2. Reached(c, stake) <=> p = c.required
    BY <1>1, <1>4, <2>1 DEF Reached, Credit
  <2>3. Wagered(c, stake) =
          [c EXCEPT !.progress = p,
                    !.status = IF Reached(c, stake) THEN "unlocked" ELSE "locked"]
    BY <1>4, <2>1 DEF Wagered, Credit
  <2> HIDE DEF p
  <2>4. /\ Wagered(c, stake).since = c.since
        /\ Wagered(c, stake).required = c.required
        /\ Wagered(c, stake).progress = p
        /\ Wagered(c, stake).amount = c.amount
        /\ Wagered(c, stake).deduct = c.deduct
        /\ Wagered(c, stake).status = IF Reached(c, stake) THEN "unlocked" ELSE "locked"
        /\ Wagered(c, stake) \in Credit
    BY <1>1, <1>2, <2>3 DEF Credit
  <2>5. c.since <= t + stake
    BY <1>1
  <2>6. Wagered(c, stake).status = IF p = c.required THEN "unlocked" ELSE "locked"
    BY <2>2, <2>4
  <2>7. Wagered(c, stake).status = "unlocked"
          <=> Wagered(c, stake).progress = Wagered(c, stake).required
    BY <2>4, <2>6
  <2>8. Wagered(c, stake).progress
          = Least(Wagered(c, stake).required, (t + stake) - Wagered(c, stake).since)
    BY <1>2, <2>4
  <2>9. Wagered(c, stake).since <= t + stake
    BY <2>4, <2>5
  <2>10. RowOK(Wagered(c, stake), t + stake)
    BY <2>9, <2>7, <2>8 DEF RowOK
  <2> QED
    BY <1>4, <2>4, <2>10
<1> QED
  BY <1>1, <1>3, <1>4

LEMMA WagerKeeps ==
  ASSUME CreditsOK(credits, locked, clawed, turnover), NEW stake \in Nat,
         NEW left \in Nat, RecordWager(stake, left)
  PROVE  /\ CreditsOK(credits', locked', clawed', turnover')
         /\ clawed' - clawed \in Nat
         /\ clawed' - clawed <= left
         /\ balance' = left - (clawed' - clawed)
         /\ Total(credits', DOMAIN credits') = Total(credits, DOMAIN credits)
         /\ turnover' = turnover + stake
<1> DEFINE U == {i \in DOMAIN credits : Reached(credits[i], stake)}
           UD == {i \in U : Deducts(credits[i])}
           L == LockedRows(credits)
           D == TakenBackRows(credits)
           N == TakenBackRows(credits')
           due == Total(credits, UD)
           taken == Least(left, due)
           K == L \ U
<1>1. /\ credits' = [i \in DOMAIN credits |-> Wagered(credits[i], stake)]
      /\ locked' = locked - Total(credits, U)
      /\ balance' = left - taken
      /\ clawed' = clawed + taken
      /\ turnover' = turnover + stake
  BY DEF RecordWager, SumOf, Total
<1>2. /\ credits \in Seq(Credit) /\ locked \in Nat /\ clawed \in Nat
      /\ turnover \in Nat /\ locked = Total(credits, L)
      /\ clawed <= Total(credits, D)
      /\ \A i \in DOMAIN credits : credits[i] \in Credit /\ RowOK(credits[i], turnover)
  BY RowsFinite DEF CreditsOK
<1>3. \A i \in DOMAIN credits :
        /\ credits'[i] \in Credit
        /\ credits'[i].amount = credits[i].amount
        /\ credits'[i].deduct = credits[i].deduct
        /\ RowOK(credits'[i], turnover')
        /\ credits'[i].status = "locked"
             <=> (credits[i].status = "locked" /\ ~Reached(credits[i], stake))
        /\ Reached(credits[i], stake) => credits[i].status = "locked"
  <2> TAKE i \in DOMAIN credits
  <2>1. credits'[i] = Wagered(credits[i], stake)
    BY <1>1
  <2> QED
    BY <1>1, <1>2, <2>1, WageredRow
<1>4. DOMAIN credits' = DOMAIN credits /\ credits' \in Seq(Credit)
  <2>1. DOMAIN credits = 1 .. Len(credits) /\ Len(credits) \in Nat
    BY <1>2
  <2>2. DOMAIN credits' = DOMAIN credits
    BY <1>1
  <2>3. credits' \in [1 .. Len(credits) -> Credit]
    BY <1>1, <1>3, <2>1
  <2> QED
    BY <2>1, <2>2, <2>3
<1>5. \A rows \in SUBSET DOMAIN credits : Total(credits', rows) = Total(credits, rows)
  BY <1>3, TotalSame
<1>6. U \in SUBSET L /\ UD \in SUBSET DOMAIN credits /\ L \in SUBSET DOMAIN credits
      /\ D \in SUBSET DOMAIN credits /\ K \in SUBSET DOMAIN credits
      /\ U \in SUBSET DOMAIN credits
  BY <1>3 DEF LockedRows, TakenBackRows
<1>7. LockedRows(credits') = K
  BY <1>3, <1>4 DEF LockedRows
<1>8. N = D \cup UD /\ D = N \ UD /\ N \in SUBSET DOMAIN credits /\ UD \in SUBSET N
  <2>1. \A i \in DOMAIN credits :
          /\ credits[i].status \in {"locked", "unlocked"}
          /\ credits'[i].status \in {"locked", "unlocked"}
    BY <1>2, <1>3 DEF Credit
  <2> QED
    BY <1>3, <1>4, <2>1 DEF Deducts, TakenBackRows
<1> HIDE DEF U, UD, L, D, N
<1>9. /\ Total(credits, L) = Total(credits, U) + Total(credits, K)
      /\ Total(credits, N) = Total(credits, UD) + Total(credits, D)
      /\ Total(credits, U) \in Nat /\ Total(credits, K) \in Nat
      /\ Total(credits, UD) \in Nat /\ Total(credits, D) \in Nat
  <2>1. Total(credits, L) = Total(credits, U) + Total(credits, K)
    BY <1>2, <1>6, TotalParts
  <2>2. Total(credits, N) = Total(credits, UD) + Total(credits, N \ UD)
    BY <1>2, <1>8, TotalParts
  <2>3. Total(credits, N \ UD) = Total(credits, D)
    BY <1>8
  <2>4. /\ Total(credits, U) \in Nat /\ Total(credits, K) \in Nat
        /\ Total(credits, UD) \in Nat /\ Total(credits, D) \in Nat
    BY <1>2, <1>6, TotalNat
  <2> QED
    BY <2>1, <2>2, <2>3, <2>4
<1> HIDE DEF K
<1>10. due \in Nat /\ taken \in Nat /\ taken <= left /\ taken <= due
  BY <1>9, LeastFacts
<1>11. locked' = Total(credits', LockedRows(credits')) /\ locked' \in Nat
  <2>1. Total(credits', K) = Total(credits, K)
    BY <1>5, <1>6
  <2>2. locked = Total(credits, U) + Total(credits, K)
    BY <1>2, <1>9
  <2>3. locked' = Total(credits, K)
    BY <1>1, <1>9, <2>2
  <2> QED
    BY <1>7, <1>9, <2>1, <2>3
<1>12. clawed' <= Total(credits', N) /\ clawed' \in Nat
  <2>1. Total(credits', N) = Total(credits, N)
    BY <1>5, <1>8
  <2>2. clawed' = clawed + taken
    BY <1>1
  <2>3. clawed' <= Total(credits, N)
    BY <1>2, <1>9, <1>10, <2>2
  <2> QED
    BY <1>2, <1>10, <2>1, <2>2, <2>3
<1>13. CreditsOK(credits', locked', clawed', turnover')
  BY <1>1, <1>2, <1>3, <1>4, <1>11, <1>12 DEF CreditsOK, N
<1>14. Total(credits', DOMAIN credits') = Total(credits, DOMAIN credits)
  BY <1>4, <1>5
<1> QED
  BY <1>1, <1>2, <1>10, <1>13, <1>14

-----------------------------------------------------------------------------
(* Losing *)

LEMMA EffectiveOK ==
  ASSUME config \in Configs, override \in Overrides
  PROVE  Effective.rate \in Nat /\ Effective.multiplier \in Nat
         /\ Effective.deduct \in BOOLEAN
<1>1. config \in Setting
  BY CashbackAssumption DEF CashbackAssumption
<1>2. override \in [enabled: BOOLEAN \cup {Inherit}, rate: Nat \cup {Inherit},
                   multiplier: Nat \cup {Inherit}]
  BY CashbackAssumption DEF CashbackAssumption
<1>3. /\ Or(override.rate, config.rate) \in Nat
      /\ Or(override.multiplier, config.multiplier) \in Nat
      /\ config.deduct \in BOOLEAN
  BY <1>1, <1>2 DEF Or, Setting
<1> QED
  BY <1>3 DEF Effective

LEMMA LossKeeps ==
  ASSUME CreditsOK(credits, locked, clawed, turnover), config \in Configs,
         override \in Overrides, NEW loss \in Nat, NEW left \in Int,
         CreditForLoss(loss, left), UNCHANGED <<clawed, turnover>>
  PROVE  /\ CreditsOK(credits', locked', clawed', turnover')
         /\ Percentage(loss) \in Nat
         /\ balance' = left + Percentage(loss)
         /\ Total(credits', DOMAIN credits')
              = Total(credits, DOMAIN credits) + Percentage(loss)
<1> DEFINE amount == Percentage(loss)
           required == Cents(amount * Effective.multiplier)
           credit == NewCredit(amount)
           n == Len(credits) + 1
           L == LockedRows(credits)
           T == TakenBackRows(credits)
<1>1. amount \in Nat
  <2>1. loss * Effective.rate \in Nat
    BY EffectiveOK
  <2> QED
    BY <2>1, CentsNat DEF Percentage
<1>2. required \in Nat
  <2>1. amount * Effective.multiplier \in Nat
    BY <1>1, EffectiveOK
  <2> QED
    BY <2>1, CentsNat
<1>3. /\ credits' = IF amount > 0 THEN Append(credits, credit) ELSE credits
      /\ balance' = left + amount
      /\ locked' = IF credit.status = "locked" THEN locked + amount ELSE locked
      /\ clawed' = clawed /\ turnover' = turnover
  BY DEF CreditForLoss
<1>4. /\ credits \in Seq(Credit) /\ locked \in Nat /\ clawed \in Nat
      /\ turnover \in Nat /\ locked = Total(credits, L)
      /\ clawed <= Total(credits, T)
      /\ \A i \in DOMAIN credits : RowOK(credits[i], turnover)
  BY DEF CreditsOK
<1>5. /\ credit \in Credit /\ credit.amount = amount
      /\ credit.status \in {"locked", "unlocked"}
      /\ RowOK(credit, turnover)
  <2> HIDE DEF amount
  <2>1. credit = [amount |-> amount, required |-> required, progress |-> 0,
                  deduct |-> Effective.deduct, since |-> turnover,
                  status |-> IF required > 0 THEN "locked" ELSE "unlocked"]
    BY DEF NewCredit
  <2> HIDE DEF credit, required
  <2>2. credit \in Credit /\ credit.amount = amount
        /\ credit.status \in {"locked", "unlocked"}
    BY <1>1, <1>2, <1>4, <2>1, EffectiveOK DEF Credit
  <2>3. Least(required, turnover - turnover) = 0
    BY <1>2, <1>4 DEF Least
  <2>4. RowOK(credit, turnover)
    BY <1>2, <1>4, <2>1, <2>3 DEF RowOK
  <2> QED
    BY <2>2, <2>4
<1>6. L \in SUBSET DOMAIN credits /\ T \in SUBSET DOMAIN credits
      /\ DOMAIN credits \in SUBSET DOMAIN credits
  BY DEF LockedRows, TakenBackRows
<1> HIDE DEF amount, credit, n, required
<1>7. CASE amount > 0
  <2> DEFINE new == Append(credits, credit)
  <2>1. /\ new \in Seq(Credit) /\ DOMAIN new = DOMAIN credits \cup {n}
        /\ n \notin DOMAIN credits /\ new[n] = credit
        /\ \A i \in DOMAIN credits : new[i] = credits[i]
    BY <1>4, <1>5, <1>6, TotalAppend DEF n
  <2>2. \A rows \in SUBSET DOMAIN credits :
          /\ Total(new, rows) = Total(credits, rows)
          /\ Total(new, rows \cup {n}) = Total(credits, rows) + amount
    BY <1>4, <1>5, TotalAppend DEF n
  <2>3. credits' = new
    BY <1>3, <1>7
  <2> HIDE DEF new
  <2>4. \A i \in DOMAIN new : RowOK(new[i], turnover)
    BY <1>4, <1>5, <2>1
  <2>5. LockedRows(new) = IF credit.status = "locked" THEN L \cup {n} ELSE L
    BY <2>1 DEF LockedRows
  <2>6. TakenBackRows(new) = T \/ TakenBackRows(new) = T \cup {n}
    BY <2>1 DEF TakenBackRows
  <2> HIDE DEF L, T
  <2>7. Total(new, L) = Total(credits, L)
        /\ Total(new, L \cup {n}) = Total(credits, L) + amount
    BY <1>6, <2>2
  <2>8. Total(new, T) = Total(credits, T)
        /\ Total(new, T \cup {n}) = Total(credits, T) + amount
    BY <1>6, <2>2
  <2>9. Total(new, DOMAIN new) = Total(credits, DOMAIN credits) + amount
    BY <2>1, <2>2
  <2>10. locked' = Total(new, LockedRows(new)) /\ locked' \in Nat
    <3>1. CASE credit.status = "locked"
      <4>1. LockedRows(new) = L \cup {n}
        BY <2>5, <3>1
      <4> QED
        BY <1>1, <1>3, <1>4, <2>7, <3>1, <4>1
    <3>2. CASE credit.status # "locked"
      <4>1. LockedRows(new) = L
        BY <2>5, <3>2
      <4> QED
        BY <1>3, <1>4, <2>7, <3>2, <4>1
    <3> QED
      BY <3>1, <3>2
  <2>11. Total(credits, T) \in Nat
    BY <1>4, <1>6, TotalNat
  <2>12. clawed <= Total(new, TakenBackRows(new))
    <3>1. Total(new, TakenBackRows(new)) \in {Total(new, T), Total(new, T \cup {n})}
      BY <2>6
    <3> QED
      BY <1>1, <1>4, <2>8, <2>11, <3>1
  <2> QED
    BY <1>1, <1>3, <1>4, <2>1, <2>3, <2>4, <2>9, <2>10, <2>12 DEF CreditsOK, amount
<1>8. CASE ~ (amount > 0)
  <2>1. amount = 0 /\ credits' = credits /\ locked' = locked
    BY <1>1, <1>3, <1>4, <1>8
  <2>2. Total(credits, DOMAIN credits) \in Nat
    BY <1>4, <1>6, TotalNat
  <2> QED
    BY <1>3, <2>1, <2>2 DEF amount
<1> QED
  BY <1>7, <1>8

-----------------------------------------------------------------------------
(* The steps *)

\* The inductive invariant, on values.
Good ==
  /\ config \in Configs
  /\ override \in Overrides
  /\ CreditsOK(credits, locked, clawed, turnover)
  /\ AccountsOK(balance, reserved, Total(credits, DOMAIN credits), wagers, clawed,
                withdrawn)

LEMMA GoodIsIInv == IInv <=> Good
<1>1. ASSUME IInv PROVE Good
  <2>1. CreditsOK(credits, locked, clawed, turnover)
    BY <1>1, CreditsAsValues DEF IInv
  <2>2. wagers \in [Wagers -> {"new"} \cup Placed]
    BY <1>1 DEF IInv, TypeOK, Placed
  <2>3. AccountsOK(balance, reserved, Total(credits, DOMAIN credits), wagers, clawed,
                   withdrawn)
    BY <1>1, <2>2, AccountsAsValues
    DEF IInv, TypeOK, ReservedMatchesOrders, OnlyBetsAndClawbacksOverdraw,
        BalanceExplained, AccountsOK
  <2> QED
    BY <1>1, <2>1, <2>3 DEF IInv, TypeOK, Good
<1>2. ASSUME Good PROVE IInv
  <2>1. GivenBefore /\ LockedMatchesCredits /\ UnlockedWasWagered
          /\ ClawbackFollowsTerms
    BY <1>2, CreditsAsValues DEF Good
  <2>2. wagers \in [Wagers -> {"new"} \cup Placed] /\ balance \in Int /\ withdrawn \in Nat
    BY <1>2 DEF Good, AccountsOK
  <2>3. ReservedMatchesOrders /\ OnlyBetsAndClawbacksOverdraw /\ BalanceExplained
    BY <1>2, <2>2, AccountsAsValues
    DEF Good, ReservedMatchesOrders, OnlyBetsAndClawbacksOverdraw,
        BalanceExplained, AccountsOK
  <2>4. reserved \in Nat
    <3>1. reserved = StakeIn(Orders, wagers, {"open"})
      BY <1>2 DEF Good, AccountsOK
    <3>2. Orders \in SUBSET Wagers
      BY DEF Wagers
    <3> QED
      BY <3>1, <3>2, StakeNat
  <2>5. TypeOK
    BY <1>2, <2>2, <2>4 DEF Good, CreditsOK, TypeOK, Placed
  <2> QED
    BY <2>1, <2>3, <2>5 DEF IInv
<1> QED
  BY <1>1, <1>2

\* What the steps need to know of the sums, and of the stake that moves.
LEMMA StepFacts ==
  ASSUME Good
  PROVE  /\ StakeIn(Bets, wagers, Placed) \in Nat
         /\ StakeIn(Bets, wagers, {"won"}) \in Nat
         /\ StakeIn(Orders, wagers, {"lost"}) \in Nat
         /\ StakeIn(Orders, wagers, {"open"}) \in Nat
         /\ Total(credits, DOMAIN credits) \in Nat
         /\ InitialBalance \in Nat /\ locked \in Nat /\ clawed \in Nat
         /\ turnover \in Nat /\ balance \in Int /\ reserved \in Nat /\ withdrawn \in Nat
         /\ wagers \in [Wagers -> {"new"} \cup Placed]
         /\ \A w \in Wagers : Stake[w] \in Nat
         /\ \A b \in Bets : b \in Wagers /\ b \notin Orders
         /\ \A o \in Orders : o \in Wagers /\ o \notin Bets
<1>1. Bets \in SUBSET Wagers /\ Orders \in SUBSET Wagers
  BY DEF Wagers
<1>2. Total(credits, DOMAIN credits) \in Nat
  BY TotalNat DEF Good, CreditsOK
<1> QED
  BY <1>1, <1>2, StakeNat, CashbackAssumption
  DEF Good, CreditsOK, AccountsOK, CashbackAssumption, Wagers

\* Where one wager goes to another state, its stake moves between the sums.
LEMMA StakeGoes ==
  ASSUME Good, NEW w \in Wagers, NEW s \in Placed,
         wagers' = [wagers EXCEPT ![w] = s]
  PROVE  /\ wagers' \in [Wagers -> {"new"} \cup Placed] /\ wagers'[w] = s
         /\ \A x \in Wagers \ {w} : wagers'[x] = wagers[x]
         /\ \A states :
              /\ (w \in Bets /\ wagers[w] \notin states /\ s \in states =>
                    /\ StakeIn(Bets, wagers', states)
                         = StakeIn(Bets, wagers, states) + Stake[w])
              /\ (w \notin Bets \/ (wagers[w] \in states <=> s \in states) =>
                    StakeIn(Bets, wagers', states) = StakeIn(Bets, wagers, states))
              /\ (w \in Orders /\ wagers[w] \notin states /\ s \in states =>
                    /\ StakeIn(Orders, wagers', states)
                         = StakeIn(Orders, wagers, states) + Stake[w])
              /\ (w \in Orders /\ wagers[w] \in states /\ s \notin states =>
                    /\ StakeIn(Orders, wagers', states)
                         = StakeIn(Orders, wagers, states) - Stake[w])
              /\ (w \notin Orders \/ (wagers[w] \in states <=> s \in states) =>
                    StakeIn(Orders, wagers', states) = StakeIn(Orders, wagers, states))
<1>1. wagers' \in [Wagers -> {"new"} \cup Placed] /\ wagers'[w] = s
      /\ \A x \in Wagers \ {w} : wagers'[x] = wagers[x]
  BY StepFacts
<1>2. Bets \in SUBSET Wagers /\ Orders \in SUBSET Wagers
  BY DEF Wagers
<1>3. ASSUME NEW W \in SUBSET Wagers, NEW states
      PROVE  /\ w \in W /\ wagers[w] \notin states /\ s \in states
                  => StakeIn(W, wagers', states) = StakeIn(W, wagers, states) + Stake[w]
             /\ w \in W /\ wagers[w] \in states /\ s \notin states
                  => StakeIn(W, wagers', states) = StakeIn(W, wagers, states) - Stake[w]
             /\ w \notin W \/ (wagers[w] \in states <=> s \in states)
                  => StakeIn(W, wagers', states) = StakeIn(W, wagers, states)
  <2> DEFINE A == {x \in W : wagers[x] \in states}
             B == {x \in W : wagers'[x] \in states}
  <2>1. A \in SUBSET Wagers /\ B \in SUBSET Wagers
    BY <1>1
  <2>2. (w \notin W \/ (wagers[w] \in states <=> wagers'[w] \in states)) => B = A
    BY <1>1
  <2>3. w \in W /\ wagers[w] \notin states /\ wagers'[w] \in states
          => w \notin A /\ B = A \cup {w}
    BY <1>1
  <2>4. w \in W /\ wagers[w] \in states /\ wagers'[w] \notin states
          => w \notin B /\ A = B \cup {w}
    BY <1>1
  <2>5. StakeIn(W, wagers, states) = SumFunctionOnSet(Stake, A)
        /\ StakeIn(W, wagers', states) = SumFunctionOnSet(Stake, B)
    BY DEF StakeIn
  <2> HIDE DEF A, B
  <2>6. /\ IsFiniteSet(A) /\ IsFiniteSet(B) /\ Stake[w] \in Int
        /\ \A x \in A : Stake[x] \in Int
        /\ \A x \in B : Stake[x] \in Int
        /\ SumFunctionOnSet(Stake, A) \in Int /\ SumFunctionOnSet(Stake, B) \in Int
    BY <2>1, SetStake, w \in Wagers, {w} \in SUBSET Wagers
  <2>7. w \notin A => SumFunctionOnSet(Stake, A \cup {w})
                         = Stake[w] + SumFunctionOnSet(Stake, A)
    BY <2>6, SumAdd
  <2>8. w \notin B => SumFunctionOnSet(Stake, B \cup {w})
                         = Stake[w] + SumFunctionOnSet(Stake, B)
    BY <2>6, SumAdd
  <2>9. w \notin W \/ (wagers[w] \in states <=> wagers'[w] \in states)
          => StakeIn(W, wagers', states) = StakeIn(W, wagers, states)
    BY <2>2, <2>5
  <2>10. ASSUME w \in W, wagers[w] \notin states, wagers'[w] \in states
         PROVE  StakeIn(W, wagers', states) = StakeIn(W, wagers, states) + Stake[w]
    <3>1. SumFunctionOnSet(Stake, B) = Stake[w] + SumFunctionOnSet(Stake, A)
      BY <2>3, <2>7, <2>10
    <3> QED
      BY <2>5, <2>6, <3>1
  <2>11. ASSUME w \in W, wagers[w] \in states, wagers'[w] \notin states
         PROVE  StakeIn(W, wagers', states) = StakeIn(W, wagers, states) - Stake[w]
    <3>1. SumFunctionOnSet(Stake, A) = Stake[w] + SumFunctionOnSet(Stake, B)
      BY <2>4, <2>8, <2>11
    <3> QED
      BY <2>5, <2>6, <3>1
  <2> QED
    BY <1>1, <2>9, <2>10, <2>11
<1>4. \A states :
        /\ (w \in Bets /\ wagers[w] \notin states /\ s \in states =>
               StakeIn(Bets, wagers', states)
                 = StakeIn(Bets, wagers, states) + Stake[w])
        /\ (w \notin Bets \/ (wagers[w] \in states <=> s \in states) =>
               StakeIn(Bets, wagers', states) = StakeIn(Bets, wagers, states))
  BY <1>2, <1>3
<1>5. \A states :
        /\ (w \in Orders /\ wagers[w] \notin states /\ s \in states =>
               StakeIn(Orders, wagers', states)
                 = StakeIn(Orders, wagers, states) + Stake[w])
        /\ (w \in Orders /\ wagers[w] \in states /\ s \notin states =>
               StakeIn(Orders, wagers', states)
                 = StakeIn(Orders, wagers, states) - Stake[w])
        /\ (w \notin Orders \/ (wagers[w] \in states <=> s \in states) =>
               StakeIn(Orders, wagers', states) = StakeIn(Orders, wagers, states))
  BY <1>2, <1>3
<1> QED
  BY <1>1, <1>4, <1>5

\* place_bet: what the wager takes back leaves the balance with the stake.
LEMMA PlaceBetStep ==
  ASSUME Good, NEW b \in Bets, PlaceBet(b) PROVE Good'
<1>1. /\ wagers[b] = "new" /\ balance >= Stake[b]
      /\ wagers' = [wagers EXCEPT ![b] = "open"]
      /\ RecordWager(Stake[b], balance - Stake[b])
      /\ UNCHANGED <<config, override, reserved, withdrawn>>
  BY DEF PlaceBet
<1>2. b \in Wagers /\ b \notin Orders /\ Stake[b] \in Nat /\ balance - Stake[b] \in Nat
  BY <1>1, StepFacts
<1>3. /\ CreditsOK(credits', locked', clawed', turnover')
      /\ clawed' - clawed \in Nat /\ clawed' - clawed <= balance - Stake[b]
      /\ balance' = (balance - Stake[b]) - (clawed' - clawed)
      /\ Total(credits', DOMAIN credits') = Total(credits, DOMAIN credits)
  BY <1>1, <1>2, WagerKeeps DEF Good
<1>4. /\ wagers' \in [Wagers -> {"new"} \cup Placed]
      /\ StakeIn(Bets, wagers', Placed) = StakeIn(Bets, wagers, Placed) + Stake[b]
      /\ StakeIn(Bets, wagers', {"won"}) = StakeIn(Bets, wagers, {"won"})
      /\ StakeIn(Orders, wagers', {"lost"}) = StakeIn(Orders, wagers, {"lost"})
      /\ StakeIn(Orders, wagers', {"open"}) = StakeIn(Orders, wagers, {"open"})
  BY <1>1, <1>2, StakeGoes DEF Placed
<1>5. clawed' \in Int /\ balance' >= 0 /\ balance' \in Int
  <2>1. clawed' \in Nat
    BY <1>3 DEF CreditsOK
  <2> QED
    BY <1>2, <1>3, <2>1, StepFacts
<1>6. AccountsOK(balance', reserved', Total(credits', DOMAIN credits'), wagers',
                 clawed', withdrawn')
  BY <1>1, <1>2, <1>3, <1>4, <1>5, StepFacts DEF Good, AccountsOK
<1> QED
  BY <1>1, <1>3, <1>6 DEF Good

\* place_order: the stake is reserved, what is taken back leaves the balance.
LEMMA PlaceOrderStep ==
  ASSUME Good, NEW o \in Orders, PlaceOrder(o) PROVE Good'
<1>1. /\ wagers[o] = "new" /\ balance - reserved >= Stake[o]
      /\ wagers' = [wagers EXCEPT ![o] = "open"]
      /\ reserved' = reserved + Stake[o]
      /\ RecordWager(Stake[o], balance)
      /\ UNCHANGED <<config, override, withdrawn>>
  BY DEF PlaceOrder
<1>2. o \in Wagers /\ o \notin Bets /\ Stake[o] \in Nat /\ balance \in Nat
  BY <1>1, StepFacts
<1>3. /\ CreditsOK(credits', locked', clawed', turnover')
      /\ clawed' - clawed \in Nat /\ clawed' - clawed <= balance
      /\ balance' = balance - (clawed' - clawed)
      /\ Total(credits', DOMAIN credits') = Total(credits, DOMAIN credits)
  BY <1>1, <1>2, WagerKeeps DEF Good
<1>4. /\ wagers' \in [Wagers -> {"new"} \cup Placed]
      /\ StakeIn(Bets, wagers', Placed) = StakeIn(Bets, wagers, Placed)
      /\ StakeIn(Bets, wagers', {"won"}) = StakeIn(Bets, wagers, {"won"})
      /\ StakeIn(Orders, wagers', {"lost"}) = StakeIn(Orders, wagers, {"lost"})
      /\ StakeIn(Orders, wagers', {"open"})
           = StakeIn(Orders, wagers, {"open"}) + Stake[o]
  BY <1>1, <1>2, StakeGoes DEF Placed
<1>5. clawed' \in Int /\ balance' >= 0 /\ balance' \in Int
  <2>1. clawed' \in Nat
    BY <1>3 DEF CreditsOK
  <2> QED
    BY <1>2, <1>3, <2>1, StepFacts
<1>6. AccountsOK(balance', reserved', Total(credits', DOMAIN credits'), wagers',
                 clawed', withdrawn')
  BY <1>1, <1>2, <1>3, <1>4, <1>5, StepFacts DEF Good, AccountsOK
<1> QED
  BY <1>1, <1>3, <1>6 DEF Good

\* settle_bet, _settle_parlay_if_ready: what is given reaches the balance.
LEMMA LoseBetStep ==
  ASSUME Good, NEW b \in Bets, LoseBet(b) PROVE Good'
<1>1. /\ wagers[b] = "open" /\ CreditForLoss(Stake[b], balance)
      /\ wagers' = [wagers EXCEPT ![b] = "lost"]
      /\ UNCHANGED <<config, override, reserved, clawed, withdrawn, turnover>>
  BY DEF LoseBet
<1>2. b \in Wagers /\ b \notin Orders /\ Stake[b] \in Nat /\ balance \in Int
  BY StepFacts
<1>3. /\ CreditsOK(credits', locked', clawed', turnover')
      /\ Percentage(Stake[b]) \in Nat
      /\ balance' = balance + Percentage(Stake[b])
      /\ Total(credits', DOMAIN credits')
           = Total(credits, DOMAIN credits) + Percentage(Stake[b])
  BY <1>1, <1>2, LossKeeps DEF Good
<1>4. /\ wagers' \in [Wagers -> {"new"} \cup Placed]
      /\ StakeIn(Bets, wagers', Placed) = StakeIn(Bets, wagers, Placed)
      /\ StakeIn(Bets, wagers', {"won"}) = StakeIn(Bets, wagers, {"won"})
      /\ StakeIn(Orders, wagers', {"lost"}) = StakeIn(Orders, wagers, {"lost"})
      /\ StakeIn(Orders, wagers', {"open"}) = StakeIn(Orders, wagers, {"open"})
  BY <1>1, <1>2, StakeGoes DEF Placed
<1>5. \A o \in Orders : wagers[o] = "lost" => wagers'[o] = "lost"
  BY <1>1, <1>2, StepFacts
<1>6. AccountsOK(balance', reserved', Total(credits', DOMAIN credits'), wagers',
                 clawed', withdrawn')
  BY <1>1, <1>2, <1>3, <1>4, <1>5, StepFacts DEF Good, AccountsOK
<1> QED
  BY <1>1, <1>3, <1>6 DEF Good

LEMMA WinBetStep ==
  ASSUME Good, NEW b \in Bets, WinBet(b) PROVE Good'
<1>1. /\ wagers[b] = "open" /\ balance' = balance + 2 * Stake[b]
      /\ wagers' = [wagers EXCEPT ![b] = "won"]
      /\ UNCHANGED <<config, override, reserved, locked, credits, clawed, withdrawn,
                     turnover>>
  BY DEF WinBet
<1>2. b \in Wagers /\ b \notin Orders /\ Stake[b] \in Nat /\ balance \in Int
  BY StepFacts
<1>3. /\ wagers' \in [Wagers -> {"new"} \cup Placed]
      /\ StakeIn(Bets, wagers', Placed) = StakeIn(Bets, wagers, Placed)
      /\ StakeIn(Bets, wagers', {"won"}) = StakeIn(Bets, wagers, {"won"}) + Stake[b]
      /\ StakeIn(Orders, wagers', {"lost"}) = StakeIn(Orders, wagers, {"lost"})
      /\ StakeIn(Orders, wagers', {"open"}) = StakeIn(Orders, wagers, {"open"})
  BY <1>1, <1>2, StakeGoes DEF Placed
<1>4. \A o \in Orders : wagers[o] = "lost" => wagers'[o] = "lost"
  BY <1>1, <1>2, StepFacts
<1>5. AccountsOK(balance', reserved', Total(credits', DOMAIN credits'), wagers',
                 clawed', withdrawn')
  BY <1>1, <1>2, <1>3, <1>4, StepFacts DEF Good, AccountsOK
<1> QED
  BY <1>1, <1>5 DEF Good

\* _settle_fill: the stake leaves the reservation and the balance.
LEMMA LoseOrderStep ==
  ASSUME Good, NEW o \in Orders, LoseOrder(o) PROVE Good'
<1>1. /\ wagers[o] = "open" /\ CreditForLoss(Stake[o], balance - Stake[o])
      /\ reserved' = reserved - Stake[o]
      /\ wagers' = [wagers EXCEPT ![o] = "lost"]
      /\ UNCHANGED <<config, override, clawed, withdrawn, turnover>>
  BY DEF LoseOrder
<1>2. o \in Wagers /\ o \notin Bets /\ Stake[o] \in Nat /\ balance - Stake[o] \in Int
  BY StepFacts
<1>3. /\ CreditsOK(credits', locked', clawed', turnover')
      /\ Percentage(Stake[o]) \in Nat
      /\ balance' = (balance - Stake[o]) + Percentage(Stake[o])
      /\ Total(credits', DOMAIN credits')
           = Total(credits, DOMAIN credits) + Percentage(Stake[o])
  BY <1>1, <1>2, LossKeeps DEF Good
<1>4. /\ wagers' \in [Wagers -> {"new"} \cup Placed]
      /\ StakeIn(Bets, wagers', Placed) = StakeIn(Bets, wagers, Placed)
      /\ StakeIn(Bets, wagers', {"won"}) = StakeIn(Bets, wagers, {"won"})
      /\ StakeIn(Orders, wagers', {"lost"})
           = StakeIn(Orders, wagers, {"lost"}) + Stake[o]
      /\ StakeIn(Orders, wagers', {"open"})
           = StakeIn(Orders, wagers, {"open"}) - Stake[o]
  BY <1>1, <1>2, StakeGoes DEF Placed
<1>5. wagers'[o] = "lost"
  BY <1>1, <1>2, StepFacts
<1>6. AccountsOK(balance', reserved', Total(credits', DOMAIN credits'), wagers',
                 clawed', withdrawn')
  BY <1>1, <1>2, <1>3, <1>4, <1>5, StepFacts DEF Good, AccountsOK
<1> QED
  BY <1>1, <1>3, <1>6 DEF Good

LEMMA CancelOrderStep ==
  ASSUME Good, NEW o \in Orders, CancelOrder(o) PROVE Good'
<1>1. /\ wagers[o] = "open" /\ reserved' = reserved - Stake[o]
      /\ wagers' = [wagers EXCEPT ![o] = "cancelled"]
      /\ UNCHANGED <<config, override, balance, locked, credits, clawed, withdrawn,
                     turnover>>
  BY DEF CancelOrder
<1>2. o \in Wagers /\ o \notin Bets /\ Stake[o] \in Nat /\ balance \in Int
  BY StepFacts
<1>3. /\ wagers' \in [Wagers -> {"new"} \cup Placed]
      /\ StakeIn(Bets, wagers', Placed) = StakeIn(Bets, wagers, Placed)
      /\ StakeIn(Bets, wagers', {"won"}) = StakeIn(Bets, wagers, {"won"})
      /\ StakeIn(Orders, wagers', {"lost"}) = StakeIn(Orders, wagers, {"lost"})
      /\ StakeIn(Orders, wagers', {"open"})
           = StakeIn(Orders, wagers, {"open"}) - Stake[o]
  BY <1>1, <1>2, StakeGoes DEF Placed
<1>4. \A x \in Orders : wagers[x] = "lost" => wagers'[x] = "lost"
  BY <1>1, <1>2, StepFacts
<1>5. AccountsOK(balance', reserved', Total(credits', DOMAIN credits'), wagers',
                 clawed', withdrawn')
  BY <1>1, <1>2, <1>3, <1>4, StepFacts DEF Good, AccountsOK
<1> QED
  BY <1>1, <1>5 DEF Good

LEMMA WithdrawStep ==
  ASSUME Good, NEW amount \in Withdrawals, Withdraw(amount) PROVE Good'
<1>1. /\ balance - reserved - locked >= amount
      /\ balance' = balance - amount /\ withdrawn' = withdrawn + amount
      /\ UNCHANGED <<config, override, reserved, locked, credits, wagers, clawed,
                     turnover>>
  BY DEF Withdraw, Withdrawable
<1>2. amount \in Nat
  BY CashbackAssumption DEF CashbackAssumption
<1>3. AccountsOK(balance', reserved', Total(credits', DOMAIN credits'), wagers',
                 clawed', withdrawn')
  BY <1>1, <1>2, StepFacts DEF Good, AccountsOK
<1> QED
  BY <1>1, <1>3 DEF Good

LEMMA ChangeTermsStep ==
  ASSUME Good, ChangeTerms PROVE Good'
  BY DEF ChangeTerms, Good

LEMMA NextStep == ASSUME Good, [Next]_vars PROVE Good'
<1>1. ASSUME NEW b \in Bets, PlaceBet(b) \/ LoseBet(b) \/ WinBet(b) PROVE Good'
  BY <1>1, PlaceBetStep, LoseBetStep, WinBetStep
<1>2. ASSUME NEW o \in Orders, PlaceOrder(o) \/ LoseOrder(o) \/ CancelOrder(o)
      PROVE  Good'
  BY <1>2, PlaceOrderStep, LoseOrderStep, CancelOrderStep
<1>3. ASSUME NEW amount \in Withdrawals, Withdraw(amount) PROVE Good'
  BY <1>3, WithdrawStep
<1>4. CASE ChangeTerms
  BY <1>4, ChangeTermsStep
<1>5. CASE UNCHANGED vars
  BY <1>5 DEF vars, Good
<1> QED
  BY <1>1, <1>2, <1>3, <1>4, <1>5 DEF Next

LEMMA InitGood == ASSUME Init PROVE Good
<1>1. /\ config \in Configs /\ override \in Overrides /\ balance = InitialBalance
      /\ reserved = 0 /\ locked = 0 /\ credits = <<>> /\ clawed = 0
      /\ withdrawn = 0 /\ turnover = 0 /\ wagers = [w \in Wagers |-> "new"]
  BY DEF Init
<1>2. /\ credits \in Seq(Credit) /\ DOMAIN credits = {}
      /\ LockedRows(credits) = {} /\ TakenBackRows(credits) = {}
  BY <1>1 DEF LockedRows, TakenBackRows
<1>3. Total(credits, {}) = 0
  <2>1. Total(credits, {}) = SumFunctionOnSet([i \in DOMAIN credits |-> credits[i].amount], {})
    BY <1>2, TotalOnSet
  <2> QED
    BY <2>1, SumEmpty
<1>4. CreditsOK(credits, locked, clawed, turnover)
  BY <1>1, <1>2, <1>3 DEF CreditsOK
<1>5. \A W \in SUBSET Wagers : \A states :
        "new" \notin states => StakeIn(W, wagers, states) = 0
  <2> TAKE W \in SUBSET Wagers
  <2> TAKE states
  <2> HAVE "new" \notin states
  <2>1. {w \in W : wagers[w] \in states} = {}
    BY <1>1
  <2> QED
    BY <2>1, SumEmpty DEF StakeIn
<1>6. /\ StakeIn(Bets, wagers, Placed) = 0 /\ StakeIn(Bets, wagers, {"won"}) = 0
      /\ StakeIn(Orders, wagers, {"lost"}) = 0 /\ StakeIn(Orders, wagers, {"open"}) = 0
  <2>1. Bets \in SUBSET Wagers /\ Orders \in SUBSET Wagers
    BY DEF Wagers
  <2> QED
    BY <1>5, <2>1 DEF Placed
<1>7. InitialBalance \in Nat
  BY CashbackAssumption DEF CashbackAssumption
<1>8. AccountsOK(balance, reserved, Total(credits, DOMAIN credits), wagers, clawed,
                 withdrawn)
  BY <1>1, <1>2, <1>3, <1>6, <1>7 DEF AccountsOK
<1> QED
  BY <1>1, <1>4, <1>8 DEF Good

\* The inductive invariant: no withdrawal, wager, loss or change of the terms
\* breaks the types, the running totals, or what they are the totals of.
THEOREM IInvHolds == Spec => []IInv
<1>1. Init => Good
  BY InitGood
<1>2. Good /\ [Next]_vars => Good'
  BY NextStep
<1>3. Good => IInv
  BY GoodIsIInv
<1> QED
  BY <1>1, <1>2, <1>3, PTL DEF Spec

-----------------------------------------------------------------------------
(* The theorems *)

\* Every variable has its type: no sequence of losses, wagers and withdrawals
\* makes the locked or the reserved total negative (Wallet's three columns).
THEOREM TypeCorrect == Spec => []TypeOK
<1>1. IInv => TypeOK
  BY DEF IInv
<1> QED
  BY <1>1, IInvHolds, PTL

\* What is withheld from withdrawals is what the locked credits add up to
\* (record_wager and credit_cashback_for_loss keep the running total).
THEOREM LockedIsWhatIsLocked == Spec => []LockedMatchesCredits
<1>1. IInv => LockedMatchesCredits
  BY DEF IInv
<1> QED
  BY <1>1, IInvHolds, PTL

\* A credit is unlocked exactly when what it required has been staked since it
\* was given (record_wager).
THEOREM UnlockedByWagers == Spec => []UnlockedWasWagered
<1>1. IInv => UnlockedWasWagered
  BY DEF IInv
<1> QED
  BY <1>1, IInvHolds, PTL

\* No more is taken back than was given on terms that take it back, whatever the
\* terms are changed to meanwhile (CashbackCredit's snapshot).
THEOREM ClawbackByTerms == Spec => []ClawbackFollowsTerms
<1>1. IInv => ClawbackFollowsTerms
  BY DEF IInv
<1> QED
  BY <1>1, IInvHolds, PTL

\* Only the stakes of bets and what is taken back reach below what is reserved,
\* and only a lost order leaves the balance negative.
THEOREM Overdrafts == Spec => []OnlyBetsAndClawbacksOverdraw
<1>1. IInv => OnlyBetsAndClawbacksOverdraw
  BY DEF IInv
<1> QED
  BY <1>1, IInvHolds, PTL

\* The balance is the sum of its history: every credit, clawback, stake, prize,
\* loss and withdrawal reached it once.
THEOREM BalanceIsItsHistory == Spec => []BalanceExplained
<1>1. IInv => BalanceExplained
  BY DEF IInv
<1> QED
  BY <1>1, IInvHolds, PTL

=============================================================================
