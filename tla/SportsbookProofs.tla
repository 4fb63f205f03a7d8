-------------------------- MODULE SportsbookProofs --------------------------
(***************************************************************************)
(* What holds of Sportsbook for any users, matches, requests, threads and  *)
(* bounds: bets and parlays are decided once and by what their legs say,   *)
(* none that is decided is forgotten unless a settlement died, and the     *)
(* rows explain the wallets however many settlements ran over them.        *)
(***************************************************************************)
EXTENDS Sportsbook, SumProofs

-----------------------------------------------------------------------------
(* Numbers *)

\* Storing a commission rounds by half a unit at most.
LEMMA PercentRounds ==
  ASSUME NEW x \in Nat
  PROVE  /\ Percent(x) \in Nat
         /\ -50 <= 100 * Percent(x) - x /\ 100 * Percent(x) - x <= 50
<1> DEFINE q == x \div 100
           r == x % 100
<1>1. q \in Nat /\ r \in 0 .. 99 /\ x = 100 * q + r
  OBVIOUS
<1>2. Percent(x) = IF r > 50 \/ (r = 50 /\ q % 2 = 1) THEN q + 1 ELSE q
  BY DEF Percent
<1> HIDE DEF q, r
<1>3. CASE r > 50 \/ (r = 50 /\ q % 2 = 1)
  <2>1. Percent(x) = q + 1
    BY <1>2, <1>3
  <2>2. r >= 50
    BY <1>1, <1>3
  <2> QED
    BY <1>1, <2>1, <2>2
<1>4. CASE ~ (r > 50 \/ (r = 50 /\ q % 2 = 1))
  <2>1. Percent(x) = q
    BY <1>2, <1>4
  <2>2. r <= 50
    BY <1>1, <1>4
  <2> QED
    BY <1>1, <2>1, <2>2
<1> QED
  BY <1>3, <1>4

LEMMA Distributes ==
  ASSUME NEW r \in Nat, NEW c \in Int, NEW s \in Int
  PROVE  r * (c + s) = r * c + s * r /\ r * c \in Int /\ s * r \in Int
OBVIOUS

-----------------------------------------------------------------------------
(* Tables of bets or of parlays *)

TableOK(table) ==
  /\ IsFiniteSet(DOMAIN table)
  /\ \A i \in DOMAIN table : /\ table[i].user \in Users
                             /\ table[i].odds \in Nat
                             /\ table[i].stake \in Nat
                             /\ table[i].status \in Outcomes

\* A column, counted in some rows.
Part(table, users, statuses, column) ==
  [i \in DOMAIN table |->
     IF table[i].user \in users /\ table[i].status \in statuses THEN column[i] ELSE 0]

StakeColumn(table) == [i \in DOMAIN table |-> table[i].stake]

PrizeColumn(table) == [i \in DOMAIN table |-> table[i].stake * table[i].odds]

LEMMA PartSum ==
  ASSUME NEW table, TableOK(table), NEW users, NEW statuses, NEW column,
         \A i \in DOMAIN table : column[i] \in Int
  PROVE  /\ SumFunction([i \in RowsOf(table, users, statuses) |-> column[i]])
              = SumFunctionOnSet(Part(table, users, statuses, column), DOMAIN table)
         /\ SumFunctionOnSet(Part(table, users, statuses, column), DOMAIN table) \in Int
         /\ \A i \in DOMAIN table : Part(table, users, statuses, column)[i] \in Int
<1> DEFINE D == DOMAIN table
           R == RowsOf(table, users, statuses)
           part == Part(table, users, statuses, column)
<1>1. R \in SUBSET D /\ IsFiniteSet(D)
  BY DEF RowsOf, TableOK
<1>2. IsFiniteSet(R)
  BY <1>1, FS_Subset
<1>3. /\ \A i \in D : part[i] \in Int
      /\ \A i \in R : part[i] = column[i]
      /\ \A i \in D \ R : part[i] = 0
  BY DEF RowsOf, Part
<1> HIDE DEF D, R, part
<1>4. SumFunction([i \in R |-> column[i]]) = SumFunctionOnSet(column, R)
  BY <1>2, SumTable
<1>5. SumFunctionOnSet(part, R) = SumFunctionOnSet(column, R)
  BY <1>2, <1>3, SumSame
<1>6. SumFunctionOnSet(part, D) = SumFunctionOnSet(part, R)
  BY <1>1, <1>3, SumFilter
<1>7. SumFunctionOnSet(part, D) \in Int
  BY <1>1, <1>3, SumInt
<1>8. SumFunction([i \in R |-> column[i]]) = SumFunctionOnSet(part, D)
  BY <1>4, <1>5, <1>6, Zenon
<1> QED
  BY <1>3, <1>7, <1>8 DEF D, R, part

\* The sums of the model over a table, row by row.
LEMMA SumsByRow ==
  ASSUME NEW table, TableOK(table)
  PROVE  /\ \A users, statuses :
              /\ Stakes(table, users, statuses)
                   = SumFunctionOnSet(Part(table, users, statuses, StakeColumn(table)),
                                      DOMAIN table)
              /\ Stakes(table, users, statuses) \in Int
         /\ \A u :
              /\ Payouts(table, u)
                   = SumFunctionOnSet(Part(table, {u}, {"won"}, PrizeColumn(table)),
                                      DOMAIN table)
              /\ Payouts(table, u) \in Int
<1>1. /\ \A i \in DOMAIN table : StakeColumn(table)[i] \in Int
      /\ \A i \in DOMAIN table : PrizeColumn(table)[i] \in Int
  BY DEF StakeColumn, PrizeColumn, TableOK
<1>2. ASSUME NEW users, NEW statuses
      PROVE  /\ Stakes(table, users, statuses)
                  = SumFunctionOnSet(Part(table, users, statuses, StakeColumn(table)),
                                     DOMAIN table)
             /\ Stakes(table, users, statuses) \in Int
  <2> DEFINE R == RowsOf(table, users, statuses)
             column == StakeColumn(table)
  <2>1. [i \in R |-> column[i]] = [i \in R |-> table[i].stake]
    BY DEF RowsOf, StakeColumn
  <2>2. \A i \in DOMAIN table : column[i] \in Int
    BY <1>1
  <2> HIDE DEF column
  <2>3. /\ SumFunction([i \in RowsOf(table, users, statuses) |-> column[i]])
             = SumFunctionOnSet(Part(table, users, statuses, column), DOMAIN table)
        /\ SumFunctionOnSet(Part(table, users, statuses, column), DOMAIN table) \in Int
    BY <2>2, PartSum
  <2>4. Stakes(table, users, statuses)
          = SumFunctionOnSet(Part(table, users, statuses, column), DOMAIN table)
    BY <2>1, <2>3, Zenon DEF Stakes
  <2> QED
    BY <2>3, <2>4 DEF column
<1>3. ASSUME NEW u
      PROVE  /\ Payouts(table, u)
                  = SumFunctionOnSet(Part(table, {u}, {"won"}, PrizeColumn(table)),
                                     DOMAIN table)
             /\ Payouts(table, u) \in Int
  <2> DEFINE R == RowsOf(table, {u}, {"won"})
             column == PrizeColumn(table)
  <2>1. [i \in R |-> column[i]] = [i \in R |-> table[i].stake * table[i].odds]
    BY DEF RowsOf, PrizeColumn
  <2>2. \A i \in DOMAIN table : column[i] \in Int
    BY <1>1
  <2> HIDE DEF column
  <2>3. /\ SumFunction([i \in RowsOf(table, {u}, {"won"}) |-> column[i]])
             = SumFunctionOnSet(Part(table, {u}, {"won"}, column), DOMAIN table)
        /\ SumFunctionOnSet(Part(table, {u}, {"won"}, column), DOMAIN table) \in Int
    BY <2>2, PartSum
  <2>4. Payouts(table, u)
          = SumFunctionOnSet(Part(table, {u}, {"won"}, column), DOMAIN table)
    BY <2>1, <2>3, Zenon DEF Payouts
  <2> QED
    BY <2>3, <2>4 DEF column
<1> QED
  BY <1>2, <1>3

\* A row more adds what it counts for.
LEMMA PartAdded ==
  ASSUME NEW table, TableOK(table), NEW n, n \notin DOMAIN table, NEW table2,
         TableOK(table2), DOMAIN table2 = DOMAIN table \cup {n},
         \A i \in DOMAIN table : table2[i] = table[i],
         NEW users, NEW statuses, NEW column, NEW column2,
         \A i \in DOMAIN table : column[i] \in Int /\ column2[i] = column[i],
         column2[n] \in Int
  PROVE  SumFunctionOnSet(Part(table2, users, statuses, column2), DOMAIN table2)
           = SumFunctionOnSet(Part(table, users, statuses, column), DOMAIN table)
             + Part(table2, users, statuses, column2)[n]
<1> DEFINE D == DOMAIN table
           part == Part(table, users, statuses, column)
           part2 == Part(table2, users, statuses, column2)
<1>1. IsFiniteSet(D)
  BY DEF TableOK
<1>2. /\ \A i \in D : part[i] \in Int /\ part2[i] = part[i]
      /\ part2[n] \in Int
  BY DEF Part
<1>3. n \notin D /\ DOMAIN table2 = D \cup {n}
  OBVIOUS
<1> HIDE DEF D, part, part2
<1>4. SumFunctionOnSet(part2, D) = SumFunctionOnSet(part, D)
  BY <1>1, <1>2, SumSame
<1>5. /\ \A i \in D : part2[i] \in Int
      /\ part2[n] \in Int
  BY <1>2
<1>6. SumFunctionOnSet(part2, D \cup {n}) = part2[n] + SumFunctionOnSet(part2, D)
  BY <1>1, <1>3, <1>5, SumAdd
<1>7. SumFunctionOnSet(part, D) \in Int
  BY <1>1, <1>2, SumInt
<1>8. SumFunctionOnSet(part2, DOMAIN table2) = SumFunctionOnSet(part, D) + part2[n]
  BY <1>2, <1>3, <1>4, <1>6, <1>7
<1> QED
  BY <1>8 DEF D, part, part2

\* A row that changes its status counts for something else.
LEMMA PartChanged ==
  ASSUME NEW table, TableOK(table), NEW n \in DOMAIN table, NEW table2,
         TableOK(table2), DOMAIN table2 = DOMAIN table,
         \A i \in DOMAIN table \ {n} : /\ table2[i].user = table[i].user
                                       /\ table2[i].status = table[i].status,
         table2[n].user = table[n].user, NEW users, NEW statuses, NEW column,
         \A i \in DOMAIN table : column[i] \in Int
  PROVE  SumFunctionOnSet(Part(table2, users, statuses, column), DOMAIN table2)
           = SumFunctionOnSet(Part(table, users, statuses, column), DOMAIN table)
             + (IF table[n].user \notin users THEN 0
                ELSE (IF table2[n].status \in statuses THEN column[n] ELSE 0)
                     - (IF table[n].status \in statuses THEN column[n] ELSE 0))
<1> DEFINE D == DOMAIN table
           part == Part(table, users, statuses, column)
           part2 == Part(table2, users, statuses, column)
           change == IF table[n].user \notin users THEN 0
                     ELSE (IF table2[n].status \in statuses THEN column[n] ELSE 0)
                          - (IF table[n].status \in statuses THEN column[n] ELSE 0)
<1>1. IsFiniteSet(D) /\ n \in D /\ DOMAIN table2 = D
  BY DEF TableOK
<1>2. /\ \A i \in D : part[i] \in Int /\ part2[i] \in Int
      /\ \A i \in D \ {n} : part2[i] = part[i]
  BY DEF Part
<1>3. part2[n] = part[n] + change
  <2>1. /\ part2[n] = (IF table[n].user \in users /\ table2[n].status \in statuses
                       THEN column[n] ELSE 0)
        /\ part[n] = (IF table[n].user \in users /\ table[n].status \in statuses
                      THEN column[n] ELSE 0)
        /\ column[n] \in Int
    BY <1>1 DEF Part
  <2> QED
    BY <2>1
<1>4. change \in Int
  <2>1. column[n] \in Int
    BY <1>1
  <2> QED
    BY <2>1
<1> HIDE DEF D, part, part2, change
<1>5. SumFunctionOnSet(part2, D) = SumFunctionOnSet(part, D) - part[n] + part2[n]
  BY <1>1, <1>2, SumChange
<1>6. SumFunctionOnSet(part, D) \in Int
  BY <1>1, <1>2, SumInt
<1>7. SumFunctionOnSet(part2, D) = SumFunctionOnSet(part, D) + change
  BY <1>1, <1>2, <1>3, <1>4, <1>5, <1>6
<1> QED
  BY <1>1, <1>7 DEF D, part, part2, change

-----------------------------------------------------------------------------
(* What a table explains of a wallet *)

Lost(table, u) == Cardinality(RowsOf(table, Children[u], {"lost"}))

LEMMA ExplainedInt ==
  ASSUME NEW table, TableOK(table), NEW u \in Users
  PROVE  Explained(table, u) \in Int /\ Lost(table, u) \in Nat
<1>1. /\ Payouts(table, u) \in Int
      /\ Stakes(table, {u}, {"pending", "won", "lost"}) \in Int
      /\ Stakes(table, Children[u], {"lost"}) \in Int
  BY SumsByRow
<1>2. CommissionRate[u] \in Nat
  BY SportsbookAssumption DEF SportsbookAssumption
<1>3. CommissionRate[u] * Stakes(table, Children[u], {"lost"}) \in Int
  BY <1>1, <1>2, Distributes
<1>4. Lost(table, u) \in Nat
  <2>1. RowsOf(table, Children[u], {"lost"}) \in SUBSET DOMAIN table
    BY DEF RowsOf
  <2>2. IsFiniteSet(RowsOf(table, Children[u], {"lost"}))
    BY <2>1, FS_Subset DEF TableOK
  <2> QED
    BY <2>2, FS_CardinalityType DEF Lost
<1> QED
  BY <1>1, <1>3, <1>4 DEF Explained

\* A new row takes its stake.
LEMMA RowTaken ==
  ASSUME NEW table, TableOK(table), NEW n, n \notin DOMAIN table, NEW table2,
         TableOK(table2), DOMAIN table2 = DOMAIN table \cup {n},
         \A i \in DOMAIN table : table2[i] = table[i],
         table2[n].status = "pending", NEW u \in Users
  PROVE  /\ Explained(table2, u)
              = Explained(table, u)
                  - (IF table2[n].user = u THEN 100 * table2[n].stake ELSE 0)
         /\ Lost(table2, u) = Lost(table, u)
<1> DEFINE stakes == StakeColumn(table)
           stakes2 == StakeColumn(table2)
           prizes == PrizeColumn(table)
           prizes2 == PrizeColumn(table2)
           stake == table2[n].stake
<1>1. /\ \A i \in DOMAIN table : stakes[i] \in Int /\ stakes2[i] = stakes[i]
      /\ \A i \in DOMAIN table : prizes[i] \in Int /\ prizes2[i] = prizes[i]
      /\ stakes2[n] = stake /\ stake \in Nat /\ prizes2[n] \in Int
  BY DEF StakeColumn, PrizeColumn, TableOK
<1>2. ASSUME NEW users, NEW statuses
      PROVE  Stakes(table2, users, statuses)
               = Stakes(table, users, statuses)
                   + (IF table2[n].user \in users /\ "pending" \in statuses
                      THEN stake ELSE 0)
  <2>1. SumFunctionOnSet(Part(table2, users, statuses, stakes2), DOMAIN table2)
          = SumFunctionOnSet(Part(table, users, statuses, stakes), DOMAIN table)
            + Part(table2, users, statuses, stakes2)[n]
    <3> HIDE DEF stakes, stakes2
    <3> QED
      BY SMTT(30), <1>1, PartAdded
  <2>2. Part(table2, users, statuses, stakes2)[n] = IF table2[n].user \in users /\ table2[n].status \in statuses
                                    THEN stakes2[n] ELSE 0
    BY DEF Part
  <2> QED
    BY <1>1, <2>1, <2>2, SumsByRow
<1>3. Payouts(table2, u) = Payouts(table, u)
  <2>1. SumFunctionOnSet(Part(table2, {u}, {"won"}, prizes2), DOMAIN table2)
          = SumFunctionOnSet(Part(table, {u}, {"won"}, prizes), DOMAIN table)
            + Part(table2, {u}, {"won"}, prizes2)[n]
    <3> HIDE DEF prizes, prizes2
    <3>1. \A i \in DOMAIN table : prizes[i] \in Int /\ prizes2[i] = prizes[i]
      BY <1>1
    <3>2. prizes2[n] \in Int
      BY <1>1
    <3> QED
      BY <3>1, <3>2, PartAdded
  <2>2. Part(table2, {u}, {"won"}, prizes2)[n] = IF table2[n].user \in {u} /\ table2[n].status \in {"won"}
                                    THEN prizes2[n] ELSE 0
    BY DEF Part
  <2> QED
    BY <2>1, <2>2, SumsByRow
<1>4. /\ Stakes(table2, {u}, {"pending", "won", "lost"})
           = Stakes(table, {u}, {"pending", "won", "lost"})
               + (IF table2[n].user = u THEN stake ELSE 0)
      /\ Stakes(table2, Children[u], {"lost"})
           = Stakes(table, Children[u], {"lost"})
  <2>1. Stakes(table, Children[u], {"lost"}) \in Int
    BY SumsByRow
  <2> QED
    BY <1>2, <2>1
<1>5. RowsOf(table2, Children[u], {"lost"}) = RowsOf(table, Children[u], {"lost"})
  BY DEF RowsOf
<1>6. /\ Payouts(table, u) \in Int
      /\ Stakes(table, {u}, {"pending", "won", "lost"}) \in Int
      /\ Stakes(table, Children[u], {"lost"}) \in Int
      /\ CommissionRate[u] \in Nat
  BY SumsByRow, SportsbookAssumption DEF SportsbookAssumption
<1> DEFINE paid == Payouts(table, u)
           mine == Stakes(table, {u}, {"pending", "won", "lost"})
           earned == CommissionRate[u] * Stakes(table, Children[u], {"lost"})
<1>7. earned \in Int
  BY <1>6, Distributes
<1>8. /\ Explained(table, u) = 100 * (paid - mine) + earned
      /\ Explained(table2, u)
           = 100 * (paid - (mine + (IF table2[n].user = u THEN stake ELSE 0))) + earned
  BY <1>3, <1>4 DEF Explained
<1> HIDE DEF paid, mine, earned, stake
<1>9. paid \in Int /\ mine \in Int /\ stake \in Nat
  BY <1>1, <1>6 DEF paid, mine
<1>10. Explained(table2, u)
         = Explained(table, u) - (IF table2[n].user = u THEN 100 * stake ELSE 0)
  BY <1>7, <1>8, <1>9
<1> QED
  BY <1>5, <1>10 DEF Lost, stake

\* A row that is settled pays, gives the stake back or is the parent's.
LEMMA RowSettled ==
  ASSUME NEW table, TableOK(table), NEW n \in DOMAIN table, NEW table2,
         TableOK(table2), DOMAIN table2 = DOMAIN table,
         \A i \in DOMAIN table : /\ table2[i].user = table[i].user
                                 /\ table2[i].stake = table[i].stake
                                 /\ table2[i].odds = table[i].odds
                                 /\ i # n => table2[i].status = table[i].status,
         table[n].status = "pending",
         NEW outcome \in {"won", "lost", "refunded"}, table2[n].status = outcome,
         NEW u \in Users
  PROVE  LET row == table[n]
             mine == row.user = u
             child == row.user \in Children[u]
         IN  /\ Explained(table2, u)
                  = Explained(table, u)
                      + (IF mine /\ outcome = "won" THEN 100 * (row.stake * row.odds) ELSE 0)
                      + (IF mine /\ outcome = "refunded" THEN 100 * row.stake ELSE 0)
                      + (IF child /\ outcome = "lost"
                         THEN row.stake * CommissionRate[u] ELSE 0)
             /\ Lost(table2, u)
                  = Lost(table, u) + (IF child /\ outcome = "lost" THEN 1 ELSE 0)
<1> DEFINE stakes == StakeColumn(table)
           prizes == PrizeColumn(table)
           row == table[n]
           stake == row.stake
           prize == row.stake * row.odds
           rate == CommissionRate[u]
<1>1. /\ StakeColumn(table2) = stakes /\ PrizeColumn(table2) = prizes
      /\ \A i \in DOMAIN table : stakes[i] \in Int /\ prizes[i] \in Int
      /\ stakes[n] = stake /\ prizes[n] = prize /\ stake \in Nat /\ prize \in Int
      /\ row.user \in Users
  BY DEF StakeColumn, PrizeColumn, TableOK
<1>2. ASSUME NEW users, NEW statuses
      PROVE  Stakes(table2, users, statuses)
               = Stakes(table, users, statuses)
                   + (IF row.user \notin users THEN 0
                      ELSE (IF outcome \in statuses THEN stake ELSE 0)
                           - (IF "pending" \in statuses THEN stake ELSE 0))
  <2>1. SumFunctionOnSet(Part(table2, users, statuses, stakes), DOMAIN table2)
          = SumFunctionOnSet(Part(table, users, statuses, stakes), DOMAIN table)
            + (IF table[n].user \notin users THEN 0
               ELSE (IF table2[n].status \in statuses THEN stakes[n] ELSE 0)
                    - (IF table[n].status \in statuses THEN stakes[n] ELSE 0))
    <3> HIDE DEF stakes
    <3> QED
      BY <1>1, PartChanged
  <2> QED
    BY <1>1, <2>1, SumsByRow
<1>3. Payouts(table2, u) = Payouts(table, u)
                             + (IF row.user = u /\ outcome = "won" THEN prize ELSE 0)
  <2>1. SumFunctionOnSet(Part(table2, {u}, {"won"}, prizes), DOMAIN table2)
          = SumFunctionOnSet(Part(table, {u}, {"won"}, prizes), DOMAIN table)
            + (IF table[n].user \notin {u} THEN 0
               ELSE (IF table2[n].status \in {"won"} THEN prizes[n] ELSE 0)
                    - (IF table[n].status \in {"won"} THEN prizes[n] ELSE 0))
    <3> HIDE DEF prizes
    <3> QED
      BY <1>1, PartChanged
  <2>2. /\ Payouts(table2, u)
             = SumFunctionOnSet(Part(table2, {u}, {"won"}, prizes), DOMAIN table2)
        /\ Payouts(table, u)
             = SumFunctionOnSet(Part(table, {u}, {"won"}, prizes), DOMAIN table)
        /\ Payouts(table, u) \in Int
    BY <1>1, SumsByRow
  <2> HIDE DEF prizes, prize
  <2> QED
    BY <1>1, <2>1, <2>2
<1>4. /\ Stakes(table2, {u}, {"pending", "won", "lost"})
           = Stakes(table, {u}, {"pending", "won", "lost"})
               - (IF row.user = u /\ outcome = "refunded" THEN stake ELSE 0)
      /\ Stakes(table2, Children[u], {"lost"})
           = Stakes(table, Children[u], {"lost"})
               + (IF row.user \in Children[u] /\ outcome = "lost" THEN stake ELSE 0)
  <2>1. /\ Stakes(table, Children[u], {"lost"}) \in Int
        /\ Stakes(table, {u}, {"pending", "won", "lost"}) \in Int
    BY SumsByRow
  <2> HIDE DEF stake
  <2> QED
    BY <1>1, <1>2, <2>1
<1>5. Lost(table2, u)
        = Lost(table, u) + (IF row.user \in Children[u] /\ outcome = "lost" THEN 1 ELSE 0)
  <2> DEFINE R == RowsOf(table, Children[u], {"lost"})
             R2 == RowsOf(table2, Children[u], {"lost"})
  <2>1. R \in SUBSET DOMAIN table /\ IsFiniteSet(DOMAIN table) /\ n \notin R
    BY DEF RowsOf, TableOK
  <2>2. IsFiniteSet(R)
    BY <2>1, FS_Subset
  <2>3. Cardinality(R) \in Nat
    BY <2>2, FS_CardinalityType
  <2>4. R2 = IF row.user \in Children[u] /\ outcome = "lost" THEN R \cup {n} ELSE R
    BY DEF RowsOf
  <2> HIDE DEF R, R2
  <2>5. Cardinality(R \cup {n}) = Cardinality(R) + 1
    BY <2>1, <2>2, FS_AddElement
  <2>6. Cardinality(R2) = Cardinality(R)
          + (IF row.user \in Children[u] /\ outcome = "lost" THEN 1 ELSE 0)
    BY <2>3, <2>4, <2>5
  <2> QED
    BY <2>6 DEF Lost, R, R2
<1>6. /\ Payouts(table, u) \in Int
      /\ Stakes(table, {u}, {"pending", "won", "lost"}) \in Int
      /\ Stakes(table, Children[u], {"lost"}) \in Int
      /\ rate \in Nat
  BY SumsByRow, SportsbookAssumption DEF SportsbookAssumption
<1> DEFINE paid == Payouts(table, u)
           own == Stakes(table, {u}, {"pending", "won", "lost"})
           theirs == Stakes(table, Children[u], {"lost"})
<1> HIDE DEF paid, own, theirs, stake, prize, rate
<1>7. /\ Explained(table, u) = 100 * (paid - own) + rate * theirs
      /\ Explained(table2, u)
           = 100 * ((paid + (IF row.user = u /\ outcome = "won" THEN prize ELSE 0))
                    - (own - (IF row.user = u /\ outcome = "refunded" THEN stake ELSE 0)))
             + rate * (theirs + (IF row.user \in Children[u] /\ outcome = "lost"
                                 THEN stake ELSE 0))
  BY <1>3, <1>4 DEF Explained, paid, own, theirs, rate
<1>8. /\ paid \in Int /\ own \in Int /\ theirs \in Int /\ rate \in Nat
      /\ stake \in Nat /\ prize \in Int
  BY <1>1, <1>6 DEF paid, own, theirs
<1>9. /\ rate * (theirs + stake) = rate * theirs + stake * rate
      /\ rate * theirs \in Int /\ stake * rate \in Int
  BY <1>8, Distributes
<1> DEFINE won == IF row.user = u /\ outcome = "won" THEN prize ELSE 0
           back == IF row.user = u /\ outcome = "refunded" THEN stake ELSE 0
           fee == IF row.user \in Children[u] /\ outcome = "lost" THEN stake * rate ELSE 0
           product == rate * theirs
<1>10. rate * (theirs + (IF row.user \in Children[u] /\ outcome = "lost"
                         THEN stake ELSE 0)) = product + fee
  <2>1. theirs + 0 = theirs /\ product + 0 = product
    BY <1>8, <1>9
  <2> QED
    BY <1>9, <2>1
<1>11. /\ Explained(table, u) = 100 * (paid - own) + product
       /\ Explained(table2, u) = 100 * ((paid + won) - (own - back)) + (product + fee)
  BY <1>7, <1>10
<1>12. won \in Int /\ back \in Int /\ fee \in Int /\ product \in Int
  BY <1>8, <1>9
<1> HIDE DEF won, back, fee, product
<1>13. Explained(table2, u) = Explained(table, u) + 100 * won + 100 * back + fee
  BY <1>8, <1>11, <1>12
<1>14. /\ 100 * won = (IF row.user = u /\ outcome = "won" THEN 100 * prize ELSE 0)
       /\ 100 * back = (IF row.user = u /\ outcome = "refunded" THEN 100 * stake ELSE 0)
  BY DEF won, back
<1>15. Explained(table2, u)
         = Explained(table, u)
             + (IF row.user = u /\ outcome = "won" THEN 100 * prize ELSE 0)
             + (IF row.user = u /\ outcome = "refunded" THEN 100 * stake ELSE 0)
             + (IF row.user \in Children[u] /\ outcome = "lost" THEN stake * rate ELSE 0)
  BY <1>13, <1>14 DEF fee
<1> QED
  BY <1>5, <1>15 DEF stake, prize, rate

-----------------------------------------------------------------------------
(* The wallets *)

\* What the wallet of u holds beside what the rows explain.
Gap(bal, bs, ps, u) ==
  100 * (bal[u] - InitialBalance[u]) - Explained(bs, u) - Explained(ps, u)

WalletsOK(bal, bs, ps) ==
  /\ bal \in [Users -> Nat]
  /\ \A u \in Users :
       /\ -(100 * (Lost(bs, u) + Lost(ps, u))) <= 2 * Gap(bal, bs, ps, u)
       /\ 2 * Gap(bal, bs, ps, u) <= 100 * (Lost(bs, u) + Lost(ps, u))

\* One settlement of one row: the wallets follow the rows, but for the rounding
\* of a commission.
LEMMA WalletsFollow ==
  ASSUME NEW table, TableOK(table), NEW n \in DOMAIN table, NEW table2,
         TableOK(table2), DOMAIN table2 = DOMAIN table,
         \A i \in DOMAIN table : /\ table2[i].user = table[i].user
                                 /\ table2[i].stake = table[i].stake
                                 /\ table2[i].odds = table[i].odds
                                 /\ i # n => table2[i].status = table[i].status,
         table[n].status = "pending",
         NEW outcome \in {"won", "lost", "refunded"}, table2[n].status = outcome,
         balance \in [Users -> Nat], NEW bal2, bal2 = Settled(table[n], outcome)
  PROVE  /\ bal2 \in [Users -> Nat]
         /\ \A u \in Users :
              LET d == 100 * (bal2[u] - balance[u])
                         - (Explained(table2, u) - Explained(table, u))
                  l == Lost(table2, u) - Lost(table, u)
              IN  -(100 * l) <= 2 * d /\ 2 * d <= 100 * l
<1> DEFINE row == table[n]
           stake == row.stake
           prize == row.stake * row.odds
<1>1. row.user \in Users /\ stake \in Nat /\ prize \in Nat
  BY DEF TableOK
<1>2. ASSUME NEW u \in Users
      PROVE  LET mine == row.user = u
                 child == row.user \in Children[u]
             IN  /\ Explained(table2, u)
                      = Explained(table, u)
                          + (IF mine /\ outcome = "won" THEN 100 * prize ELSE 0)
                          + (IF mine /\ outcome = "refunded" THEN 100 * stake ELSE 0)
                          + (IF child /\ outcome = "lost"
                             THEN stake * CommissionRate[u] ELSE 0)
                 /\ Lost(table2, u)
                      = Lost(table, u) + (IF child /\ outcome = "lost" THEN 1 ELSE 0)
                 /\ Explained(table, u) \in Int /\ Lost(table, u) \in Nat
  <2>1. Explained(table, u) \in Int /\ Lost(table, u) \in Nat
    BY ExplainedInt
  <2> QED
    BY <2>1, RowSettled
<1>3. CASE outcome = "won"
  <2>1. bal2 = [balance EXCEPT ![row.user] = @ + prize]
    BY <1>3 DEF Settled
  <2> HIDE DEF prize, stake, row
  <2>2. bal2 \in [Users -> Nat]
    BY <1>1, <2>1
  <2>3. ASSUME NEW u \in Users
        PROVE  /\ 100 * (bal2[u] - balance[u])
                    = Explained(table2, u) - Explained(table, u)
               /\ Lost(table2, u) - Lost(table, u) = 0
    <3>1. bal2[u] = balance[u] + (IF row.user = u THEN prize ELSE 0) /\ balance[u] \in Nat
      BY <2>1
    <3> QED
      BY <1>1, <1>2, <1>3, <3>1
  <2>4. ASSUME NEW u \in Users
        PROVE  LET d == 100 * (bal2[u] - balance[u])
                          - (Explained(table2, u) - Explained(table, u))
                   l == Lost(table2, u) - Lost(table, u)
               IN  -(100 * l) <= 2 * d /\ 2 * d <= 100 * l
    <3>1. bal2[u] \in Nat /\ balance[u] \in Nat
      BY <2>2
    <3> QED
      BY <2>3, <3>1
  <2> QED
    BY <2>2, <2>4
<1>4. CASE outcome = "refunded"
  <2>1. bal2 = [balance EXCEPT ![row.user] = @ + stake]
    BY <1>4 DEF Settled
  <2> HIDE DEF prize, stake, row
  <2>2. bal2 \in [Users -> Nat]
    BY <1>1, <2>1
  <2>3. ASSUME NEW u \in Users
        PROVE  /\ 100 * (bal2[u] - balance[u])
                    = Explained(table2, u) - Explained(table, u)
               /\ Lost(table2, u) - Lost(table, u) = 0
    <3>1. bal2[u] = balance[u] + (IF row.user = u THEN stake ELSE 0) /\ balance[u] \in Nat
      BY <2>1
    <3> QED
      BY <1>1, <1>2, <1>4, <3>1
  <2>4. ASSUME NEW u \in Users
        PROVE  LET d == 100 * (bal2[u] - balance[u])
                          - (Explained(table2, u) - Explained(table, u))
                   l == Lost(table2, u) - Lost(table, u)
               IN  -(100 * l) <= 2 * d /\ 2 * d <= 100 * l
    <3>1. bal2[u] \in Nat /\ balance[u] \in Nat
      BY <2>2
    <3> QED
      BY <2>3, <3>1
  <2> QED
    BY <2>2, <2>4
<1>5. CASE outcome = "lost"
  <2>1. bal2 = [u \in Users |-> IF row.user \in Children[u]
                                THEN Percent(100 * balance[u] + stake * CommissionRate[u])
                                ELSE balance[u]]
    BY <1>5 DEF Settled, WithCommission
  <2> HIDE DEF prize, stake, row
  <2>2. ASSUME NEW u \in Users
        PROVE  /\ bal2[u] \in Nat
               /\ LET d == 100 * (bal2[u] - balance[u])
                             - (Explained(table2, u) - Explained(table, u))
                      l == Lost(table2, u) - Lost(table, u)
                  IN  -(100 * l) <= 2 * d /\ 2 * d <= 100 * l
    <3> DEFINE fee == stake * CommissionRate[u]
               x == 100 * balance[u] + fee
    <3>1. balance[u] \in Nat
      OBVIOUS
    <3>2. fee \in Nat
      <4>1. CommissionRate[u] \in Nat
        BY SportsbookAssumption DEF SportsbookAssumption
      <4> QED
        BY <1>1, <4>1
    <3>3. x \in Nat
      BY <3>1, <3>2
    <3>4. /\ Percent(x) \in Nat
          /\ -50 <= 100 * Percent(x) - x /\ 100 * Percent(x) - x <= 50
      BY <3>3, PercentRounds
    <3>5. bal2[u] = IF row.user \in Children[u] THEN Percent(x) ELSE balance[u]
      BY <2>1
    <3>6. /\ Explained(table2, u)
               = Explained(table, u) + (IF row.user \in Children[u] THEN fee ELSE 0)
          /\ Lost(table2, u) = Lost(table, u) + (IF row.user \in Children[u] THEN 1 ELSE 0)
          /\ Explained(table, u) \in Int /\ Lost(table, u) \in Nat
      <4>1. /\ Explained(table2, u)
                 = Explained(table, u) + 0 + 0
                     + (IF row.user \in Children[u] THEN fee ELSE 0)
            /\ Lost(table2, u)
                 = Lost(table, u) + (IF row.user \in Children[u] THEN 1 ELSE 0)
            /\ Explained(table, u) \in Int /\ Lost(table, u) \in Nat
        BY <1>2, <1>5
      <4> HIDE DEF fee
      <4> QED
        BY <3>2, <4>1
    <3> DEFINE new == Percent(x)
    <3>7. x = 100 * balance[u] + fee
      OBVIOUS
    <3> HIDE DEF fee, x, new
    <3>8. /\ new \in Nat /\ -50 <= 100 * new - x /\ 100 * new - x <= 50
          /\ bal2[u] = IF row.user \in Children[u] THEN new ELSE balance[u]
      BY <3>4, <3>5 DEF new
    <3>9. CASE row.user \in Children[u]
      BY <3>1, <3>2, <3>6, <3>7, <3>8, <3>9
    <3>10. CASE row.user \notin Children[u]
      BY <3>1, <3>2, <3>6, <3>8, <3>10
    <3> QED
      BY <3>9, <3>10
  <2>3. bal2 \in [Users -> Nat]
    BY <2>1, <2>2
  <2> QED
    BY <2>2, <2>3
<1> QED
  BY <1>3, <1>4, <1>5

-----------------------------------------------------------------------------
(* Parlays and their legs *)

Decided(row) == \A m \in DOMAIN row.legs : row.legs[m].outcome # "pending"

Has(row, outcome) == \E m \in DOMAIN row.legs : row.legs[m].outcome = outcome

Verdict(row) ==
  IF Has(row, "lost") THEN "lost" ELSE IF Has(row, "refunded") THEN "refunded" ELSE "won"

LEMMA RowWords ==
  ASSUME NEW p
  PROVE  /\ AllDecided(p) <=> Decided(parlays[p])
         /\ Ready(p) <=> Decided(parlays[p])
         /\ ParlayOutcome(p) = Verdict(parlays[p])
  BY DEF AllDecided, Decided, Ready, HasOutcome, ParlayOutcome, Verdict, Has

ParlayOK(row) ==
  /\ row \in ParlayBet
  /\ row.status # "pending" => Decided(row) /\ row.status = Verdict(row)

Numbered(f) == \E n \in Nat : DOMAIN f = 1 .. n

BetsOK(bs) ==
  /\ Numbered(bs)
  /\ DOMAIN bs \subseteq BetIds
  /\ \A i \in DOMAIN bs : bs[i] \in Bet

ParlaysOK(ps) ==
  /\ Numbered(ps)
  /\ DOMAIN ps \subseteq ParlayIds
  /\ \A p \in DOMAIN ps : ParlayOK(ps[p])

\* A request waiting for its transaction; a parlay of at least one leg.
SessionsOK(se) ==
  /\ DOMAIN se \subseteq Sessions
  /\ \A s \in DOMAIN se :
       \/ se[s].kind = "bet" /\ se[s].request \in BetRequests
       \/ /\ se[s].kind = "parlay" /\ se[s].request \in ParlayRequests
          /\ DOMAIN se[s].request.legs # {}

WorkersOK(wo, bs, ps) ==
  /\ DOMAIN wo \subseteq Workers
  /\ \A w \in DOMAIN wo : /\ wo[w] \in Settlement
                          /\ wo[w].bets \subseteq DOMAIN bs
                          /\ wo[w].parlays \subseteq DOMAIN ps

\* Decided parlays that are pending are still on a list, or were lost.
Listed(ps, wo, st) ==
  \A p \in DOMAIN ps :
    ps[p].status = "pending" /\ Decided(ps[p]) /\ p \notin st
      => \E w \in DOMAIN wo : wo[w].phase = "parlays" /\ p \in wo[w].parlays

MatchesOK(ms) == ms \in [Matches -> [status: Statuses, result: Results \cup {NoResult}]]

Good ==
  /\ MatchesOK(matches)
  /\ WalletsOK(balance, bets, parlays)
  /\ BetsOK(bets)
  /\ ParlaysOK(parlays)
  /\ SessionsOK(session)
  /\ WorkersOK(worker, bets, parlays)
  /\ Listed(parlays, worker, stranded)
  /\ stranded \subseteq DOMAIN parlays

LEMMA NumberedFinite ==
  ASSUME NEW f, Numbered(f)
  PROVE  LET n == Cardinality(DOMAIN f) + 1
         IN  /\ IsFiniteSet(DOMAIN f)
             /\ n \in Nat /\ n >= 1 /\ n \notin DOMAIN f
             /\ \A v : Numbered(Put(f, n, v))
<1>1. PICK m \in Nat : DOMAIN f = 1 .. m
  BY DEF Numbered
<1>2. IsFiniteSet(DOMAIN f) /\ Cardinality(DOMAIN f) = m
  <2>1. IsFiniteSet(1 .. m) /\ Cardinality(1 .. m) = IF 1 > m THEN 0 ELSE m - 1 + 1
    BY FS_Interval
  <2> QED
    BY <1>1, <2>1
<1>3. DOMAIN f \cup {m + 1} = 1 .. (m + 1) /\ m + 1 \notin DOMAIN f
  BY <1>1
<1>4. ASSUME NEW v PROVE Numbered(Put(f, m + 1, v))
  <2>1. DOMAIN Put(f, m + 1, v) = 1 .. (m + 1) /\ m + 1 \in Nat
    BY <1>3 DEF Put
  <2> QED
    BY <2>1 DEF Numbered
<1> QED
  BY <1>2, <1>3, <1>4

LEMMA BetsTable == ASSUME NEW bs, BetsOK(bs) PROVE TableOK(bs)
<1>1. IsFiniteSet(DOMAIN bs)
  BY NumberedFinite DEF BetsOK
<1> QED
  BY <1>1 DEF BetsOK, TableOK, Bet

LEMMA ParlaysTable == ASSUME NEW ps, ParlaysOK(ps) PROVE TableOK(ps)
<1>1. IsFiniteSet(DOMAIN ps)
  BY NumberedFinite DEF ParlaysOK
<1> QED
  BY <1>1 DEF ParlaysOK, ParlayOK, TableOK, ParlayBet

-----------------------------------------------------------------------------
(* What a step leaves alone *)

LEMMA WorkerGoes ==
  ASSUME Good, NEW w \in Workers, NEW r \in Settlement,
         worker' = Put(worker, w, r) \/ (w \in DOMAIN worker /\ PutWorker(w, r)),
         NEW bs, NEW ps, DOMAIN bets \subseteq DOMAIN bs, DOMAIN parlays \subseteq DOMAIN ps,
         r.bets \subseteq DOMAIN bs, r.parlays \subseteq DOMAIN ps
  PROVE  /\ WorkersOK(worker', bs, ps)
         /\ DOMAIN worker' = DOMAIN worker \cup {w} /\ worker'[w] = r
         /\ \A v \in DOMAIN worker \ {w} : worker'[v] = worker[v]
<1>1. /\ DOMAIN worker' = DOMAIN worker \cup {w} /\ worker'[w] = r
      /\ \A v \in DOMAIN worker \ {w} : worker'[v] = worker[v]
  BY DEF Put, PutWorker
<1>2. WorkersOK(worker, bets, parlays)
  BY DEF Good
<1> QED
  BY <1>1, <1>2 DEF WorkersOK

LEMMA WorkerStops ==
  ASSUME Good, NEW w, StopWorker(w)
  PROVE  /\ WorkersOK(worker', bets, parlays)
         /\ DOMAIN worker' = DOMAIN worker \ {w}
         /\ \A v \in DOMAIN worker \ {w} : worker'[v] = worker[v]
<1>1. /\ DOMAIN worker' = DOMAIN worker \ {w}
      /\ \A v \in DOMAIN worker \ {w} : worker'[v] = worker[v]
  BY DEF Drop, StopWorker
<1>2. WorkersOK(worker, bets, parlays)
  BY DEF Good
<1> QED
  BY <1>1, <1>2 DEF WorkersOK

LEMMA WorkerFacts ==
  ASSUME Good, NEW w \in DOMAIN worker
  PROVE  /\ w \in Workers /\ worker[w] \in Settlement
         /\ worker[w].bets \subseteq DOMAIN bets
         /\ worker[w].parlays \subseteq DOMAIN parlays
  BY DEF Good, WorkersOK

\* The lists of the other workers stay: parlays that were listed by them are.
LEMMA StillListed ==
  ASSUME Good, NEW w, NEW st, stranded \subseteq st,
         \A v \in DOMAIN worker \ {w} : v \in DOMAIN worker' /\ worker'[v] = worker[v],
         w \in DOMAIN worker /\ worker[w].phase = "parlays" =>
           \A p \in worker[w].parlays : ~ (Decided(parlays[p])
                                           /\ parlays[p].status = "pending")
                                        \/ p \in st
                                        \/ /\ w \in DOMAIN worker'
                                           /\ worker'[w].phase = "parlays"
                                           /\ p \in worker'[w].parlays
  PROVE  Listed(parlays, worker', st)
<1> SUFFICES ASSUME NEW p \in DOMAIN parlays, parlays[p].status = "pending",
                    Decided(parlays[p]), p \notin st
             PROVE  \E v \in DOMAIN worker' :
                      worker'[v].phase = "parlays" /\ p \in worker'[v].parlays
  BY DEF Listed
<1>1. PICK v \in DOMAIN worker : worker[v].phase = "parlays" /\ p \in worker[v].parlays
  BY DEF Good, Listed
<1> QED
  BY <1>1

\* A step that writes no row and moves no money.
LEMMA NoRowWritten ==
  ASSUME Good, UNCHANGED <<balance, bets, parlays>>, MatchesOK(matches'),
         SessionsOK(session'), WorkersOK(worker', bets, parlays),
         Listed(parlays, worker', stranded'), stranded' \subseteq DOMAIN parlays
  PROVE  Good'
<1>1. WalletsOK(balance, bets, parlays) /\ BetsOK(bets) /\ ParlaysOK(parlays)
  BY DEF Good
<1>2. WalletsOK(balance', bets', parlays') /\ BetsOK(bets') /\ ParlaysOK(parlays')
  BY <1>1, Zenon
<1> QED
  BY <1>2 DEF Good

\* A settlement at any step but the last lists no parlay.
LEMMA WorkerOnly ==
  ASSUME Good, NEW w \in Workers, NEW r \in Settlement,
         worker' = Put(worker, w, r) \/ (w \in DOMAIN worker /\ PutWorker(w, r)),
         w \in DOMAIN worker => worker[w].phase # "parlays",
         r.bets \subseteq DOMAIN bets, r.parlays \subseteq DOMAIN parlays,
         UNCHANGED <<balance, bets, parlays, session, stranded>>, MatchesOK(matches')
  PROVE  Good'
<1>1. /\ WorkersOK(worker', bets, parlays)
      /\ DOMAIN worker' = DOMAIN worker \cup {w} /\ worker'[w] = r
      /\ \A v \in DOMAIN worker \ {w} : worker'[v] = worker[v]
  BY WorkerGoes
<1>2. Listed(parlays, worker', stranded)
  BY <1>1, StillListed
<1> QED
  BY <1>1, <1>2, NoRowWritten DEF Good

-----------------------------------------------------------------------------
(* The steps that move no money *)

LEMMA RequestStep ==
  ASSUME Good, NEW s \in Sessions, CheckBet(s) \/ CheckParlay(s) \/ GiveUp(s)
  PROVE  Good'
<1>1. UNCHANGED <<matches, balance, bets, parlays, worker, stranded>>
  BY DEF CheckBet, CheckParlay, GiveUp
<1>2. SessionsOK(session')
  <2>1. SessionsOK(session)
    BY DEF Good
  <2>2. CASE CheckBet(s)
    <3>1. PICK r \in BetRequests :
            session' = Put(session, s, [kind |-> "bet", request |-> r])
      BY <2>2 DEF CheckBet
    <3> QED
      BY <2>1, <3>1 DEF SessionsOK, Put
  <2>3. CASE CheckParlay(s)
    <3>1. PICK r \in ParlayRequests :
            /\ Cardinality(DOMAIN r.legs) >= 2
            /\ session' = Put(session, s, [kind |-> "parlay", request |-> r])
      BY <2>3 DEF CheckParlay
    <3>2. DOMAIN r.legs # {}
      <4>1. Cardinality({}) = 0
        BY FS_EmptySet
      <4> QED
        BY <3>1, <4>1
    <3> QED
      BY <2>1, <3>1, <3>2 DEF SessionsOK, Put
  <2>4. CASE GiveUp(s)
    BY <2>1, <2>4 DEF GiveUp, SessionsOK, Drop
  <2> QED
    BY <2>2, <2>3, <2>4
<1> QED
  BY <1>1, <1>2, NoRowWritten DEF Good

\* admin_edit_match_view, and sync_results without scores.
LEMMA MatchStep ==
  ASSUME Good, NEW m \in Matches, EditStatus(m) \/ FinishUnscored(m) PROVE Good'
<1>1. UNCHANGED <<balance, bets, parlays, session, worker, stranded>>
  BY DEF EditStatus, FinishUnscored
<1>2. MatchesOK(matches')
  <2>1. MatchesOK(matches) /\ EditStatuses \subseteq Statuses
    BY SportsbookAssumption DEF Good, SportsbookAssumption
  <2>2. CASE EditStatus(m)
    <3>1. PICK status \in Statuses : matches' = [matches EXCEPT ![m].status = status]
      BY <2>1, <2>2 DEF EditStatus
    <3> QED
      BY <2>1, <3>1 DEF MatchesOK
  <2>3. CASE FinishUnscored(m)
    BY <2>1, <2>3 DEF FinishUnscored, MatchesOK, Statuses
  <2> QED
    BY <2>2, <2>3
<1> QED
  BY <1>1, <1>2, NoRowWritten DEF Good

\* The starts of a settlement.
LEMMA StartStep ==
  ASSUME Good, NEW w \in Workers, NEW m \in Matches,
         (\E r \in Results : FinishMatch(w, m, r)) \/ CancelMatch(w, m) \/ SettleTask(w, m)
  PROVE  Good'
<1>1. w \notin DOMAIN worker /\ UNCHANGED <<balance, bets, parlays, session, stranded>>
  BY DEF FinishMatch, CancelMatch, SettleTask
<1>2. MatchesOK(matches)
  BY DEF Good
<1>3. /\ MatchesOK(matches')
      /\ \E status \in Statuses, result \in Results \cup {NoResult} :
           StartSettlement(w, m, status, result)
  <2>1. CASE \E r \in Results : FinishMatch(w, m, r)
    <3>1. PICK r \in Results : FinishMatch(w, m, r)
      BY <2>1
    <3>2. matches' = [matches EXCEPT ![m] = [status |-> "finished", result |-> r]]
          /\ StartSettlement(w, m, "finished", r)
      BY <3>1 DEF FinishMatch
    <3>3. MatchesOK(matches')
      BY <1>2, <3>2 DEF MatchesOK, Statuses
    <3> QED
      BY <3>2, <3>3 DEF Statuses
  <2>2. CASE CancelMatch(w, m)
    <3>1. matches' = [matches EXCEPT ![m].status = "cancelled"]
          /\ StartSettlement(w, m, "cancelled", matches[m].result)
      BY <2>2 DEF CancelMatch
    <3>2. MatchesOK(matches') /\ matches[m].result \in Results \cup {NoResult}
      BY <1>2, <3>1 DEF MatchesOK, Statuses
    <3> QED
      BY <3>1, <3>2 DEF Statuses
  <2>3. CASE SettleTask(w, m)
    BY <1>2, <2>3 DEF SettleTask, MatchesOK, Statuses
  <2> QED
    BY <2>1, <2>2, <2>3
<1>4. PICK status \in Statuses, result \in Results \cup {NoResult} :
        StartSettlement(w, m, status, result)
  BY <1>3
<1> DEFINE r == [phase |-> "captured", match |-> m, status |-> status,
                 result |-> result, bets |-> {}, parlays |-> {}]
<1>5. r \in Settlement /\ r.bets = {} /\ r.parlays = {}
  BY DEF Settlement
<1>6. worker' = Put(worker, w, r)
  BY <1>4 DEF StartSettlement
<1> HIDE DEF r
<1> QED
  BY <1>1, <1>3, <1>5, <1>6, WorkerOnly

LEMMA ListBetsStep == ASSUME Good, NEW w \in Workers, ListBets(w) PROVE Good'
<1> DEFINE mine == {i \in DOMAIN bets : /\ bets[i].match = worker[w].match
                                        /\ bets[i].status = "pending"}
           r == [worker[w] EXCEPT !.phase = "bets", !.bets = mine]
<1>1. /\ w \in DOMAIN worker /\ worker[w].phase = "captured" /\ PutWorker(w, r)
      /\ UNCHANGED <<matches, balance, bets, parlays, session, stranded>>
  BY DEF ListBets
<1>2. /\ worker[w] \in Settlement /\ worker[w].parlays \subseteq DOMAIN parlays
      /\ mine \subseteq DOMAIN bets /\ DOMAIN bets \subseteq BetIds
  BY <1>1, WorkerFacts DEF Good, BetsOK
<1> HIDE DEF mine
<1>3. r \in Settlement /\ r.bets = mine /\ r.parlays = worker[w].parlays
  BY <1>2 DEF Settlement
<1> HIDE DEF r
<1> QED
  BY <1>1, <1>2, <1>3, WorkerOnly DEF Good

LEMMA ListLegsStep == ASSUME Good, NEW w \in Workers, ListLegs(w) PROVE Good'
<1> DEFINE affected == WithPendingLeg(worker[w].match)
           r == [worker[w] EXCEPT !.phase = "legs", !.parlays = affected]
<1>1. /\ w \in DOMAIN worker /\ worker[w].phase = "bets"
      /\ StopWorker(w) \/ PutWorker(w, r)
      /\ UNCHANGED <<matches, balance, bets, parlays, session, stranded>>
  BY DEF ListLegs
<1>2. CASE StopWorker(w)
  <2>1. /\ WorkersOK(worker', bets, parlays)
        /\ DOMAIN worker' = DOMAIN worker \ {w}
        /\ \A v \in DOMAIN worker \ {w} : worker'[v] = worker[v]
    BY <1>2, WorkerStops
  <2>2. Listed(parlays, worker', stranded)
    BY <1>1, <2>1, StillListed
  <2> QED
    BY <1>1, <2>1, <2>2, NoRowWritten DEF Good
<1>3. CASE PutWorker(w, r)
  <2>1. /\ worker[w] \in Settlement /\ worker[w].bets \subseteq DOMAIN bets
        /\ affected \subseteq DOMAIN parlays /\ DOMAIN parlays \subseteq ParlayIds
    BY <1>1, WorkerFacts DEF Good, ParlaysOK, WithPendingLeg
  <2> HIDE DEF affected
  <2>2. r \in Settlement /\ r.bets = worker[w].bets /\ r.parlays = affected
    BY <2>1 DEF Settlement
  <2> HIDE DEF r
  <2> QED
    BY <1>1, <1>3, <2>1, <2>2, WorkerOnly DEF Good
<1> QED
  BY <1>1, <1>2, <1>3

\* The end of a settlement, and its death.
LEMMA EndStep ==
  ASSUME Good, NEW w \in Workers, FinishSettlement(w) \/ Crash(w) PROVE Good'
<1>1. /\ w \in DOMAIN worker /\ StopWorker(w)
      /\ UNCHANGED <<matches, balance, bets, parlays, session>>
  BY DEF FinishSettlement, Crash
<1>2. /\ WorkersOK(worker', bets, parlays)
      /\ DOMAIN worker' = DOMAIN worker \ {w}
      /\ \A v \in DOMAIN worker \ {w} : worker'[v] = worker[v]
  BY <1>1, WorkerStops
<1>3. /\ stranded \subseteq stranded' /\ stranded' \subseteq DOMAIN parlays
      /\ worker[w].phase = "parlays" => worker[w].parlays \subseteq stranded'
  <2>1. worker[w].parlays \subseteq DOMAIN parlays /\ stranded \subseteq DOMAIN parlays
    BY <1>1, WorkerFacts DEF Good
  <2> QED
    BY <2>1 DEF FinishSettlement, Crash
<1> DEFINE st == stranded'
<1>4. /\ stranded \subseteq st
      /\ worker[w].phase = "parlays" => worker[w].parlays \subseteq st
  BY <1>3
<1> HIDE DEF st
<1>5. Listed(parlays, worker', st)
  BY <1>2, <1>4, StillListed
<1>6. Listed(parlays, worker', stranded')
  BY <1>5 DEF st
<1> QED
  BY <1>1, <1>2, <1>3, <1>6, NoRowWritten DEF Good

-----------------------------------------------------------------------------
(* The steps that move money *)

LEMMA GapMoves ==
  ASSUME Good, NEW bal2 \in [Users -> Nat], NEW bs2, TableOK(bs2), NEW ps2, TableOK(ps2),
         \A u \in Users :
           LET d == 100 * (bal2[u] - balance[u])
                      - (Explained(bs2, u) - Explained(bets, u))
                      - (Explained(ps2, u) - Explained(parlays, u))
               l == (Lost(bs2, u) - Lost(bets, u)) + (Lost(ps2, u) - Lost(parlays, u))
           IN  -(100 * l) <= 2 * d /\ 2 * d <= 100 * l
  PROVE  WalletsOK(bal2, bs2, ps2)
<1> SUFFICES ASSUME NEW u \in Users
             PROVE  /\ -(100 * (Lost(bs2, u) + Lost(ps2, u))) <= 2 * Gap(bal2, bs2, ps2, u)
                    /\ 2 * Gap(bal2, bs2, ps2, u) <= 100 * (Lost(bs2, u) + Lost(ps2, u))
  BY DEF WalletsOK
<1>1. TableOK(bets) /\ TableOK(parlays)
  BY BetsTable, ParlaysTable DEF Good
<1>2. /\ Explained(bets, u) \in Int /\ Lost(bets, u) \in Nat
      /\ Explained(parlays, u) \in Int /\ Lost(parlays, u) \in Nat
      /\ Explained(bs2, u) \in Int /\ Lost(bs2, u) \in Nat
      /\ Explained(ps2, u) \in Int /\ Lost(ps2, u) \in Nat
  BY <1>1, ExplainedInt
<1>3. InitialBalance[u] \in Int /\ balance[u] \in Int /\ bal2[u] \in Int
  BY SportsbookAssumption DEF SportsbookAssumption, Good, WalletsOK
<1>4. /\ -(100 * (Lost(bets, u) + Lost(parlays, u))) <= 2 * Gap(balance, bets, parlays, u)
      /\ 2 * Gap(balance, bets, parlays, u) <= 100 * (Lost(bets, u) + Lost(parlays, u))
  BY DEF Good, WalletsOK
<1> QED
  BY <1>2, <1>3, <1>4 DEF Gap

\* A table whose rows keep their columns explains the same.
LEMMA ExplainedSame ==
  ASSUME NEW table, NEW table2, DOMAIN table2 = DOMAIN table,
         \A i \in DOMAIN table : /\ table2[i].user = table[i].user
                                 /\ table2[i].stake = table[i].stake
                                 /\ table2[i].odds = table[i].odds
                                 /\ table2[i].status = table[i].status,
         NEW u
  PROVE  Explained(table2, u) = Explained(table, u) /\ Lost(table2, u) = Lost(table, u)
<1>1. \A users, statuses : RowsOf(table2, users, statuses) = RowsOf(table, users, statuses)
  BY DEF RowsOf
<1>2. ASSUME NEW users, NEW statuses
      PROVE  Stakes(table2, users, statuses) = Stakes(table, users, statuses)
  <2>1. [i \in RowsOf(table2, users, statuses) |-> table2[i].stake]
          = [i \in RowsOf(table, users, statuses) |-> table[i].stake]
    BY <1>1 DEF RowsOf
  <2> QED
    BY <2>1, Zenon DEF Stakes
<1>3. Payouts(table2, u) = Payouts(table, u)
  <2>1. [i \in RowsOf(table2, {u}, {"won"}) |-> table2[i].stake * table2[i].odds]
          = [i \in RowsOf(table, {u}, {"won"}) |-> table[i].stake * table[i].odds]
    BY <1>1 DEF RowsOf
  <2> QED
    BY <2>1, Zenon DEF Payouts
<1>4. Explained(table2, u) = Explained(table, u)
  BY <1>2, <1>3, Zenon DEF Explained
<1>5. Lost(table2, u) = Lost(table, u)
  BY <1>1, Zenon DEF Lost
<1> QED
  BY <1>4, <1>5

Debited(u, stake) == [balance EXCEPT ![u] = @ - stake]

\* The transaction of place_bet or place_parlay_bet takes the stake.
LEMMA StakeTaken ==
  ASSUME Good, NEW row, row.user \in Users, row.stake \in Nat, row.status = "pending",
         balance[row.user] >= row.stake, NEW bal2,
         bal2 = Debited(row.user, row.stake),
         NEW table, TableOK(table), NEW n, n \notin DOMAIN table,
         NEW table2, table2 = Put(table, n, row), TableOK(table2)
  PROVE  /\ bal2 \in [Users -> Nat]
         /\ \A u \in Users :
              /\ 100 * (bal2[u] - balance[u]) = Explained(table2, u) - Explained(table, u)
              /\ Lost(table2, u) = Lost(table, u)
<1>1. /\ DOMAIN table2 = DOMAIN table \cup {n} /\ table2[n] = row
      /\ \A i \in DOMAIN table : table2[i] = table[i]
  BY DEF Put
<1>2. balance \in [Users -> Nat]
  BY DEF Good, WalletsOK
<1>3. \A u \in Users : bal2[u] = balance[u] - (IF row.user = u THEN row.stake ELSE 0)
  BY <1>2 DEF Debited
<1>4. bal2 \in [Users -> Nat]
  BY <1>2, <1>3 DEF Debited
<1>5. ASSUME NEW u \in Users
      PROVE  /\ 100 * (bal2[u] - balance[u]) = Explained(table2, u) - Explained(table, u)
             /\ Lost(table2, u) = Lost(table, u)
  <2>1. /\ Explained(table2, u)
             = Explained(table, u) - (IF row.user = u THEN 100 * row.stake ELSE 0)
        /\ Lost(table2, u) = Lost(table, u)
    BY <1>1, RowTaken
  <2>2. Explained(table, u) \in Int /\ balance[u] \in Int
    BY <1>2, ExplainedInt
  <2> QED
    BY <1>3, <2>1, <2>2
<1> QED
  BY <1>4, <1>5

LEMMA WriteBetStep == ASSUME Good, NEW s \in Sessions, WriteBet(s) PROVE Good'
<1> DEFINE q == Requested(s)
           n == Cardinality(DOMAIN bets) + 1
           row == [user |-> q.user, match |-> q.match, odds |-> q.odds,
                   selection |-> q.selection, stake |-> q.stake, status |-> "pending"]
<1>1. /\ s \in DOMAIN session /\ session[s].kind = "bet" /\ balance[q.user] >= q.stake
      /\ Cardinality(DOMAIN bets) < MaxBets /\ bets' = Put(bets, n, row)
      /\ balance' = [balance EXCEPT ![q.user] = @ - q.stake]
      /\ session' = Drop(session, s)
      /\ UNCHANGED <<matches, parlays, worker, stranded>>
  BY DEF WriteBet, CanStake, Staked
<1>2. q \in BetRequest
  <2>1. q \in BetRequests
    BY <1>1 DEF Good, SessionsOK, Requested
  <2> QED
    BY <2>1, SportsbookAssumption DEF SportsbookAssumption
<1>3. /\ row \in Bet /\ row.user = q.user /\ row.stake = q.stake /\ row.status = "pending"
      /\ row.user \in Users /\ row.stake \in Nat
  BY <1>2 DEF Bet, BetRequest, Outcomes
<1>4. /\ n \notin DOMAIN bets /\ n \in Nat /\ n >= 1 /\ Numbered(Put(bets, n, row))
  BY NumberedFinite DEF Good, BetsOK
<1>5. n \in BetIds
  <2>1. MaxBets \in Nat
    BY SportsbookAssumption DEF SportsbookAssumption
  <2>2. Cardinality(DOMAIN bets) \in Nat
    BY NumberedFinite, FS_CardinalityType DEF Good, BetsOK
  <2> QED
    BY <1>1, <2>1, <2>2 DEF BetIds
<1> HIDE DEF n, row, q
<1>6. DOMAIN bets' = DOMAIN bets \cup {n} /\ bets'[n] = row
      /\ \A i \in DOMAIN bets : bets'[i] = bets[i]
  BY <1>1, <1>4 DEF Put
<1>7. BetsOK(bets')
  BY <1>1, <1>3, <1>4, <1>5, <1>6 DEF Good, BetsOK
<1>8. TableOK(bets) /\ TableOK(bets') /\ TableOK(parlays)
  BY <1>7, BetsTable, ParlaysTable DEF Good
<1> DEFINE bal2 == balance'
           bs2 == bets'
<1>9. bs2 = Put(bets, n, row) /\ TableOK(bs2)
      /\ bal2 = Debited(row.user, row.stake)
  BY <1>1, <1>3, <1>8 DEF Debited
<1>10. balance[row.user] >= row.stake
  BY <1>1, <1>3
<1> HIDE DEF bal2, bs2
<1>11. /\ bal2 \in [Users -> Nat]
       /\ \A u \in Users :
            /\ 100 * (bal2[u] - balance[u]) = Explained(bs2, u) - Explained(bets, u)
            /\ Lost(bs2, u) = Lost(bets, u)
  BY <1>3, <1>4, <1>8, <1>9, <1>10, StakeTaken
<1>12. WalletsOK(bal2, bs2, parlays)
  <2>1. \A u \in Users : /\ Explained(bets, u) \in Int /\ Explained(bs2, u) \in Int
                         /\ Explained(parlays, u) \in Int
                         /\ Lost(bets, u) \in Nat /\ Lost(parlays, u) \in Nat
    BY <1>8, <1>9, ExplainedInt
  <2>2. \A u \in Users :
          LET d == 100 * (bal2[u] - balance[u])
                     - (Explained(bs2, u) - Explained(bets, u))
                     - (Explained(parlays, u) - Explained(parlays, u))
              l == (Lost(bs2, u) - Lost(bets, u)) + (Lost(parlays, u) - Lost(parlays, u))
          IN  -(100 * l) <= 2 * d /\ 2 * d <= 100 * l
    BY <1>11, <2>1
  <2> QED
    BY <1>8, <1>9, <1>11, <2>2, GapMoves
<1>13. WalletsOK(balance', bets', parlays)
  BY <1>12 DEF bal2, bs2
<1>14. SessionsOK(session')
  BY <1>1 DEF Good, SessionsOK, Drop
<1>15. WorkersOK(worker, bets', parlays)
  BY <1>6 DEF Good, WorkersOK
<1> QED
  BY <1>1, <1>7, <1>13, <1>14, <1>15 DEF Good

LEMMA WriteParlayStep == ASSUME Good, NEW s \in Sessions, WriteParlay(s) PROVE Good'
<1> DEFINE q == Requested(s)
           n == Cardinality(DOMAIN parlays) + 1
           row == [user |-> q.user, odds |-> q.odds, stake |-> q.stake,
                   status |-> "pending",
                   legs |-> [m \in DOMAIN q.legs |->
                               [selection |-> q.legs[m], outcome |-> "pending"]]]
<1>1. /\ s \in DOMAIN session /\ session[s].kind = "parlay" /\ balance[q.user] >= q.stake
      /\ Cardinality(DOMAIN parlays) < MaxParlays /\ parlays' = Put(parlays, n, row)
      /\ balance' = [balance EXCEPT ![q.user] = @ - q.stake]
      /\ session' = Drop(session, s)
      /\ UNCHANGED <<matches, bets, worker, stranded>>
  BY DEF WriteParlay, CanStake, Staked
<1>2. q \in ParlayRequest /\ DOMAIN q.legs # {}
  <2>1. q \in ParlayRequests /\ DOMAIN q.legs # {}
    BY <1>1 DEF Good, SessionsOK, Requested
  <2> QED
    BY <2>1, SportsbookAssumption DEF SportsbookAssumption
<1>3. /\ row \in ParlayBet /\ row.user = q.user /\ row.stake = q.stake
      /\ row.status = "pending" /\ row.user \in Users /\ row.stake \in Nat
      /\ ~ Decided(row)
  <2>1. PICK M \in SUBSET Matches : q.legs \in [M -> Selections]
    BY <1>2 DEF ParlayRequest
  <2>2. row.legs \in [M -> Leg]
    BY <2>1 DEF Leg, Outcomes
  <2>3. ~ Decided(row)
    BY <1>2 DEF Decided
  <2> QED
    BY <1>2, <2>2, <2>3 DEF ParlayBet, ParlayRequest, Outcomes
<1>4. /\ n \notin DOMAIN parlays /\ n \in Nat /\ n >= 1 /\ Numbered(Put(parlays, n, row))
  BY NumberedFinite DEF Good, ParlaysOK
<1>5. n \in ParlayIds
  <2>1. MaxParlays \in Nat
    BY SportsbookAssumption DEF SportsbookAssumption
  <2>2. Cardinality(DOMAIN parlays) \in Nat
    BY NumberedFinite, FS_CardinalityType DEF Good, ParlaysOK
  <2> QED
    BY <1>1, <2>1, <2>2 DEF ParlayIds
<1> HIDE DEF n, row, q
<1>6. DOMAIN parlays' = DOMAIN parlays \cup {n} /\ parlays'[n] = row
      /\ \A i \in DOMAIN parlays : parlays'[i] = parlays[i]
  BY <1>1, <1>4 DEF Put
<1>7. ParlaysOK(parlays')
  BY <1>1, <1>3, <1>4, <1>5, <1>6 DEF Good, ParlaysOK, ParlayOK
<1>8. TableOK(bets) /\ TableOK(parlays') /\ TableOK(parlays)
  BY <1>7, BetsTable, ParlaysTable DEF Good
<1> DEFINE bal2 == balance'
           ps2 == parlays'
<1>9. ps2 = Put(parlays, n, row) /\ TableOK(ps2)
      /\ bal2 = Debited(row.user, row.stake)
  BY <1>1, <1>3, <1>8 DEF Debited
<1>10. balance[row.user] >= row.stake
  BY <1>1, <1>3
<1> HIDE DEF bal2, ps2
<1>11. /\ bal2 \in [Users -> Nat]
       /\ \A u \in Users :
            /\ 100 * (bal2[u] - balance[u]) = Explained(ps2, u) - Explained(parlays, u)
            /\ Lost(ps2, u) = Lost(parlays, u)
  BY <1>3, <1>4, <1>8, <1>9, <1>10, StakeTaken
<1>12. WalletsOK(bal2, bets, ps2)
  <2>1. \A u \in Users : /\ Explained(bets, u) \in Int /\ Explained(ps2, u) \in Int
                         /\ Explained(parlays, u) \in Int
                         /\ Lost(bets, u) \in Nat /\ Lost(parlays, u) \in Nat
    BY <1>8, <1>9, ExplainedInt
  <2>2. \A u \in Users :
          LET d == 100 * (bal2[u] - balance[u])
                     - (Explained(bets, u) - Explained(bets, u))
                     - (Explained(ps2, u) - Explained(parlays, u))
              l == (Lost(bets, u) - Lost(bets, u)) + (Lost(ps2, u) - Lost(parlays, u))
          IN  -(100 * l) <= 2 * d /\ 2 * d <= 100 * l
    BY <1>11, <2>1
  <2> QED
    BY <1>8, <1>9, <1>11, <2>2, GapMoves
<1>13. WalletsOK(balance', bets, parlays')
  BY <1>12 DEF bal2, ps2
<1>14. SessionsOK(session')
  BY <1>1 DEF Good, SessionsOK, Drop
<1>15. WorkersOK(worker, bets, parlays') /\ Listed(parlays', worker, stranded)
       /\ stranded \subseteq DOMAIN parlays'
  BY <1>3, <1>6 DEF Good, WorkersOK, Listed
<1> QED
  BY <1>1, <1>7, <1>13, <1>14, <1>15 DEF Good

\* settle_bet or refund_bet of the next bet of the list.
LEMMA SettleBetStep == ASSUME Good, NEW w \in Workers, SettleBet(w) PROVE Good'
<1>1. /\ w \in DOMAIN worker /\ worker[w].phase = "bets"
      /\ UNCHANGED <<matches, parlays, session, stranded>>
  BY DEF SettleBet
<1>2. PICK i \in worker[w].bets :
        /\ PutWorker(w, [worker[w] EXCEPT !.bets = @ \ {i}])
        /\ IF StillPending(bets[i])
           THEN LET outcome == Outcome(worker[w], bets[i].selection)
                IN  /\ bets' = [bets EXCEPT ![i].status = outcome]
                    /\ balance' = Settled(bets[i], outcome)
           ELSE UNCHANGED <<bets, balance>>
  BY DEF SettleBet
<1> DEFINE r == [worker[w] EXCEPT !.bets = @ \ {i}]
           outcome == Outcome(worker[w], bets[i].selection)
<1>3. /\ worker[w] \in Settlement /\ worker[w].bets \subseteq DOMAIN bets
      /\ worker[w].parlays \subseteq DOMAIN parlays /\ i \in DOMAIN bets
      /\ bets[i] \in Bet
  BY <1>1, <1>2, WorkerFacts DEF Good, BetsOK
<1>4. /\ r \in Settlement /\ r.bets \subseteq DOMAIN bets
      /\ r.parlays \subseteq DOMAIN parlays
  BY <1>3 DEF Settlement
<1>5. PutWorker(w, r)
  BY <1>2
<1> HIDE DEF r
<1>6. CASE ~ StillPending(bets[i])
  <2>1. UNCHANGED <<bets, balance>>
    BY <1>2, <1>6
  <2> QED
    BY <1>1, <1>4, <1>5, <2>1, WorkerOnly DEF Good
<1>7. CASE StillPending(bets[i])
  <2>1. /\ bets' = [bets EXCEPT ![i].status = outcome]
        /\ balance' = Settled(bets[i], outcome)
    BY <1>2, <1>7
  <2>2. outcome \in {"won", "lost", "refunded"} /\ outcome \in Outcomes
    BY DEF Outcome, Outcomes
  <2> HIDE DEF outcome
  <2>3. /\ DOMAIN bets' = DOMAIN bets
        /\ \A j \in DOMAIN bets : j # i => bets'[j] = bets[j]
        /\ bets'[i] = [bets[i] EXCEPT !.status = outcome]
    BY <1>3, <2>1
  <2>4. /\ bets'[i] \in Bet /\ bets'[i].user = bets[i].user
        /\ bets'[i].stake = bets[i].stake /\ bets'[i].odds = bets[i].odds
        /\ bets'[i].status = outcome /\ bets[i].status = "pending"
    BY <1>3, <1>7, <2>2, <2>3 DEF Bet, StillPending
  <2>5. BetsOK(bets')
    BY <2>3, <2>4 DEF Good, BetsOK, Numbered
  <2> DEFINE bs2 == bets'
             bal2 == balance'
  <2>6. /\ TableOK(bets) /\ TableOK(bs2) /\ TableOK(parlays) /\ balance \in [Users -> Nat]
        /\ DOMAIN bs2 = DOMAIN bets /\ bs2[i].status = outcome
        /\ \A j \in DOMAIN bets : /\ bs2[j].user = bets[j].user
                                  /\ bs2[j].stake = bets[j].stake
                                  /\ bs2[j].odds = bets[j].odds
                                  /\ j # i => bs2[j].status = bets[j].status
        /\ bal2 = Settled(bets[i], outcome)
    BY <2>1, <2>3, <2>4, <2>5, BetsTable, ParlaysTable DEF Good, WalletsOK
  <2> HIDE DEF bs2, bal2
  <2>7. /\ bal2 \in [Users -> Nat]
        /\ \A u \in Users :
             LET d == 100 * (bal2[u] - balance[u])
                        - (Explained(bs2, u) - Explained(bets, u))
                 l == Lost(bs2, u) - Lost(bets, u)
             IN  -(100 * l) <= 2 * d /\ 2 * d <= 100 * l
    BY <1>3, <2>2, <2>4, <2>6, WalletsFollow
  <2>8. \A u \in Users : /\ Explained(bets, u) \in Int /\ Explained(bs2, u) \in Int
                         /\ Explained(parlays, u) \in Int
                         /\ Lost(bets, u) \in Nat /\ Lost(bs2, u) \in Nat
                         /\ Lost(parlays, u) \in Nat
                         /\ balance[u] \in Int /\ bal2[u] \in Int
    BY <2>6, <2>7, ExplainedInt
  <2>9. \A u \in Users :
          LET d == 100 * (bal2[u] - balance[u])
                     - (Explained(bs2, u) - Explained(bets, u))
                     - (Explained(parlays, u) - Explained(parlays, u))
              l == (Lost(bs2, u) - Lost(bets, u)) + (Lost(parlays, u) - Lost(parlays, u))
          IN  -(100 * l) <= 2 * d /\ 2 * d <= 100 * l
    BY <2>7, <2>8
  <2>10. WalletsOK(bal2, bs2, parlays)
    BY <2>6, <2>7, <2>9, GapMoves
  <2>11. WalletsOK(balance', bets', parlays)
    BY <2>10 DEF bs2, bal2
  <2>12. /\ WorkersOK(worker', bets', parlays)
         /\ DOMAIN worker' = DOMAIN worker \cup {w} /\ worker'[w] = r
         /\ \A v \in DOMAIN worker \ {w} : worker'[v] = worker[v]
    <3>1. /\ DOMAIN worker' = DOMAIN worker \cup {w} /\ worker'[w] = r
          /\ \A v \in DOMAIN worker \ {w} : worker'[v] = worker[v]
      BY <1>1, <1>5 DEF PutWorker
    <3> QED
      BY <1>4, <2>3, <3>1 DEF Good, WorkersOK
  <2>13. Listed(parlays, worker', stranded)
    BY <1>1, <2>12, StillListed
  <2> QED
    BY <1>1, <2>5, <2>11, <2>12, <2>13 DEF Good
<1> QED
  BY <1>6, <1>7

\* A leg that is written was pending, so its parlay was.
LEMMA LegWritten ==
  ASSUME NEW row, ParlayOK(row), NEW m \in DOMAIN row.legs,
         row.legs[m].outcome = "pending", NEW outcome \in Outcomes
  PROVE  LET row2 == [row EXCEPT !.legs[m].outcome = outcome]
         IN  /\ ParlayOK(row2) /\ row.status = "pending"
             /\ row2.user = row.user /\ row2.stake = row.stake
             /\ row2.odds = row.odds /\ row2.status = row.status
             /\ DOMAIN row2.legs = DOMAIN row.legs
             /\ \A k \in DOMAIN row.legs : k # m => row2.legs[k] = row.legs[k]
<1> DEFINE row2 == [row EXCEPT !.legs[m].outcome = outcome]
<1>1. row \in ParlayBet /\ row.status = "pending"
  BY DEF ParlayOK, Decided
<1>2. PICK M \in SUBSET Matches : row.legs \in [M -> Leg]
  BY <1>1 DEF ParlayBet
<1>3. /\ row2.user = row.user /\ row2.stake = row.stake
      /\ row2.odds = row.odds /\ row2.status = row.status
      /\ row2.legs = [row.legs EXCEPT ![m].outcome = outcome]
  BY <1>1 DEF ParlayBet
<1>4. row2.legs \in [M -> Leg]
  <2>1. m \in M /\ row.legs[m] \in Leg
    BY <1>2
  <2>2. [row.legs[m] EXCEPT !.outcome = outcome] \in Leg
    BY <2>1 DEF Leg
  <2> QED
    BY <1>2, <1>3, <2>1, <2>2
<1>5. row2 \in ParlayBet
  BY <1>1, <1>3, <1>4 DEF ParlayBet
<1>6. /\ DOMAIN row2.legs = DOMAIN row.legs
      /\ \A k \in DOMAIN row.legs : k # m => row2.legs[k] = row.legs[k]
  BY <1>2, <1>3
<1> HIDE DEF row2
<1>7. ParlayOK(row2)
  BY <1>1, <1>3, <1>5 DEF ParlayOK
<1> QED
  BY <1>1, <1>3, <1>6, <1>7 DEF row2

\* The outcomes of the match's legs are written, those committed since the
\* parlays were listed included.
LEMMA UpdateLegsStep == ASSUME Good, NEW w \in Workers, UpdateLegs(w) PROVE Good'
<1> DEFINE r == worker[w]
           r2 == [r EXCEPT !.phase = "parlays"]
           rows == WithPendingLeg(r.match)
           written(p) == [parlays[p] EXCEPT !.legs[r.match].outcome =
                            Outcome(r, parlays[p].legs[r.match].selection)]
<1>1. /\ w \in DOMAIN worker /\ r.phase = "legs"
      /\ parlays' = [p \in DOMAIN parlays |-> IF p \notin rows THEN parlays[p] ELSE written(p)]
      /\ PutWorker(w, r2)
      /\ stranded' = stranded \cup (rows \ r.parlays)
      /\ UNCHANGED <<matches, balance, bets, session>>
  BY DEF UpdateLegs
<1>2. /\ r \in Settlement /\ r.bets \subseteq DOMAIN bets /\ r.parlays \subseteq DOMAIN parlays
  BY <1>1, WorkerFacts
<1>3. /\ r2 \in Settlement /\ r2.bets = r.bets /\ r2.parlays = r.parlays
      /\ r2.phase = "parlays"
  BY <1>2 DEF Settlement
<1>4. rows \subseteq DOMAIN parlays
      /\ \A p \in rows : /\ r.match \in DOMAIN parlays[p].legs
                         /\ parlays[p].legs[r.match].outcome = "pending"
  BY DEF WithPendingLeg, HasLeg
<1>5. ASSUME NEW p \in DOMAIN parlays
      PROVE  /\ ParlayOK(parlays'[p])
             /\ parlays'[p].user = parlays[p].user /\ parlays'[p].stake = parlays[p].stake
             /\ parlays'[p].odds = parlays[p].odds /\ parlays'[p].status = parlays[p].status
             /\ p \notin rows => parlays'[p] = parlays[p]
  <2>1. ParlayOK(parlays[p])
    BY DEF Good, ParlaysOK
  <2>2. CASE p \notin rows
    BY <1>1, <2>1, <2>2
  <2>3. CASE p \in rows
    <3>1. parlays'[p] = written(p)
      BY <1>1, <2>3
    <3>2. Outcome(r, parlays[p].legs[r.match].selection) \in Outcomes
      BY DEF Outcome, Outcomes
    <3>3. /\ ParlayOK(written(p))
          /\ written(p).user = parlays[p].user /\ written(p).stake = parlays[p].stake
          /\ written(p).odds = parlays[p].odds /\ written(p).status = parlays[p].status
      BY <1>4, <2>1, <2>3, <3>2, LegWritten
    <3> QED
      BY <2>3, <3>1, <3>3
  <2> QED
    BY <2>2, <2>3
<1>6. DOMAIN parlays' = DOMAIN parlays
  BY <1>1
<1> HIDE DEF r, r2, rows, written
<1>7. ParlaysOK(parlays')
  BY <1>5, <1>6 DEF Good, ParlaysOK, Numbered
<1>8. WalletsOK(balance, bets, parlays')
  <2> DEFINE ps2 == parlays'
  <2>1. DOMAIN ps2 = DOMAIN parlays
        /\ \A p \in DOMAIN parlays : /\ ps2[p].user = parlays[p].user
                                     /\ ps2[p].stake = parlays[p].stake
                                     /\ ps2[p].odds = parlays[p].odds
                                     /\ ps2[p].status = parlays[p].status
    BY <1>5, <1>6
  <2> HIDE DEF ps2
  <2>2. \A u : Explained(ps2, u) = Explained(parlays, u) /\ Lost(ps2, u) = Lost(parlays, u)
    BY <2>1, ExplainedSame
  <2>3. WalletsOK(balance, bets, ps2)
    BY <2>2 DEF Good, WalletsOK, Gap
  <2> QED
    BY <2>3 DEF ps2
<1>9. /\ DOMAIN worker' = DOMAIN worker \cup {w} /\ worker'[w] = r2
      /\ \A v \in DOMAIN worker \ {w} : worker'[v] = worker[v]
  BY <1>1 DEF PutWorker
<1>10. WorkersOK(worker', bets, parlays')
  BY <1>2, <1>3, <1>6, <1>9 DEF Good, WorkersOK
<1>11. Listed(parlays', worker', stranded')
  <2> SUFFICES ASSUME NEW p \in DOMAIN parlays', parlays'[p].status = "pending",
                      Decided(parlays'[p]), p \notin stranded'
               PROVE  \E v \in DOMAIN worker' :
                        worker'[v].phase = "parlays" /\ p \in worker'[v].parlays
    BY DEF Listed
  <2>1. CASE p \in rows
    <3>1. p \in r2.parlays
      BY <1>1, <1>3, <2>1
    <3> QED
      BY <1>3, <1>9, <3>1
  <2>2. CASE p \notin rows
    <3>1. PICK v \in DOMAIN worker : worker[v].phase = "parlays" /\ p \in worker[v].parlays
      BY <1>1, <1>5, <1>6, <2>2 DEF Good, Listed
    <3>2. v # w
      BY <1>1, <3>1 DEF r
    <3> QED
      BY <1>9, <3>1, <3>2
  <2> QED
    BY <2>1, <2>2
<1>12. stranded' \subseteq DOMAIN parlays'
  BY <1>1, <1>4, <1>6 DEF Good
<1> QED
  BY <1>1, <1>7, <1>8, <1>10, <1>11, <1>12 DEF Good

\* _settle_parlay_if_ready for the next parlay of the list.
LEMMA FinalizeParlayStep == ASSUME Good, NEW w \in Workers, FinalizeParlay(w) PROVE Good'
<1>1. /\ w \in DOMAIN worker /\ worker[w].phase = "parlays"
      /\ UNCHANGED <<matches, bets, session, stranded>>
  BY DEF FinalizeParlay
<1>2. PICK p \in worker[w].parlays :
        /\ PutWorker(w, [worker[w] EXCEPT !.parlays = @ \ {p}])
        /\ IF StillPending(parlays[p]) /\ Ready(p)
           THEN /\ parlays' = [parlays EXCEPT ![p].status = ParlayOutcome(p)]
                /\ balance' = Settled(parlays[p], ParlayOutcome(p))
           ELSE UNCHANGED <<parlays, balance>>
  BY DEF FinalizeParlay
<1> DEFINE r == [worker[w] EXCEPT !.parlays = @ \ {p}]
<1>3. /\ worker[w] \in Settlement /\ worker[w].bets \subseteq DOMAIN bets
      /\ worker[w].parlays \subseteq DOMAIN parlays /\ p \in DOMAIN parlays
      /\ ParlayOK(parlays[p])
  BY <1>1, <1>2, WorkerFacts DEF Good, ParlaysOK
<1>4. /\ r \in Settlement /\ r.bets \subseteq DOMAIN bets
      /\ r.parlays \subseteq DOMAIN parlays
      /\ r.phase = "parlays" /\ r.parlays = worker[w].parlays \ {p}
  BY <1>1, <1>3 DEF Settlement
<1>5. PutWorker(w, r)
  BY <1>2
<1>6. /\ DOMAIN worker' = DOMAIN worker \cup {w} /\ worker'[w] = r
      /\ \A v \in DOMAIN worker \ {w} : worker'[v] = worker[v]
  BY <1>1, <1>5 DEF PutWorker
<1> HIDE DEF r
<1>7. CASE ~ (StillPending(parlays[p]) /\ Ready(p))
  <2>1. UNCHANGED <<parlays, balance>>
    BY <1>2, <1>7
  <2>2. ~ (Decided(parlays[p]) /\ parlays[p].status = "pending")
    BY <1>7, RowWords DEF StillPending
  <2>3. Listed(parlays, worker', stranded)
    BY <1>1, <1>4, <1>6, <2>2, StillListed
  <2>4. WorkersOK(worker', bets, parlays)
    BY <1>4, <1>6 DEF Good, WorkersOK
  <2> QED
    BY <1>1, <2>1, <2>3, <2>4, NoRowWritten DEF Good
<1>8. CASE StillPending(parlays[p]) /\ Ready(p)
  <2> DEFINE outcome == Verdict(parlays[p])
  <2>1. /\ parlays' = [parlays EXCEPT ![p].status = outcome]
        /\ balance' = Settled(parlays[p], outcome)
        /\ Decided(parlays[p]) /\ parlays[p].status = "pending"
    BY <1>2, <1>8, RowWords DEF StillPending
  <2>2. outcome \in {"won", "lost", "refunded"} /\ outcome \in Outcomes
    BY DEF Verdict, Outcomes
  <2> HIDE DEF outcome
  <2>3. /\ DOMAIN parlays' = DOMAIN parlays
        /\ \A q \in DOMAIN parlays : q # p => parlays'[q] = parlays[q]
        /\ parlays'[p] = [parlays[p] EXCEPT !.status = outcome]
    BY <1>3, <2>1
  <2>4. /\ parlays'[p] \in ParlayBet /\ parlays'[p].user = parlays[p].user
        /\ parlays'[p].stake = parlays[p].stake /\ parlays'[p].odds = parlays[p].odds
        /\ parlays'[p].status = outcome /\ parlays'[p].legs = parlays[p].legs
    BY <1>3, <2>2, <2>3 DEF ParlayOK, ParlayBet
  <2>5. ParlayOK(parlays'[p])
    <3>1. Decided(parlays'[p]) /\ Verdict(parlays'[p]) = outcome
      BY <2>1, <2>4 DEF Decided, Verdict, Has, outcome
    <3> QED
      BY <2>4, <3>1 DEF ParlayOK
  <2>6. ParlaysOK(parlays')
    BY <2>3, <2>5 DEF Good, ParlaysOK, Numbered
  <2> DEFINE ps2 == parlays'
             bal2 == balance'
  <2>7. /\ TableOK(bets) /\ TableOK(ps2) /\ TableOK(parlays) /\ balance \in [Users -> Nat]
        /\ DOMAIN ps2 = DOMAIN parlays /\ ps2[p].status = outcome
        /\ \A q \in DOMAIN parlays : /\ ps2[q].user = parlays[q].user
                                     /\ ps2[q].stake = parlays[q].stake
                                     /\ ps2[q].odds = parlays[q].odds
                                     /\ q # p => ps2[q].status = parlays[q].status
        /\ bal2 = Settled(parlays[p], outcome)
    BY <2>1, <2>3, <2>4, <2>6, BetsTable, ParlaysTable DEF Good, WalletsOK
  <2> HIDE DEF ps2, bal2
  <2>8. /\ bal2 \in [Users -> Nat]
        /\ \A u \in Users :
             LET d == 100 * (bal2[u] - balance[u])
                        - (Explained(ps2, u) - Explained(parlays, u))
                 l == Lost(ps2, u) - Lost(parlays, u)
             IN  -(100 * l) <= 2 * d /\ 2 * d <= 100 * l
    BY <1>3, <2>1, <2>2, <2>7, WalletsFollow
  <2>9. \A u \in Users : /\ Explained(parlays, u) \in Int /\ Explained(ps2, u) \in Int
                         /\ Explained(bets, u) \in Int
                         /\ Lost(parlays, u) \in Nat /\ Lost(ps2, u) \in Nat
                         /\ Lost(bets, u) \in Nat
                         /\ balance[u] \in Int /\ bal2[u] \in Int
    BY <2>7, <2>8, ExplainedInt
  <2>10. \A u \in Users :
           LET d == 100 * (bal2[u] - balance[u])
                      - (Explained(bets, u) - Explained(bets, u))
                      - (Explained(ps2, u) - Explained(parlays, u))
               l == (Lost(bets, u) - Lost(bets, u)) + (Lost(ps2, u) - Lost(parlays, u))
           IN  -(100 * l) <= 2 * d /\ 2 * d <= 100 * l
    BY <2>8, <2>9
  <2>11. WalletsOK(bal2, bets, ps2)
    BY <2>7, <2>8, <2>10, GapMoves
  <2>12. WalletsOK(balance', bets, parlays')
    BY <2>11 DEF ps2, bal2
  <2>13. WorkersOK(worker', bets, parlays')
    BY <1>4, <1>6, <2>3 DEF Good, WorkersOK
  <2>14. Listed(parlays', worker', stranded)
    <3> SUFFICES ASSUME NEW q \in DOMAIN parlays', parlays'[q].status = "pending",
                        Decided(parlays'[q]), q \notin stranded
                 PROVE  \E v \in DOMAIN worker' :
                          worker'[v].phase = "parlays" /\ q \in worker'[v].parlays
      BY DEF Listed
    <3>1. q # p
      BY <2>2, <2>4
    <3>2. PICK v \in DOMAIN worker : worker[v].phase = "parlays" /\ q \in worker[v].parlays
      BY <2>3, <3>1 DEF Good, Listed
    <3> QED
      BY <1>4, <1>6, <3>1, <3>2
  <2> QED
    BY <1>1, <2>3, <2>6, <2>12, <2>13, <2>14 DEF Good
<1> QED
  BY <1>7, <1>8

-----------------------------------------------------------------------------
(* The inductive invariant holds *)

LEMMA NextStep == Good /\ [Next]_vars => Good'
<1> SUFFICES ASSUME Good, [Next]_vars PROVE Good'
  OBVIOUS
<1>1. ASSUME NEW s \in Sessions, SessionStep(s) PROVE Good'
  BY <1>1, RequestStep, WriteBetStep, WriteParlayStep DEF SessionStep
<1>2. ASSUME NEW w \in Workers, WorkerStep(w) PROVE Good'
  <2>1. CASE \E m \in Matches : \/ \E r \in Results : FinishMatch(w, m, r)
                                \/ CancelMatch(w, m)
                                \/ SettleTask(w, m)
    BY <2>1, StartStep
  <2>2. CASE \/ ListBets(w) \/ SettleBet(w) \/ ListLegs(w) \/ UpdateLegs(w)
             \/ FinalizeParlay(w) \/ FinishSettlement(w) \/ Crash(w)
    BY <2>2, ListBetsStep, SettleBetStep, ListLegsStep, UpdateLegsStep,
       FinalizeParlayStep, EndStep
  <2> QED
    BY <1>2, <2>1, <2>2 DEF WorkerStep
<1>3. ASSUME NEW m \in Matches, EditStatus(m) \/ FinishUnscored(m) PROVE Good'
  BY <1>3, MatchStep
<1>4. CASE UNCHANGED vars
  <2>1. UNCHANGED <<matches, balance, bets, parlays, session, worker, stranded>>
    BY <1>4 DEF vars
  <2> QED
    BY <2>1, NoRowWritten DEF Good
<1> QED
  BY <1>1, <1>2, <1>3, <1>4 DEF Next

LEMMA InitGood == Init => Good
<1> SUFFICES ASSUME Init PROVE Good
  OBVIOUS
<1>1. /\ matches = [m \in Matches |-> [status |-> "live", result |-> NoResult]]
      /\ balance = InitialBalance /\ DOMAIN bets = {} /\ DOMAIN parlays = {}
      /\ DOMAIN session = {} /\ DOMAIN worker = {} /\ stranded = {}
  BY DEF Init
<1>2. Numbered(bets) /\ Numbered(parlays)
  <2>1. 1 .. 0 = {} /\ 0 \in Nat
    OBVIOUS
  <2> QED
    BY <1>1, <2>1 DEF Numbered
<1>3. BetsOK(bets) /\ ParlaysOK(parlays)
  BY <1>1, <1>2 DEF BetsOK, ParlaysOK
<1>4. ASSUME NEW table, DOMAIN table = {}, NEW u \in Users
      PROVE  Explained(table, u) = 0 /\ Lost(table, u) = 0
  <2>1. \A users, statuses : RowsOf(table, users, statuses) = {}
    BY <1>4 DEF RowsOf
  <2>2. TableOK(table)
    BY <1>4, FS_EmptySet DEF TableOK
  <2>3. \A users, statuses : Stakes(table, users, statuses) = 0
    <3>1. \A users, statuses :
            Stakes(table, users, statuses)
              = SumFunctionOnSet(Part(table, users, statuses, StakeColumn(table)), {})
      BY <1>4, <2>2, SumsByRow
    <3> QED
      BY <3>1, SumEmpty
  <2>4. Payouts(table, u) = 0
    <3>1. Payouts(table, u)
            = SumFunctionOnSet(Part(table, {u}, {"won"}, PrizeColumn(table)), {})
      BY <1>4, <2>2, SumsByRow
    <3> QED
      BY <3>1, SumEmpty
  <2>5. CommissionRate[u] * 0 = 0
    <3>1. CommissionRate[u] \in Nat
      BY SportsbookAssumption DEF SportsbookAssumption
    <3> QED
      BY <3>1
  <2>6. Explained(table, u) = 0
    BY <2>3, <2>4, <2>5 DEF Explained
  <2>7. Lost(table, u) = 0
    BY <2>1, FS_EmptySet DEF Lost
  <2> QED
    BY <2>6, <2>7
<1>5. WalletsOK(balance, bets, parlays)
  <2>1. InitialBalance \in [Users -> Nat]
    BY SportsbookAssumption DEF SportsbookAssumption
  <2>2. \A u \in Users : /\ Explained(bets, u) = 0 /\ Lost(bets, u) = 0
                         /\ Explained(parlays, u) = 0 /\ Lost(parlays, u) = 0
    BY <1>1, <1>4
  <2> QED
    BY <1>1, <2>1, <2>2 DEF WalletsOK, Gap
<1>6. MatchesOK(matches)
  BY <1>1 DEF MatchesOK, Statuses
<1> QED
  BY <1>1, <1>3, <1>5, <1>6 DEF Good, SessionsOK, WorkersOK, Listed

\* The inductive invariant: no interleaving of requests, settlements, changes of
\* a match and deaths breaks what the rows, the lists and the wallets say of
\* each other.
THEOREM GoodHolds == Spec => []Good
  BY InitGood, NextStep, PTL DEF Spec

-----------------------------------------------------------------------------
(* The theorems *)

\* Every variable has its type: no sequence of bets and settlements makes a
\* wallet negative (CanStake is asked where the stake is taken).
THEOREM TypeCorrect == Spec => []TypeOK
<1>1. Good => TypeOK
  <2> SUFFICES ASSUME Good PROVE TypeOK
    OBVIOUS
  <2>1. /\ matches \in [Matches -> [status: Statuses, result: Results \cup {NoResult}]]
        /\ balance \in [Users -> Nat]
    BY DEF Good, MatchesOK, WalletsOK
  <2>2. /\ DOMAIN bets \subseteq BetIds /\ \A i \in DOMAIN bets : bets[i] \in Bet
        /\ DOMAIN parlays \subseteq ParlayIds
        /\ \A p \in DOMAIN parlays : parlays[p] \in ParlayBet
    BY DEF Good, BetsOK, ParlaysOK, ParlayOK
  <2>3. /\ DOMAIN session \subseteq Sessions
        /\ \A s \in DOMAIN session :
             \/ session[s].kind = "bet" /\ session[s].request \in BetRequests
             \/ session[s].kind = "parlay" /\ session[s].request \in ParlayRequests
    BY DEF Good, SessionsOK
  <2>4. /\ DOMAIN worker \subseteq Workers
        /\ \A w \in DOMAIN worker : worker[w] \in Settlement
        /\ stranded \subseteq DOMAIN parlays
    BY DEF Good, WorkersOK
  <2> QED
    BY <2>1, <2>2, <2>3, <2>4 DEF TypeOK
<1> QED
  BY <1>1, GoodHolds, PTL

\* The rows explain the wallets, but for the rounding of the commissions, however
\* many settlements ran over them and wherever they died (place_bet, settle_bet,
\* refund_bet, _settle_parlay_if_ready, _credit_affiliate_commission).
THEOREM WalletsAreExplained == Spec => []BalanceExplained
<1>1. Good => BalanceExplained
  <2> SUFFICES ASSUME Good, NEW u \in Users
               PROVE  LET gap == 100 * (balance[u] - InitialBalance[u])
                                   - Explained(bets, u) - Explained(parlays, u)
                          most == 100 * LostByChildren(u)
                      IN  2 * gap \in -most .. most
    BY DEF BalanceExplained
  <2>1. LostByChildren(u) = Lost(bets, u) + Lost(parlays, u)
    BY DEF LostByChildren, Lost
  <2>2. /\ -(100 * (Lost(bets, u) + Lost(parlays, u))) <= 2 * Gap(balance, bets, parlays, u)
        /\ 2 * Gap(balance, bets, parlays, u) <= 100 * (Lost(bets, u) + Lost(parlays, u))
    BY DEF Good, WalletsOK
  <2>3. /\ Explained(bets, u) \in Int /\ Explained(parlays, u) \in Int
        /\ Lost(bets, u) \in Nat /\ Lost(parlays, u) \in Nat
    BY BetsTable, ParlaysTable, ExplainedInt DEF Good
  <2>4. balance[u] \in Int /\ InitialBalance[u] \in Int
    BY SportsbookAssumption DEF SportsbookAssumption, Good, WalletsOK
  <2> QED
    BY <2>1, <2>2, <2>3, <2>4 DEF Gap
<1> QED
  BY <1>1, GoodHolds, PTL

\* A parlay is decided by all its legs and as they say (_settle_parlay_if_ready).
THEOREM LegsDecide == Spec => []ParlayDecidedByLegs
<1>1. Good => ParlayDecidedByLegs
  BY RowWords DEF Good, ParlaysOK, ParlayOK, ParlayDecidedByLegs
<1> QED
  BY <1>1, GoodHolds, PTL

\* No decided parlay is forgotten, unless a settlement died or wrote a leg it had
\* not listed (settle_parlays_for_match).
THEOREM DecidedIsListed == Spec => []DecidedParlayIsListed
<1>1. Good => DecidedParlayIsListed
  BY RowWords DEF Good, Listed, DecidedParlayIsListed
<1> QED
  BY <1>1, GoodHolds, PTL

\* What is settled in a step stays.
Kept ==
  /\ \A i \in DOMAIN bets :
       bets[i].status # "pending" => bets'[i] = bets[i]
  /\ \A p \in DOMAIN parlays :
       /\ parlays[p].status # "pending" => parlays'[p] = parlays[p]
       /\ \A m \in DOMAIN parlays[p].legs :
            parlays[p].legs[m].outcome # "pending"
              => parlays'[p].legs[m] = parlays[p].legs[m]

LEMMA StepKeeps == Good /\ Next => Kept
<1> SUFFICES ASSUME Good, Next PROVE Kept
  OBVIOUS
<1>1. CASE UNCHANGED <<bets, parlays>>
  BY <1>1 DEF Kept
<1>2. ASSUME NEW s \in Sessions, WriteBet(s) PROVE Kept
  <2>1. UNCHANGED parlays /\ \E n, row : n \notin DOMAIN bets /\ bets' = Put(bets, n, row)
    BY <1>2, NumberedFinite DEF WriteBet, Good, BetsOK
  <2> QED
    BY <2>1 DEF Kept, Put
<1>3. ASSUME NEW s \in Sessions, WriteParlay(s) PROVE Kept
  <2>1. UNCHANGED bets
        /\ \E n, row : n \notin DOMAIN parlays /\ parlays' = Put(parlays, n, row)
    BY <1>3, NumberedFinite DEF WriteParlay, Good, ParlaysOK
  <2>2. \A p \in DOMAIN parlays : parlays'[p] = parlays[p]
    BY <2>1 DEF Put
  <2> QED
    BY <2>1, <2>2 DEF Kept
<1>4. ASSUME NEW w \in Workers, SettleBet(w) PROVE Kept
  <2>1. UNCHANGED parlays
    BY <1>4 DEF SettleBet
  <2>2. \/ UNCHANGED bets
        \/ \E i, outcome : /\ bets[i].status = "pending"
                           /\ bets' = [bets EXCEPT ![i].status = outcome]
    BY <1>4 DEF SettleBet, StillPending
  <2> QED
    BY <2>1, <2>2 DEF Kept
<1>5. ASSUME NEW w \in Workers, UpdateLegs(w) PROVE Kept
  <2> DEFINE r == worker[w]
             rows == WithPendingLeg(r.match)
             written(p) == [parlays[p] EXCEPT !.legs[r.match].outcome =
                              Outcome(r, parlays[p].legs[r.match].selection)]
  <2>1. /\ UNCHANGED bets
        /\ parlays' = [p \in DOMAIN parlays |->
                         IF p \notin rows THEN parlays[p] ELSE written(p)]
    BY <1>5 DEF UpdateLegs
  <2>2. ASSUME NEW p \in DOMAIN parlays
        PROVE  /\ parlays[p].status # "pending" => parlays'[p] = parlays[p]
               /\ \A m \in DOMAIN parlays[p].legs :
                    parlays[p].legs[m].outcome # "pending"
                      => parlays'[p].legs[m] = parlays[p].legs[m]
    <3>1. CASE p \notin rows
      BY <2>1, <3>1
    <3>2. CASE p \in rows
      <4>1. ParlayOK(parlays[p]) /\ r.match \in DOMAIN parlays[p].legs
            /\ parlays[p].legs[r.match].outcome = "pending"
        BY <3>2 DEF Good, ParlaysOK, WithPendingLeg, HasLeg
      <4>2. Outcome(r, parlays[p].legs[r.match].selection) \in Outcomes
        BY DEF Outcome, Outcomes
      <4>3. /\ parlays[p].status = "pending"
            /\ \A k \in DOMAIN parlays[p].legs :
                 k # r.match => written(p).legs[k] = parlays[p].legs[k]
        <5>1. parlays[p] \in ParlayBet /\ parlays[p].status = "pending"
          BY <4>1 DEF ParlayOK, Decided
        <5>2. PICK M \in SUBSET Matches : parlays[p].legs \in [M -> Leg]
          BY <5>1 DEF ParlayBet
        <5>3. written(p).legs = [parlays[p].legs EXCEPT ![r.match].outcome =
                                   Outcome(r, parlays[p].legs[r.match].selection)]
          BY <5>1 DEF ParlayBet
        <5> HIDE DEF written
        <5> QED
          BY <5>1, <5>2, <5>3
      <4>4. parlays'[p] = written(p)
        BY <2>1, <3>2
      <4> QED
        BY <4>1, <4>3, <4>4
    <3> QED
      BY <3>1, <3>2
  <2> QED
    BY <2>1, <2>2 DEF Kept
<1>6. ASSUME NEW w \in Workers, FinalizeParlay(w) PROVE Kept
  <2>1. UNCHANGED bets
    BY <1>6 DEF FinalizeParlay
  <2>2. \/ UNCHANGED parlays
        \/ \E p, outcome : /\ parlays[p].status = "pending"
                           /\ parlays' = [parlays EXCEPT ![p].status = outcome]
    BY <1>6 DEF FinalizeParlay, StillPending
  <2>3. CASE \E p, outcome : /\ parlays[p].status = "pending"
                             /\ parlays' = [parlays EXCEPT ![p].status = outcome]
    <3>1. PICK p, outcome : /\ parlays[p].status = "pending"
                            /\ parlays' = [parlays EXCEPT ![p].status = outcome]
      BY <2>3
    <3>2. \A q \in DOMAIN parlays : parlays[q] \in ParlayBet
      BY DEF Good, ParlaysOK, ParlayOK
    <3>3. \A q \in DOMAIN parlays : /\ q # p => parlays'[q] = parlays[q]
                                    /\ parlays'[q].legs = parlays[q].legs
      BY <3>1, <3>2 DEF ParlayBet
    <3> QED
      BY <2>1, <3>1, <3>3 DEF Kept
  <2> QED
    BY <1>1, <2>1, <2>2, <2>3
<1>7. CASE \E s \in Sessions : CheckBet(s) \/ CheckParlay(s) \/ GiveUp(s)
  BY <1>1, <1>7 DEF CheckBet, CheckParlay, GiveUp
<1>8. CASE \E w \in Workers, m \in Matches :
             (\E r \in Results : FinishMatch(w, m, r)) \/ CancelMatch(w, m) \/ SettleTask(w, m)
  BY <1>1, <1>8 DEF FinishMatch, CancelMatch, SettleTask
<1>9. CASE \E w \in Workers : ListBets(w) \/ ListLegs(w) \/ FinishSettlement(w) \/ Crash(w)
  BY <1>1, <1>9 DEF ListBets, ListLegs, FinishSettlement, Crash
<1>10. CASE \E m \in Matches : EditStatus(m) \/ FinishUnscored(m)
  BY <1>1, <1>10 DEF EditStatus, FinishUnscored
<1> QED
  BY <1>2, <1>3, <1>4, <1>5, <1>6, <1>7, <1>8, <1>9, <1>10
     DEF Next, SessionStep, WorkerStep

\* A settled row is never settled again and a written leg never changed, whatever
\* is done to the match (settle_bet, settle_parlays_for_match).
THEOREM SettledStays == Spec => SettledForGood
<1>1. Good /\ [Next]_vars => [Kept]_vars
  BY StepKeeps
<1>2. SettledForGood <=> [][Kept]_vars
  BY DEF SettledForGood, Kept
<1> QED
  BY <1>1, <1>2, GoodHolds, PTL DEF Spec

=============================================================================
