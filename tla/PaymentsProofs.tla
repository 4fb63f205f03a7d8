--------------------------- MODULE PaymentsProofs ---------------------------
(***************************************************************************)
(* What holds of Payments for any users, requests, packages, threads and   *)
(* bounds: the rows of the ledger are those of the payments and explain    *)
(* the wallets, rewards follow what was deposited, a completed withdrawal  *)
(* was released, and with one thread for notifications no deposit is       *)
(* credited twice.                                                         *)
(***************************************************************************)
EXTENDS Payments, SumProofs, SequenceTheorems

LEMMA CentsNat == ASSUME NEW a \in Nat PROVE Cents(a) \in Nat
  BY SMT DEF Cents

LEMMA QuoteNat ==
  ASSUME rate \in Rates, NEW user, NEW usd \in Nat
  PROVE  Quote(user, usd) \in Nat
<1>1. usd * rate \in Nat
  BY PaymentsAssumption DEF PaymentsAssumption
<1> QED
  BY <1>1, CentsNat DEF Quote

-----------------------------------------------------------------------------
(* The rows made for one payment *)

\* Which rows of the ledger there are for a payment in a state.
RowOK(row, rows) ==
  /\ row \in Payment
  /\ rows \in Seq(Int)
  /\ row.kind = "deposit" =>
       /\ (rows # <<>>) <=> (row.status = "completed")
       /\ \A i \in DOMAIN rows : rows[i] = row.amount
       /\ row.status = "completed" => row.amount > 0
  /\ row.kind = "withdrawal" =>
       /\ row.amount > 0
       /\ rows \in {<<-row.amount>>, <<-row.amount, row.amount>>}

LEMMA RowsNat ==
  ASSUME NEW rows \in Seq(Int)
  PROVE  SumFunction(rows) \in Int /\ Credits(rows) \in Nat
<1> DEFINE I == {i \in DOMAIN rows : rows[i] > 0}
<1>1. I \in SUBSET DOMAIN rows /\ DOMAIN rows \in SUBSET DOMAIN rows
  OBVIOUS
<1>2. IsFiniteSet(DOMAIN rows) /\ IsFiniteSet(I) /\ \A i \in DOMAIN rows : rows[i] \in Int
  BY <1>1, SeqIndices
<1>3. \A i \in I : rows[i] \in Nat
  BY <1>2
<1> HIDE DEF I
<1>4. SumFunctionOnSet(rows, I) \in Nat
  BY <1>2, <1>3, SumNat
<1>5. SumFunctionOnSet(rows, DOMAIN rows) \in Int
  BY <1>2, SumInt
<1> QED
  BY <1>4, <1>5 DEF Credits, SumFunction, I

\* A row more: a deposit counts among the deposits.
LEMMA RowMore ==
  ASSUME NEW rows \in Seq(Int), NEW a \in Int
  PROVE  /\ Append(rows, a) \in Seq(Int)
         /\ SumFunction(Append(rows, a)) = SumFunction(rows) + a
         /\ a > 0 => Credits(Append(rows, a)) = Credits(rows) + a
         /\ ~ (a > 0) => Credits(Append(rows, a)) = Credits(rows)
<1> DEFINE t == Append(rows, a)
           n == Len(rows) + 1
           I == {i \in DOMAIN rows : rows[i] > 0}
           J == {i \in DOMAIN t : t[i] > 0}
<1>1. I \in SUBSET DOMAIN rows /\ DOMAIN rows \in SUBSET DOMAIN rows
  OBVIOUS
<1>2. /\ t \in Seq(Int) /\ DOMAIN t = DOMAIN rows \cup {n} /\ n \notin DOMAIN rows
      /\ t[n] = a /\ \A i \in DOMAIN rows : t[i] = rows[i]
  BY <1>1, SumAppend
<1>3. (a > 0 => J = I \cup {n}) /\ (~ (a > 0) => J = I)
  BY <1>2
<1>4. /\ SumFunctionOnSet(t, DOMAIN rows \cup {n})
           = SumFunctionOnSet(rows, DOMAIN rows) + a
      /\ SumFunctionOnSet(t, I \cup {n}) = SumFunctionOnSet(rows, I) + a
      /\ SumFunctionOnSet(t, I) = SumFunctionOnSet(rows, I)
  BY <1>1, SumAppend
<1>5. /\ SumFunction(t) = SumFunctionOnSet(t, DOMAIN t)
      /\ SumFunction(rows) = SumFunctionOnSet(rows, DOMAIN rows)
      /\ Credits(t) = SumFunctionOnSet(t, J)
      /\ Credits(rows) = SumFunctionOnSet(rows, I)
  BY DEF SumFunction, Credits
<1> HIDE DEF t, n, I, J
<1>6. SumFunction(t) = SumFunction(rows) + a
  BY <1>2, <1>4, <1>5, Zenon
<1>7. (a > 0 => Credits(t) = Credits(rows) + a) /\ (~ (a > 0) => Credits(t) = Credits(rows))
  BY <1>3, <1>4, <1>5, Zenon
<1> QED
  BY <1>2, <1>6, <1>7 DEF t

LEMMA NoRows == SumFunction(<<>>) = 0 /\ Credits(<<>>) = 0 /\ <<>> \in Seq(Int)
<1>1. DOMAIN <<>> = {} /\ {i \in DOMAIN <<>> : <<>>[i] > 0} = {}
  OBVIOUS
<1> QED
  BY <1>1, SumEmpty DEF SumFunction, Credits

LEMMA OneRow ==
  ASSUME NEW a \in Nat
  PROVE  SumFunction(<<-a>>) = -a /\ Credits(<<-a>>) = 0 /\ <<-a>> \in Seq(Int)
<1>1. Append(<<>>, -a) = <<-a>> /\ -a \in Int /\ ~ (-a > 0)
  OBVIOUS
<1>2. /\ SumFunction(Append(<<>>, -a)) = SumFunction(<<>>) + (-a)
      /\ Credits(Append(<<>>, -a)) = Credits(<<>>)
  BY <1>1, NoRows, RowMore
<1> QED
  BY <1>1, <1>2, NoRows

LEMMA TwoRows ==
  ASSUME NEW b \in Int, NEW a \in Int
  PROVE  Append(<<b>>, a) = <<b, a>>
<1> DEFINE c == Append(<<b>>, a)
           d == <<b, a>>
<1>1. c \in Seq(Int) /\ Len(c) = 2 /\ c[1] = b /\ c[2] = a
  OBVIOUS
<1>2. d \in Seq(Int) /\ Len(d) = 2 /\ d[1] = b /\ d[2] = a
  OBVIOUS
<1> HIDE DEF c, d
<1>3. Len(c) = Len(d) /\ \A i \in 1 .. Len(c) : c[i] = d[i]
  BY <1>1, <1>2
<1>4. c = d
  BY <1>1, <1>2, <1>3, SeqEqual
<1> QED
  BY <1>4 DEF c, d

\* What a completed deposit credited is among its rows.
LEMMA CompletedCounts ==
  ASSUME NEW row, NEW rows, RowOK(row, rows), row.kind = "deposit",
         row.status = "completed"
  PROVE  row.amount <= Credits(rows)
<1> DEFINE I == {i \in DOMAIN rows : rows[i] > 0}
<1>1. rows \in Seq(Int) /\ rows # <<>> /\ row.amount > 0 /\ row.amount \in Nat
      /\ \A i \in DOMAIN rows : rows[i] = row.amount
  BY DEF RowOK, Payment
<1>2. 1 \in I /\ rows[1] = row.amount
  <2>1. DOMAIN rows = 1 .. Len(rows) /\ Len(rows) \in Nat /\ Len(rows) > 0
    BY <1>1
  <2> QED
    BY <1>1, <2>1
<1>3. I \in SUBSET DOMAIN rows
  OBVIOUS
<1>4. IsFiniteSet(I) /\ \A i \in I : rows[i] \in Int /\ rows[i] \in Nat
  <2>1. IsFiniteSet(I)
    BY <1>1, <1>3, SeqIndices
  <2> QED
    BY <1>1, <1>3, <2>1
<1> HIDE DEF I
<1>5. SumFunctionOnSet(rows, I) = rows[1] + SumFunctionOnSet(rows, I \ {1})
  BY <1>2, <1>4, SumTake
<1>6. SumFunctionOnSet(rows, I \ {1}) \in Nat
  <2>1. IsFiniteSet(I \ {1})
    BY <1>4, FS_Subset
  <2> QED
    BY <1>4, <2>1, SumNat
<1>7. Credits(rows) = SumFunctionOnSet(rows, I)
  BY DEF Credits, I
<1> QED
  BY <1>1, <1>2, <1>5, <1>6, <1>7

-----------------------------------------------------------------------------
(* The sums of the rows of a user's payments *)

Owned(pays, u) == {p \in DOMAIN pays : pays[p].user = u}

Confirmed(pays, u) ==
  {q \in Owned(pays, u) : pays[q].kind = "deposit" /\ pays[q].status = "completed"}

\* What the rows of a user's payments add up to, what the deposits among them
\* do, and what his confirmed deposits were for.
Net(pays, book, u) == SumFunction([p \in Owned(pays, u) |-> SumFunction(book[p])])

Life(pays, book, u) == SumFunction([p \in Owned(pays, u) |-> Credits(book[p])])

Paid(pays, u) == SumFunction([p \in Confirmed(pays, u) |-> pays[p].amount])

BookOK(pays, book) ==
  /\ IsFiniteSet(DOMAIN pays)
  /\ DOMAIN book = DOMAIN pays
  /\ \A p \in DOMAIN pays : RowOK(pays[p], book[p])

Nets(book) == [p \in DOMAIN book |-> SumFunction(book[p])]

Lives(book) == [p \in DOMAIN book |-> Credits(book[p])]

Amounts(pays) == [p \in DOMAIN pays |-> pays[p].amount]

LEMMA BookSums ==
  ASSUME NEW pays, NEW book, BookOK(pays, book), NEW u
  PROVE  /\ Net(pays, book, u) = SumFunctionOnSet(Nets(book), Owned(pays, u))
         /\ Life(pays, book, u) = SumFunctionOnSet(Lives(book), Owned(pays, u))
         /\ Paid(pays, u) = SumFunctionOnSet(Amounts(pays), Confirmed(pays, u))
         /\ IsFiniteSet(Owned(pays, u)) /\ IsFiniteSet(Confirmed(pays, u))
         /\ \A p \in DOMAIN pays :
              Nets(book)[p] \in Int /\ Lives(book)[p] \in Nat /\ Amounts(pays)[p] \in Nat
         /\ Owned(pays, u) \in SUBSET DOMAIN pays
         /\ Confirmed(pays, u) \in SUBSET Owned(pays, u)
         /\ \A p \in Confirmed(pays, u) : Amounts(pays)[p] <= Lives(book)[p]
<1>1. Owned(pays, u) \in SUBSET DOMAIN pays /\ Confirmed(pays, u) \in SUBSET Owned(pays, u)
  BY DEF Owned, Confirmed
<1>2. IsFiniteSet(Owned(pays, u)) /\ IsFiniteSet(Confirmed(pays, u))
  BY <1>1, FS_Subset DEF BookOK
<1>3. \A p \in DOMAIN pays : /\ book[p] \in Seq(Int) /\ pays[p].amount \in Nat
                             /\ RowOK(pays[p], book[p]) /\ p \in DOMAIN book
  BY DEF BookOK, RowOK, Payment
<1>4. \A p \in DOMAIN pays :
        Nets(book)[p] \in Int /\ Lives(book)[p] \in Nat /\ Amounts(pays)[p] \in Nat
  BY <1>3, RowsNat DEF Nets, Lives, Amounts
<1>5. [p \in Owned(pays, u) |-> Nets(book)[p]]
        = [p \in Owned(pays, u) |-> SumFunction(book[p])]
  BY <1>1, <1>3 DEF Nets
<1>6. [p \in Owned(pays, u) |-> Lives(book)[p]]
        = [p \in Owned(pays, u) |-> Credits(book[p])]
  BY <1>1, <1>3 DEF Lives
<1>7. [p \in Confirmed(pays, u) |-> Amounts(pays)[p]]
        = [p \in Confirmed(pays, u) |-> pays[p].amount]
  BY <1>1 DEF Amounts
<1>8. Net(pays, book, u) = SumFunctionOnSet(Nets(book), Owned(pays, u))
  BY <1>2, <1>5, SumTable, Zenon DEF Net
<1>9. Life(pays, book, u) = SumFunctionOnSet(Lives(book), Owned(pays, u))
  BY <1>2, <1>6, SumTable, Zenon DEF Life
<1>10. Paid(pays, u) = SumFunctionOnSet(Amounts(pays), Confirmed(pays, u))
  BY <1>2, <1>7, SumTable, Zenon DEF Paid
<1>11. \A p \in Confirmed(pays, u) : Amounts(pays)[p] <= Lives(book)[p]
  BY <1>1, <1>3, CompletedCounts DEF Confirmed, Amounts, Lives
<1> QED
  BY <1>1, <1>2, <1>4, <1>8, <1>9, <1>10, <1>11

LEMMA BookNat ==
  ASSUME NEW pays, NEW book, BookOK(pays, book), NEW u
  PROVE  /\ Net(pays, book, u) \in Int
         /\ Life(pays, book, u) \in Nat
         /\ Paid(pays, u) \in Nat
         /\ Paid(pays, u) <= Life(pays, book, u)
<1> DEFINE O == Owned(pays, u)
           C == Confirmed(pays, u)
           nets == Nets(book)
           lives == Lives(book)
           amounts == Amounts(pays)
<1>1. /\ IsFiniteSet(O) /\ IsFiniteSet(C) /\ C \in SUBSET O
      /\ \A p \in O : nets[p] \in Int /\ lives[p] \in Nat
      /\ \A p \in C : /\ lives[p] \in Int /\ amounts[p] \in Int /\ amounts[p] \in Nat
                      /\ amounts[p] <= lives[p]
      /\ Net(pays, book, u) = SumFunctionOnSet(nets, O)
      /\ Life(pays, book, u) = SumFunctionOnSet(lives, O)
      /\ Paid(pays, u) = SumFunctionOnSet(amounts, C)
  BY BookSums
<1> HIDE DEF O, C, nets, lives, amounts
<1>2. SumFunctionOnSet(amounts, C) <= SumFunctionOnSet(lives, C)
  BY <1>1, SumLe
<1>3. SumFunctionOnSet(lives, C) <= SumFunctionOnSet(lives, O)
  BY <1>1, SumPartLe
<1>4. SumFunctionOnSet(nets, O) \in Int
  BY <1>1, SumInt
<1>5. SumFunctionOnSet(lives, O) \in Nat
  BY <1>1, SumNat
<1>6. SumFunctionOnSet(amounts, C) \in Nat
  BY <1>1, SumNat
<1>7. SumFunctionOnSet(lives, C) \in Int
  BY <1>1, SumInt
<1> QED
  BY <1>1, <1>2, <1>3, <1>4, <1>5, <1>6, <1>7

\* A new payment that is pending, with its rows: create_deposit and the first
\* transaction of create_withdrawal_request.
LEMMA BookGrows ==
  ASSUME NEW pays, NEW book, BookOK(pays, book), NEW n, n \notin DOMAIN pays,
         NEW row, NEW rows, RowOK(row, rows), row.status = "pending",
         Credits(rows) = 0, NEW u
  PROVE  LET pays2 == Put(pays, n, row)
             book2 == Put(book, n, rows)
         IN  /\ BookOK(pays2, book2)
             /\ Net(pays2, book2, u)
                  = Net(pays, book, u) + (IF row.user = u THEN SumFunction(rows) ELSE 0)
             /\ Life(pays2, book2, u) = Life(pays, book, u)
             /\ Paid(pays2, u) = Paid(pays, u)
<1> DEFINE pays2 == Put(pays, n, row)
           book2 == Put(book, n, rows)
           O == Owned(pays, u)
           O2 == Owned(pays2, u)
           C == Confirmed(pays, u)
           C2 == Confirmed(pays2, u)
           nets == Nets(book)
           nets2 == Nets(book2)
           lives == Lives(book)
           lives2 == Lives(book2)
           amounts == Amounts(pays)
           amounts2 == Amounts(pays2)
<1>1. /\ DOMAIN pays2 = DOMAIN pays \cup {n} /\ pays2[n] = row
      /\ \A p \in DOMAIN pays : pays2[p] = pays[p]
  BY DEF Put
<1>2. DOMAIN book = DOMAIN pays
  BY DEF BookOK
<1>3. /\ DOMAIN book2 = DOMAIN pays2 /\ book2[n] = rows
      /\ \A p \in DOMAIN pays : book2[p] = book[p]
  BY <1>1, <1>2 DEF Put
<1> HIDE DEF pays2, book2
<1>4. BookOK(pays2, book2)
  <2>1. IsFiniteSet(DOMAIN pays2)
    BY <1>1, FS_AddElement DEF BookOK
  <2> QED
    BY <1>1, <1>3, <2>1 DEF BookOK
<1>5. O2 = (IF row.user = u THEN O \cup {n} ELSE O) /\ n \notin O /\ n \notin C
  BY <1>1 DEF Owned, Confirmed
<1>6. C2 = C
  BY <1>1 DEF Owned, Confirmed
<1>7. /\ \A p \in DOMAIN pays : nets2[p] = nets[p] /\ lives2[p] = lives[p]
                              /\ amounts2[p] = amounts[p]
      /\ nets2[n] = SumFunction(rows) /\ lives2[n] = 0
  BY <1>1, <1>2, <1>3 DEF Nets, Lives, Amounts
<1>8. /\ Net(pays, book, u) = SumFunctionOnSet(nets, O)
      /\ Life(pays, book, u) = SumFunctionOnSet(lives, O)
      /\ Paid(pays, u) = SumFunctionOnSet(amounts, C)
      /\ IsFiniteSet(O) /\ IsFiniteSet(C)
      /\ O \in SUBSET DOMAIN pays /\ C \in SUBSET DOMAIN pays
      /\ \A p \in O : nets[p] \in Int /\ lives[p] \in Int
  BY BookSums
<1>9. /\ Net(pays2, book2, u) = SumFunctionOnSet(nets2, O2)
      /\ Life(pays2, book2, u) = SumFunctionOnSet(lives2, O2)
      /\ Paid(pays2, u) = SumFunctionOnSet(amounts2, C2)
      /\ \A p \in O2 : nets2[p] \in Int /\ lives2[p] \in Int
  BY <1>4, BookSums
<1> HIDE DEF O, O2, C, C2, nets, nets2, lives, lives2, amounts, amounts2
<1>10. /\ SumFunctionOnSet(nets2, O) = SumFunctionOnSet(nets, O)
       /\ SumFunctionOnSet(lives2, O) = SumFunctionOnSet(lives, O)
       /\ SumFunctionOnSet(amounts2, C) = SumFunctionOnSet(amounts, C)
  <2>1. (\A p \in O : nets2[p] = nets[p] /\ lives2[p] = lives[p])
        /\ \A p \in C : amounts2[p] = amounts[p]
    BY <1>7, <1>8
  <2> QED
    BY <1>8, <2>1, SumSame
<1>11. SumFunctionOnSet(nets, O) \in Int /\ SumFunctionOnSet(lives, O) \in Int
  BY <1>8, SumInt
<1>12. CASE row.user = u
  <2>1. \A p \in O : nets2[p] \in Int /\ lives2[p] \in Int
    BY <1>7, <1>8
  <2>2. nets2[n] \in Int /\ lives2[n] \in Int
    BY <1>5, <1>9, <1>12
  <2>3. SumFunctionOnSet(nets2, O \cup {n}) = nets2[n] + SumFunctionOnSet(nets2, O)
    BY <1>5, <1>8, <2>1, <2>2, SumAdd
  <2>4. SumFunctionOnSet(lives2, O \cup {n}) = lives2[n] + SumFunctionOnSet(lives2, O)
    BY <1>5, <1>8, <2>1, <2>2, SumAdd
  <2>5. O2 = O \cup {n}
    BY <1>5, <1>12
  <2>6. Net(pays2, book2, u) = Net(pays, book, u) + SumFunction(rows)
    BY <1>7, <1>8, <1>9, <1>10, <1>11, <2>2, <2>3, <2>5
  <2>7. Life(pays2, book2, u) = Life(pays, book, u)
    BY <1>7, <1>8, <1>9, <1>10, <1>11, <2>4, <2>5
  <2> QED
    BY <1>4, <1>6, <1>8, <1>9, <1>10, <1>12, <2>6, <2>7 DEF pays2, book2
<1>13. CASE row.user # u
  <2>1. O2 = O
    BY <1>5, <1>13
  <2> QED
    BY <1>4, <1>6, <1>8, <1>9, <1>10, <1>11, <1>13, <2>1 DEF pays2, book2
<1> QED
  BY <1>12, <1>13

\* A row more for a payment that is there: deposit_funds.
LEMMA BookPays ==
  ASSUME NEW pays, NEW book, BookOK(pays, book), NEW p \in DOMAIN pays,
         NEW a \in Nat, a > 0, NEW pays2, NEW book2, DOMAIN pays2 = DOMAIN pays,
         \A q \in DOMAIN pays : pays2[q].user = pays[q].user,
         BookOK(pays2, book2), book2[p] = Append(book[p], a),
         \A q \in DOMAIN pays \ {p} : book2[q] = book[q], NEW u
  PROVE  LET gain == IF pays[p].user = u THEN a ELSE 0
         IN  /\ Net(pays2, book2, u) = Net(pays, book, u) + gain
             /\ Life(pays2, book2, u) = Life(pays, book, u) + gain
<1> DEFINE O == Owned(pays, u)
           nets == Nets(book)
           nets2 == Nets(book2)
           lives == Lives(book)
           lives2 == Lives(book2)
<1>1. /\ DOMAIN book = DOMAIN pays /\ DOMAIN book2 = DOMAIN book
      /\ book[p] \in Seq(Int)
  BY DEF BookOK, RowOK
<1>2. Owned(pays2, u) = O
  BY DEF Owned
<1>3. /\ nets2[p] = nets[p] + a /\ lives2[p] = lives[p] + a
      /\ \A q \in DOMAIN pays \ {p} : nets2[q] = nets[q] /\ lives2[q] = lives[q]
  <2>1. /\ SumFunction(book2[p]) = SumFunction(book[p]) + a
        /\ Credits(book2[p]) = Credits(book[p]) + a
    BY <1>1, RowMore
  <2> QED
    BY <1>1, <2>1 DEF Nets, Lives
<1>4. /\ Net(pays, book, u) = SumFunctionOnSet(nets, O)
      /\ Life(pays, book, u) = SumFunctionOnSet(lives, O)
      /\ IsFiniteSet(O) /\ O \in SUBSET DOMAIN pays
      /\ \A q \in O : nets[q] \in Int /\ lives[q] \in Int
  BY BookSums
<1>5. /\ Net(pays2, book2, u) = SumFunctionOnSet(nets2, O)
      /\ Life(pays2, book2, u) = SumFunctionOnSet(lives2, O)
      /\ \A q \in O : nets2[q] \in Int /\ lives2[q] \in Int
  BY <1>2, BookSums
<1>6. p \in O <=> pays[p].user = u
  BY DEF Owned
<1> HIDE DEF O, nets, nets2, lives, lives2
<1>7. SumFunctionOnSet(nets, O) \in Int /\ SumFunctionOnSet(lives, O) \in Int
  BY <1>4, SumInt
<1>8. CASE p \in O
  <2>1. \A q \in O \ {p} : nets2[q] = nets[q] /\ lives2[q] = lives[q]
    BY <1>3, <1>4
  <2>2. SumFunctionOnSet(nets2, O) = SumFunctionOnSet(nets, O) - nets[p] + nets2[p]
    BY <1>4, <1>5, <1>8, <2>1, SumChange
  <2>3. SumFunctionOnSet(lives2, O) = SumFunctionOnSet(lives, O) - lives[p] + lives2[p]
    BY <1>4, <1>5, <1>8, <2>1, SumChange
  <2>4. nets[p] \in Int /\ lives[p] \in Int
    BY <1>4, <1>8
  <2>5. Net(pays2, book2, u) = Net(pays, book, u) + a
    BY <1>3, <1>4, <1>5, <1>7, <2>2, <2>4
  <2>6. Life(pays2, book2, u) = Life(pays, book, u) + a
    BY <1>3, <1>4, <1>5, <1>7, <2>3, <2>4
  <2> QED
    BY <1>6, <1>8, <2>5, <2>6
<1>9. CASE p \notin O
  <2>1. \A q \in O : nets2[q] = nets[q] /\ lives2[q] = lives[q]
    BY <1>3, <1>4, <1>9
  <2>2. /\ SumFunctionOnSet(nets2, O) = SumFunctionOnSet(nets, O)
        /\ SumFunctionOnSet(lives2, O) = SumFunctionOnSet(lives, O)
    BY <1>4, <2>1, SumSame
  <2> QED
    BY <1>4, <1>5, <1>6, <1>7, <1>9, <2>2
<1> QED
  BY <1>8, <1>9

\* Rows that keep their users keep what their rows add up to, and what was
\* confirmed if those that are confirmed are the same.
LEMMA BookSame ==
  ASSUME NEW pays, NEW pays2, NEW book, DOMAIN pays2 = DOMAIN pays, NEW u,
         \A q \in DOMAIN pays : /\ pays2[q].user = pays[q].user
                                /\ pays2[q].amount = pays[q].amount
                                /\ pays2[q].kind = pays[q].kind
  PROVE  /\ Net(pays2, book, u) = Net(pays, book, u)
         /\ Life(pays2, book, u) = Life(pays, book, u)
         /\ (\A q \in DOMAIN pays : pays[q].kind = "deposit" =>
               (pays2[q].status = "completed" <=> pays[q].status = "completed"))
              => Paid(pays2, u) = Paid(pays, u)
<1>1. Owned(pays2, u) = Owned(pays, u)
  BY DEF Owned
<1>2. Net(pays2, book, u) = Net(pays, book, u) /\ Life(pays2, book, u) = Life(pays, book, u)
  BY <1>1 DEF Net, Life
<1>3. ASSUME \A q \in DOMAIN pays : pays[q].kind = "deposit" =>
               (pays2[q].status = "completed" <=> pays[q].status = "completed")
      PROVE  Paid(pays2, u) = Paid(pays, u)
  <2>1. Confirmed(pays2, u) = Confirmed(pays, u)
    BY <1>1, <1>3 DEF Confirmed, Owned
  <2>2. [p \in Confirmed(pays2, u) |-> pays2[p].amount]
          = [p \in Confirmed(pays, u) |-> pays[p].amount]
    BY <2>1 DEF Confirmed, Owned
  <2> QED
    BY <2>2 DEF Paid
<1> QED
  BY <1>2, <1>3

-----------------------------------------------------------------------------
(* The inductive invariant *)

Gone == {"released", "returned"}

Released(p, rem) ==
  \E k \in DOMAIN rem : rem[k].payment = p /\ rem[k].state \in Gone

BatchOf(p, k, rem) == k \in DOMAIN rem /\ rem[k].payment = p

\* A create_withdrawal_request between its transactions: the payment is its own.
Making == {"debited", "refused", "answered"}

Batching == {"batched", "verifying", "verified"}

\* What a request that goes on may rely on.
HandlerOK(h, pays, book, rem) ==
  /\ h \in Handler
  /\ h.op # "invoiced" => h.payment \in DOMAIN pays
  /\ h.op \in Making => book[h.payment] = <<-pays[h.payment].amount>>
  /\ h.op \in Making \cup Batching \cup {"batching"} =>
       pays[h.payment].kind = "withdrawal"
  /\ h.op = "crediting" => pays[h.payment].kind = "deposit"
  /\ h.op \in Batching => BatchOf(h.payment, h.ref, rem)
  /\ h.op = "verified" => rem[h.ref].state \in Gone
  /\ h.op = "answered" /\ h.status = "completed" => Released(h.payment, rem)

Threads(hs, pays, book, rem) ==
  /\ DOMAIN hs \subseteq Sessions \cup Webhooks
  /\ \A s \in DOMAIN hs : /\ HandlerOK(hs[s], pays, book, rem)
                          /\ hs[s].op = "crediting" <=> s \in Webhooks
  /\ \A s, t \in DOMAIN hs :
       s # t /\ hs[s].op \in Making /\ hs[t].op \in Making
         => hs[s].payment # hs[t].payment

WalletsOK(bal, pays, book, cl, com) ==
  /\ bal \in [Users -> Int]
  /\ cl \in [Users -> SUBSET Packages]
  /\ com \in [Users -> Nat]
  /\ \A u \in Users :
       /\ bal[u] = InitialBalance[u] + Net(pays, book, u)
       /\ bal[u] >= Held[u]
       /\ com[u] = SumFunctionOnSet(Bonus, cl[u])
       /\ \A k \in Packages : /\ Threshold[k] <= Paid(pays, u) => k \in cl[u]
                              /\ k \in cl[u] => Threshold[k] <= Life(pays, book, u)

Numbered(f) == \E n \in Nat : DOMAIN f = 1 .. n

RowsOK(pays, book, rem) ==
  /\ BookOK(pays, book)
  /\ Numbered(pays)
  /\ DOMAIN pays \subseteq PaymentIds
  /\ \A p \in DOMAIN pays :
       pays[p].kind = "withdrawal" /\ pays[p].status = "completed" => Released(p, rem)

RemoteOK(rem) ==
  /\ Numbered(rem)
  /\ DOMAIN rem \subseteq Refs
  /\ \A k \in DOMAIN rem : rem[k] \in Remote

CodesOK(cs, pays, rem) ==
  \A p \in DOMAIN cs : /\ p \in DOMAIN pays
                       /\ pays[p].kind = "withdrawal"
                       /\ BatchOf(p, cs[p], rem)

Good ==
  /\ rate \in Rates
  /\ WalletsOK(balance, payments, ledger, claims, commission)
  /\ RowsOK(payments, ledger, remote)
  /\ RemoteOK(remote)
  /\ Threads(handler, payments, ledger, remote)
  /\ CodesOK(codes, payments, remote)

LEMMA NextIsNew ==
  ASSUME NEW f, Numbered(f)
  PROVE  LET n == Cardinality(DOMAIN f) + 1
         IN  /\ IsFiniteSet(DOMAIN f)
             /\ n \notin DOMAIN f
             /\ \A v : Numbered(Put(f, n, v))
<1>1. PICK m \in Nat : DOMAIN f = 1 .. m
  BY DEF Numbered
<1>2. IsFiniteSet(DOMAIN f) /\ Cardinality(DOMAIN f) = m
  <2>1. IsFiniteSet(1 .. m) /\ Cardinality(1 .. m) = IF 1 > m THEN 0 ELSE m - 1 + 1
    BY FS_Interval
  <2> QED
    BY <1>1, <2>1
<1>3. DOMAIN f \cup {m + 1} = 1 .. (m + 1) /\ m + 1 \notin DOMAIN f
  BY <1>1
<1>4. ASSUME NEW v PROVE Numbered(Put(f, m + 1, v))
  <2>1. DOMAIN Put(f, m + 1, v) = 1 .. (m + 1) /\ m + 1 \in Nat
    BY <1>3 DEF Put
  <2> QED
    BY <2>1 DEF Numbered
<1> QED
  BY <1>2, <1>3, <1>4

-----------------------------------------------------------------------------
(* What a step leaves to the other threads *)

Grows(pays, pays2) ==
  \A p \in DOMAIN pays : /\ p \in DOMAIN pays2
                         /\ pays2[p].user = pays[p].user
                         /\ pays2[p].kind = pays[p].kind
                         /\ pays2[p].amount = pays[p].amount

GoesOn(rem, rem2) ==
  \A k \in DOMAIN rem : /\ k \in DOMAIN rem2
                        /\ rem2[k].payment = rem[k].payment
                        /\ rem[k].state \in Gone => rem2[k].state \in Gone

LEMMA ReleasedStays ==
  ASSUME NEW rem, NEW rem2, GoesOn(rem, rem2), NEW p, Released(p, rem)
  PROVE  Released(p, rem2)
  BY DEF Released, GoesOn

LEMMA HandlerKept ==
  ASSUME NEW h, NEW pays, NEW pays2, NEW book, NEW book2, NEW rem, NEW rem2,
         HandlerOK(h, pays, book, rem), Grows(pays, pays2), GoesOn(rem, rem2),
         h.op \in Making => book2[h.payment] = book[h.payment]
  PROVE  HandlerOK(h, pays2, book2, rem2)
<1>1. /\ h \in Handler
      /\ h.op # "invoiced" => h.payment \in DOMAIN pays
      /\ h.op \in Making => book[h.payment] = <<-pays[h.payment].amount>>
      /\ h.op \in Making \cup Batching \cup {"batching"} =>
           pays[h.payment].kind = "withdrawal"
      /\ h.op = "crediting" => pays[h.payment].kind = "deposit"
      /\ h.op \in Batching => BatchOf(h.payment, h.ref, rem)
      /\ h.op = "verified" => rem[h.ref].state \in Gone
      /\ h.op = "answered" /\ h.status = "completed" => Released(h.payment, rem)
  BY DEF HandlerOK
<1>2. h.op # "invoiced" => /\ h.payment \in DOMAIN pays2
                           /\ pays2[h.payment].kind = pays[h.payment].kind
                           /\ pays2[h.payment].amount = pays[h.payment].amount
  BY <1>1 DEF Grows
<1>3. h.op \in Making \cup Batching \cup {"batching", "crediting"} => h.op # "invoiced"
  BY DEF Making, Batching
<1>4. h.op \in Batching => BatchOf(h.payment, h.ref, rem2)
  BY <1>1 DEF BatchOf, GoesOn
<1>5. h.op = "verified" => rem2[h.ref].state \in Gone
  <2>1. h.op = "verified" => h.ref \in DOMAIN rem
    BY <1>1 DEF BatchOf, Batching
  <2> QED
    BY <1>1, <2>1 DEF GoesOn
<1>6. h.op = "answered" /\ h.status = "completed" => Released(h.payment, rem2)
  BY <1>1, ReleasedStays
<1>7. h.op \in Making => book2[h.payment] = <<-pays2[h.payment].amount>>
  BY <1>1, <1>2, <1>3
<1> QED
  BY <1>1, <1>2, <1>3, <1>4, <1>5, <1>6, <1>7 DEF HandlerOK

\* One thread goes on, or none.
LEMMA ThreadsKept ==
  ASSUME NEW hs, NEW hs2, NEW pays, NEW pays2, NEW book, NEW book2, NEW rem, NEW rem2,
         Threads(hs, pays, book, rem), Grows(pays, pays2), GoesOn(rem, rem2),
         NEW s, DOMAIN hs2 \subseteq DOMAIN hs \cup {s},
         \A t \in DOMAIN hs2 \ {s} :
           /\ hs2[t] = hs[t]
           /\ hs[t].op \in Making => book2[hs[t].payment] = book[hs[t].payment],
         s \in DOMAIN hs2 =>
           /\ s \in Sessions \cup Webhooks
           /\ HandlerOK(hs2[s], pays2, book2, rem2)
           /\ hs2[s].op = "crediting" <=> s \in Webhooks
           /\ hs2[s].op \in Making =>
                \A t \in DOMAIN hs \ {s} :
                  hs[t].op \in Making => hs[t].payment # hs2[s].payment
  PROVE  Threads(hs2, pays2, book2, rem2)
<1>1. DOMAIN hs2 \subseteq Sessions \cup Webhooks
  BY DEF Threads
<1>2. ASSUME NEW t \in DOMAIN hs2
      PROVE  /\ HandlerOK(hs2[t], pays2, book2, rem2)
             /\ hs2[t].op = "crediting" <=> t \in Webhooks
  <2>1. CASE t = s
    BY <2>1
  <2>2. CASE t # s
    <3>1. /\ t \in DOMAIN hs /\ hs2[t] = hs[t]
          /\ hs[t].op \in Making => book2[hs[t].payment] = book[hs[t].payment]
      BY <2>2
    <3>2. HandlerOK(hs[t], pays, book, rem) /\ (hs[t].op = "crediting" <=> t \in Webhooks)
      BY <3>1 DEF Threads
    <3>3. HandlerOK(hs[t], pays2, book2, rem2)
      BY <3>1, <3>2, HandlerKept
    <3> QED
      BY <3>1, <3>2, <3>3
  <2> QED
    BY <2>1, <2>2
<1>3. \A t, r \in DOMAIN hs2 :
        t # r /\ hs2[t].op \in Making /\ hs2[r].op \in Making
          => hs2[t].payment # hs2[r].payment
  BY DEF Threads
<1> QED
  BY <1>1, <1>2, <1>3 DEF Threads

LEMMA CodesKept ==
  ASSUME NEW cs, NEW pays, NEW pays2, NEW rem, NEW rem2, CodesOK(cs, pays, rem),
         Grows(pays, pays2), GoesOn(rem, rem2)
  PROVE  CodesOK(cs, pays2, rem2)
  BY DEF CodesOK, Grows, GoesOn, BatchOf

LEMMA RowsUnmoved == ASSUME NEW pays PROVE Grows(pays, pays)
  BY DEF Grows

LEMMA RemoteUnmoved == ASSUME NEW rem PROVE GoesOn(rem, rem)
  BY DEF GoesOn

-----------------------------------------------------------------------------
(* The threads after a step *)

LEMMA SessionMoves ==
  ASSUME Good, NEW s \in Sessions, NEW h, Advance(s, h), NEW pays2, NEW book2, NEW rem2,
         Grows(payments, pays2), GoesOn(remote, rem2),
         HandlerOK(h, pays2, book2, rem2), h.op # "crediting",
         \A p \in DOMAIN payments : book2[p] = ledger[p],
         h.op \in Making =>
           \/ h.payment \notin DOMAIN payments
           \/ /\ s \in DOMAIN handler
              /\ handler[s].op \in Making
              /\ handler[s].payment = h.payment
  PROVE  Threads(handler', pays2, book2, rem2)
<1>1. Threads(handler, payments, ledger, remote)
  BY DEF Good
<1>2. /\ DOMAIN handler' = DOMAIN handler \cup {s} /\ handler'[s] = h
      /\ \A t \in DOMAIN handler' \ {s} : handler'[t] = handler[t]
  BY DEF Advance, Put
<1>3. s \notin Webhooks
  BY PaymentsAssumption DEF PaymentsAssumption
<1>4. \A t \in DOMAIN handler : handler[t].op \in Making =>
        handler[t].payment \in DOMAIN payments
  BY <1>1 DEF Threads, HandlerOK, Making
<1>5. \A t \in DOMAIN handler' \ {s} :
        /\ handler'[t] = handler[t]
        /\ handler[t].op \in Making =>
             book2[handler[t].payment] = ledger[handler[t].payment]
  BY <1>2, <1>4
<1>6. h.op \in Making =>
        \A t \in DOMAIN handler \ {s} :
          handler[t].op \in Making => handler[t].payment # h.payment
  BY <1>1, <1>4 DEF Threads
<1> DEFINE hs2 == handler'
<1>7. /\ DOMAIN hs2 \subseteq DOMAIN handler \cup {s}
      /\ \A t \in DOMAIN hs2 \ {s} :
           /\ hs2[t] = handler[t]
           /\ handler[t].op \in Making =>
                book2[handler[t].payment] = ledger[handler[t].payment]
      /\ s \in DOMAIN hs2 =>
           /\ s \in Sessions \cup Webhooks
           /\ HandlerOK(hs2[s], pays2, book2, rem2)
           /\ hs2[s].op = "crediting" <=> s \in Webhooks
           /\ hs2[s].op \in Making =>
                \A t \in DOMAIN handler \ {s} :
                  handler[t].op \in Making => handler[t].payment # hs2[s].payment
  BY <1>2, <1>3, <1>5, <1>6
<1> HIDE DEF hs2
<1>8. Threads(hs2, pays2, book2, rem2)
  BY <1>1, <1>7, ThreadsKept
<1> QED
  BY <1>8 DEF hs2

LEMMA ThreadReturns ==
  ASSUME Good, NEW s, Return(s), NEW pays2, NEW book2, NEW rem2,
         Grows(payments, pays2), GoesOn(remote, rem2),
         \A t \in DOMAIN handler \ {s} :
           handler[t].op \in Making =>
             book2[handler[t].payment] = ledger[handler[t].payment]
  PROVE  Threads(handler', pays2, book2, rem2)
<1>1. Threads(handler, payments, ledger, remote)
  BY DEF Good
<1> DEFINE hs2 == handler'
<1>2. /\ DOMAIN hs2 = DOMAIN handler \ {s}
      /\ \A t \in DOMAIN hs2 \ {s} : hs2[t] = handler[t]
  BY DEF Return, Drop
<1> HIDE DEF hs2
<1>3. Threads(hs2, pays2, book2, rem2)
  BY <1>1, <1>2, ThreadsKept
<1> QED
  BY <1>3 DEF hs2

LEMMA ThreadsStay ==
  ASSUME Good, UNCHANGED handler, NEW pays2, NEW rem2,
         Grows(payments, pays2), GoesOn(remote, rem2)
  PROVE  Threads(handler', pays2, ledger, rem2)
<1>1. Threads(handler, payments, ledger, remote)
  BY DEF Good
<1> DEFINE s == CHOOSE x : x \notin DOMAIN handler
<1>2. \A t \in DOMAIN handler : HandlerOK(handler[t], pays2, ledger, rem2)
  BY <1>1, HandlerKept DEF Threads
<1>3. Threads(handler, pays2, ledger, rem2)
  BY <1>1, <1>2 DEF Threads
<1> QED
  BY <1>3

\* A step of the provider, or of a thread that writes no row.
LEMMA NoRowWritten ==
  ASSUME Good, rate' \in Rates, UNCHANGED <<wallets, payments>>,
         RemoteOK(remote'), GoesOn(remote, remote'), CodesOK(codes', payments, remote'),
         Threads(handler', payments, ledger, remote')
  PROVE  Good'
<1>1. UNCHANGED <<balance, ledger, claims, commission, payments>>
  BY DEF wallets
<1>2. RowsOK(payments, ledger, remote)
  BY DEF Good
<1>3. RowsOK(payments, ledger, remote')
  BY <1>2, ReleasedStays DEF RowsOK
<1> QED
  BY <1>1, <1>3 DEF Good

\* A payout or an invoice more.
LEMMA NewRemote ==
  ASSUME Good, NEW r \in Remote, NextRef \in Refs, remote' = Put(remote, NextRef, r)
  PROVE  /\ RemoteOK(remote') /\ GoesOn(remote, remote')
         /\ NextRef \in DOMAIN remote' /\ remote'[NextRef] = r
         /\ CodesOK(codes, payments, remote')
<1>1. RemoteOK(remote)
  BY DEF Good
<1>2. NextRef \notin DOMAIN remote /\ Numbered(remote')
  BY <1>1, NextIsNew DEF RemoteOK, NextRef
<1>3. /\ DOMAIN remote' = DOMAIN remote \cup {NextRef} /\ remote'[NextRef] = r
      /\ \A k \in DOMAIN remote : remote'[k] = remote[k]
  BY <1>2 DEF Put
<1>4. GoesOn(remote, remote')
  BY <1>3 DEF GoesOn
<1>5. RemoteOK(remote')
  BY <1>1, <1>2, <1>3 DEF RemoteOK
<1>6. CodesOK(codes, payments, remote)
  BY DEF Good
<1>7. CodesOK(codes, payments, remote')
  BY <1>4, <1>6, CodesKept, RowsUnmoved
<1> QED
  BY <1>3, <1>4, <1>5, <1>7

\* What a step may use of the thread it is taken by.
LEMMA ThreadFacts ==
  ASSUME Good, NEW s \in DOMAIN handler
  PROVE  /\ HandlerOK(handler[s], payments, ledger, remote)
         /\ handler[s].op # "invoiced" => RowOK(Row(s), ledger[Pid(s)])
         /\ handler[s].op # "invoiced" => Pid(s) \in DOMAIN payments
<1>1. HandlerOK(handler[s], payments, ledger, remote)
  BY DEF Good, Threads
<1>2. handler[s].op # "invoiced" => Pid(s) \in DOMAIN payments
  BY <1>1 DEF HandlerOK, Pid
<1> QED
  BY <1>1, <1>2 DEF Good, RowsOK, BookOK, Row, Pid

-----------------------------------------------------------------------------
(* The steps that write no row *)

LEMMA AskInvoiceStep == ASSUME Good, NEW s \in Sessions, AskInvoice(s) PROVE Good'
<1>1. PICK r \in DepositRequests :
        /\ r.usd > 0 /\ NextRef \in Refs
        /\ remote' = Put(remote, NextRef,
                         [kind |-> "invoice", payment |-> 0, state |-> "open"])
        /\ Advance(s, [op |-> "invoiced", request |-> r, ref |-> NextRef])
  BY DEF AskInvoice
<1>2. UNCHANGED <<rate, wallets, payments, codes>>
  BY DEF AskInvoice
<1>3. [kind |-> "invoice", payment |-> 0, state |-> "open"] \in Remote
  BY DEF Remote
<1>4. RemoteOK(remote') /\ GoesOn(remote, remote') /\ CodesOK(codes, payments, remote')
  BY <1>1, <1>3, NewRemote
<1> DEFINE h == [op |-> "invoiced", request |-> r, ref |-> NextRef]
<1>5. h \in Handler /\ h.op = "invoiced"
  BY <1>1 DEF Handler
<1>6. Advance(s, h)
  BY <1>1
<1> HIDE DEF h
<1>7. HandlerOK(h, payments, ledger, remote')
  BY <1>5 DEF HandlerOK, Making, Batching
<1>8. Threads(handler', payments, ledger, remote')
  BY <1>4, <1>5, <1>6, <1>7, SessionMoves, RowsUnmoved DEF Making
<1> QED
  BY <1>2, <1>4, <1>8, NoRowWritten DEF Good

\* handle_deposit_success reads a pending deposit of the invoice.
LEMMA ReadPendingStep ==
  ASSUME Good, NEW s \in Webhooks, NEW k, ReadPending(s, k) PROVE Good'
<1>1. PICK p \in DOMAIN payments :
        /\ payments[p].kind = "deposit"
        /\ Advance(s, [op |-> "crediting", payment |-> p])
  BY DEF ReadPending
<1>2. UNCHANGED <<rate, wallets, payments, remote, codes>> /\ s \notin DOMAIN handler
  BY DEF ReadPending, Idle
<1> DEFINE h == [op |-> "crediting", payment |-> p]
           hs2 == handler'
<1>3. h \in Handler /\ h.op = "crediting" /\ h.payment = p
  <2>1. p \in PaymentIds
    BY DEF Good, RowsOK
  <2> QED
    BY <2>1 DEF Handler
<1>4. DOMAIN hs2 = DOMAIN handler \cup {s} /\ hs2[s] = h
      /\ \A t \in DOMAIN hs2 \ {s} : hs2[t] = handler[t]
  BY <1>1 DEF Advance, Put
<1> HIDE DEF h, hs2
<1>5. HandlerOK(h, payments, ledger, remote)
  BY <1>1, <1>3 DEF HandlerOK, Making, Batching
<1>6. /\ DOMAIN hs2 \subseteq DOMAIN handler \cup {s}
      /\ \A t \in DOMAIN hs2 \ {s} :
           /\ hs2[t] = handler[t]
           /\ handler[t].op \in Making =>
                ledger[handler[t].payment] = ledger[handler[t].payment]
      /\ s \in DOMAIN hs2 =>
           /\ s \in Sessions \cup Webhooks
           /\ HandlerOK(hs2[s], payments, ledger, remote)
           /\ hs2[s].op = "crediting" <=> s \in Webhooks
           /\ hs2[s].op \in Making =>
                \A t \in DOMAIN handler \ {s} :
                  handler[t].op \in Making => handler[t].payment # hs2[s].payment
  BY <1>3, <1>4, <1>5 DEF Making
<1>7. Threads(handler, payments, ledger, remote)
  BY DEF Good
<1>8. Threads(hs2, payments, ledger, remote)
  BY <1>6, <1>7, ThreadsKept, RowsUnmoved, RemoteUnmoved
<1> QED
  BY <1>2, <1>8, NoRowWritten, RemoteUnmoved DEF Good, hs2

\* create_withdrawal_request calls the provider: what it records of the answer
\* is what the provider did, or less.
LEMMA CallProviderStep == ASSUME Good, NEW s \in Sessions, CallProvider(s) PROVE Good'
<1>1. /\ s \in DOMAIN handler /\ handler[s].op = "debited"
      /\ UNCHANGED <<rate, wallets, payments, codes>>
  BY DEF CallProvider, At
<1>2. PICK answer \in Answers :
        /\ IF answer = "rejected" THEN UNCHANGED remote
           ELSE MakePayout(Pid(s), PayoutState(answer))
        /\ Advance(s, IF answer \in {"rejected", "lost"}
                      THEN [op |-> "refused", payment |-> Pid(s)]
                      ELSE [op |-> "answered", payment |-> Pid(s), status |-> answer])
  BY DEF CallProvider
<1>3. answer \in AllAnswers
  BY PaymentsAssumption DEF PaymentsAssumption
<1>4. /\ Pid(s) \in DOMAIN payments /\ Pid(s) \in PaymentIds
      /\ payments[Pid(s)].kind = "withdrawal"
      /\ ledger[Pid(s)] = <<-payments[Pid(s)].amount>>
  BY <1>1, ThreadFacts DEF HandlerOK, Making, Pid, Good, RowsOK
<1>5. /\ RemoteOK(remote') /\ GoesOn(remote, remote') /\ CodesOK(codes, payments, remote')
      /\ answer = "completed" => Released(Pid(s), remote')
  <2>1. CASE answer = "rejected"
    <3>1. remote' = remote
      BY <1>2, <2>1
    <3> QED
      BY <2>1, <3>1, RemoteUnmoved DEF Good
  <2>2. CASE answer # "rejected"
    <3> DEFINE r == [kind |-> "payout", payment |-> Pid(s), state |-> PayoutState(answer)]
    <3>1. NextRef \in Refs /\ remote' = Put(remote, NextRef, r)
      BY <1>2, <2>2 DEF MakePayout
    <3>2. r \in Remote
      BY <1>3, <1>4, <2>2 DEF Remote, PayoutState, AllAnswers
    <3>3. r.payment = Pid(s) /\ (answer = "completed" => r.state = "released")
      BY DEF PayoutState
    <3> HIDE DEF r
    <3>4. /\ RemoteOK(remote') /\ GoesOn(remote, remote')
          /\ NextRef \in DOMAIN remote' /\ remote'[NextRef] = r
          /\ CodesOK(codes, payments, remote')
      BY <3>1, <3>2, NewRemote
    <3> QED
      BY <3>3, <3>4 DEF Released, Gone
  <2> QED
    BY <2>1, <2>2
<1> DEFINE h == IF answer \in {"rejected", "lost"}
                THEN [op |-> "refused", payment |-> Pid(s)]
                ELSE [op |-> "answered", payment |-> Pid(s), status |-> answer]
<1>6. /\ h \in Handler /\ h.payment = Pid(s) /\ h.op \in {"refused", "answered"}
      /\ h.op = "answered" /\ h.status = "completed" => answer = "completed"
  BY <1>3, <1>4 DEF Handler, AllAnswers
<1>7. Advance(s, h)
  BY <1>2
<1> HIDE DEF h
<1>8. HandlerOK(h, payments, ledger, remote')
  BY <1>4, <1>5, <1>6 DEF HandlerOK, Making, Batching
<1>9. h.op \in Making /\ h.op # "crediting" /\ handler[s].op \in Making
      /\ handler[s].payment = h.payment
  BY <1>1, <1>6 DEF Making, Pid
<1>10. Threads(handler', payments, ledger, remote')
  BY <1>1, <1>5, <1>7, <1>8, <1>9, SessionMoves, RowsUnmoved
<1> QED
  BY <1>1, <1>5, <1>10, NoRowWritten DEF Good

LEMMA InitiatePayoutStep ==
  ASSUME Good, NEW s \in Sessions, NEW p, InitiatePayout(s, p) PROVE Good'
<1>1. /\ p \in DOMAIN payments /\ payments[p].kind = "withdrawal"
      /\ Advance(s, [op |-> "batching", payment |-> p])
      /\ UNCHANGED <<rate, wallets, payments, remote, codes>>
  BY DEF InitiatePayout
<1> DEFINE h == [op |-> "batching", payment |-> p]
<1>2. h \in Handler /\ h.op = "batching" /\ h.payment = p
  <2>1. p \in PaymentIds
    BY <1>1 DEF Good, RowsOK
  <2> QED
    BY <2>1 DEF Handler
<1>3. Advance(s, h)
  BY <1>1
<1> HIDE DEF h
<1>4. HandlerOK(h, payments, ledger, remote)
  BY <1>1, <1>2 DEF HandlerOK, Making, Batching
<1>5. Threads(handler', payments, ledger, remote)
  BY <1>2, <1>3, <1>4, SessionMoves, RowsUnmoved, RemoteUnmoved DEF Making
<1> QED
  BY <1>1, <1>5, NoRowWritten, RemoteUnmoved DEF Good

LEMMA CreateBatchStep == ASSUME Good, NEW s \in Sessions, CreateBatch(s) PROVE Good'
<1>1. /\ s \in DOMAIN handler /\ handler[s].op = "batching" /\ MakePayout(Pid(s), "open")
      /\ Advance(s, [op |-> "batched", payment |-> Pid(s), ref |-> NextRef])
      /\ UNCHANGED <<rate, wallets, payments, codes>>
  BY DEF CreateBatch, At
<1>2. /\ Pid(s) \in DOMAIN payments /\ Pid(s) \in PaymentIds
      /\ payments[Pid(s)].kind = "withdrawal"
  BY <1>1, ThreadFacts DEF HandlerOK, Making, Batching, Pid, Good, RowsOK
<1> DEFINE r == [kind |-> "payout", payment |-> Pid(s), state |-> "open"]
           h == [op |-> "batched", payment |-> Pid(s), ref |-> NextRef]
<1>3. NextRef \in Refs /\ remote' = Put(remote, NextRef, r)
  BY <1>1 DEF MakePayout
<1>4. r \in Remote /\ r.payment = Pid(s)
  BY <1>2 DEF Remote
<1>5. h \in Handler /\ h.payment = Pid(s) /\ h.op = "batched" /\ h.ref = NextRef
  BY <1>2, <1>3 DEF Handler
<1>6. Advance(s, h)
  BY <1>1
<1> HIDE DEF r, h
<1>7. /\ RemoteOK(remote') /\ GoesOn(remote, remote')
      /\ NextRef \in DOMAIN remote' /\ remote'[NextRef] = r
      /\ CodesOK(codes, payments, remote')
  BY <1>3, <1>4, NewRemote
<1>8. HandlerOK(h, payments, ledger, remote')
  BY <1>2, <1>4, <1>5, <1>7 DEF HandlerOK, Making, Batching, BatchOf
<1>9. Threads(handler', payments, ledger, remote')
  BY <1>5, <1>6, <1>7, <1>8, SessionMoves, RowsUnmoved DEF Making
<1> QED
  BY <1>1, <1>7, <1>9, NoRowWritten DEF Good

LEMMA StartVerifyStep ==
  ASSUME Good, NEW s \in Sessions, NEW p, StartVerify(s, p) PROVE Good'
<1>1. /\ p \in DOMAIN codes
      /\ Advance(s, [op |-> "verifying", payment |-> p, ref |-> codes[p]])
      /\ UNCHANGED <<rate, wallets, payments, remote, codes>>
  BY DEF StartVerify
<1>2. /\ p \in DOMAIN payments /\ payments[p].kind = "withdrawal"
      /\ BatchOf(p, codes[p], remote) /\ p \in PaymentIds /\ codes[p] \in Refs
  BY <1>1 DEF Good, CodesOK, RowsOK, RemoteOK, BatchOf
<1> DEFINE h == [op |-> "verifying", payment |-> p, ref |-> codes[p]]
<1>3. h \in Handler /\ h.op = "verifying" /\ h.payment = p /\ h.ref = codes[p]
  BY <1>2 DEF Handler
<1>4. Advance(s, h)
  BY <1>1
<1> HIDE DEF h
<1>5. HandlerOK(h, payments, ledger, remote)
  BY <1>2, <1>3 DEF HandlerOK, Making, Batching
<1>6. Threads(handler', payments, ledger, remote)
  BY <1>3, <1>4, <1>5, SessionMoves, RowsUnmoved, RemoteUnmoved DEF Making
<1> QED
  BY <1>1, <1>6, NoRowWritten, RemoteUnmoved DEF Good

\* A change of the state of one invoice or payout.
LEMMA StateMoves ==
  ASSUME Good, NEW k, NEW v,
         v \in {"open", "paid", "released", "returned", "failed"},
         remote' = [remote EXCEPT ![k].state = v],
         k \in DOMAIN remote => (remote[k].state \in Gone => v \in Gone)
  PROVE  /\ RemoteOK(remote') /\ GoesOn(remote, remote')
         /\ CodesOK(codes, payments, remote')
         /\ k \in DOMAIN remote => remote'[k].state = v
<1>1. RemoteOK(remote)
  BY DEF Good
<1>2. /\ DOMAIN remote' = DOMAIN remote
      /\ \A x \in DOMAIN remote : x # k => remote'[x] = remote[x]
      /\ k \in DOMAIN remote => /\ remote[k] \in Remote
                                /\ remote'[k] = [remote[k] EXCEPT !.state = v]
  BY <1>1 DEF RemoteOK
<1>3. k \in DOMAIN remote => /\ remote'[k] \in Remote
                             /\ remote'[k].payment = remote[k].payment
                             /\ remote'[k].state = v
  BY <1>2 DEF Remote
<1>4. GoesOn(remote, remote')
  BY <1>2, <1>3 DEF GoesOn
<1>5. RemoteOK(remote')
  <2>1. Numbered(remote')
    BY <1>1, <1>2 DEF RemoteOK, Numbered
  <2> QED
    BY <1>1, <1>2, <1>3, <2>1 DEF RemoteOK
<1>6. CodesOK(codes, payments, remote')
  BY <1>4, CodesKept, RowsUnmoved DEF Good
<1> QED
  BY <1>3, <1>4, <1>5, <1>6

\* confirm_manual_payout: the code lets the batch go.
LEMMA VerifyPayoutStep == ASSUME Good, NEW s \in Sessions, VerifyPayout(s) PROVE Good'
<1> DEFINE k == handler[s].ref
           h == [handler[s] EXCEPT !.op = "verified"]
<1>1. /\ s \in DOMAIN handler /\ handler[s].op = "verifying" /\ remote[k].state = "open"
      /\ remote' = [remote EXCEPT ![k].state = IF @ = "open" THEN "released" ELSE @]
      /\ Advance(s, h)
      /\ UNCHANGED <<rate, wallets, payments, codes>>
  BY DEF VerifyPayout, At, Verifiable
<1>2. /\ handler[s] \in Handler /\ Pid(s) \in DOMAIN payments
      /\ payments[Pid(s)].kind = "withdrawal" /\ BatchOf(Pid(s), k, remote)
  BY <1>1, ThreadFacts DEF HandlerOK, Making, Batching, Pid
<1>3. remote' = [remote EXCEPT ![k].state = "released"]
  BY <1>1
<1>4. /\ h \in Handler /\ h.op = "verified" /\ h.payment = Pid(s)
      /\ h.ref = k
  BY <1>1, <1>2 DEF Handler, Pid
<1> HIDE DEF h, k
<1>5. /\ RemoteOK(remote') /\ GoesOn(remote, remote')
      /\ CodesOK(codes, payments, remote')
      /\ k \in DOMAIN remote => remote'[k].state = "released"
  BY <1>3, StateMoves DEF Gone
<1>6. BatchOf(Pid(s), k, remote') /\ remote'[k].state = "released"
  BY <1>2, <1>5 DEF BatchOf, GoesOn
<1>7. HandlerOK(h, payments, ledger, remote')
  BY <1>2, <1>4, <1>6 DEF HandlerOK, Making, Batching, Gone
<1>8. Threads(handler', payments, ledger, remote')
  BY <1>1, <1>4, <1>5, <1>7, SessionMoves, RowsUnmoved DEF Making
<1> QED
  BY <1>1, <1>5, <1>8, NoRowWritten DEF Good

LEMMA GiveUpStep == ASSUME Good, NEW s, GiveUp(s) PROVE Good'
<1>1. Return(s) /\ UNCHANGED <<rate, wallets, payments, remote, codes>>
  BY DEF GiveUp
<1>2. Threads(handler', payments, ledger, remote)
  BY <1>1, ThreadReturns, RowsUnmoved, RemoteUnmoved
<1> QED
  BY <1>1, <1>2, NoRowWritten, RemoteUnmoved DEF Good

LEMMA ProviderStep ==
  ASSUME Good, NEW k, PayInvoice(k) \/ FailRemote(k) PROVE Good'
<1> DEFINE v == IF PayInvoice(k) THEN "paid"
                ELSE IF remote[k].state = "open" THEN "failed" ELSE "returned"
<1>1. UNCHANGED <<rate, wallets, payments, handler, codes>> /\ k \in DOMAIN remote
  BY DEF PayInvoice, FailRemote
<1>2. remote' = [remote EXCEPT ![k].state = v]
  BY DEF PayInvoice, FailRemote
<1>3. /\ v \in {"open", "paid", "released", "returned", "failed"}
      /\ remote[k].state \in Gone => v \in Gone
  BY DEF PayInvoice, FailRemote, Gone
<1> HIDE DEF v
<1>4. RemoteOK(remote') /\ GoesOn(remote, remote') /\ CodesOK(codes, payments, remote')
  BY <1>2, <1>3, StateMoves
<1>5. Threads(handler', payments, ledger, remote')
  BY <1>1, <1>4, ThreadsStay, RowsUnmoved
<1> QED
  BY <1>1, <1>4, <1>5, NoRowWritten DEF Good

LEMMA RefreshRateStep == ASSUME Good, RefreshRate PROVE Good'
<1>1. rate' \in Rates /\ UNCHANGED <<wallets, payments, remote, handler, codes>>
  BY DEF RefreshRate
<1> QED
  BY <1>1, NoRowWritten, RemoteUnmoved DEF Good

-----------------------------------------------------------------------------
(* The steps that rewrite rows and move no money *)

LEMMA RowsRewritten ==
  ASSUME Good, UNCHANGED <<rate, wallets, remote>>,
         DOMAIN payments' = DOMAIN payments, Grows(payments, payments'),
         \A p \in DOMAIN payments :
           /\ RowOK(payments'[p], ledger[p])
           /\ payments'[p].kind = "withdrawal" /\ payments'[p].status = "completed"
                => Released(p, remote),
         Threads(handler', payments', ledger, remote),
         CodesOK(codes', payments', remote)
  PROVE  Good'
<1>1. UNCHANGED <<rate, balance, ledger, claims, commission, remote>>
  BY DEF wallets
<1>2. \A p \in DOMAIN payments :
        /\ RowOK(payments[p], ledger[p])
        /\ payments'[p].user = payments[p].user
        /\ payments'[p].amount = payments[p].amount
        /\ payments'[p].kind = payments[p].kind
  BY DEF Good, RowsOK, BookOK, Grows
<1>3. \A p \in DOMAIN payments : payments[p].kind = "deposit" =>
        (payments'[p].status = "completed" <=> payments[p].status = "completed")
  BY <1>2 DEF RowOK
<1>4. RowsOK(payments', ledger, remote)
  BY DEF Good, RowsOK, BookOK, Numbered
<1> DEFINE pays2 == payments'
<1>5. /\ DOMAIN pays2 = DOMAIN payments
      /\ \A q \in DOMAIN payments : /\ pays2[q].user = payments[q].user
                                    /\ pays2[q].amount = payments[q].amount
                                    /\ pays2[q].kind = payments[q].kind
      /\ \A q \in DOMAIN payments : payments[q].kind = "deposit" =>
           (pays2[q].status = "completed" <=> payments[q].status = "completed")
  BY <1>2, <1>3
<1> HIDE DEF pays2
<1>6. \A u : /\ Net(pays2, ledger, u) = Net(payments, ledger, u)
             /\ Life(pays2, ledger, u) = Life(payments, ledger, u)
             /\ Paid(pays2, u) = Paid(payments, u)
  BY <1>5, BookSame
<1>7. WalletsOK(balance, pays2, ledger, claims, commission)
  BY <1>6 DEF Good, WalletsOK
<1> QED
  BY <1>1, <1>4, <1>7 DEF Good, pays2

\* One row of a withdrawal gets another status or reference.
LEMMA OneRewritten ==
  ASSUME Good, NEW p \in DOMAIN payments, payments[p].kind = "withdrawal",
         NEW row, payments' = [payments EXCEPT ![p] = row],
         row \in Payment, row.user = payments[p].user, row.kind = payments[p].kind,
         row.amount = payments[p].amount,
         row.status = "completed" => Released(p, remote)
  PROVE  /\ DOMAIN payments' = DOMAIN payments /\ Grows(payments, payments')
         /\ \A q \in DOMAIN payments :
              /\ RowOK(payments'[q], ledger[q])
              /\ payments'[q].kind = "withdrawal" /\ payments'[q].status = "completed"
                   => Released(q, remote)
<1>1. /\ DOMAIN payments' = DOMAIN payments /\ payments'[p] = row
      /\ \A q \in DOMAIN payments : q # p => payments'[q] = payments[q]
  OBVIOUS
<1>2. \A q \in DOMAIN payments :
        /\ RowOK(payments[q], ledger[q])
        /\ payments[q].kind = "withdrawal" /\ payments[q].status = "completed"
             => Released(q, remote)
  BY DEF Good, RowsOK, BookOK
<1>3. RowOK(row, ledger[p])
  BY <1>2 DEF RowOK
<1>4. Grows(payments, payments')
  BY <1>1 DEF Grows
<1> QED
  BY <1>1, <1>2, <1>3, <1>4

LEMMA RecordAnswerStep == ASSUME Good, NEW s \in Sessions, RecordAnswer(s) PROVE Good'
<1> DEFINE row == [payments[Pid(s)] EXCEPT !.status = handler[s].status]
<1>1. /\ s \in DOMAIN handler /\ handler[s].op = "answered" /\ Return(s)
      /\ payments' = [payments EXCEPT ![Pid(s)].status = handler[s].status]
      /\ UNCHANGED <<rate, wallets, remote, codes>>
  BY DEF RecordAnswer, At, SetStatus
<1>2. /\ Pid(s) \in DOMAIN payments /\ payments[Pid(s)].kind = "withdrawal"
      /\ handler[s] \in Handler
      /\ handler[s].status = "completed" => Released(Pid(s), remote)
      /\ payments[Pid(s)] \in Payment
  BY <1>1, ThreadFacts DEF HandlerOK, Making, Pid, Row, RowOK
<1>3. handler[s].status \in {"pending", "completed", "failed"}
  BY <1>1, <1>2 DEF Handler
<1>4. /\ row \in Payment /\ row.user = payments[Pid(s)].user
      /\ row.kind = payments[Pid(s)].kind /\ row.amount = payments[Pid(s)].amount
      /\ row.status = handler[s].status
  BY <1>2, <1>3 DEF Payment
<1>5. payments' = [payments EXCEPT ![Pid(s)] = row]
  BY <1>1
<1> HIDE DEF row
<1>6. /\ DOMAIN payments' = DOMAIN payments /\ Grows(payments, payments')
      /\ \A q \in DOMAIN payments :
           /\ RowOK(payments'[q], ledger[q])
           /\ payments'[q].kind = "withdrawal" /\ payments'[q].status = "completed"
                => Released(q, remote)
  BY <1>2, <1>4, <1>5, OneRewritten
<1>7. Threads(handler', payments', ledger, remote)
  BY <1>1, <1>6, ThreadReturns, RemoteUnmoved
<1>8. CodesOK(codes', payments', remote)
  BY <1>1, <1>6, CodesKept, RemoteUnmoved DEF Good
<1> QED
  BY <1>1, <1>6, <1>7, <1>8, RowsRewritten

\* The batch of a payout becomes the row's and the administrator's.
LEMMA SaveBatchStep == ASSUME Good, NEW s \in Sessions, SaveBatch(s) PROVE Good'
<1> DEFINE row == [payments[Pid(s)] EXCEPT !.ref = handler[s].ref]
<1>1. /\ s \in DOMAIN handler /\ handler[s].op = "batched" /\ Return(s)
      /\ payments' = [payments EXCEPT ![Pid(s)].ref = handler[s].ref]
      /\ codes' = Put(codes, Pid(s), handler[s].ref)
      /\ UNCHANGED <<rate, wallets, remote>>
  BY DEF SaveBatch, At
<1>2. /\ Pid(s) \in DOMAIN payments /\ payments[Pid(s)].kind = "withdrawal"
      /\ BatchOf(Pid(s), handler[s].ref, remote) /\ payments[Pid(s)] \in Payment
  BY <1>1, ThreadFacts DEF HandlerOK, Making, Batching, Pid, Row, RowOK
<1>3. handler[s].ref \in Refs
  BY <1>2 DEF BatchOf, Good, RemoteOK
<1>4. /\ row \in Payment /\ row.user = payments[Pid(s)].user
      /\ row.kind = payments[Pid(s)].kind /\ row.amount = payments[Pid(s)].amount
      /\ row.status = payments[Pid(s)].status
  BY <1>2, <1>3 DEF Payment
<1>5. payments' = [payments EXCEPT ![Pid(s)] = row]
  BY <1>1
<1>6. payments[Pid(s)].status = "completed" => Released(Pid(s), remote)
  BY <1>2 DEF Good, RowsOK
<1> HIDE DEF row
<1>7. /\ DOMAIN payments' = DOMAIN payments /\ Grows(payments, payments')
      /\ \A q \in DOMAIN payments :
           /\ RowOK(payments'[q], ledger[q])
           /\ payments'[q].kind = "withdrawal" /\ payments'[q].status = "completed"
                => Released(q, remote)
  BY <1>2, <1>4, <1>5, <1>6, OneRewritten
<1>8. Threads(handler', payments', ledger, remote)
  BY <1>1, <1>7, ThreadReturns, RemoteUnmoved
<1>9. CodesOK(codes', payments', remote)
  <2>1. CodesOK(codes, payments', remote)
    BY <1>7, CodesKept, RemoteUnmoved DEF Good
  <2>2. Pid(s) \in DOMAIN payments' /\ payments'[Pid(s)].kind = "withdrawal"
    BY <1>2, <1>7 DEF Grows
  <2>3. /\ DOMAIN codes' = DOMAIN codes \cup {Pid(s)} /\ codes'[Pid(s)] = handler[s].ref
        /\ \A p \in DOMAIN codes : p # Pid(s) => codes'[p] = codes[p]
    BY <1>1 DEF Put
  <2> QED
    BY <1>2, <2>1, <2>2, <2>3 DEF CodesOK
<1> QED
  BY <1>1, <1>7, <1>8, <1>9, RowsRewritten

\* A payout that was let go completes its withdrawal, whatever its status.
LEMMA ConfirmPayoutStep == ASSUME Good, NEW s \in Sessions, ConfirmPayout(s) PROVE Good'
<1> DEFINE row == [payments[Pid(s)] EXCEPT !.status = "completed"]
<1>1. /\ s \in DOMAIN handler /\ handler[s].op = "verified" /\ Return(s)
      /\ payments' = [payments EXCEPT ![Pid(s)].status = "completed"]
      /\ codes' = Drop(codes, Pid(s))
      /\ UNCHANGED <<rate, wallets, remote>>
  BY DEF ConfirmPayout, At, SetStatus
<1>2. /\ Pid(s) \in DOMAIN payments /\ payments[Pid(s)].kind = "withdrawal"
      /\ BatchOf(Pid(s), handler[s].ref, remote)
      /\ remote[handler[s].ref].state \in Gone
      /\ payments[Pid(s)] \in Payment
  BY <1>1, ThreadFacts DEF HandlerOK, Making, Batching, Pid, Row, RowOK
<1>3. Released(Pid(s), remote)
  BY <1>2 DEF BatchOf, Released
<1>4. /\ row \in Payment /\ row.user = payments[Pid(s)].user
      /\ row.kind = payments[Pid(s)].kind /\ row.amount = payments[Pid(s)].amount
  BY <1>2 DEF Payment
<1>5. payments' = [payments EXCEPT ![Pid(s)] = row]
  BY <1>1
<1> HIDE DEF row
<1>6. /\ DOMAIN payments' = DOMAIN payments /\ Grows(payments, payments')
      /\ \A q \in DOMAIN payments :
           /\ RowOK(payments'[q], ledger[q])
           /\ payments'[q].kind = "withdrawal" /\ payments'[q].status = "completed"
                => Released(q, remote)
  BY <1>2, <1>3, <1>4, <1>5, OneRewritten
<1>7. Threads(handler', payments', ledger, remote)
  BY <1>1, <1>6, ThreadReturns, RemoteUnmoved
<1>8. CodesOK(codes', payments', remote)
  <2>1. CodesOK(codes, payments', remote)
    BY <1>6, CodesKept, RemoteUnmoved DEF Good
  <2>2. \A p \in DOMAIN codes' : p \in DOMAIN codes /\ codes'[p] = codes[p]
    BY <1>1 DEF Drop
  <2> QED
    BY <2>1, <2>2 DEF CodesOK
<1> QED
  BY <1>1, <1>6, <1>7, <1>8, RowsRewritten

\* PaymentWebhookView: only pending rows fail.
LEMMA MarkFailedStep == ASSUME Good, NEW k, MarkFailed(k) PROVE Good'
<1>1. /\ payments' = [p \in DOMAIN payments |->
                        IF p \in Failing(k)
                        THEN [payments[p] EXCEPT !.status = "failed"]
                        ELSE payments[p]]
      /\ UNCHANGED <<rate, wallets, remote, handler, codes>>
  BY DEF MarkFailed
<1>2. \A p \in DOMAIN payments :
        /\ RowOK(payments[p], ledger[p]) /\ payments[p] \in Payment
        /\ payments[p].kind = "withdrawal" /\ payments[p].status = "completed"
             => Released(p, remote)
  BY DEF Good, RowsOK, BookOK, RowOK
<1>3. \A p \in DOMAIN payments :
        /\ payments'[p] \in Payment
        /\ payments'[p].user = payments[p].user
        /\ payments'[p].kind = payments[p].kind
        /\ payments'[p].amount = payments[p].amount
        /\ \/ payments'[p] = payments[p]
           \/ payments[p].status = "pending" /\ payments'[p].status = "failed"
  <2> TAKE p \in DOMAIN payments
  <2>1. CASE p \in Failing(k)
    <3>1. payments'[p] = [payments[p] EXCEPT !.status = "failed"]
      BY <1>1, <2>1
    <3>2. payments[p].status = "pending"
      BY <2>1 DEF Failing, Pending
    <3> QED
      BY <1>2, <3>1, <3>2 DEF Payment
  <2>2. CASE p \notin Failing(k)
    BY <1>1, <1>2, <2>2
  <2> QED
    BY <2>1, <2>2
<1>4. DOMAIN payments' = DOMAIN payments /\ Grows(payments, payments')
  BY <1>1, <1>3 DEF Grows
<1>5. \A p \in DOMAIN payments :
        /\ RowOK(payments'[p], ledger[p])
        /\ payments'[p].kind = "withdrawal" /\ payments'[p].status = "completed"
             => Released(p, remote)
  BY <1>2, <1>3 DEF RowOK
<1>6. Threads(handler', payments', ledger, remote)
  BY <1>1, <1>4, ThreadsStay, RemoteUnmoved
<1>7. CodesOK(codes', payments', remote)
  BY <1>1, <1>4, CodesKept, RemoteUnmoved DEF Good
<1> QED
  BY <1>1, <1>4, <1>5, <1>6, <1>7, RowsRewritten

-----------------------------------------------------------------------------
(* The steps that move money *)

\* A payment more, with the rows made for it.
LEMMA NewPayment ==
  ASSUME Good, NEW row, NEW rows, RowOK(row, rows), row.status = "pending",
         NextId \in PaymentIds,
         payments' = Put(payments, NextId, row), ledger' = Put(ledger, NextId, rows)
  PROVE  /\ RowsOK(payments', ledger', remote)
         /\ Grows(payments, payments')
         /\ NextId \notin DOMAIN payments
         /\ NextId \in DOMAIN payments' /\ payments'[NextId] = row
         /\ ledger'[NextId] = rows
         /\ \A p \in DOMAIN payments : ledger'[p] = ledger[p]
         /\ CodesOK(codes, payments', remote)
         /\ Credits(rows) = 0 =>
              \A u : /\ Net(payments', ledger', u)
                          = Net(payments, ledger, u)
                              + (IF row.user = u THEN SumFunction(rows) ELSE 0)
                     /\ Life(payments', ledger', u) = Life(payments, ledger, u)
                     /\ Paid(payments', u) = Paid(payments, u)
<1> DEFINE n == NextId
           pays2 == payments'
           book2 == ledger'
<1>1. RowsOK(payments, ledger, remote) /\ BookOK(payments, ledger)
  BY DEF Good, RowsOK
<1>2. n \notin DOMAIN payments /\ Numbered(pays2)
  BY <1>1, NextIsNew DEF RowsOK, NextId
<1>3. /\ DOMAIN pays2 = DOMAIN payments \cup {n} /\ pays2[n] = row
      /\ \A p \in DOMAIN payments : pays2[p] = payments[p]
  BY <1>2 DEF Put
<1>4. /\ DOMAIN book2 = DOMAIN ledger \cup {n} /\ book2[n] = rows
      /\ \A p \in DOMAIN payments : book2[p] = ledger[p]
  BY <1>1, <1>2 DEF Put, BookOK
<1>5. BookOK(pays2, book2)
  <2>1. IsFiniteSet(DOMAIN pays2)
    BY <1>1, <1>3, FS_AddElement DEF BookOK
  <2> HIDE DEF n, pays2, book2
  <2> QED
    BY <1>1, <1>3, <1>4, <2>1 DEF BookOK
<1>6. Grows(payments, pays2)
  BY <1>3 DEF Grows
<1>7. RowsOK(pays2, book2, remote)
  BY <1>1, <1>2, <1>3, <1>5 DEF RowsOK
<1>8. CodesOK(codes, pays2, remote)
  BY <1>6, CodesKept, RemoteUnmoved DEF Good
<1>9. ASSUME Credits(rows) = 0, NEW u
      PROVE  /\ Net(pays2, book2, u)
                  = Net(payments, ledger, u)
                      + (IF row.user = u THEN SumFunction(rows) ELSE 0)
             /\ Life(pays2, book2, u) = Life(payments, ledger, u)
             /\ Paid(pays2, u) = Paid(payments, u)
  <2>1. pays2 = Put(payments, n, row) /\ book2 = Put(ledger, n, rows)
    OBVIOUS
  <2> HIDE DEF n, pays2, book2
  <2> QED
    BY <1>1, <1>2, <1>9, <2>1, BookGrows
<1> QED
  BY <1>2, <1>3, <1>4, <1>6, <1>7, <1>8, <1>9

\* create_deposit stores what the user will be credited.
LEMMA StoreDepositStep == ASSUME Good, NEW s \in Sessions, StoreDeposit(s) PROVE Good'
<1> DEFINE r == handler[s].request
           row == [user |-> r.user, kind |-> "deposit", usd |-> r.usd,
                   amount |-> Quote(r.user, r.usd), status |-> "pending",
                   ref |-> handler[s].ref]
<1>1. /\ s \in DOMAIN handler /\ handler[s].op = "invoiced" /\ NextId \in PaymentIds
      /\ payments' = Put(payments, NextId, row)
      /\ ledger' = Put(ledger, NextId, <<>>) /\ Return(s)
      /\ UNCHANGED <<rate, balance, claims, commission, remote, codes>>
  BY DEF StoreDeposit, At
<1>2. r \in DepositRequests /\ handler[s].ref \in Refs
  <2>1. handler[s] \in Handler
    BY <1>1, ThreadFacts DEF HandlerOK
  <2> QED
    BY <1>1, <2>1 DEF Handler
<1>3. r.user \in Users /\ r.usd \in Nat
  BY <1>2, PaymentsAssumption DEF PaymentsAssumption, PaymentRequest
<1>4. row \in Payment /\ row.status = "pending" /\ row.kind = "deposit"
  BY <1>2, <1>3, QuoteNat DEF Good, Payment
<1> HIDE DEF row
<1>5. RowOK(row, <<>>)
  BY <1>4 DEF RowOK
<1>6. Credits(<<>>) = 0 /\ SumFunction(<<>>) = 0
  BY NoRows
<1>7. /\ RowsOK(payments', ledger', remote) /\ Grows(payments, payments')
      /\ \A p \in DOMAIN payments : ledger'[p] = ledger[p]
      /\ CodesOK(codes, payments', remote)
  BY <1>1, <1>4, <1>5, NewPayment
<1>8. \A u : /\ Net(payments', ledger', u)
                  = Net(payments, ledger, u) + (IF row.user = u THEN 0 ELSE 0)
             /\ Life(payments', ledger', u) = Life(payments, ledger, u)
             /\ Paid(payments', u) = Paid(payments, u)
  BY <1>1, <1>4, <1>5, <1>6, NewPayment
<1>9. \A u : Net(payments, ledger, u) \in Int
  BY BookNat DEF Good, RowsOK
<1>10. WalletsOK(balance, payments', ledger', claims, commission)
  BY <1>8, <1>9 DEF Good, WalletsOK
<1>11. Threads(handler', payments', ledger', remote)
  <2>1. \A t \in DOMAIN handler : handler[t].op \in Making =>
          handler[t].payment \in DOMAIN payments
    BY DEF Good, Threads, HandlerOK, Making
  <2> QED
    BY <1>1, <1>7, <2>1, ThreadReturns, RemoteUnmoved
<1> QED
  BY <1>1, <1>7, <1>10, <1>11 DEF Good

\* create_withdrawal_request debits what is not held.
LEMMA RequestWithdrawalStep ==
  ASSUME Good, NEW s \in Sessions, RequestWithdrawal(s) PROVE Good'
<1>1. PICK r \in WithdrawalRequests :
        /\ Quote(r.user, r.usd) > 0
        /\ CanWithdraw(r.user, Quote(r.user, r.usd))
        /\ balance' = [balance EXCEPT ![r.user] = @ - Quote(r.user, r.usd)]
        /\ ledger' = Put(ledger, NextId, <<-Quote(r.user, r.usd)>>)
        /\ payments' = Put(payments, NextId,
             [user |-> r.user, kind |-> "withdrawal", usd |-> r.usd,
              amount |-> Quote(r.user, r.usd), status |-> "pending", ref |-> OwnRef])
        /\ Advance(s, [op |-> "debited", payment |-> NextId])
  BY DEF RequestWithdrawal
<1>2. NextId \in PaymentIds /\ UNCHANGED <<rate, claims, commission, remote, codes>>
  BY DEF RequestWithdrawal
<1> DEFINE amount == Quote(r.user, r.usd)
           row == [user |-> r.user, kind |-> "withdrawal", usd |-> r.usd,
                   amount |-> amount, status |-> "pending", ref |-> OwnRef]
           h == [op |-> "debited", payment |-> NextId]
<1>3. r.user \in Users /\ r.usd \in Nat
  BY PaymentsAssumption DEF PaymentsAssumption, PaymentRequest
<1>4. amount \in Nat /\ amount > 0
  BY <1>1, <1>3, QuoteNat DEF Good
<1>5. balance[r.user] - Held[r.user] >= amount
  BY <1>1 DEF CanWithdraw, Withdrawable
<1>6. /\ balance' = [balance EXCEPT ![r.user] = @ - amount]
      /\ ledger' = Put(ledger, NextId, <<-amount>>)
      /\ payments' = Put(payments, NextId, row) /\ Advance(s, h)
  BY <1>1
<1> HIDE DEF amount
<1>7. /\ row \in Payment /\ row.status = "pending" /\ row.kind = "withdrawal"
      /\ row.amount = amount /\ row.user = r.user
  BY <1>3, <1>4 DEF Payment
<1>8. h \in Handler /\ h.op = "debited" /\ h.payment = NextId
  BY <1>2 DEF Handler
<1> HIDE DEF row, h
<1>9. <<-amount>> \in Seq(Int) /\ SumFunction(<<-amount>>) = -amount /\ Credits(<<-amount>>) = 0
  BY <1>4, OneRow
<1>10. RowOK(row, <<-amount>>)
  BY <1>4, <1>7, <1>9 DEF RowOK
<1>11. /\ RowsOK(payments', ledger', remote) /\ Grows(payments, payments')
       /\ NextId \notin DOMAIN payments /\ NextId \in DOMAIN payments'
       /\ payments'[NextId] = row /\ ledger'[NextId] = <<-amount>>
       /\ \A p \in DOMAIN payments : ledger'[p] = ledger[p]
       /\ CodesOK(codes, payments', remote)
  BY <1>2, <1>6, <1>7, <1>10, NewPayment
<1>12. \A u : /\ Net(payments', ledger', u)
                   = Net(payments, ledger, u) + (IF r.user = u THEN -amount ELSE 0)
              /\ Life(payments', ledger', u) = Life(payments, ledger, u)
              /\ Paid(payments', u) = Paid(payments, u)
  BY <1>2, <1>6, <1>7, <1>9, <1>10, NewPayment
<1>13. \A u : Net(payments, ledger, u) \in Int
  BY BookNat DEF Good, RowsOK
<1>14. WalletsOK(balance', payments', ledger', claims, commission)
  <2>1. WalletsOK(balance, payments, ledger, claims, commission)
    BY DEF Good
  <2>2. \A u \in Users : InitialBalance[u] \in Nat /\ Held[u] \in Nat
    BY PaymentsAssumption DEF PaymentsAssumption
  <2>3. \A u \in Users : balance'[u] = balance[u] + (IF r.user = u THEN -amount ELSE 0)
                         /\ balance'[u] \in Int
    BY <1>3, <1>4, <1>6, <2>1 DEF WalletsOK
  <2>4. balance' \in [Users -> Int]
    BY <1>6, <2>1, <2>3 DEF WalletsOK
  <2>5. \A u \in Users : /\ balance'[u] = InitialBalance[u] + Net(payments', ledger', u)
                         /\ balance'[u] >= Held[u]
    <3> TAKE u \in Users
    <3>1. balance[u] = InitialBalance[u] + Net(payments, ledger, u) /\ balance[u] >= Held[u]
          /\ balance[u] \in Int
      BY <2>1 DEF WalletsOK
    <3> QED
      BY <1>4, <1>5, <1>12, <1>13, <2>2, <2>3, <3>1
  <2> QED
    BY <1>12, <2>1, <2>4, <2>5 DEF WalletsOK
<1>15. HandlerOK(h, payments', ledger', remote)
  BY <1>7, <1>8, <1>11 DEF HandlerOK, Making, Batching
<1>16. Threads(handler', payments', ledger', remote)
  BY <1>6, <1>8, <1>11, <1>15, SessionMoves, RemoteUnmoved
<1> QED
  BY <1>2, <1>11, <1>14, <1>16 DEF Good

\* A row more for a payment: what is deposited, and what is given back.
LEMMA RowPaid ==
  ASSUME Good, NEW p \in DOMAIN payments, NEW a \in Nat, a > 0, NEW v,
         payments' = [payments EXCEPT ![p].status = v],
         ledger' = [ledger EXCEPT ![p] = Append(@, a)],
         RowOK(payments'[p], ledger'[p]),
         payments[p].kind = "withdrawal" => v # "completed"
  PROVE  /\ RowsOK(payments', ledger', remote)
         /\ Grows(payments, payments')
         /\ \A q \in DOMAIN payments \ {p} : ledger'[q] = ledger[q]
         /\ CodesOK(codes, payments', remote)
         /\ \A u : LET gain == IF payments[p].user = u THEN a ELSE 0
                   IN  /\ Net(payments', ledger', u) = Net(payments, ledger, u) + gain
                       /\ Life(payments', ledger', u) = Life(payments, ledger, u) + gain
         /\ \A u : payments[p].user # u \/ payments[p].kind = "withdrawal"
                     => Paid(payments', u) = Paid(payments, u)
         /\ \A u : Paid(payments', u) \in Nat /\ Paid(payments', u) <= Life(payments', ledger', u)
<1> DEFINE pays2 == payments'
           book2 == ledger'
<1>1. BookOK(payments, ledger) /\ RowsOK(payments, ledger, remote)
  BY DEF Good, RowsOK
<1>2. \A q \in DOMAIN payments :
        /\ RowOK(payments[q], ledger[q]) /\ payments[q] \in Payment /\ q \in DOMAIN ledger
  BY <1>1 DEF BookOK, RowOK
<1>3. /\ DOMAIN pays2 = DOMAIN payments /\ DOMAIN book2 = DOMAIN ledger
      /\ DOMAIN ledger = DOMAIN payments
      /\ \A q \in DOMAIN payments \ {p} : pays2[q] = payments[q] /\ book2[q] = ledger[q]
      /\ pays2[p] = [payments[p] EXCEPT !.status = v]
  BY <1>1 DEF BookOK
<1>4. /\ pays2[p].user = payments[p].user /\ pays2[p].kind = payments[p].kind
      /\ pays2[p].amount = payments[p].amount /\ pays2[p].status = v
  BY <1>2, <1>3 DEF Payment
<1>5. RowOK(pays2[p], book2[p]) /\ book2 = [ledger EXCEPT ![p] = Append(@, a)]
  OBVIOUS
<1> HIDE DEF pays2, book2
<1>6. \A q \in DOMAIN payments :
        /\ RowOK(pays2[q], book2[q])
        /\ pays2[q].user = payments[q].user
        /\ pays2[q].kind = payments[q].kind
        /\ pays2[q].amount = payments[q].amount
  BY <1>2, <1>3, <1>4, <1>5
<1>7. BookOK(pays2, book2)
  BY <1>1, <1>3, <1>6 DEF BookOK
<1>8. Grows(payments, pays2)
  BY <1>3, <1>6 DEF Grows
<1>9. RowsOK(pays2, book2, remote)
  <2>1. \A q \in DOMAIN pays2 :
          pays2[q].kind = "withdrawal" /\ pays2[q].status = "completed"
            => Released(q, remote)
    BY <1>1, <1>3, <1>4 DEF RowsOK
  <2> QED
    BY <1>1, <1>3, <1>7, <2>1 DEF RowsOK, Numbered
<1>10. CodesOK(codes, pays2, remote)
  BY <1>8, CodesKept, RemoteUnmoved DEF Good
<1>11. ASSUME NEW u
       PROVE  LET gain == IF payments[p].user = u THEN a ELSE 0
              IN  /\ Net(pays2, book2, u) = Net(payments, ledger, u) + gain
                  /\ Life(pays2, book2, u) = Life(payments, ledger, u) + gain
  <2>1. book2[p] = Append(ledger[p], a)
    BY <1>3, <1>5
  <2>2. \A q \in DOMAIN payments : pays2[q].user = payments[q].user
    BY <1>6
  <2> QED
    BY <1>1, <1>3, <1>7, <2>1, <2>2, BookPays
<1>12. ASSUME NEW u, payments[p].user # u \/ payments[p].kind = "withdrawal"
       PROVE  Paid(pays2, u) = Paid(payments, u)
  <2>1. Confirmed(pays2, u) = Confirmed(payments, u)
    BY <1>3, <1>4, <1>12 DEF Confirmed, Owned
  <2>2. [q \in Confirmed(pays2, u) |-> pays2[q].amount]
          = [q \in Confirmed(payments, u) |-> payments[q].amount]
    BY <1>6, <2>1 DEF Confirmed, Owned
  <2> QED
    BY <2>2 DEF Paid
<1>13. \A u : Paid(pays2, u) \in Nat /\ Paid(pays2, u) <= Life(pays2, book2, u)
  BY <1>7, BookNat
<1> QED
  BY <1>3, <1>8, <1>9, <1>10, <1>11, <1>12, <1>13 DEF pays2, book2

\* What a user deposited, where handle_deposit_success looks it up.
LEMMA LifetimeIsLife ==
  ASSUME NEW book, NEW u
  PROVE  LifetimeDeposits(book, u) = Life(payments, book, u)
<1>1. PaymentsOf(u) = Owned(payments, u)
  BY DEF PaymentsOf, Owned
<1> QED
  BY <1>1, Zenon DEF LifetimeDeposits, Life

LEMMA DepositRowGrows ==
  ASSUME NEW row, NEW rows, RowOK(row, rows), row.kind = "deposit", row.amount > 0
  PROVE  RowOK([row EXCEPT !.status = "completed"], Append(rows, row.amount))
<1> DEFINE row2 == [row EXCEPT !.status = "completed"]
           t == Append(rows, row.amount)
<1>1. /\ row \in Payment /\ row.amount \in Nat /\ rows \in Seq(Int)
      /\ \A i \in DOMAIN rows : rows[i] = row.amount
  BY DEF RowOK, Payment
<1>2. /\ row2 \in Payment /\ row2.kind = "deposit" /\ row2.amount = row.amount
      /\ row2.status = "completed"
  BY <1>1 DEF Payment
<1>3. t \in Seq(Int) /\ t # <<>> /\ \A i \in DOMAIN t : t[i] = row.amount
  BY <1>1
<1> HIDE DEF row2, t
<1>4. RowOK(row2, t)
  BY <1>2, <1>3 DEF RowOK
<1> QED
  BY <1>4 DEF row2, t

\* New packages add their bonuses to the commission.
LEMMA BonusOfMore ==
  ASSUME NEW cl \in SUBSET Packages, NEW more \in SUBSET Packages, more \cap cl = {}
  PROVE  /\ SumFunctionOnSet(Bonus, cl \cup more)
              = SumFunctionOnSet(Bonus, cl) + SumFunctionOnSet(Bonus, more)
         /\ SumFunctionOnSet(Bonus, cl) \in Nat
         /\ SumFunctionOnSet(Bonus, more) \in Nat
<1> DEFINE S == cl \cup more
<1>1. IsFiniteSet(Packages) /\ \A k \in Packages : Bonus[k] \in Nat
  BY PaymentsAssumption DEF PaymentsAssumption
<1>2. IsFiniteSet(cl) /\ IsFiniteSet(more) /\ IsFiniteSet(S)
  <2>1. S \in SUBSET Packages
    OBVIOUS
  <2> QED
    BY <1>1, <2>1, FS_Subset
<1>3. /\ \A k \in S : Bonus[k] \in Int
      /\ \A k \in cl : Bonus[k] \in Nat
      /\ \A k \in more : Bonus[k] \in Nat
  BY <1>1
<1>4. cl \in SUBSET S /\ S \ cl = more
  OBVIOUS
<1> HIDE DEF S
<1>5. SumFunctionOnSet(Bonus, S)
        = SumFunctionOnSet(Bonus, cl) + SumFunctionOnSet(Bonus, S \ cl)
  BY <1>2, <1>3, <1>4, SumParts
<1>6. SumFunctionOnSet(Bonus, cl) \in Nat /\ SumFunctionOnSet(Bonus, more) \in Nat
  BY <1>2, <1>3, SumNat
<1>7. SumFunctionOnSet(Bonus, S)
        = SumFunctionOnSet(Bonus, cl) + SumFunctionOnSet(Bonus, more)
  BY <1>4, <1>5, Zenon
<1> QED
  BY <1>6, <1>7 DEF S

\* handle_deposit_success credits the wallet and hands out the packages.
LEMMA CreditDepositStep ==
  ASSUME Good, NEW s \in Webhooks, CreditDeposit(s) PROVE Good'
<1> DEFINE p == Pid(s)
           w == Row(s).user
           a == Row(s).amount
           new == Qualifying(w, ledger') \ claims[w]
<1>1. /\ s \in DOMAIN handler /\ handler[s].op = "crediting" /\ a > 0
      /\ balance' = [balance EXCEPT ![w] = @ + a]
      /\ ledger' = [ledger EXCEPT ![p] = Append(@, a)]
      /\ payments' = [payments EXCEPT ![p].status = "completed"]
      /\ Return(s)
      /\ UNCHANGED <<rate, remote, codes>>
  BY DEF CreditDeposit, At, SetStatus
<1>2. /\ claims' = [claims EXCEPT ![w] = @ \cup new]
      /\ commission' = [commission EXCEPT ![w] = @ + SumFunctionOnSet(Bonus, new)]
  BY DEF CreditDeposit, ApplyRewards
<1>3. /\ p \in DOMAIN payments /\ payments[p].kind = "deposit"
      /\ payments[p].user = w /\ payments[p].amount = a
      /\ RowOK(payments[p], ledger[p])
  BY <1>1, ThreadFacts DEF HandlerOK, Row, Pid
<1>4. w \in Users /\ a \in Nat
  BY <1>3 DEF RowOK, Payment
<1>5. RowOK(payments'[p], ledger'[p])
  <2>1. DOMAIN ledger = DOMAIN payments
    BY DEF Good, RowsOK, BookOK
  <2>2. /\ payments'[p] = [payments[p] EXCEPT !.status = "completed"]
        /\ ledger'[p] = Append(ledger[p], payments[p].amount)
    BY <1>1, <1>3, <2>1
  <2> QED
    BY <1>1, <1>3, <2>2, DepositRowGrows
<1>6. new = {k \in Packages : Threshold[k] <= Life(payments, ledger', w)} \ claims[w]
  <2>1. LifetimeDeposits(ledger', w) = Life(payments, ledger', w)
    <3> DEFINE book == ledger'
    <3> HIDE DEF book
    <3>1. LifetimeDeposits(book, w) = Life(payments, book, w)
      BY LifetimeIsLife
    <3> QED
      BY <3>1 DEF book
  <2> QED
    BY <2>1 DEF Qualifying
<1> HIDE DEF p, w, a, new
<1>7. /\ RowsOK(payments', ledger', remote)
      /\ Grows(payments, payments')
      /\ \A q \in DOMAIN payments \ {p} : ledger'[q] = ledger[q]
      /\ CodesOK(codes, payments', remote)
  BY <1>1, <1>3, <1>4, <1>5, RowPaid
<1>8. /\ \A u : LET gain == IF payments[p].user = u THEN a ELSE 0
                IN  /\ Net(payments', ledger', u) = Net(payments, ledger, u) + gain
                    /\ Life(payments', ledger', u) = Life(payments, ledger, u) + gain
      /\ \A u : payments[p].user # u => Paid(payments', u) = Paid(payments, u)
      /\ \A u : Paid(payments', u) \in Nat
                /\ Paid(payments', u) <= Life(payments', ledger', u)
  BY <1>1, <1>3, <1>4, <1>5, RowPaid
<1>9. Life(payments', ledger', w) = Life(payments, ledger', w)
  <2>1. DOMAIN payments' = DOMAIN payments
    BY <1>1
  <2>2. \A q \in DOMAIN payments : /\ payments'[q].user = payments[q].user
                                   /\ payments'[q].amount = payments[q].amount
                                   /\ payments'[q].kind = payments[q].kind
    BY <1>7 DEF Grows
  <2> DEFINE pays2 == payments'
             book == ledger'
  <2>3. /\ DOMAIN pays2 = DOMAIN payments
        /\ \A q \in DOMAIN payments : /\ pays2[q].user = payments[q].user
                                      /\ pays2[q].amount = payments[q].amount
                                      /\ pays2[q].kind = payments[q].kind
    BY <2>1, <2>2
  <2> HIDE DEF pays2, book
  <2>4. Life(pays2, book, w) = Life(payments, book, w)
    BY <2>3, BookSame
  <2> QED
    BY <2>4 DEF pays2, book
<1>10. WalletsOK(balance, payments, ledger, claims, commission)
  BY DEF Good
<1>11. \A u : /\ Net(payments, ledger, u) \in Int
              /\ Life(payments, ledger, u) \in Nat
  BY BookNat DEF Good, RowsOK
<1>12. WalletsOK(balance', payments', ledger', claims', commission')
  <2>1. claims[w] \in SUBSET Packages /\ new \in SUBSET Packages /\ new \cap claims[w] = {}
    BY <1>4, <1>6, <1>10 DEF WalletsOK
  <2>2. /\ SumFunctionOnSet(Bonus, claims[w] \cup new)
             = SumFunctionOnSet(Bonus, claims[w]) + SumFunctionOnSet(Bonus, new)
        /\ SumFunctionOnSet(Bonus, claims[w]) \in Nat
        /\ SumFunctionOnSet(Bonus, new) \in Nat
    BY <2>1, BonusOfMore
  <2>3. /\ balance' \in [Users -> Int] /\ claims' \in [Users -> SUBSET Packages]
        /\ balance'[w] = balance[w] + a /\ claims'[w] = claims[w] \cup new
        /\ \A u \in Users : u # w => /\ balance'[u] = balance[u]
                                     /\ claims'[u] = claims[u]
    BY <1>1, <1>2, <1>4, <1>10, <2>1 DEF WalletsOK
  <2>4. /\ commission[w] = SumFunctionOnSet(Bonus, claims[w])
        /\ commission'[w] = commission[w] + SumFunctionOnSet(Bonus, new)
        /\ \A u \in Users : u # w => commission'[u] = commission[u]
    BY <1>2, <1>4, <1>10 DEF WalletsOK
  <2>5. commission' \in [Users -> Nat]
    <3>1. commission[w] + SumFunctionOnSet(Bonus, new) \in Nat
      BY <2>2, <2>4
    <3> QED
      BY <1>2, <1>10, <3>1 DEF WalletsOK
  <2>6. ASSUME NEW u \in Users, u # w
        PROVE  /\ balance'[u] = InitialBalance[u] + Net(payments', ledger', u)
               /\ balance'[u] >= Held[u]
               /\ commission'[u] = SumFunctionOnSet(Bonus, claims'[u])
               /\ \A k \in Packages :
                    /\ Threshold[k] <= Paid(payments', u) => k \in claims'[u]
                    /\ k \in claims'[u] => Threshold[k] <= Life(payments', ledger', u)
    <3>1. /\ Net(payments', ledger', u) = Net(payments, ledger, u)
          /\ Life(payments', ledger', u) = Life(payments, ledger, u)
          /\ Paid(payments', u) = Paid(payments, u)
      BY <1>3, <1>8, <1>11, <2>6
    <3> QED
      BY <1>10, <2>3, <2>4, <2>6, <3>1 DEF WalletsOK
  <2>7. /\ balance'[w] = InitialBalance[w] + Net(payments', ledger', w)
        /\ balance'[w] >= Held[w]
    <3>1. /\ balance[w] = InitialBalance[w] + Net(payments, ledger, w)
          /\ balance[w] >= Held[w] /\ balance[w] \in Int
      BY <1>4, <1>10 DEF WalletsOK
    <3>2. Net(payments', ledger', w) = Net(payments, ledger, w) + a
      BY <1>3, <1>8
    <3>3. InitialBalance[w] \in Int /\ Held[w] \in Int
      BY <1>4, PaymentsAssumption DEF PaymentsAssumption
    <3> QED
      BY <1>4, <1>11, <2>3, <3>1, <3>2, <3>3
  <2>8. commission'[w] = SumFunctionOnSet(Bonus, claims'[w])
    BY <2>2, <2>3, <2>4, Zenon
  <2>9. ASSUME NEW k \in Packages
        PROVE  /\ Threshold[k] <= Paid(payments', w) => k \in claims'[w]
               /\ k \in claims'[w] => Threshold[k] <= Life(payments', ledger', w)
    <3>1. Threshold[k] \in Int
      BY PaymentsAssumption DEF PaymentsAssumption
    <3>2. /\ Life(payments', ledger', w) = Life(payments, ledger, w) + a
          /\ Life(payments', ledger', w) \in Int
          /\ Paid(payments', w) \in Int
          /\ Paid(payments', w) <= Life(payments', ledger', w)
      BY <1>3, <1>4, <1>8, <1>11
    <3>3. k \in claims[w] => Threshold[k] <= Life(payments, ledger, w)
      BY <1>4, <1>10 DEF WalletsOK
    <3>4. k \in new \cup claims[w]
            <=> k \in claims[w] \/ Threshold[k] <= Life(payments', ledger', w)
      BY <1>6, <1>9
    <3>5. k \in claims[w] => Threshold[k] <= Life(payments', ledger', w)
      BY <1>4, <1>11, <3>1, <3>2, <3>3
    <3>6. Threshold[k] <= Paid(payments', w) => Threshold[k] <= Life(payments', ledger', w)
      BY <3>1, <3>2
    <3> QED
      BY <2>3, <3>4, <3>5, <3>6
  <2> QED
    BY <2>3, <2>5, <2>6, <2>7, <2>8, <2>9 DEF WalletsOK
<1>13. Threads(handler', payments', ledger', remote)
  <2>1. \A t \in DOMAIN handler : handler[t].op \in Making =>
          handler[t].payment \in DOMAIN payments \ {p}
    BY <1>3 DEF Good, Threads, HandlerOK, Making
  <2> QED
    BY <1>1, <1>7, <2>1, ThreadReturns, RemoteUnmoved
<1> QED
  BY <1>1, <1>7, <1>12, <1>13 DEF Good

\* create_withdrawal_request gives back what it took.
LEMMA RefundStep == ASSUME Good, NEW s \in Sessions, Refund(s) PROVE Good'
<1> DEFINE p == Pid(s)
           w == Row(s).user
           a == Row(s).amount
<1>1. /\ s \in DOMAIN handler /\ handler[s].op = "refused"
      /\ balance' = [balance EXCEPT ![w] = @ + a]
      /\ ledger' = [ledger EXCEPT ![p] = Append(@, a)]
      /\ payments' = [payments EXCEPT ![p].status = "failed"]
      /\ Return(s)
      /\ UNCHANGED <<rate, claims, commission, remote, codes>>
  BY DEF Refund, RefundOf, At, SetStatus
<1>2. /\ p \in DOMAIN payments /\ payments[p].kind = "withdrawal"
      /\ payments[p].user = w /\ payments[p].amount = a
      /\ RowOK(payments[p], ledger[p]) /\ ledger[p] = <<-a>>
      /\ handler[s].payment = p /\ handler[s].op \in Making
  BY <1>1, ThreadFacts DEF HandlerOK, Row, Pid, Making
<1>3. w \in Users /\ a \in Nat /\ a > 0 /\ payments[p] \in Payment
  BY <1>2 DEF RowOK, Payment
<1>4. RowOK(payments'[p], ledger'[p])
  <2>1. DOMAIN ledger = DOMAIN payments
    BY DEF Good, RowsOK, BookOK
  <2> DEFINE row2 == payments'[p]
             t == ledger'[p]
  <2>2. /\ row2 = [payments[p] EXCEPT !.status = "failed"]
        /\ t = Append(<<-a>>, a)
    BY <1>1, <1>2, <2>1
  <2>3. row2 \in Payment /\ row2.kind = "withdrawal" /\ row2.amount = a
    BY <1>2, <1>3, <2>2 DEF Payment
  <2>4. t = <<-a, a>> /\ t \in Seq(Int)
    <3>1. -a \in Int /\ a \in Int
      BY <1>3
    <3> DEFINE b == -a
    <3>2. b \in Int
      BY <3>1
    <3> HIDE DEF b
    <3>3. <<b, a>> \in Seq(Int) /\ <<b>> \in Seq(Int)
      BY <3>1, <3>2
    <3>4. Append(<<b>>, a) = <<b, a>>
      BY <3>1, <3>2, TwoRows
    <3> QED
      BY <2>2, <3>3, <3>4 DEF b
  <2> HIDE DEF row2, t
  <2>5. RowOK(row2, t)
    BY <1>3, <2>3, <2>4 DEF RowOK
  <2> QED
    BY <2>5 DEF row2, t
<1> HIDE DEF p, w, a
<1>5. /\ RowsOK(payments', ledger', remote)
      /\ Grows(payments, payments')
      /\ \A q \in DOMAIN payments \ {p} : ledger'[q] = ledger[q]
      /\ CodesOK(codes, payments', remote)
      /\ \A u : LET gain == IF payments[p].user = u THEN a ELSE 0
                IN  /\ Net(payments', ledger', u) = Net(payments, ledger, u) + gain
                    /\ Life(payments', ledger', u) = Life(payments, ledger, u) + gain
      /\ \A u : payments[p].user # u \/ payments[p].kind = "withdrawal"
                  => Paid(payments', u) = Paid(payments, u)
  BY <1>1, <1>2, <1>3, <1>4, RowPaid
<1>6. \A u : Net(payments, ledger, u) \in Int /\ Life(payments, ledger, u) \in Nat
  BY BookNat DEF Good, RowsOK
<1>7. WalletsOK(balance', payments', ledger', claims, commission)
  <2>1. WalletsOK(balance, payments, ledger, claims, commission)
    BY DEF Good
  <2>2. /\ balance' \in [Users -> Int]
        /\ \A u \in Users : balance'[u] = balance[u] + (IF w = u THEN a ELSE 0)
    BY <1>1, <1>3, <2>1 DEF WalletsOK
  <2>3. ASSUME NEW u \in Users
        PROVE  /\ balance'[u] = InitialBalance[u] + Net(payments', ledger', u)
               /\ balance'[u] >= Held[u]
               /\ \A k \in Packages : Threshold[k] <= Life(payments, ledger, u)
                                        => Threshold[k] <= Life(payments', ledger', u)
    <3>1. /\ balance[u] = InitialBalance[u] + Net(payments, ledger, u)
          /\ balance[u] >= Held[u] /\ balance[u] \in Int
      BY <2>1 DEF WalletsOK
    <3>2. /\ InitialBalance[u] \in Int /\ Held[u] \in Int
          /\ \A k \in Packages : Threshold[k] \in Int
      BY PaymentsAssumption DEF PaymentsAssumption
    <3>3. LET gain == IF w = u THEN a ELSE 0
          IN  /\ Net(payments', ledger', u) = Net(payments, ledger, u) + gain
              /\ Life(payments', ledger', u) = Life(payments, ledger, u) + gain
      BY <1>2, <1>5
    <3> QED
      BY <1>3, <1>6, <2>2, <3>1, <3>2, <3>3
  <2>4. \A u : Paid(payments', u) = Paid(payments, u)
    BY <1>2, <1>5
  <2> QED
    BY <2>1, <2>2, <2>3, <2>4 DEF WalletsOK
<1>8. Threads(handler', payments', ledger', remote)
  <2>1. \A t \in DOMAIN handler \ {s} : handler[t].op \in Making =>
          handler[t].payment \in DOMAIN payments \ {p}
    BY <1>1, <1>2 DEF Good, Threads, HandlerOK, Making
  <2> QED
    BY <1>1, <1>5, <2>1, ThreadReturns, RemoteUnmoved
<1> QED
  BY <1>1, <1>5, <1>7, <1>8 DEF Good

-----------------------------------------------------------------------------
(* The inductive invariant holds *)

LEMMA NextStep == Good /\ [Next]_vars => Good'
<1> SUFFICES ASSUME Good, [Next]_vars PROVE Good'
  OBVIOUS
<1>1. ASSUME NEW s \in Sessions, SessionStep(s) PROVE Good'
  BY <1>1, AskInvoiceStep, StoreDepositStep, RequestWithdrawalStep, CallProviderStep,
     RefundStep, RecordAnswerStep, InitiatePayoutStep, StartVerifyStep, CreateBatchStep,
     SaveBatchStep, VerifyPayoutStep, ConfirmPayoutStep, GiveUpStep DEF SessionStep
<1>2. ASSUME NEW h \in Webhooks, WebhookStep(h) PROVE Good'
  BY <1>2, ReadPendingStep, CreditDepositStep, GiveUpStep DEF WebhookStep
<1>3. ASSUME NEW k \in Refs, MarkFailed(k) \/ PayInvoice(k) \/ FailRemote(k) PROVE Good'
  BY <1>3, MarkFailedStep, ProviderStep
<1>4. CASE RefreshRate
  BY <1>4, RefreshRateStep
<1>5. CASE UNCHANGED vars
  <2>1. UNCHANGED <<rate, balance, payments, ledger, claims, commission, remote,
                    handler, codes>>
    BY <1>5 DEF vars
  <2>2. /\ WalletsOK(balance', payments', ledger', claims', commission')
        /\ RowsOK(payments', ledger', remote') /\ RemoteOK(remote')
        /\ Threads(handler', payments', ledger', remote')
        /\ CodesOK(codes', payments', remote') /\ rate' \in Rates
    BY <2>1, Zenon DEF Good
  <2> QED
    BY <2>2 DEF Good
<1> QED
  BY <1>1, <1>2, <1>3, <1>4, <1>5 DEF Next

LEMMA InitGood == Init => Good
<1> SUFFICES ASSUME Init PROVE Good
  OBVIOUS
<1>1. /\ rate \in Rates /\ balance = InitialBalance
      /\ claims = [u \in Users |-> {}] /\ commission = [u \in Users |-> 0]
      /\ DOMAIN payments = {} /\ DOMAIN ledger = {} /\ DOMAIN remote = {}
      /\ DOMAIN handler = {} /\ DOMAIN codes = {}
  BY DEF Init
<1>2. Numbered(payments) /\ Numbered(remote)
  <2>1. 1 .. 0 = {} /\ 0 \in Nat
    OBVIOUS
  <2> QED
    BY <1>1, <2>1 DEF Numbered
<1>3. BookOK(payments, ledger)
  BY <1>1, FS_EmptySet DEF BookOK
<1>4. ASSUME NEW u PROVE Net(payments, ledger, u) = 0 /\ Paid(payments, u) = 0
  <2>1. Owned(payments, u) = {} /\ Confirmed(payments, u) = {}
    BY <1>1 DEF Owned, Confirmed
  <2>2. /\ Net(payments, ledger, u) = SumFunctionOnSet(Nets(ledger), Owned(payments, u))
        /\ Paid(payments, u) = SumFunctionOnSet(Amounts(payments), Confirmed(payments, u))
    BY <1>3, BookSums
  <2> QED
    BY <2>1, <2>2, SumEmpty
<1>5. WalletsOK(balance, payments, ledger, claims, commission)
  <2>1. /\ InitialBalance \in [Users -> Nat] /\ Threshold \in [Packages -> Nat \ {0}]
        /\ \A u \in Users : Held[u] <= InitialBalance[u] /\ Held[u] \in Nat
    BY PaymentsAssumption DEF PaymentsAssumption
  <2>2. SumFunctionOnSet(Bonus, {}) = 0
    BY SumEmpty
  <2> QED
    BY <1>1, <1>4, <2>1, <2>2 DEF WalletsOK
<1> QED
  BY <1>1, <1>2, <1>3, <1>5 DEF Good, RowsOK, RemoteOK, Threads, CodesOK

\* The inductive invariant: no interleaving of requests, notifications, lapses
\* of the provider and deaths breaks what the rows, the wallets and the threads
\* say of each other.
THEOREM GoodHolds == Spec => []Good
  BY InitGood, NextStep, PTL DEF Spec

-----------------------------------------------------------------------------
(* What becomes of a withdrawal that fails *)

Ended == {"failed", "returned"}

Lapsed(p, rem) ==
  \E k \in DOMAIN rem : rem[k].payment = p /\ rem[k].state \in Ended

\* A pending withdrawal keeps its debit, a failed one had it back or had a payout
\* that the provider failed, and the batch it names is one of its own.
WithdrawalOK(p, row, rows, rem) ==
  /\ row.status = "pending" => rows = <<-row.amount>>
  /\ row.status = "failed" => rows = <<-row.amount, row.amount>> \/ Lapsed(p, rem)
  /\ row.ref # OwnRef => BatchOf(p, row.ref, rem)

\* The answer "failed" comes from a payout that was made.
AnswerOK(h, rem) ==
  h.op = "answered" /\ h.status = "failed" => Lapsed(h.payment, rem)

Promised ==
  /\ \A p \in DOMAIN payments :
       payments[p].kind = "withdrawal" => WithdrawalOK(p, payments[p], ledger[p], remote)
  /\ \A s \in DOMAIN handler : AnswerOK(handler[s], remote)

\* Payouts stay those of their payments, and one that failed stays so.
EndsStay(rem, rem2) ==
  \A k \in DOMAIN rem : /\ k \in DOMAIN rem2
                        /\ rem2[k].payment = rem[k].payment
                        /\ rem[k].state \in Ended => rem2[k].state \in Ended

LEMMA RemoteEnds == ASSUME NEW rem PROVE EndsStay(rem, rem)
  BY DEF EndsStay

LEMMA LapsedStays ==
  ASSUME NEW rem, NEW rem2, EndsStay(rem, rem2), NEW p, Lapsed(p, rem)
  PROVE  Lapsed(p, rem2)
  BY DEF EndsStay, Lapsed

\* A step that writes the rows W only.
LEMMA OthersPromised ==
  ASSUME Promised, EndsStay(remote, remote'), NEW W,
         \A p \in DOMAIN payments' \ W : /\ p \in DOMAIN payments
                                         /\ payments'[p] = payments[p]
                                         /\ ledger'[p] = ledger[p],
         \A p \in DOMAIN payments' \cap W :
           payments'[p].kind = "withdrawal"
             => WithdrawalOK(p, payments'[p], ledger'[p], remote'),
         \A t \in DOMAIN handler' : \/ t \in DOMAIN handler /\ handler'[t] = handler[t]
                                    \/ AnswerOK(handler'[t], remote')
  PROVE  Promised'
<1>1. ASSUME NEW p \in DOMAIN payments', payments'[p].kind = "withdrawal"
      PROVE  WithdrawalOK(p, payments'[p], ledger'[p], remote')
  <2>1. CASE p \in W
    BY <1>1, <2>1
  <2>2. CASE p \notin W
    <3>1. /\ payments'[p] = payments[p] /\ ledger'[p] = ledger[p]
          /\ WithdrawalOK(p, payments[p], ledger[p], remote)
      BY <1>1, <2>2 DEF Promised
    <3>2. Lapsed(p, remote) => Lapsed(p, remote')
      BY LapsedStays
    <3>3. payments[p].ref # OwnRef => BatchOf(p, payments[p].ref, remote')
      BY <3>1 DEF WithdrawalOK, BatchOf, EndsStay
    <3> QED
      BY <3>1, <3>2, <3>3 DEF WithdrawalOK
  <2> QED
    BY <2>1, <2>2
<1>2. ASSUME NEW t \in DOMAIN handler' PROVE AnswerOK(handler'[t], remote')
  <2>1. CASE t \in DOMAIN handler /\ handler'[t] = handler[t]
    <3>1. AnswerOK(handler[t], remote)
      BY <2>1 DEF Promised
    <3>2. Lapsed(handler[t].payment, remote) => Lapsed(handler[t].payment, remote')
      BY LapsedStays
    <3> QED
      BY <2>1, <3>1, <3>2 DEF AnswerOK
  <2>2. CASE AnswerOK(handler'[t], remote')
    BY <2>2
  <2> QED
    BY <2>1, <2>2
<1> QED
  BY <1>1, <1>2 DEF Promised

\* A thread that ends, or goes on with anything but a failed answer.
LEMMA NoFailedAnswer ==
  ASSUME NEW s, NEW rem,
         \/ Return(s) \/ UNCHANGED handler
         \/ \E h : (h.op = "answered" => h.status # "failed") /\ Advance(s, h)
  PROVE  \A t \in DOMAIN handler' : \/ t \in DOMAIN handler /\ handler'[t] = handler[t]
                                    \/ AnswerOK(handler'[t], rem)
<1>1. CASE Return(s)
  BY <1>1 DEF Return, Drop
<1>2. CASE \E h : (h.op = "answered" => h.status # "failed") /\ Advance(s, h)
  <2>1. PICK h : (h.op = "answered" => h.status # "failed") /\ Advance(s, h)
    BY <1>2
  <2>2. AnswerOK(h, rem)
    BY <2>1 DEF AnswerOK
  <2> QED
    BY <2>1, <2>2 DEF Advance, Put
<1>3. CASE UNCHANGED handler
  BY <1>3
<1> QED
  BY <1>1, <1>2, <1>3

\* A step that writes no row and makes no answer.
LEMMA NoRowPromised ==
  ASSUME Promised, EndsStay(remote, remote'), UNCHANGED <<payments, ledger>>, NEW s,
         \/ Return(s) \/ UNCHANGED handler
         \/ \E h : (h.op = "answered" => h.status # "failed") /\ Advance(s, h)
  PROVE  Promised'
<1>1. \A t \in DOMAIN handler' : \/ t \in DOMAIN handler /\ handler'[t] = handler[t]
                                 \/ AnswerOK(handler'[t], remote')
  BY NoFailedAnswer
<1>2. /\ \A p \in DOMAIN payments' \ {} : /\ p \in DOMAIN payments
                                          /\ payments'[p] = payments[p]
                                          /\ ledger'[p] = ledger[p]
      /\ \A p \in DOMAIN payments' \cap {} :
           payments'[p].kind = "withdrawal"
             => WithdrawalOK(p, payments'[p], ledger'[p], remote')
  OBVIOUS
<1> QED
  BY <1>1, <1>2, OthersPromised

\* An invoice or a payout more.
LEMMA MoreRemote ==
  ASSUME Good, NEW r, remote' = Put(remote, NextRef, r)
  PROVE  /\ EndsStay(remote, remote')
         /\ NextRef \in DOMAIN remote' /\ remote'[NextRef] = r
<1>1. NextRef \notin DOMAIN remote
  BY NextIsNew DEF Good, RemoteOK, NextRef
<1> QED
  BY <1>1 DEF Put, EndsStay

\* The provider moves on one invoice or payout that had not ended.
LEMMA OneMovesOn ==
  ASSUME Good, NEW k, NEW v, remote' = [remote EXCEPT ![k].state = v],
         k \in DOMAIN remote => remote[k].state \notin Ended
  PROVE  EndsStay(remote, remote')
<1>1. \A x \in DOMAIN remote : remote[x] \in Remote
  BY DEF Good, RemoteOK
<1>2. DOMAIN remote' = DOMAIN remote
  OBVIOUS
<1>3. ASSUME NEW x \in DOMAIN remote
      PROVE  /\ remote'[x].payment = remote[x].payment
             /\ remote[x].state \in Ended => remote'[x].state \in Ended
  <2>1. CASE x = k
    <3>1. remote'[x] = [remote[x] EXCEPT !.state = v]
      BY <2>1
    <3> QED
      BY <1>1, <2>1, <3>1 DEF Remote
  <2>2. CASE x # k
    <3>1. remote'[x] = remote[x]
      BY <2>2
    <3> QED
      BY <3>1
  <2> QED
    BY <2>1, <2>2
<1> QED
  BY <1>2, <1>3 DEF EndsStay

\* A payment more: the others stay, and its id is new.
LEMMA NewPromised ==
  ASSUME Good, Promised, UNCHANGED remote, NEW row, NEW rows,
         payments' = Put(payments, NextId, row), ledger' = Put(ledger, NextId, rows),
         row.kind = "withdrawal" => WithdrawalOK(NextId, row, rows, remote),
         \A t \in DOMAIN handler' : \/ t \in DOMAIN handler /\ handler'[t] = handler[t]
                                    \/ AnswerOK(handler'[t], remote')
  PROVE  Promised'
<1>1. NextId \notin DOMAIN payments /\ DOMAIN ledger = DOMAIN payments
  BY NextIsNew DEF Good, RowsOK, BookOK, NextId
<1>2. /\ \A p \in DOMAIN payments' \ {NextId} : /\ p \in DOMAIN payments
                                                /\ payments'[p] = payments[p]
                                                /\ ledger'[p] = ledger[p]
      /\ payments'[NextId] = row /\ ledger'[NextId] = rows
  BY <1>1 DEF Put
<1>3. \A p \in DOMAIN payments' \cap {NextId} :
        payments'[p].kind = "withdrawal"
          => WithdrawalOK(p, payments'[p], ledger'[p], remote')
  BY <1>2
<1>4. EndsStay(remote, remote')
  BY RemoteEnds
<1> QED
  BY <1>2, <1>3, <1>4, OthersPromised

\* One row is written, and the provider does nothing.
LEMMA OnePromised ==
  ASSUME Good, Promised, UNCHANGED remote, NEW p, NEW row, NEW rows, NEW s,
         Return(s), payments' = [payments EXCEPT ![p] = row],
         \/ ledger' = [ledger EXCEPT ![p] = rows]
         \/ ledger' = ledger /\ rows = ledger[p],
         row.kind = "withdrawal" => WithdrawalOK(p, row, rows, remote)
  PROVE  Promised'
<1>1. \A t \in DOMAIN handler' : \/ t \in DOMAIN handler /\ handler'[t] = handler[t]
                                 \/ AnswerOK(handler'[t], remote')
  BY NoFailedAnswer
<1>2. /\ \A q \in DOMAIN payments' \ {p} : /\ q \in DOMAIN payments
                                           /\ payments'[q] = payments[q]
                                           /\ ledger'[q] = ledger[q]
      /\ p \in DOMAIN payments' => payments'[p] = row /\ ledger'[p] = rows
  <2>1. DOMAIN ledger = DOMAIN payments
    BY DEF Good, RowsOK, BookOK
  <2> QED
    BY <2>1
<1>3. \A q \in DOMAIN payments' \cap {p} :
        payments'[q].kind = "withdrawal"
          => WithdrawalOK(q, payments'[q], ledger'[q], remote')
  BY <1>2
<1>4. EndsStay(remote, remote')
  BY RemoteEnds
<1> QED
  BY <1>1, <1>2, <1>3, <1>4, OthersPromised

LEMMA CallProviderPromised ==
  ASSUME Good, Promised, NEW s \in Sessions, CallProvider(s) PROVE Promised'
<1>1. PICK answer \in Answers :
        /\ IF answer = "rejected" THEN UNCHANGED remote
           ELSE MakePayout(Pid(s), PayoutState(answer))
        /\ Advance(s, IF answer \in {"rejected", "lost"}
                      THEN [op |-> "refused", payment |-> Pid(s)]
                      ELSE [op |-> "answered", payment |-> Pid(s), status |-> answer])
  BY DEF CallProvider
<1> DEFINE r == [kind |-> "payout", payment |-> Pid(s), state |-> PayoutState(answer)]
           h == IF answer \in {"rejected", "lost"}
                THEN [op |-> "refused", payment |-> Pid(s)]
                ELSE [op |-> "answered", payment |-> Pid(s), status |-> answer]
<1>2. EndsStay(remote, remote') /\ (answer = "failed" => Lapsed(Pid(s), remote'))
  <2>1. CASE answer = "rejected"
    BY <1>1, <2>1, RemoteEnds
  <2>2. CASE answer # "rejected"
    <3>1. remote' = Put(remote, NextRef, r)
      BY <1>1, <2>2 DEF MakePayout
    <3>2. r.payment = Pid(s) /\ (answer = "failed" => r.state = "failed")
      BY DEF PayoutState
    <3> HIDE DEF r
    <3>3. EndsStay(remote, remote') /\ NextRef \in DOMAIN remote' /\ remote'[NextRef] = r
      BY <3>1, MoreRemote
    <3> QED
      BY <3>2, <3>3 DEF Lapsed, Ended
  <2> QED
    BY <2>1, <2>2
<1>3. h.payment = Pid(s) /\ (h.op = "answered" => h.status = answer)
  OBVIOUS
<1>4. AnswerOK(h, remote')
  <2> HIDE DEF h
  <2> QED
    BY <1>2, <1>3 DEF AnswerOK
<1>5. \A t \in DOMAIN handler' : \/ t \in DOMAIN handler /\ handler'[t] = handler[t]
                                 \/ AnswerOK(handler'[t], remote')
  <2>1. Advance(s, h)
    BY <1>1
  <2> HIDE DEF h
  <2> QED
    BY <1>4, <2>1 DEF Advance, Put
<1>6. /\ \A p \in DOMAIN payments' \ {} : /\ p \in DOMAIN payments
                                          /\ payments'[p] = payments[p]
                                          /\ ledger'[p] = ledger[p]
      /\ \A p \in DOMAIN payments' \cap {} :
           payments'[p].kind = "withdrawal"
             => WithdrawalOK(p, payments'[p], ledger'[p], remote')
  BY DEF CallProvider, wallets
<1> QED
  BY <1>2, <1>5, <1>6, OthersPromised

\* The except branch gives the debit back before it writes FAILED.
LEMMA RefundPromised ==
  ASSUME Good, Promised, NEW s \in Sessions, Refund(s) PROVE Promised'
<1>1. PICK p : p = Pid(s)
  OBVIOUS
<1>2. /\ s \in DOMAIN handler /\ handler[s].op = "refused" /\ Return(s)
      /\ payments' = [payments EXCEPT ![p].status = "failed"]
      /\ ledger' = [ledger EXCEPT ![p] = Append(@, payments[p].amount)]
      /\ UNCHANGED remote
  BY <1>1 DEF Refund, SetStatus, At, RefundOf, Row
<1>3. /\ p \in DOMAIN payments /\ payments[p].kind = "withdrawal"
      /\ ledger[p] = <<-payments[p].amount>> /\ payments[p] \in Payment
  BY <1>1, <1>2, ThreadFacts DEF HandlerOK, Making, Pid, Row, RowOK
<1>4. PICK row, rows : /\ row = [payments[p] EXCEPT !.status = "failed"]
                       /\ rows = Append(ledger[p], payments[p].amount)
  OBVIOUS
<1>5. payments' = [payments EXCEPT ![p] = row]
  BY <1>2, <1>4
<1>6. ledger' = [ledger EXCEPT ![p] = rows]
  BY <1>2, <1>4
<1>7. /\ row.status = "failed" /\ row.amount = payments[p].amount
      /\ row.ref = payments[p].ref
  BY <1>3, <1>4 DEF Payment
<1>8. rows = <<-row.amount, row.amount>>
  <2>1. PICK a, b : a = payments[p].amount /\ b = -a
    OBVIOUS
  <2>2. a \in Int /\ b \in Int /\ row.amount = a /\ rows = Append(<<b>>, a)
    BY <1>3, <1>4, <1>7, <2>1 DEF Payment
  <2>3. Append(<<b>>, a) = <<b, a>>
    BY <2>2, TwoRows
  <2> QED
    BY <2>1, <2>2, <2>3
<1>9. row.ref # OwnRef => BatchOf(p, row.ref, remote)
  BY <1>3, <1>7 DEF Promised, WithdrawalOK
<1>10. WithdrawalOK(p, row, rows, remote)
  BY <1>7, <1>8, <1>9 DEF WithdrawalOK
<1> QED
  BY <1>2, <1>5, <1>6, <1>10, OnePromised

\* The status or the batch of one withdrawal is rewritten, its debit stays.
LEMMA RewritePromised ==
  ASSUME Good, Promised, UNCHANGED <<ledger, remote>>, NEW s \in Sessions, Return(s),
         NEW p \in DOMAIN payments, payments[p].kind = "withdrawal",
         NEW row, payments' = [payments EXCEPT ![p] = row],
         row.amount = payments[p].amount,
         row.status = "pending" => ledger[p] = <<-row.amount>>,
         row.status = "failed" => \/ payments[p].status = "failed"
                                  \/ Lapsed(p, remote),
         row.ref # OwnRef => row.ref = payments[p].ref \/ BatchOf(p, row.ref, remote)
  PROVE  Promised'
<1>1. WithdrawalOK(p, payments[p], ledger[p], remote)
  BY DEF Promised
<1>2. WithdrawalOK(p, row, ledger[p], remote)
  BY <1>1 DEF WithdrawalOK
<1> QED
  BY <1>2, OnePromised

LEMMA RecordAnswerPromised ==
  ASSUME Good, Promised, NEW s \in Sessions, RecordAnswer(s) PROVE Promised'
<1> DEFINE row == [payments[Pid(s)] EXCEPT !.status = handler[s].status]
<1>1. /\ s \in DOMAIN handler /\ handler[s].op = "answered" /\ Return(s)
      /\ payments' = [payments EXCEPT ![Pid(s)] = row]
      /\ UNCHANGED <<ledger, remote>>
  BY DEF RecordAnswer, At, SetStatus, wallets
<1>2. /\ Pid(s) \in DOMAIN payments /\ payments[Pid(s)].kind = "withdrawal"
      /\ ledger[Pid(s)] = <<-payments[Pid(s)].amount>>
      /\ payments[Pid(s)] \in Payment
  BY <1>1, ThreadFacts DEF HandlerOK, Making, Pid, Row, RowOK
<1>3. handler[s].status = "failed" => Lapsed(Pid(s), remote)
  BY <1>1 DEF Promised, AnswerOK, Pid
<1>4. /\ row.amount = payments[Pid(s)].amount /\ row.ref = payments[Pid(s)].ref
      /\ row.status = handler[s].status
  BY <1>2 DEF Payment
<1> HIDE DEF row
<1> QED
  BY <1>1, <1>2, <1>3, <1>4, RewritePromised

LEMMA SaveBatchPromised ==
  ASSUME Good, Promised, NEW s \in Sessions, SaveBatch(s) PROVE Promised'
<1> DEFINE row == [payments[Pid(s)] EXCEPT !.ref = handler[s].ref]
<1>1. /\ s \in DOMAIN handler /\ handler[s].op = "batched" /\ Return(s)
      /\ payments' = [payments EXCEPT ![Pid(s)] = row]
      /\ UNCHANGED <<ledger, remote>>
  BY DEF SaveBatch, At, wallets
<1>2. /\ Pid(s) \in DOMAIN payments /\ payments[Pid(s)].kind = "withdrawal"
      /\ BatchOf(Pid(s), handler[s].ref, remote)
      /\ payments[Pid(s)] \in Payment
  BY <1>1, ThreadFacts DEF HandlerOK, Making, Batching, Pid, Row, RowOK
<1>3. /\ row.amount = payments[Pid(s)].amount /\ row.ref = handler[s].ref
      /\ row.status = payments[Pid(s)].status
  BY <1>2 DEF Payment
<1>4. row.status = "pending" => ledger[Pid(s)] = <<-row.amount>>
  BY <1>2, <1>3 DEF Promised, WithdrawalOK
<1> HIDE DEF row
<1> QED
  BY <1>1, <1>2, <1>3, <1>4, RewritePromised

LEMMA ConfirmPayoutPromised ==
  ASSUME Good, Promised, NEW s \in Sessions, ConfirmPayout(s) PROVE Promised'
<1> DEFINE row == [payments[Pid(s)] EXCEPT !.status = "completed"]
<1>1. /\ s \in DOMAIN handler /\ handler[s].op = "verified" /\ Return(s)
      /\ payments' = [payments EXCEPT ![Pid(s)] = row]
      /\ UNCHANGED <<ledger, remote>>
  BY DEF ConfirmPayout, At, SetStatus, wallets
<1>2. /\ Pid(s) \in DOMAIN payments /\ payments[Pid(s)].kind = "withdrawal"
      /\ payments[Pid(s)] \in Payment
  BY <1>1, ThreadFacts DEF HandlerOK, Making, Batching, Pid, Row, RowOK
<1>3. /\ row.amount = payments[Pid(s)].amount /\ row.ref = payments[Pid(s)].ref
      /\ row.status = "completed"
  BY <1>2 DEF Payment
<1> HIDE DEF row
<1> QED
  BY <1>1, <1>2, <1>3, RewritePromised

\* A notification fails the pending payment that names a payout which ended, and
\* that payout is one of its own.
LEMMA MarkFailedPromised ==
  ASSUME Good, Promised, NEW k \in Refs, MarkFailed(k) PROVE Promised'
<1>1. /\ k \in DOMAIN remote /\ remote[k].state \in Ended
      /\ payments' = [p \in DOMAIN payments |->
                        IF p \in Failing(k)
                        THEN [payments[p] EXCEPT !.status = "failed"]
                        ELSE payments[p]]
      /\ UNCHANGED <<ledger, remote, handler>>
  BY DEF MarkFailed, Ended, wallets
<1>2. ASSUME NEW p \in Failing(k), payments'[p].kind = "withdrawal"
      PROVE  WithdrawalOK(p, payments'[p], ledger'[p], remote')
  <2>1. p \in DOMAIN payments /\ payments[p].ref = k /\ payments[p] \in Payment
    BY DEF Failing, Good, RowsOK, BookOK, RowOK
  <2>2. payments'[p] = [payments[p] EXCEPT !.status = "failed"]
    BY <1>1, <2>1
  <2>3. /\ payments'[p].status = "failed" /\ payments'[p].ref = k
        /\ payments[p].kind = "withdrawal"
    BY <1>2, <2>1, <2>2 DEF Payment
  <2>4. k # OwnRef
    BY DEF Refs, OwnRef
  <2>5. BatchOf(p, k, remote)
    BY <2>1, <2>3, <2>4 DEF Promised, WithdrawalOK
  <2>6. Lapsed(p, remote)
    BY <1>1, <2>5 DEF BatchOf, Lapsed
  <2> QED
    BY <1>1, <2>3, <2>5, <2>6 DEF WithdrawalOK
<1>3. \A p \in DOMAIN payments' \ Failing(k) : /\ p \in DOMAIN payments
                                              /\ payments'[p] = payments[p]
                                              /\ ledger'[p] = ledger[p]
  BY <1>1
<1>4. EndsStay(remote, remote')
  BY <1>1, RemoteEnds
<1> QED
  BY <1>1, <1>2, <1>3, <1>4, OthersPromised

LEMMA NextPromised == ASSUME Good, Promised, [Next]_vars PROVE Promised'
<1>1. ASSUME NEW s, UNCHANGED <<payments, ledger, remote>>,
             \/ Return(s) \/ UNCHANGED handler
             \/ \E h : (h.op = "answered" => h.status # "failed") /\ Advance(s, h)
      PROVE  Promised'
  BY <1>1, NoRowPromised, RemoteEnds
<1>2. ASSUME NEW s \in Sessions, SessionStep(s) PROVE Promised'
  <2>1. CASE AskInvoice(s) \/ CreateBatch(s)
    <3>1. EndsStay(remote, remote') /\ UNCHANGED <<payments, ledger>>
      BY <2>1, MoreRemote DEF AskInvoice, CreateBatch, MakePayout, wallets
    <3>2. \E h : (h.op = "answered" => h.status # "failed") /\ Advance(s, h)
      BY <2>1 DEF AskInvoice, CreateBatch
    <3> QED
      BY <3>1, <3>2, NoRowPromised
  <2>2. CASE StoreDeposit(s)
    <3>1. Return(s) /\ UNCHANGED remote
      BY <2>2 DEF StoreDeposit
    <3> DEFINE r == handler[s].request
               row == [user |-> r.user, kind |-> "deposit", usd |-> r.usd,
                       amount |-> Quote(r.user, r.usd), status |-> "pending",
                       ref |-> handler[s].ref]
    <3>2. /\ payments' = Put(payments, NextId, row)
          /\ ledger' = Put(ledger, NextId, <<>>)
      BY <2>2 DEF StoreDeposit
    <3>3. row.kind # "withdrawal"
      OBVIOUS
    <3> HIDE DEF row
    <3> QED
      BY <3>1, <3>2, <3>3, NewPromised, NoFailedAnswer
  <2>3. CASE RequestWithdrawal(s)
    <3>1. PICK r \in WithdrawalRequests :
            /\ ledger' = Put(ledger, NextId, <<-Quote(r.user, r.usd)>>)
            /\ payments' = Put(payments, NextId,
                 [user |-> r.user, kind |-> "withdrawal", usd |-> r.usd,
                  amount |-> Quote(r.user, r.usd), status |-> "pending", ref |-> OwnRef])
            /\ Advance(s, [op |-> "debited", payment |-> NextId])
            /\ UNCHANGED remote
      BY <2>3 DEF RequestWithdrawal
    <3> DEFINE row == [user |-> r.user, kind |-> "withdrawal", usd |-> r.usd,
                       amount |-> Quote(r.user, r.usd), status |-> "pending",
                       ref |-> OwnRef]
    <3>2. WithdrawalOK(NextId, row, <<-Quote(r.user, r.usd)>>, remote)
      BY DEF WithdrawalOK
    <3>3. [op |-> "debited", payment |-> NextId].op # "answered"
      OBVIOUS
    <3>4. \A t \in DOMAIN handler' : \/ t \in DOMAIN handler /\ handler'[t] = handler[t]
                                     \/ AnswerOK(handler'[t], remote')
      BY <3>1, <3>3, NoFailedAnswer
    <3>5. payments' = Put(payments, NextId, row)
      BY <3>1
    <3> HIDE DEF row
    <3> QED
      BY <3>1, <3>2, <3>4, <3>5, NewPromised
  <2>4. CASE CallProvider(s)
    BY <2>4, CallProviderPromised
  <2>5. CASE Refund(s)
    BY <2>5, RefundPromised
  <2>6. CASE RecordAnswer(s)
    BY <2>6, RecordAnswerPromised
  <2>7. CASE \E p \in PaymentIds : InitiatePayout(s, p) \/ StartVerify(s, p)
    BY <1>1, <2>7 DEF InitiatePayout, StartVerify, wallets
  <2>8. CASE SaveBatch(s)
    BY <2>8, SaveBatchPromised
  <2>9. CASE VerifyPayout(s)
    <3> DEFINE k == handler[s].ref
    <3>1. /\ s \in DOMAIN handler /\ handler[s].op = "verifying"
          /\ remote[k].state = "open" /\ remote' = [remote EXCEPT ![k].state = "released"]
          /\ Advance(s, [handler[s] EXCEPT !.op = "verified"])
          /\ UNCHANGED <<payments, ledger>>
      BY <2>9 DEF VerifyPayout, At, Verifiable, wallets
    <3>2. [handler[s] EXCEPT !.op = "verified"].op # "answered"
      BY <3>1, ThreadFacts DEF HandlerOK, Handler
    <3>3. EndsStay(remote, remote')
      BY <3>1, OneMovesOn DEF Ended
    <3> QED
      BY <3>1, <3>2, <3>3, NoRowPromised
  <2>10. CASE ConfirmPayout(s)
    BY <2>10, ConfirmPayoutPromised
  <2>11. CASE GiveUp(s)
    BY <1>1, <2>11 DEF GiveUp, wallets
  <2> QED
    BY <1>2, <2>1, <2>2, <2>3, <2>4, <2>5, <2>6, <2>7, <2>8, <2>9, <2>10, <2>11
       DEF SessionStep
<1>3. ASSUME NEW h \in Webhooks, WebhookStep(h) PROVE Promised'
  <2>1. CASE GiveUp(h)
    BY <1>1, <2>1 DEF GiveUp, wallets
  <2>2. CASE \E k \in Refs : ReadPending(h, k)
    BY <1>1, <2>2 DEF ReadPending, wallets
  <2>3. CASE CreditDeposit(h)
    <3> DEFINE p == Pid(h)
               row == [payments[p] EXCEPT !.status = "completed"]
               rows == Append(ledger[p], payments[p].amount)
    <3>1. /\ h \in DOMAIN handler /\ handler[h].op = "crediting" /\ Return(h)
          /\ payments' = [payments EXCEPT ![p] = row]
          /\ ledger' = [ledger EXCEPT ![p] = rows]
          /\ UNCHANGED remote
      BY <2>3 DEF CreditDeposit, SetStatus, At, Row
    <3>2. payments[p].kind = "deposit" /\ payments[p] \in Payment
      BY <3>1, ThreadFacts DEF HandlerOK, Pid, Row, RowOK
    <3>3. row.kind # "withdrawal"
      BY <3>2 DEF Payment
    <3> HIDE DEF p, row, rows
    <3> QED
      BY <3>1, <3>3, OnePromised
  <2> QED
    BY <1>3, <2>1, <2>2, <2>3 DEF WebhookStep
<1>4. ASSUME NEW k \in Refs, MarkFailed(k) \/ PayInvoice(k) \/ FailRemote(k)
      PROVE  Promised'
  <2>1. CASE MarkFailed(k)
    BY <2>1, MarkFailedPromised
  <2>2. CASE PayInvoice(k) \/ FailRemote(k)
    <3>1. PICK v : /\ remote' = [remote EXCEPT ![k].state = v]
                   /\ remote[k].state \in {"open", "released"}
      BY <2>2 DEF PayInvoice, FailRemote
    <3>2. UNCHANGED <<payments, ledger, handler>>
      BY <2>2 DEF PayInvoice, FailRemote, wallets
    <3>3. EndsStay(remote, remote')
      BY <3>1, OneMovesOn DEF Ended
    <3> QED
      BY <3>2, <3>3, NoRowPromised
  <2> QED
    BY <1>4, <2>1, <2>2
<1>5. CASE RefreshRate
  BY <1>1, <1>5 DEF RefreshRate, wallets
<1>6. CASE UNCHANGED vars
  BY <1>1, <1>6 DEF vars
<1> QED
  BY <1>2, <1>3, <1>4, <1>5, <1>6 DEF Next

\* No interleaving fails a withdrawal with its debit kept and no payout of it
\* that the provider failed.
THEOREM PromisedHolds == Spec => []Promised
<1>1. Init => Promised
  <2> SUFFICES ASSUME Init PROVE Promised
    OBVIOUS
  <2>1. DOMAIN payments = {} /\ DOMAIN handler = {}
    BY DEF Init
  <2> QED
    BY <2>1 DEF Promised
<1>2. Good /\ Promised /\ [Next]_vars => Promised'
  BY NextPromised
<1> QED
  BY <1>1, <1>2, GoodHolds, PTL DEF Spec

-----------------------------------------------------------------------------
(* The theorems *)

\* Every variable has its type: in particular no sequence of withdrawals,
\* refunds and deposits makes a balance negative (Wallet.balance).
THEOREM TypeCorrect == Spec => []TypeOK
<1>1. Good => TypeOK
  <2> SUFFICES ASSUME Good PROVE TypeOK
    OBVIOUS
  <2>1. balance \in [Users -> Nat]
    <3>1. balance \in [Users -> Int] /\ \A u \in Users : balance[u] >= Held[u]
      BY DEF Good, WalletsOK
    <3>2. \A u \in Users : Held[u] \in Nat
      BY PaymentsAssumption DEF PaymentsAssumption
    <3>3. \A u \in Users : balance[u] \in Nat
      BY <3>1, <3>2
    <3> QED
      BY <3>1, <3>3
  <2>2. /\ rate \in Rates /\ claims \in [Users -> SUBSET Packages]
        /\ commission \in [Users -> Nat]
    BY DEF Good, WalletsOK
  <2>3. /\ DOMAIN payments \subseteq PaymentIds
        /\ \A p \in DOMAIN payments : payments[p] \in Payment
        /\ DOMAIN ledger = DOMAIN payments
        /\ \A p \in DOMAIN ledger : ledger[p] \in Seq(Int)
    BY DEF Good, RowsOK, BookOK, RowOK
  <2>4. /\ DOMAIN remote \subseteq Refs
        /\ \A k \in DOMAIN remote : remote[k] \in Remote
    BY DEF Good, RemoteOK
  <2>5. /\ DOMAIN handler \subseteq Sessions \cup Webhooks
        /\ \A s \in DOMAIN handler : handler[s] \in Handler
    BY DEF Good, Threads, HandlerOK
  <2>6. /\ DOMAIN codes \subseteq DOMAIN payments
        /\ \A p \in DOMAIN codes : codes[p] \in Refs
    BY <2>4 DEF Good, CodesOK, BatchOf
  <2> QED
    BY <2>1, <2>2, <2>3, <2>4, <2>5, <2>6 DEF TypeOK
<1> QED
  BY <1>1, GoodHolds, PTL

\* No withdrawal reaches what exchange orders reserve or cashback locks
\* (withdraw_funds).
THEOREM HeldStaysInWallet == Spec => []HeldIsKept
<1>1. Good => HeldIsKept
  BY DEF Good, WalletsOK, HeldIsKept
<1> QED
  BY <1>1, GoodHolds, PTL

\* The rows made for a payment are those its status calls for, at the amount
\* fixed when it was asked for; a withdrawal that failed had its debit back unless
\* the provider took a payout of it and failed that; and the rows add up to the
\* wallets (handle_deposit_success, create_withdrawal_request).
THEOREM LedgerIsExact == Spec => []LedgerMatchesPayments
<1>1. Good /\ Promised => LedgerMatchesPayments
  <2> SUFFICES ASSUME Good, Promised PROVE LedgerMatchesPayments
    OBVIOUS
  <2>1. ASSUME NEW p \in DOMAIN payments
        PROVE  IF payments[p].kind = "deposit"
               THEN /\ (ledger[p] # <<>>) = (payments[p].status = "completed")
                    /\ \A i \in DOMAIN ledger[p] : ledger[p][i] = payments[p].amount
               ELSE /\ DebitedOnly(p) \/ GivenBack(p)
                    /\ payments[p].status = "pending" => DebitedOnly(p)
                    /\ payments[p].status = "failed" => GivenBack(p) \/ PayoutFailed(p)
    <3>1. RowOK(payments[p], ledger[p])
      BY DEF Good, RowsOK, BookOK
    <3>2. CASE payments[p].kind = "deposit"
      BY <3>1, <3>2 DEF RowOK
    <3>3. CASE payments[p].kind = "withdrawal"
      <4>1. ledger[p] \in {<<-payments[p].amount>>,
                           <<-payments[p].amount, payments[p].amount>>}
        BY <3>1, <3>3 DEF RowOK
      <4>2. WithdrawalOK(p, payments[p], ledger[p], remote)
        BY <3>3 DEF Promised
      <4>3. Lapsed(p, remote) => PayoutFailed(p)
        BY DEF Lapsed, Ended, PayoutFailed
      <4> QED
        BY <3>3, <4>1, <4>2, <4>3 DEF WithdrawalOK, DebitedOnly, GivenBack
    <3> QED
      BY <3>1, <3>2, <3>3 DEF RowOK, Payment
  <2>2. ASSUME NEW u \in Users
        PROVE  balance[u] = InitialBalance[u]
                 + SumFunction([p \in PaymentsOf(u) |-> SumFunction(ledger[p])])
    <3>1. PaymentsOf(u) = Owned(payments, u)
      BY DEF PaymentsOf, Owned
    <3>2. balance[u] = InitialBalance[u] + Net(payments, ledger, u)
      BY DEF Good, WalletsOK
    <3> QED
      BY <3>1, <3>2, Zenon DEF Net
  <2> QED
    BY <2>1, <2>2 DEF LedgerMatchesPayments
<1> QED
  BY <1>1, GoodHolds, PromisedHolds, PTL

\* A user has the packages his confirmed deposits reach, none his deposits do
\* not, and the commission they add up to (apply_reward_packages).
THEOREM RewardsAreEarned == Spec => []RewardsFollowDeposits
<1>1. Good => RewardsFollowDeposits
  <2> SUFFICES ASSUME Good, NEW u \in Users
               PROVE  /\ \A k \in Packages :
                           /\ Threshold[k] <= ConfirmedDeposits(u) => k \in claims[u]
                           /\ k \in claims[u] => Threshold[k] <= LifetimeDeposits(ledger, u)
                      /\ commission[u] = SumFunctionOnSet(Bonus, claims[u])
    BY DEF RewardsFollowDeposits
  <2>1. LifetimeDeposits(ledger, u) = Life(payments, ledger, u)
    BY LifetimeIsLife
  <2>2. ConfirmedDeposits(u) = Paid(payments, u)
    <3>1. {q \in PaymentsOf(u) : /\ payments[q].kind = "deposit"
                                 /\ payments[q].status = "completed"}
            = Confirmed(payments, u)
      BY DEF PaymentsOf, Owned, Confirmed
    <3> QED
      BY <3>1, Zenon DEF ConfirmedDeposits, Paid
  <2> QED
    BY <2>1, <2>2 DEF Good, WalletsOK
<1> QED
  BY <1>1, GoodHolds, PTL

\* A withdrawal is completed only when a payout of it was let go
\* (confirm_manual_payout).
THEOREM CompletedIsReleased == Spec => []CompletedWasReleased
<1>1. Good => CompletedWasReleased
  BY DEF Good, RowsOK, Released, Gone, CompletedWasReleased
<1> QED
  BY <1>1, GoodHolds, PTL

-----------------------------------------------------------------------------
(* With one thread for notifications no deposit is credited twice *)

OneNotification == \A g, h \in Webhooks : g = h

\* A deposit about to be credited has no rows.
OneCredit ==
  /\ CreditedOnce
  /\ \A s \in DOMAIN handler :
       handler[s].op = "crediting" => ledger[handler[s].payment] = <<>>

\* A step that credits nothing, and starts no crediting.
LEMMA NothingCredited ==
  ASSUME Good, OneCredit,
         \A s \in DOMAIN handler' : handler'[s].op = "crediting" =>
           s \in DOMAIN handler /\ handler'[s] = handler[s],
         Grows(payments, payments'),
         \A p \in DOMAIN payments :
           payments[p].kind = "deposit" => ledger'[p] = ledger[p],
         \A p \in DOMAIN payments' \ DOMAIN payments :
           payments'[p].kind = "deposit" => ledger'[p] = <<>>
  PROVE  OneCredit'
<1>1. CreditedOnce'
  <2> SUFFICES ASSUME NEW p \in DOMAIN payments', payments'[p].kind = "deposit"
               PROVE  Len(ledger'[p]) <= 1
    BY DEF CreditedOnce
  <2>1. CASE p \in DOMAIN payments
    <3>1. payments[p].kind = "deposit" /\ ledger'[p] = ledger[p]
      BY <2>1 DEF Grows
    <3> QED
      BY <2>1, <3>1 DEF OneCredit, CreditedOnce
  <2>2. CASE p \notin DOMAIN payments
    BY <2>2
  <2> QED
    BY <2>1, <2>2
<1>2. ASSUME NEW s \in DOMAIN handler', handler'[s].op = "crediting"
      PROVE  ledger'[handler'[s].payment] = <<>>
  <2>1. s \in DOMAIN handler /\ handler'[s] = handler[s]
    BY <1>2
  <2>2. handler[s].payment \in DOMAIN payments /\ payments[handler[s].payment].kind = "deposit"
    BY <1>2, <2>1, ThreadFacts DEF HandlerOK
  <2> QED
    BY <1>2, <2>1, <2>2 DEF OneCredit
<1> QED
  BY <1>1, <1>2 DEF OneCredit

\* A thread that goes on or ends starts no crediting, unless it is to.
LEMMA NotCrediting ==
  ASSUME NEW s, Return(s) \/ (\E h : h.op # "crediting" /\ Advance(s, h)) \/ UNCHANGED handler
  PROVE  \A t \in DOMAIN handler' : handler'[t].op = "crediting" =>
           t \in DOMAIN handler /\ handler'[t] = handler[t]
<1>1. CASE Return(s)
  BY <1>1 DEF Return, Drop
<1>2. CASE \E h : h.op # "crediting" /\ Advance(s, h)
  <2>1. PICK h : h.op # "crediting" /\ Advance(s, h)
    BY <1>2
  <2> QED
    BY <2>1 DEF Advance, Put
<1>3. CASE UNCHANGED handler
  BY <1>3
<1> QED
  BY <1>1, <1>2, <1>3

LEMMA NewRowKeeps ==
  ASSUME Good, NEW row, NEW rows, payments' = Put(payments, NextId, row),
         ledger' = Put(ledger, NextId, rows), row.kind = "deposit" => rows = <<>>
  PROVE  /\ Grows(payments, payments')
         /\ \A p \in DOMAIN payments : ledger'[p] = ledger[p]
         /\ \A p \in DOMAIN payments' \ DOMAIN payments :
              payments'[p].kind = "deposit" => ledger'[p] = <<>>
<1>1. NextId \notin DOMAIN payments
  BY NextIsNew DEF Good, RowsOK, NextId
<1>2. DOMAIN ledger = DOMAIN payments
  BY DEF Good, RowsOK, BookOK
<1> QED
  BY <1>1, <1>2 DEF Put, Grows

LEMMA RewriteKeeps ==
  ASSUME Good, NEW p, NEW v,
         \/ payments' = [payments EXCEPT ![p].status = v]
         \/ payments' = [payments EXCEPT ![p].ref = v]
  PROVE  DOMAIN payments' = DOMAIN payments /\ Grows(payments, payments')
<1>1. \A q \in DOMAIN payments : payments[q] \in Payment
  BY DEF Good, RowsOK, BookOK, RowOK
<1>2. DOMAIN payments' = DOMAIN payments
  OBVIOUS
<1> QED
  BY <1>1, <1>2 DEF Grows, Payment

LEMMA NextCredits ==
  ASSUME OneNotification, Good, OneCredit, [Next]_vars
  PROVE  OneCredit'
<1>1. ASSUME UNCHANGED <<ledger, payments>>, NEW s,
             Return(s) \/ (\E h : h.op # "crediting" /\ Advance(s, h)) \/ UNCHANGED handler
      PROVE  OneCredit'
  BY <1>1, NotCrediting, NothingCredited, RowsUnmoved
<1>2. ASSUME NEW s \in Sessions, SessionStep(s) PROVE OneCredit'
  <2>1. CASE AskInvoice(s)
    BY <1>1, <2>1 DEF AskInvoice, wallets
  <2>2. CASE CallProvider(s)
    BY <1>1, <2>2 DEF CallProvider, wallets
  <2>3. CASE \E p \in PaymentIds : InitiatePayout(s, p) \/ StartVerify(s, p)
    BY <1>1, <2>3 DEF InitiatePayout, StartVerify, wallets
  <2>4. CASE CreateBatch(s)
    BY <1>1, <2>4 DEF CreateBatch, wallets
  <2>5. CASE VerifyPayout(s)
    <3>1. handler[s] \in Handler
      BY <2>5, ThreadFacts DEF VerifyPayout, At, HandlerOK
    <3>2. [handler[s] EXCEPT !.op = "verified"].op # "crediting"
      BY <3>1 DEF Handler
    <3> QED
      BY <1>1, <2>5, <3>2 DEF VerifyPayout, wallets
  <2>6. CASE GiveUp(s)
    BY <1>1, <2>6 DEF GiveUp, wallets
  <2>7. CASE StoreDeposit(s)
    <3>1. /\ Grows(payments, payments')
          /\ \A p \in DOMAIN payments : ledger'[p] = ledger[p]
          /\ \A p \in DOMAIN payments' \ DOMAIN payments :
               payments'[p].kind = "deposit" => ledger'[p] = <<>>
      BY <2>7, NewRowKeeps DEF StoreDeposit
    <3>2. Return(s)
      BY <2>7 DEF StoreDeposit
    <3> QED
      BY <3>1, <3>2, NotCrediting, NothingCredited
  <2>8. CASE RequestWithdrawal(s)
    <3>1. PICK r \in WithdrawalRequests :
            /\ ledger' = Put(ledger, NextId, <<-Quote(r.user, r.usd)>>)
            /\ payments' = Put(payments, NextId,
                 [user |-> r.user, kind |-> "withdrawal", usd |-> r.usd,
                  amount |-> Quote(r.user, r.usd), status |-> "pending", ref |-> OwnRef])
            /\ Advance(s, [op |-> "debited", payment |-> NextId])
      BY <2>8 DEF RequestWithdrawal
    <3>2. /\ Grows(payments, payments')
          /\ \A p \in DOMAIN payments : ledger'[p] = ledger[p]
          /\ \A p \in DOMAIN payments' \ DOMAIN payments :
               payments'[p].kind = "deposit" => ledger'[p] = <<>>
      BY <3>1, NewRowKeeps
    <3>3. [op |-> "debited", payment |-> NextId].op # "crediting"
      OBVIOUS
    <3> QED
      BY <3>1, <3>2, <3>3, NotCrediting, NothingCredited
  <2>9. CASE Refund(s)
    <3>1. payments' = [payments EXCEPT ![Pid(s)].status = "failed"] /\ Return(s)
          /\ ledger' = [ledger EXCEPT ![Pid(s)] = Append(@, RefundOf(Row(s)))]
          /\ s \in DOMAIN handler /\ handler[s].op = "refused"
      BY <2>9 DEF Refund, SetStatus, At
    <3>2. payments[Pid(s)].kind = "withdrawal"
      BY <3>1, ThreadFacts DEF HandlerOK, Making, Pid
    <3>3. \A p \in DOMAIN payments : payments[p].kind = "deposit" => ledger'[p] = ledger[p]
      <4>1. DOMAIN ledger = DOMAIN payments
        BY DEF Good, RowsOK, BookOK
      <4> QED
        BY <3>1, <3>2, <4>1
    <3>4. DOMAIN payments' = DOMAIN payments /\ Grows(payments, payments')
      BY <3>1, RewriteKeeps
    <3> QED
      BY <3>1, <3>3, <3>4, NotCrediting, NothingCredited
  <2>10. CASE RecordAnswer(s) \/ SaveBatch(s) \/ ConfirmPayout(s)
    <3>1. UNCHANGED ledger /\ Return(s)
      BY <2>10 DEF RecordAnswer, SaveBatch, ConfirmPayout, wallets
    <3>2. DOMAIN payments' = DOMAIN payments /\ Grows(payments, payments')
      BY <2>10, RewriteKeeps DEF RecordAnswer, SaveBatch, ConfirmPayout, SetStatus
    <3> QED
      BY <3>1, <3>2, NotCrediting, NothingCredited
  <2> QED
    BY <1>2, <2>1, <2>2, <2>3, <2>4, <2>5, <2>6, <2>7, <2>8, <2>9, <2>10 DEF SessionStep
<1>3. ASSUME NEW h \in Webhooks, WebhookStep(h) PROVE OneCredit'
  <2>1. CASE GiveUp(h)
    BY <1>1, <2>1 DEF GiveUp, wallets
  <2>2. CASE \E k \in Refs : ReadPending(h, k)
    <3>1. PICK p \in DOMAIN payments :
            /\ payments[p].kind = "deposit" /\ payments[p].status = "pending"
            /\ Advance(h, [op |-> "crediting", payment |-> p])
      BY <2>2 DEF ReadPending, Pending
    <3>2. UNCHANGED <<payments, ledger>>
      BY <2>2 DEF ReadPending, wallets
    <3>3. ledger[p] = <<>>
      BY <3>1 DEF Good, RowsOK, BookOK, RowOK
    <3>4. \A s \in DOMAIN handler' : \/ handler'[s] = [op |-> "crediting", payment |-> p]
                                     \/ s \in DOMAIN handler /\ handler'[s] = handler[s]
      BY <3>1 DEF Advance, Put
    <3>5. CreditedOnce'
      BY <3>2 DEF OneCredit, CreditedOnce
    <3> QED
      BY <3>2, <3>3, <3>4, <3>5 DEF OneCredit
  <2>3. CASE CreditDeposit(h)
    <3>1. /\ h \in DOMAIN handler /\ handler[h].op = "crediting" /\ Return(h)
          /\ payments' = [payments EXCEPT ![Pid(h)].status = "completed"]
          /\ ledger' = [ledger EXCEPT ![Pid(h)] = Append(@, Row(h).amount)]
      BY <2>3 DEF CreditDeposit, SetStatus, At
    <3>2. ledger[Pid(h)] = <<>> /\ Pid(h) \in DOMAIN payments
      BY <3>1, ThreadFacts DEF OneCredit, Pid
    <3>3. DOMAIN payments' = DOMAIN payments /\ Grows(payments, payments')
      BY <3>1, RewriteKeeps
    <3>4. /\ Len(ledger'[Pid(h)]) <= 1
          /\ \A p \in DOMAIN payments \ {Pid(h)} : ledger'[p] = ledger[p]
      <4>1. DOMAIN ledger = DOMAIN payments
        BY DEF Good, RowsOK, BookOK
      <4>2. ledger'[Pid(h)] = <<Row(h).amount>>
        BY <3>1, <3>2, <4>1
      <4>3. Len(ledger'[Pid(h)]) = 1
        BY <4>2
      <4>4. 1 <= 1
        OBVIOUS
      <4>5. Len(ledger'[Pid(h)]) <= 1
        BY <4>3, <4>4, Zenon
      <4> QED
        BY <3>1, <4>1, <4>5
    <3>5. CreditedOnce'
      <4>1. \A p \in DOMAIN payments : payments[p].kind = "deposit" => Len(ledger[p]) <= 1
        BY DEF OneCredit, CreditedOnce
      <4>2. \A p \in DOMAIN payments : payments'[p].kind = payments[p].kind
        BY <3>3 DEF Grows
      <4>3. ASSUME NEW p \in DOMAIN payments, payments[p].kind = "deposit"
            PROVE  Len(ledger'[p]) <= 1
        <5>1. CASE p = Pid(h)
          BY <3>4, <5>1, Zenon
        <5>2. CASE p # Pid(h)
          BY <3>4, <4>1, <4>3, <5>2
        <5> QED
          BY <5>1, <5>2
      <4> QED
        BY <3>3, <4>2, <4>3 DEF CreditedOnce
    <3>6. \A s \in DOMAIN handler' : handler'[s].op # "crediting"
      <4>1. \A s \in DOMAIN handler : handler[s].op = "crediting" => s = h
        BY DEF OneNotification, Good, Threads
      <4> QED
        BY <3>1, <4>1 DEF Return, Drop
    <3> QED
      BY <3>5, <3>6 DEF OneCredit
  <2> QED
    BY <1>3, <2>1, <2>2, <2>3 DEF WebhookStep
<1>4. ASSUME NEW k \in Refs, MarkFailed(k) \/ PayInvoice(k) \/ FailRemote(k)
      PROVE  OneCredit'
  <2>1. CASE PayInvoice(k) \/ FailRemote(k)
    BY <1>1, <2>1 DEF PayInvoice, FailRemote, wallets
  <2>2. CASE MarkFailed(k)
    <3>1. UNCHANGED <<ledger, handler>> /\ DOMAIN payments' = DOMAIN payments
      BY <2>2 DEF MarkFailed, wallets
    <3>2. Grows(payments, payments')
      <4>1. \A p \in DOMAIN payments : payments[p] \in Payment
        BY DEF Good, RowsOK, BookOK, RowOK
      <4> QED
        BY <2>2, <4>1 DEF MarkFailed, Grows, Payment
    <3> QED
      BY <3>1, <3>2, NothingCredited
  <2> QED
    BY <1>4, <2>1, <2>2
<1>5. CASE RefreshRate
  BY <1>1, <1>5 DEF RefreshRate, wallets
<1>6. CASE UNCHANGED vars
  BY <1>1, <1>6 DEF vars
<1> QED
  BY <1>2, <1>3, <1>4, <1>5, <1>6 DEF Next

\* If notifications are served by one thread, a paid invoice is credited at most
\* once, whatever the requests of users and of the administrator do meanwhile:
\* handle_deposit_success's guard is sound as long as no two of it overlap.
THEOREM OneThreadCreditsOnce ==
  ASSUME OneNotification
  PROVE  Spec => []CreditedOnce
<1>1. Init => OneCredit
  <2> SUFFICES ASSUME Init PROVE OneCredit
    OBVIOUS
  <2>1. DOMAIN payments = {} /\ DOMAIN handler = {}
    BY DEF Init
  <2> QED
    BY <2>1 DEF OneCredit, CreditedOnce
<1>2. Good /\ OneCredit /\ [Next]_vars => OneCredit'
  BY NextCredits
<1>3. OneCredit => CreditedOnce
  BY DEF OneCredit
<1> QED
  BY <1>1, <1>2, <1>3, GoodHolds, PTL DEF Spec

=============================================================================
