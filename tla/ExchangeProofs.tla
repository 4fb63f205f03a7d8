--------------------------- MODULE ExchangeProofs ---------------------------
(*************************************************************************)
(* What holds of Exchange for every value of its constants, in layers,   *)
(* each proved from those before: types, locks and funds (IInv), what    *)
(* the rows add up to (BooksInv), who trades first (PriorityInv), what   *)
(* is reserved (ReservedInv), and what a cash-out is sized on (LifeInv,  *)
(* CashInv).                                                             *)
(*************************************************************************)
EXTENDS Exchange, SumProofs

(* Arithmetic *)

\* Rounding half-even is off by half the divisor at most.
LEMMA QuantizedBound ==
  ASSUME NEW a \in Int, NEW d \in Nat, d > 0
  PROVE  /\ Quantized(a, d) \in Int
         /\ 2 * (Quantized(a, d) * d - a) <= d
         /\ a >= 0 => Quantized(a, d) >= 0
<1> DEFINE q == a \div d
           m == a % d
<1>1. q \in Int /\ m \in 0 .. d - 1 /\ a = d * q + m
  OBVIOUS
<1>2. a >= 0 => q >= 0
  OBVIOUS
<1> HIDE DEF q, m
<1>3. (q + 1) * d = d * q + d /\ q * d = d * q /\ d * q \in Int
  BY <1>1
<1>4. CASE 2 * m > d \/ (2 * m = d /\ q % 2 = 1)
  <2>1. Quantized(a, d) = q + 1
    BY <1>4 DEF Quantized, q, m
  <2> QED
    BY <1>1, <1>2, <1>3, <1>4, <2>1
<1>5. CASE ~(2 * m > d \/ (2 * m = d /\ q % 2 = 1))
  <2>1. Quantized(a, d) = q
    BY <1>5 DEF Quantized, q, m
  <2> QED
    BY <1>1, <1>2, <1>3, <2>1
<1> QED
  BY <1>4, <1>5

LEMMA CommissionBound ==
  ASSUME NEW p \in Nat, CommissionRate \in 0 .. 100
  PROVE  Commission(p) \in Nat /\ Commission(p) <= p
<1>1. p * CommissionRate \in Nat /\ p * CommissionRate <= p * 100
  OBVIOUS
<1> PICK a \in Nat : a = p * CommissionRate /\ a <= p * 100
  BY <1>1
<1>2. PICK c \in Int : c = Quantized(a, 100) /\ 2 * (c * 100 - a) <= 100 /\ c >= 0
  <2>1. /\ Quantized(a, 100) \in Int
        /\ 2 * (Quantized(a, 100) * 100 - a) <= 100
        /\ a >= 0 => Quantized(a, 100) >= 0
    BY QuantizedBound, a \in Int, 100 \in Nat, 100 > 0
  <2> QED
    BY <2>1
<1>3. c \in Nat /\ c <= p
  BY <1>2
<1> QED
  BY <1>2, <1>3 DEF Commission

LEMMA MaxOddsNat == MaxOdds \in Nat /\ MaxOdds > 0
  BY ConstantsAssumption DEF ConstantsAssumption

LEMMA MulMono ==
  ASSUME NEW s \in Nat, NEW a \in Int, NEW b \in Int, a <= b
  PROVE  s * a <= s * b /\ s * a \in Int /\ s * b \in Int
  OBVIOUS

-----------------------------------------------------------------------------
(* The inductive invariant *)

Busy == {"reserved", "matching"}

TxTypeOK == DOMAIN tx \subseteq Sessions /\ \A s \in DOMAIN tx : tx[s] \in Tx

OrdersTypeOK ==
  /\ DOMAIN orders \subseteq OrderIds
  /\ \A i \in DOMAIN orders : orders[i] \in Order
  /\ DOMAIN seen = DOMAIN orders

FundsTypeOK ==
  /\ wallets \in [Users -> [balance: Int, reserved: Int]]
  /\ fills \subseteq Fill
  /\ nextId \in Nat \ {0}

LifecycleOK ==
  /\ matches \in [Matches -> [status: Statuses, result: Results \cup {NoResult}]]
  /\ DOMAIN worker \subseteq Workers
  /\ \A w \in DOMAIN worker :
       worker[w] \in Settlement /\ worker[w].open \subseteq DOMAIN orders

\* Committed orders are never overfilled, and their ids have been handed out.
OrdersInv ==
  \A i \in DOMAIN orders : /\ i < nextId
                           /\ orders[i].odds > 1 /\ orders[i].odds <= MaxOdds
                           /\ orders[i].matched <= orders[i].stake

\* The part of an order that never changes lets it trade with resting order i.
MayTrade(o, i) ==
  /\ orders[i].side = Opposite(o.side)
  /\ orders[i].user # o.user
  /\ SameMarket(orders[i], o)
  /\ Acceptable(o, orders[i])

\* A fill made in flight fits what is left of the resting order, whose row
\* lock the transaction holds.
TakeInv(t, f) ==
  /\ f.taker = t.id
  /\ f.maker \in t.locks \ t.book
  /\ MayTrade(t.order, f.maker)
  /\ f.odds = orders[f.maker].odds
  /\ f.stake <= Unmatched(orders[f.maker])

TxInv(t) ==
  /\ t.order.odds > 1 /\ t.order.odds <= MaxOdds
  /\ t.order.matched <= t.order.stake
  /\ t.locks \subseteq DOMAIN orders
  /\ t.book \subseteq DOMAIN orders
  /\ t.phase # "matching" => t.order.matched = 0 /\ t.takes = {}
  /\ t.phase = "matching" => t.book \subseteq t.locks
  /\ t.phase \in Busy => t.id \in OrderIds /\ t.id < nextId /\ t.id \notin DOMAIN orders
  /\ \A i \in t.book : MayTrade(t.order, i)
  /\ \A f \in t.takes : TakeInv(t, f)
  /\ \A f, g \in t.takes : f.maker = g.maker => f = g

TxsInv == \A s \in DOMAIN tx : TxInv(tx[s])

\* Row locks exclude each other.
LocksInv ==
  \A s, r \in DOMAIN tx :
    s # r => /\ tx[s].locks \cap tx[r].locks = {}
             /\ tx[s].phase \in Busy /\ tx[r].phase \in Busy
                  => tx[s].id # tx[r].id /\ tx[s].order.user # tx[r].order.user

FillsInv ==
  /\ \A f \in fills : f.taker \in DOMAIN orders /\ f.maker \in DOMAIN orders
  /\ PriceProtection

\* The wallet carries an order, up to what capping a cash-out rounds up.
Affords(o) == 2 * (Exposure(o, o.stake) - Available(o.user)) < MaxOdds

\* What a transaction in flight is about to reserve is still affordable.
FundsInv ==
  /\ Solvent
  /\ \A s \in DOMAIN tx : tx[s].phase \in Busy => Affords(tx[s].order)

IInv ==
  /\ TxTypeOK /\ OrdersTypeOK /\ FundsTypeOK /\ LifecycleOK
  /\ OrdersInv /\ TxsInv /\ LocksInv /\ FillsInv /\ FundsInv

-----------------------------------------------------------------------------
(* Writing one transaction record *)

LEMMA PutTxFacts ==
  ASSUME NEW s, NEW t, PutTx(s, t)
  PROVE  /\ DOMAIN tx' = DOMAIN tx \cup {s}
         /\ tx'[s] = t
         /\ \A r \in DOMAIN tx \ {s} : tx'[r] = tx[r]
BY DEF PutTx

LEMMA DropTxFacts ==
  ASSUME NEW s, DropTx(s)
  PROVE  /\ DOMAIN tx' = DOMAIN tx \ {s}
         /\ \A r \in DOMAIN tx' : tx'[r] = tx[r]
BY DEF DropTx

LEMMA InitIInv == ConstantsAssumption /\ Init => IInv
<1> SUFFICES ASSUME ConstantsAssumption, Init PROVE IInv
  OBVIOUS
<1>1. TxTypeOK /\ OrdersTypeOK /\ TxsInv /\ LocksInv /\ OrdersInv
  BY DEF Init, TxTypeOK, OrdersTypeOK, TxsInv, LocksInv, OrdersInv
<1>2. FundsTypeOK /\ FillsInv /\ FundsInv
  BY MaxOddsNat DEF Init, FundsTypeOK, FillsInv, PriceProtection, FundsInv, Solvent, ConstantsAssumption
<1>3. LifecycleOK
  BY DEF Init, LifecycleOK, ConstantsAssumption, OpenStatuses, Statuses
<1> QED
  BY <1>1, <1>2, <1>3 DEF IInv

-----------------------------------------------------------------------------
(* Steps that leave the exchange's rows alone *)

Rows == <<wallets, orders, fills, nextId, seen>>

\* A step that changes neither rows nor transactions keeps everything but the
\* types of what it writes.
LEMMA RowsAndTxUnchanged ==
  ASSUME IInv, UNCHANGED <<Rows, tx>>, LifecycleOK'
  PROVE  IInv'
<1>1. TxTypeOK' /\ OrdersTypeOK' /\ FundsTypeOK' /\ OrdersInv'
  BY DEF IInv, Rows, TxTypeOK, OrdersTypeOK, FundsTypeOK, OrdersInv
<1>2. TxsInv'
  BY DEF IInv, Rows, TxsInv, TxInv, TakeInv, MayTrade
<1>3. LocksInv'
  BY DEF IInv, Rows, LocksInv
<1>4. FillsInv' /\ FundsInv'
  BY DEF IInv, Rows, FillsInv, PriceProtection, FundsInv, Solvent, Affords, Available, BackOrder, LayOrder
<1> QED
  BY <1>1, <1>2, <1>3, <1>4 DEF IInv

\* A transaction that ends without writing.
LEMMA TxDropped ==
  ASSUME IInv, NEW s, DropTx(s), UNCHANGED <<matches, Rows, worker>>
  PROVE  IInv'
<1>1. /\ DOMAIN tx' = DOMAIN tx \ {s}
      /\ \A r \in DOMAIN tx' : tx'[r] = tx[r]
  BY DropTxFacts
<1>2. TxTypeOK' /\ OrdersTypeOK' /\ FundsTypeOK' /\ OrdersInv'
  BY <1>1 DEF IInv, Rows, TxTypeOK, OrdersTypeOK, FundsTypeOK, OrdersInv
<1>3. TxsInv'
  BY <1>1 DEF IInv, Rows, TxsInv, TxInv, TakeInv, MayTrade
<1>4. LocksInv'
  BY <1>1 DEF IInv, Rows, LocksInv
<1>5. FillsInv' /\ FundsInv'
  BY <1>1 DEF IInv, Rows, FillsInv, PriceProtection, FundsInv, Solvent, Affords, Available, BackOrder, LayOrder
<1>6. LifecycleOK'
  BY DEF IInv, LifecycleOK, Rows
<1> QED
  BY <1>2, <1>3, <1>4, <1>5, <1>6 DEF IInv

-----------------------------------------------------------------------------
(* Steps that write one transaction record *)

\* A transaction record is added or replaced: what IInv asks of it, and of it
\* against the others, is enough.
LEMMA TxWritten ==
  ASSUME IInv, NEW s \in Sessions, NEW t \in Tx, PutTx(s, t),
         UNCHANGED <<matches, wallets, orders, fills, seen, worker>>,
         nextId' \in Nat, nextId <= nextId',
         TxInv(t)',
         \A r \in DOMAIN tx \ {s} :
           /\ tx[r].locks \cap t.locks = {}
           /\ tx[r].phase \in Busy /\ t.phase \in Busy
                => tx[r].id # t.id /\ tx[r].order.user # t.order.user,
         t.phase \in Busy => Affords(t.order)
  PROVE  IInv'
<1>1. /\ DOMAIN tx' = DOMAIN tx \cup {s}
      /\ tx'[s] = t
      /\ \A r \in DOMAIN tx \ {s} : tx'[r] = tx[r]
  BY PutTxFacts
<1>2. TxTypeOK' /\ OrdersTypeOK'
  BY <1>1 DEF IInv, TxTypeOK, OrdersTypeOK
<1>3. FundsTypeOK' /\ OrdersInv' /\ LifecycleOK'
  BY DEF IInv, FundsTypeOK, OrdersInv, OrdersTypeOK, Order, LifecycleOK, OrderIds
<1>4. TxsInv'
  <2>1. ASSUME NEW r \in DOMAIN tx \ {s} PROVE TxInv(tx[r])'
    <3>1. TxInv(tx[r]) /\ tx'[r] = tx[r] /\ tx[r].id \in Nat
      BY <1>1 DEF IInv, TxsInv, TxTypeOK, Tx
    <3> QED
      BY <3>1 DEF TxInv, TakeInv, MayTrade, SameMarket, Acceptable, Unmatched, IInv, FundsTypeOK
  <2> QED
    BY <1>1, <2>1 DEF TxsInv
<1>5. LocksInv'
  BY <1>1 DEF IInv, LocksInv
<1>6. FillsInv' /\ FundsInv'
  BY <1>1 DEF IInv, FillsInv, PriceProtection, FundsInv, Solvent, Affords, Available, BackOrder, LayOrder
<1> QED
  BY <1>2, <1>3, <1>4, <1>5, <1>6 DEF IInv

LEMMA NewOrderType ==
  ASSUME NEW user \in Users, NEW match \in Matches, NEW selection \in Selections,
         NEW side \in Sides, NEW odds \in Nat, NEW stake \in Nat
  PROVE  NewOrder(user, match, selection, side, odds, stake) \in Order
BY DEF NewOrder, Order

LEMMA NewTxType ==
  ASSUME NEW phase \in {"checked", "walked"}, NEW o \in Order
  PROVE  NewTx(phase, o) \in Tx
BY DEF NewTx, Tx

LEMMA PlaceCheckIInv ==
  ASSUME IInv, ConstantsAssumption, NEW s \in Sessions, PlaceCheck(s)
  PROVE  IInv'
<1> PICK r \in Requests :
      /\ ValidRequest(r)
      /\ PutTx(s, NewTx("checked", NewOrder(r.user, r.match, r.selection,
                                            r.side, r.odds, r.stake)))
  BY DEF PlaceCheck
<1> DEFINE o == NewOrder(r.user, r.match, r.selection, r.side, r.odds, r.stake)
           t == NewTx("checked", o)
<1>1. r \in Request
  BY DEF ConstantsAssumption
<1>2. o \in Order /\ t \in Tx
  BY <1>1, NewOrderType, NewTxType DEF Request
<1>3. /\ t.phase = "checked" /\ t.order = o /\ t.locks = {} /\ t.book = {} /\ t.takes = {}
      /\ o.odds = r.odds /\ o.matched = 0 /\ o.stake = r.stake
  BY DEF NewTx, NewOrder
<1>4. TxInv(t)'
  BY <1>1, <1>3 DEF TxInv, Busy, ValidRequest, Request
<1>5. UNCHANGED <<matches, wallets, orders, fills, nextId, seen, worker>> /\ nextId \in Nat
  BY DEF PlaceCheck, IInv, FundsTypeOK
<1> HIDE DEF t, o
<1> QED
  BY <1>2, <1>3, <1>4, <1>5, TxWritten DEF Busy, t, o

\* Reserving, for a transaction that holds the wallet and can afford its order.
LEMMA ReserveIInv ==
  ASSUME IInv, NEW s \in Sessions, NEW t0 \in Tx, Reserve(s, t0), TxInv(t0),
         s \in DOMAIN tx, t0.locks = tx[s].locks, t0.phase # "matching",
         ~WalletLocked(t0.order.user),
         Affords(t0.order)
  PROVE  IInv'
<1> PICK t : t = [t0 EXCEPT !.phase = "reserved", !.id = nextId,
                            !.book = Compatible(t0.order),
                            !.seen = Compatible(t0.order)]
  OBVIOUS
<1>1. /\ t.phase = "reserved" /\ t.id = nextId /\ t.book = Compatible(t0.order)
      /\ t.order = t0.order /\ t.locks = t0.locks /\ t.takes = t0.takes
  BY DEF Tx
<1>2. Compatible(t0.order) \subseteq DOMAIN orders
  BY DEF Compatible, Counterparties
<1>3. t \in Tx
  BY <1>2 DEF Tx, IInv, FundsTypeOK, OrdersTypeOK, OrderIds
<1>4. /\ nextId' = nextId + 1 /\ nextId \in Nat /\ nextId \in OrderIds
      /\ UNCHANGED <<matches, wallets, orders, fills, seen, worker>>
  BY DEF Reserve, IInv, FundsTypeOK, OrderIds, ConstantsAssumption
<1>5. \A i \in t.book : MayTrade(t.order, i)
  BY <1>1 DEF Compatible, Counterparties, MayTrade
<1>6. nextId \notin DOMAIN orders
  BY <1>4 DEF IInv, OrdersInv
<1>7. t0.order.matched = 0 /\ t0.takes = {}
      /\ t0.order.odds > 1 /\ t0.order.odds <= MaxOdds
      /\ t0.order.matched <= t0.order.stake /\ t0.locks \subseteq DOMAIN orders
  BY DEF TxInv
<1>8. TxInv(t)'
  BY <1>1, <1>2, <1>4, <1>5, <1>6, <1>7
     DEF TxInv, MayTrade, SameMarket, Acceptable, Busy
<1>9. \A r \in DOMAIN tx \ {s} :
        /\ tx[r].locks \cap t.locks = {}
        /\ tx[r].phase \in Busy => tx[r].id # t.id /\ tx[r].order.user # t.order.user
  <2> SUFFICES ASSUME NEW r \in DOMAIN tx \ {s}
               PROVE  /\ tx[r].locks \cap t.locks = {}
                      /\ tx[r].phase \in Busy => tx[r].id # t.id /\ tx[r].order.user # t.order.user
    OBVIOUS
  <2>1. tx[r].locks \cap t.locks = {}
    BY <1>1 DEF IInv, LocksInv
  <2>2. tx[r].phase \in Busy => tx[r].id # nextId
    BY <1>4 DEF IInv, TxsInv, TxInv, TxTypeOK, Tx
  <2>3. tx[r].phase \in Busy => tx[r].order.user # t.order.user
    BY <1>1 DEF WalletLocked, Busy
  <2> QED
    BY <1>1, <2>1, <2>2, <2>3
<1>10. Affords(t.order)
  BY <1>1
<1>11. PutTx(s, t)
  BY DEF Reserve
<1>12. nextId' \in Nat /\ nextId <= nextId'
  BY <1>4
<1>13. \A r \in DOMAIN tx \ {s} :
         /\ tx[r].locks \cap t.locks = {}
         /\ tx[r].phase \in Busy /\ t.phase \in Busy
              => tx[r].id # t.id /\ tx[r].order.user # t.order.user
  BY <1>9
<1> QED
  BY <1>3, <1>4, <1>8, <1>10, <1>11, <1>12, <1>13, TxWritten

LEMMA PlaceReserveIInv ==
  ASSUME IInv, NEW s \in Sessions, PlaceReserve(s)
  PROVE  IInv'
<1> PICK t0 \in Tx : t0 = tx[s] /\ TxInv(t0)
  BY DEF PlaceReserve, IInv, TxTypeOK, TxsInv
<1>1. CanReserve(t0.order)
  BY DEF PlaceReserve
<1>2. Affords(t0.order)
  <2>1. Exposure(t0.order, t0.order.stake) \in Int /\ Available(t0.order.user) \in Int
    BY DEF Tx, Order, Exposure, ExposureRate, Available, IInv, FundsTypeOK
  <2> QED
    BY <1>1, <2>1, MaxOddsNat DEF CanReserve, Affords
<1> QED
  BY <1>2, ReserveIInv DEF PlaceReserve

\* The capped stake is affordable, up to what quantize rounds up.
LEMMA AffordableBound ==
  ASSUME NEW o \in Order, o.odds > 1, o.odds <= MaxOdds, FundsTypeOK,
         Affordable(o) > 0
  PROVE  /\ Affordable(o) \in Nat
         /\ 2 * (Exposure(o, Affordable(o)) - Available(o.user)) < MaxOdds
<1>1. PICK a \in Int : a = Available(o.user)
  BY DEF FundsTypeOK, Available, Order
<1>2. PICK r \in Nat : r = ExposureRate(o.side, o.odds) /\ r > 0 /\ r < MaxOdds
  BY MaxOddsNat DEF ExposureRate, Order
<1>3. PICK q \in Int : q = Quantized(a, r) /\ 2 * (q * r - a) <= r
  BY <1>2, QuantizedBound
<1>4. PICK n \in Nat : n = o.stake
  BY DEF Order
<1>5. n * r \in Int /\ q * r \in Int
  OBVIOUS
<1>6. CASE a >= n * r
  <2>1. Affordable(o) = n
    BY <1>1, <1>2, <1>4, <1>6 DEF Affordable, Exposure
  <2> QED
    BY <1>1, <1>2, <1>4, <1>5, <1>6, <2>1, MaxOddsNat DEF Exposure
<1>7. CASE ~(a >= n * r) /\ q <= n
  <2>1. Affordable(o) = q
    BY <1>1, <1>2, <1>3, <1>4, <1>7 DEF Affordable, Exposure
  <2> QED
    BY <1>1, <1>2, <1>3, <1>5, <2>1, MaxOddsNat DEF Exposure
<1>8. CASE ~(a >= n * r) /\ ~(q <= n)
  <2>1. Affordable(o) = n
    BY <1>1, <1>2, <1>3, <1>4, <1>8 DEF Affordable, Exposure
  <2>2. n * r <= q * r
    BY <1>8
  <2> QED
    BY <1>1, <1>2, <1>3, <1>4, <1>5, <2>1, <2>2, MaxOddsNat DEF Exposure
<1> QED
  BY <1>6, <1>7, <1>8

LEMMA CashOutReserveIInv ==
  ASSUME IInv, NEW s \in Sessions, CashOutReserve(s)
  PROVE  IInv'
<1> PICK o \in Order : o = tx[s].order
  BY DEF CashOutReserve, IInv, TxTypeOK, Tx
<1> PICK t0 : t0 = [tx[s] EXCEPT
           !.order.stake = Affordable(o),
           !.reached = @ /\ Available(o.user) >= Exposure(o, o.stake)]
  OBVIOUS
<1>1. tx[s] \in Tx /\ TxInv(tx[s]) /\ s \in DOMAIN tx /\ tx[s].phase = "walked"
  BY DEF CashOutReserve, IInv, TxTypeOK, TxsInv
<1>2. /\ Affordable(o) \in Nat
      /\ 2 * (Exposure(o, Affordable(o)) - Available(o.user)) < MaxOdds
  BY <1>1, AffordableBound DEF TxInv, IInv, CashOutReserve
<1>3. /\ t0.phase = "walked" /\ t0.order = [o EXCEPT !.stake = Affordable(o)]
      /\ t0.locks = tx[s].locks /\ t0.takes = tx[s].takes /\ t0.book = tx[s].book
      /\ t0.id = tx[s].id
  BY <1>1 DEF Tx
<1>4. /\ t0.order.stake = Affordable(o) /\ t0.order.user = o.user
      /\ t0.order.odds = o.odds /\ t0.order.matched = o.matched
      /\ t0.order.side = o.side /\ t0.order.match = o.match
      /\ t0.order.selection = o.selection /\ t0.order.status = o.status
      /\ t0.order \in Order
  BY <1>2, <1>3 DEF Order
<1>5. t0 \in Tx
  <2>1. (tx[s].reached /\ Available(o.user) >= Exposure(o, o.stake)) \in BOOLEAN
    BY <1>1 DEF Tx
  <2> QED
    BY <1>1, <1>4, <1>3, <2>1 DEF Tx
<1>6. TxInv(t0)
  BY <1>1, <1>2, <1>3, <1>4 DEF TxInv, MayTrade, SameMarket, Acceptable, TakeInv, Busy
<1>7. Reserve(s, t0) /\ ~WalletLocked(t0.order.user)
  BY <1>4 DEF CashOutReserve
<1>8. Affords(t0.order)
  BY <1>2, <1>4 DEF Affords, Exposure
<1> QED
  BY <1>1, <1>3, <1>5, <1>6, <1>7, <1>8, ReserveIInv

Walked(o, i, rows, covered, reached, locks) ==
  [phase |-> "walked", order |-> o, id |-> 0, book |-> {}, seen |-> {},
   takes |-> {}, locks |-> locks, origin |-> i,
   covered |-> covered, walked |-> rows, reached |-> reached]

LEMMA WalkedTx ==
  ASSUME NEW o \in Order, NEW i \in Nat, NEW rows \in SUBSET OrderIds,
         NEW covered \in SUBSET Keys, NEW reached \in BOOLEAN,
         NEW locks \in SUBSET OrderIds
  PROVE  Walked(o, i, rows, covered, reached, locks) \in Tx
BY DEF Tx, Walked

\* What IInv asks of a transaction depends on the orders and the ids only.
LEMMA TxInvKept ==
  ASSUME NEW t, TxInv(t), orders' = orders, nextId' = nextId
  PROVE  TxInv(t)'
<1>1. \A i : MayTrade(t.order, i) => MayTrade(t.order, i)'
  BY DEF MayTrade, SameMarket, Acceptable
<1>2. \A f : TakeInv(t, f) => TakeInv(t, f)'
  BY <1>1 DEF TakeInv, Unmatched
<1> QED
  BY <1>1, <1>2 DEF TxInv

LEMMA CashOutWalkIInv ==
  ASSUME IInv, ConstantsAssumption, NEW s \in Sessions, NEW i \in OrderIds,
         CashOutWalk(s, i)
  PROVE  IInv'
<1>1. PICK o \in Order : o = orders[i]
  BY DEF CashOutWalk, IInv, OrdersTypeOK
<1> DEFINE side == Opposite(o.side)
           leg  == NewOrder(o.user, o.match, o.selection, side, 2, 0)
<1>18. PICK target : target = CashOutTarget(i)
  OBVIOUS
<1>2. PICK rows \in SUBSET DOMAIN orders : rows = Counterparties(leg)
  BY DEF Counterparties
<1>3. /\ s \notin DOMAIN tx /\ i \in DOMAIN orders /\ ~RowLocked(i)
      /\ \A j \in rows : ~RowLocked(j)
      /\ UNCHANGED <<matches, wallets, orders, fills, nextId, worker, seen>>
  BY <1>1, <1>2, <1>18 DEF CashOutWalk
<1>4. PICK last \in rows :
      /\ WalkStake(side, rows, target, last) \in 0 .. MaxStake
      /\ PutTx(s, [NewTx("walked",
             [leg EXCEPT !.odds = orders[last].odds,
                         !.stake = WalkStake(side, rows, target, last)])
           EXCEPT !.locks = {i} \cup rows, !.origin = i,
                  !.covered = {Key(f) : f \in PendingFillsOf(i)},
                  !.walked = rows,
                  !.reached = Covers(side, rows, target, last)])
  BY <1>1, <1>2, <1>18, ZenonT(40) DEF CashOutWalk
<1>5. leg \in Order /\ leg.matched = 0
  BY NewOrderType DEF Order, Opposite, Sides, NewOrder
<1> HIDE DEF leg, side
<1>6. PICK stake \in Nat, odds \in Nat :
        /\ stake = WalkStake(side, rows, target, last)
        /\ odds = orders[last].odds /\ odds > 1 /\ odds <= MaxOdds
  BY <1>4 DEF IInv, OrdersTypeOK, OrdersInv, Order, ConstantsAssumption
<1>7. PICK n : n = [leg EXCEPT !.odds = odds, !.stake = stake]
  OBVIOUS
<1>8. n \in Order /\ n.odds = odds /\ n.stake = stake /\ n.matched = 0
  BY <1>5, <1>7 DEF Order
<1>9. PICK covered \in SUBSET Keys, reached \in BOOLEAN :
        /\ covered = {Key(f) : f \in PendingFillsOf(i)}
        /\ reached = Covers(side, rows, target, last)
  <2>1. {Key(f) : f \in PendingFillsOf(i)} \in SUBSET Keys
    BY DEF PendingFillsOf, Key, Keys, IInv, FundsTypeOK, Fill
  <2>2. Covers(side, rows, target, last) \in BOOLEAN
    BY DEF Covers
  <2> QED
    BY <2>1, <2>2
<1>10. PICK locks \in SUBSET OrderIds : locks = {i} \cup rows
  BY DEF IInv, OrdersTypeOK
<1>11. PICK t : t = Walked(n, i, rows, covered, reached, locks)
  OBVIOUS
<1>12. PutTx(s, t)
  <2>1. n = [leg EXCEPT !.odds = orders[last].odds,
                        !.stake = WalkStake(side, rows, target, last)]
    BY <1>6, <1>7
  <2>2. PICK t0 : t0 = NewTx("walked", n)
    OBVIOUS
  <2>3. PICK t1 : t1 = [t0 EXCEPT !.locks = locks, !.origin = i,
                          !.covered = covered, !.walked = rows, !.reached = reached]
    OBVIOUS
  <2>4. PutTx(s, t1)
    BY <1>4, <1>9, <1>10, <2>1, <2>2, <2>3
  <2>5. t = t1
    BY <1>11, <2>2, <2>3 DEF NewTx, Walked
  <2> QED
    BY <2>4, <2>5
<1>13. /\ t \in Tx /\ t.phase = "walked" /\ t.order = n /\ t.locks = locks
       /\ t.book = {} /\ t.takes = {}
  <2>1. rows \in SUBSET OrderIds /\ i \in Nat
    BY DEF IInv, OrdersTypeOK, OrderIds
  <2>2. Walked(n, i, rows, covered, reached, locks) \in Tx
    BY <2>1, <1>8, WalkedTx
  <2> QED
    BY <2>2, <1>11 DEF Walked
<1>14. TxInv(t)
  <2>1. n.odds > 1 /\ n.odds <= MaxOdds /\ n.matched <= n.stake /\ t.locks \subseteq DOMAIN orders
    BY <1>3, <1>6, <1>8, <1>10, <1>13
  <2>2. /\ t.book \subseteq DOMAIN orders /\ t.book \subseteq t.locks
        /\ t.phase \notin Busy /\ t.phase # "matching"
    BY <1>13 DEF Busy
  <2>3. t.order.odds > 1 /\ t.order.odds <= MaxOdds
        /\ t.order.matched <= t.order.stake /\ t.order.matched = 0
    BY <1>8, <1>13, <2>1
  <2> QED
    BY <1>13, <2>1, <2>2, <2>3 DEF TxInv
<1>15. TxInv(t)'
  BY <1>3, <1>14, TxInvKept
<1>16. \A r \in DOMAIN tx \ {s} : tx[r].locks \cap t.locks = {}
  BY <1>3, <1>10, <1>13 DEF RowLocked
<1>17. nextId' \in Nat /\ nextId <= nextId' /\ t.phase \notin Busy
  BY <1>3, <1>13 DEF IInv, FundsTypeOK, Busy
<1> QED
  BY <1>3, <1>12, <1>13, <1>15, <1>16, <1>17, TxWritten

LEMMA LockBookIInv ==
  ASSUME IInv, NEW s \in Sessions, LockBook(s)
  PROVE  IInv'
<1> PICK t0 \in Tx : t0 = tx[s] /\ TxInv(t0)
  BY DEF LockBook, IInv, TxTypeOK, TxsInv
<1> PICK rows \in SUBSET t0.book : rows = {i \in t0.book : orders[i].status = "open"}
  OBVIOUS
<1> PICK t : t = [t0 EXCEPT !.phase = "matching", !.book = rows, !.locks = @ \cup rows]
  OBVIOUS
<1>1. /\ t \in Tx /\ t.phase = "matching" /\ t.book = rows /\ t.locks = t0.locks \cup rows
      /\ t.order = t0.order /\ t.id = t0.id /\ t.takes = t0.takes
  BY DEF Tx
<1>2. /\ s \in DOMAIN tx /\ t0.phase = "reserved" /\ PutTx(s, t)
      /\ \A i \in t0.book : ~LockedByOther(i, s)
      /\ UNCHANGED <<matches, wallets, orders, fills, nextId, worker, seen>>
  BY DEF LockBook
<1>3. TxInv(t)'
  <2>1. /\ t.takes = {} /\ t.locks \subseteq DOMAIN orders /\ t.book \subseteq DOMAIN orders
        /\ t.book \subseteq t.locks
        /\ t.id \in OrderIds /\ t.id < nextId /\ t.id \notin DOMAIN orders
        /\ t.order.odds > 1 /\ t.order.odds <= MaxOdds /\ t.order.matched <= t.order.stake
    BY <1>1, <1>2 DEF TxInv, Busy
  <2>2. \A i \in t.book : MayTrade(t.order, i)
    BY <1>1 DEF TxInv
  <2>3. TxInv(t)
    BY <1>1, <2>1, <2>2 DEF TxInv
  <2> QED
    BY <2>3, <1>2, TxInvKept
<1>4. \A r \in DOMAIN tx \ {s} :
        /\ tx[r].locks \cap t.locks = {}
        /\ tx[r].phase \in Busy /\ t.phase \in Busy
             => tx[r].id # t.id /\ tx[r].order.user # t.order.user
  BY <1>1, <1>2 DEF IInv, LocksInv, LockedByOther, Busy
<1>5. Affords(t.order)
  BY <1>1, <1>2 DEF IInv, FundsInv, Busy
<1>6. nextId' \in Nat /\ nextId <= nextId'
  BY <1>2 DEF IInv, FundsTypeOK
<1>7. t \in Tx /\ PutTx(s, t) /\ UNCHANGED <<matches, wallets, orders, fills, seen, worker>>
  BY <1>1, <1>2
<1> QED
  BY ZenonT(40), <1>3, <1>4, <1>5, <1>6, <1>7, TxWritten

Taken(t0, book, matched, takes) ==
  [t0 EXCEPT !.book = book, !.order.matched = matched, !.takes = takes]

LEMMA TakenTx ==
  ASSUME NEW t0 \in Tx, NEW book \in SUBSET OrderIds, NEW matched \in Nat,
         NEW takes \in SUBSET Fill, NEW t,
         t = Taken(t0, book, matched, takes)
  PROVE  /\ t \in Tx /\ t.phase = t0.phase /\ t.book = book /\ t.locks = t0.locks
         /\ t.id = t0.id /\ t.takes = takes /\ t.order \in Order
         /\ t.order.matched = matched
         /\ t.order.stake = t0.order.stake /\ t.order.user = t0.order.user
         /\ t.order.odds = t0.order.odds /\ t.order.side = t0.order.side
         /\ t.order.match = t0.order.match /\ t.order.selection = t0.order.selection
<1> PICK o0 \in Order : o0 = t0.order
  BY DEF Tx
<1> PICK o : o = [o0 EXCEPT !.matched = matched]
  OBVIOUS
<1>1. o \in Order /\ o.matched = matched /\ o.stake = o0.stake /\ o.user = o0.user
      /\ o.odds = o0.odds /\ o.side = o0.side /\ o.match = o0.match
      /\ o.selection = o0.selection
  BY DEF Order
<1>2. t = [t0 EXCEPT !.book = book, !.order = o, !.takes = takes]
  BY DEF Tx, Taken
<1>3. t.order = o /\ t.phase = t0.phase /\ t.book = book /\ t.locks = t0.locks
      /\ t.id = t0.id /\ t.takes = takes
  BY <1>2 DEF Tx
<1>4. t \in Tx
  BY <1>1, <1>2 DEF Tx
<1> QED
  BY <1>1, <1>3, <1>4

\* The transaction record after one iteration of the matching loop.
Matched(t, t0, i, takes) ==
  /\ t.phase = t0.phase /\ t.book = t0.book \ {i} /\ t.locks = t0.locks
  /\ t.id = t0.id /\ t.takes = takes
  /\ t.order.matched <= t.order.stake
  /\ t.order.stake = t0.order.stake /\ t.order.user = t0.order.user
  /\ t.order.odds = t0.order.odds /\ t.order.side = t0.order.side
  /\ t.order.match = t0.order.match /\ t.order.selection = t0.order.selection

LEMMA MatchedTxInv ==
  ASSUME IInv, NEW t0 \in Tx, TxInv(t0), t0.phase = "matching", NEW i \in t0.book,
         NEW fill, fill.taker = t0.id, fill.maker = i, fill.odds = orders[i].odds,
         fill.stake <= Unmatched(orders[i]),
         NEW takes, takes \subseteq t0.takes \cup {fill},
         NEW t, Matched(t, t0, i, takes)
  PROVE  TxInv(t)
<1>1. \A j : MayTrade(t0.order, j) => MayTrade(t.order, j)
  BY DEF MayTrade, SameMarket, Acceptable, Matched
<1>2. MayTrade(t.order, i) /\ i \in t0.locks
  BY <1>1 DEF TxInv
<1>3. \A f \in t0.takes : TakeInv(t, f) /\ f.maker # i
  <2> SUFFICES ASSUME NEW f \in t0.takes PROVE TakeInv(t, f) /\ f.maker # i
    OBVIOUS
  <2>1. TakeInv(t0, f)
    BY DEF TxInv
  <2> QED
    BY <1>1, <2>1 DEF TakeInv, Matched
<1>4. TakeInv(t, fill)
  BY <1>2 DEF TakeInv, Matched
<1>5. \A f \in takes : TakeInv(t, f)
  BY <1>3, <1>4
<1>6. \A f, g \in takes : f.maker = g.maker => f = g
  <2> SUFFICES ASSUME NEW f \in takes, NEW g \in takes, f.maker = g.maker PROVE f = g
    OBVIOUS
  <2>1. CASE f \in t0.takes /\ g \in t0.takes
    BY <2>1 DEF TxInv
  <2>2. CASE f \in t0.takes /\ g = fill
    BY <1>3, <2>2
  <2>3. CASE f = fill /\ g \in t0.takes
    BY <1>3, <2>3
  <2> QED
    BY <2>1, <2>2, <2>3
<1>7. \A j \in t.book : MayTrade(t.order, j)
  BY <1>1 DEF TxInv, Matched
<1> QED
  BY <1>5, <1>6, <1>7 DEF TxInv, Matched, Busy

LEMMA MatchedIInv ==
  ASSUME IInv, NEW s \in DOMAIN tx, s \in Sessions, tx[s].phase = "matching",
         NEW i, NEW takes, NEW t \in Tx, Matched(t, tx[s], i, takes),
         TxInv(t), PutTx(s, t),
         UNCHANGED <<matches, wallets, orders, fills, nextId, worker, seen>>
  PROVE  IInv'
<1>1. TxInv(t)'
  BY TxInvKept
<1>2. \A r \in DOMAIN tx \ {s} :
        /\ tx[r].locks \cap t.locks = {}
        /\ tx[r].phase \in Busy /\ t.phase \in Busy
             => tx[r].id # t.id /\ tx[r].order.user # t.order.user
  BY DEF IInv, LocksInv, Busy, Matched
<1>3. Affords(t.order)
  BY DEF IInv, FundsInv, Busy, Affords, Exposure, Matched
<1>4. nextId' \in Nat /\ nextId <= nextId'
  BY DEF IInv, FundsTypeOK
<1> QED
  BY <1>1, <1>2, <1>3, <1>4, TxWritten

LEMMA MatchNextIInv ==
  ASSUME IInv, NEW s \in Sessions, MatchNext(s)
  PROVE  IInv'
<1>1. PICK t0 \in Tx : t0 = tx[s] /\ TxInv(t0)
  BY DEF MatchNext, IInv, TxTypeOK, TxsInv
<1>2. /\ s \in DOMAIN tx /\ t0.phase = "matching" /\ Unmatched(t0.order) > 0
      /\ UNCHANGED <<matches, wallets, orders, fills, nextId, worker, seen>>
  BY <1>1 DEF MatchNext
<1>3. PICK i \in t0.book :
      LET mine == Unmatched(t0.order)
          rest == Unmatched(orders[i])
          size == IF mine <= rest THEN mine ELSE rest
          fill == [taker |-> t0.id, maker |-> i, stake |-> size,
                   odds |-> orders[i].odds, status |-> "pending",
                   commission |-> 0]
      IN  PutTx(s, [t0 EXCEPT
                      !.book = @ \ {i},
                      !.order.matched = @ + size,
                      !.takes = IF size = 0 THEN @ ELSE @ \cup {fill}])
  BY <1>1 DEF MatchNext, Best
<1>4. i \in DOMAIN orders /\ i \in OrderIds /\ orders[i] \in Order
      /\ orders[i].matched <= orders[i].stake
  BY <1>1 DEF TxInv, IInv, OrdersTypeOK, OrdersInv
<1>5. PICK size \in Nat :
      /\ size = IF Unmatched(t0.order) <= Unmatched(orders[i])
                THEN Unmatched(t0.order) ELSE Unmatched(orders[i])
      /\ size <= Unmatched(t0.order) /\ size <= Unmatched(orders[i])
  BY <1>2, <1>4 DEF Unmatched, Order, Tx
<1>6. PICK fill : fill = [taker |-> t0.id, maker |-> i, stake |-> size,
                   odds |-> orders[i].odds, status |-> "pending", commission |-> 0]
  OBVIOUS
<1>7. t0.id \in OrderIds
  BY <1>1, <1>2 DEF TxInv, Busy
<1>8. fill \in Fill
  BY <1>4, <1>6, <1>7 DEF Fill, Order
<1>9. PICK book \in SUBSET OrderIds : book = t0.book \ {i}
  BY DEF Tx
<1>10. PICK matched \in Nat : matched = t0.order.matched + size /\ matched <= t0.order.stake
  <2>1. t0.order.matched \in Nat /\ t0.order.stake \in Nat
    BY DEF Tx, Order
  <2> QED
    BY <2>1, <1>5 DEF Unmatched
<1>11. PICK takes \in SUBSET Fill : takes = IF size = 0 THEN t0.takes ELSE t0.takes \cup {fill}
  BY <1>8 DEF Tx
<1>12. PICK t : t = Taken(t0, book, matched, takes)
  OBVIOUS
<1>13. PutTx(s, t)
  BY <1>3, <1>5, <1>6, <1>9, <1>10, <1>11, <1>12 DEF Taken
<1>14. /\ t \in Tx /\ t.phase = t0.phase /\ t.book = book /\ t.locks = t0.locks
       /\ t.id = t0.id /\ t.takes = takes /\ t.order \in Order
       /\ t.order.matched = matched
       /\ t.order.stake = t0.order.stake /\ t.order.user = t0.order.user
       /\ t.order.odds = t0.order.odds /\ t.order.side = t0.order.side
       /\ t.order.match = t0.order.match /\ t.order.selection = t0.order.selection
  BY <1>12, TakenTx
<1>15. Matched(t, t0, i, takes)
  BY <1>9, <1>10, <1>14 DEF Matched
<1>16. TxInv(t)
  <2>1. takes \subseteq t0.takes \cup {fill}
    BY <1>11
  <2>2. /\ fill.taker = t0.id /\ fill.maker = i /\ fill.odds = orders[i].odds
        /\ fill.stake <= Unmatched(orders[i])
    BY <1>5, <1>6
  <2> QED
    BY <1>1, <1>2, <1>15, <2>1, <2>2, MatchedTxInv
<1> QED
  BY <1>1, <1>2, <1>13, <1>14, <1>15, <1>16, MatchedIInv

-----------------------------------------------------------------------------
(* Steps that close rows and release funds *)

\* What a closing step keeps of an order row: everything but its status.
SameButStatus(i) ==
  /\ orders'[i].user = orders[i].user /\ orders'[i].match = orders[i].match
  /\ orders'[i].selection = orders[i].selection /\ orders'[i].side = orders[i].side
  /\ orders'[i].odds = orders[i].odds /\ orders'[i].stake = orders[i].stake
  /\ orders'[i].matched = orders[i].matched

\* A step that keeps rows and fills but for their status, and takes nothing
\* from what any user has available.
LEMMA RowsClosed ==
  ASSUME IInv, UNCHANGED <<nextId, tx, seen>>, LifecycleOK', FundsTypeOK',
         DOMAIN orders' = DOMAIN orders,
         \A i \in DOMAIN orders : orders'[i] \in Order /\ SameButStatus(i),
         \A g \in fills' : \E f \in fills :
           g.taker = f.taker /\ g.maker = f.maker /\ g.odds = f.odds,
         \A u \in Users : Available(u) <= Available(u)'
  PROVE  IInv'
<1>1. TxTypeOK' /\ OrdersTypeOK'
  BY DEF IInv, TxTypeOK, OrdersTypeOK
<1>2. OrdersInv'
  BY DEF IInv, OrdersInv, SameButStatus
<1>3. TxsInv'
  <2> SUFFICES ASSUME NEW t, TxInv(t) PROVE TxInv(t)'
    BY DEF IInv, TxsInv
  <2>1. \A i \in DOMAIN orders : MayTrade(t.order, i) => MayTrade(t.order, i)'
    BY DEF MayTrade, SameMarket, Acceptable, SameButStatus
  <2>2. \A i \in DOMAIN orders : Unmatched(orders[i]) = Unmatched(orders[i])'
    BY DEF Unmatched, SameButStatus
  <2>3. \A f : TakeInv(t, f) => TakeInv(t, f)'
    BY <2>1, <2>2 DEF TakeInv, TxInv, SameButStatus
  <2> QED
    BY <2>1, <2>3 DEF TxInv
<1>4. LocksInv'
  BY DEF IInv, LocksInv
<1>5. FillsInv'
  <2> SUFFICES ASSUME NEW g \in fills', NEW f \in fills,
                      g.taker = f.taker, g.maker = f.maker, g.odds = f.odds
               PROVE  /\ g.taker \in DOMAIN orders' /\ g.maker \in DOMAIN orders'
                      /\ g.odds = orders'[g.maker].odds
                      /\ orders'[BackOrder(g)'].odds <= g.odds
                      /\ g.odds <= orders'[LayOrder(g)'].odds
                      /\ orders'[g.taker].side # orders'[g.maker].side
                      /\ orders'[g.taker].user # orders'[g.maker].user
                      /\ SameMarket(orders'[g.taker], orders'[g.maker])
    BY DEF FillsInv, PriceProtection
  <2>1. f.taker \in DOMAIN orders /\ f.maker \in DOMAIN orders
    BY DEF IInv, FillsInv
  <2>2. BackOrder(g)' = BackOrder(f) /\ LayOrder(g)' = LayOrder(f)
    BY <2>1 DEF BackOrder, LayOrder, SameButStatus
  <2>3. BackOrder(f) \in DOMAIN orders /\ LayOrder(f) \in DOMAIN orders
    BY <2>1 DEF BackOrder, LayOrder
  <2> QED
    BY <2>1, <2>2, <2>3 DEF IInv, FillsInv, PriceProtection, SameMarket, SameButStatus
<1>6. FundsInv'
  <2>1. \A u \in Users : Available(u) \in Int /\ Available(u)' \in Int
    BY DEF IInv, FundsTypeOK, Available
  <2>2. Solvent'
    BY <2>1, MaxOddsNat DEF IInv, FundsTypeOK, FundsInv, Solvent, Available
  <2>3. \A s \in DOMAIN tx : tx[s].order \in Order
    BY DEF IInv, TxTypeOK, Tx
  <2>4. \A s \in DOMAIN tx : Exposure(tx[s].order, tx[s].order.stake) \in Int /\ tx[s].order.user \in Users
    BY <2>3 DEF Order, Exposure, ExposureRate
  <2>5. \A s \in DOMAIN tx : Affords(tx[s].order) => Affords(tx[s].order)'
    BY <2>1, <2>4, MaxOddsNat DEF Affords, Exposure, ExposureRate
  <2> QED
    BY <2>2, <2>5 DEF IInv, FundsInv
<1> QED
  BY <1>1, <1>2, <1>3, <1>4, <1>5, <1>6 DEF IInv

\* The exposure of an order is never negative, and grows with the stake.
LEMMA ExposureBounds ==
  ASSUME NEW o \in Order, o.odds > 1, NEW a \in Nat, NEW b \in Nat, a <= b
  PROVE  /\ Exposure(o, a) \in Nat
         /\ Exposure(o, a) <= Exposure(o, b)
<1> PICK r \in Nat : r = ExposureRate(o.side, o.odds)
  BY DEF ExposureRate, Order
<1>1. a * r \in Nat /\ a * r <= b * r
  OBVIOUS
<1> QED
  BY <1>1 DEF Exposure

\* Releasing the unmatched part of an order and changing its status.
LEMMA ReleaseIInv ==
  ASSUME IInv, NEW i \in DOMAIN orders, NEW status \in {"cancelled", "settled", "void"},
         wallets' = [wallets EXCEPT ![orders[i].user].reserved =
                       @ - Exposure(orders[i], Unmatched(orders[i]))],
         orders' = [orders EXCEPT ![i].status = status],
         UNCHANGED <<fills, nextId, tx, seen>>, LifecycleOK'
  PROVE  IInv'
<1>1. orders[i] \in Order /\ orders[i].odds > 1 /\ orders[i].matched <= orders[i].stake
  BY DEF IInv, OrdersTypeOK, OrdersInv
<1> PICK e \in Nat : e = Exposure(orders[i], Unmatched(orders[i]))
  <2> PICK n \in Nat : n = Unmatched(orders[i])
    BY <1>1 DEF Unmatched, Order
  <2> QED
    BY <1>1, ExposureBounds
<1> PICK v \in Users : v = orders[i].user
  BY <1>1 DEF Order
<1>2. wallets' = [wallets EXCEPT ![v].reserved = @ - e]
  OBVIOUS
<1>3. wallets \in [Users -> [balance: Int, reserved: Int]]
  BY DEF IInv, FundsTypeOK
<1>4. wallets' \in [Users -> [balance: Int, reserved: Int]]
  BY <1>2, <1>3
<1>5. FundsTypeOK'
  BY <1>4 DEF IInv, FundsTypeOK
<1>6. \A u \in Users : Available(u) <= Available(u)'
  BY <1>2, <1>3 DEF Available
<1>7. DOMAIN orders' = DOMAIN orders
  OBVIOUS
<1>8. ASSUME NEW j \in DOMAIN orders PROVE orders'[j] \in Order /\ SameButStatus(j)
  <2>1. orders[j] \in Order
    BY DEF IInv, OrdersTypeOK
  <2> QED
    BY <2>1 DEF Order, SameButStatus
<1> QED
  BY <1>5, <1>6, <1>7, <1>8, RowsClosed

LEMMA CancelOrderIInv ==
  ASSUME IInv, NEW i \in OrderIds, cancel_order(i)
  PROVE  IInv'
<1>1. LifecycleOK'
  <2>1. DOMAIN orders' = DOMAIN orders
    BY DEF cancel_order
  <2> QED
    BY <2>1 DEF cancel_order, IInv, LifecycleOK
<1> QED
  BY <1>1, ReleaseIInv DEF cancel_order

LEMMA PutWorkerType ==
  ASSUME LifecycleOK, NEW w \in DOMAIN worker, NEW r \in Settlement,
         r.open \subseteq DOMAIN orders, PutWorker(w, r),
         matches' = matches, DOMAIN orders' = DOMAIN orders
  PROVE  LifecycleOK'
BY DEF LifecycleOK, PutWorker

LEMMA ReleaseOrderIInv ==
  ASSUME IInv, NEW w \in Workers, ReleaseOrder(w)
  PROVE  IInv'
<1> PICK i \in worker[w].open :
      /\ IF orders[i].status # "open" THEN UNCHANGED <<wallets, orders>>
         ELSE /\ wallets' = [wallets EXCEPT ![orders[i].user].reserved =
                   @ - Exposure(orders[i], Unmatched(orders[i]))]
              /\ orders' = [orders EXCEPT ![i].status =
                   IF worker[w].status = "cancelled" THEN "void" ELSE "settled"]
      /\ PutWorker(w, [worker[w] EXCEPT !.open = @ \ {i}])
  BY DEF ReleaseOrder
<1>1. UNCHANGED <<matches, fills, nextId, tx, seen>> /\ w \in DOMAIN worker
  BY DEF ReleaseOrder
<1>2. LifecycleOK'
  <2> PICK r : r = [worker[w] EXCEPT !.open = @ \ {i}]
    OBVIOUS
  <2>1. worker[w] \in Settlement /\ worker[w].open \subseteq DOMAIN orders
    BY <1>1 DEF IInv, LifecycleOK
  <2>2. r \in Settlement /\ r.open \subseteq DOMAIN orders
    BY <2>1 DEF Settlement
  <2>3. DOMAIN orders' = DOMAIN orders
    OBVIOUS
  <2> QED
    BY <1>1, <2>2, <2>3, PutWorkerType DEF IInv
<1>3. CASE orders[i].status # "open"
  BY <1>1, <1>2, <1>3, RowsAndTxUnchanged DEF Rows
<1>4. CASE orders[i].status = "open"
  <2>1. i \in DOMAIN orders
    BY <1>1 DEF IInv, LifecycleOK
  <2> PICK status \in {"cancelled", "settled", "void"} :
        status = IF worker[w].status = "cancelled" THEN "void" ELSE "settled"
    OBVIOUS
  <2>2. orders' = [orders EXCEPT ![i].status = status]
    BY <1>4
  <2>3. wallets' = [wallets EXCEPT ![orders[i].user].reserved =
                      @ - Exposure(orders[i], Unmatched(orders[i]))]
    BY <1>4
  <2> QED
    BY <2>1, <2>2, <2>3, <1>1, <1>2, ReleaseIInv
<1> QED
  BY <1>3, <1>4

-----------------------------------------------------------------------------
(* Settling and voiding a fill *)

\* What IInv says of a fill and of its two orders.
LEMMA FillFacts ==
  ASSUME IInv, NEW f \in fills
  PROVE  /\ f \in Fill
         /\ BackOrder(f) \in DOMAIN orders /\ LayOrder(f) \in DOMAIN orders
         /\ orders[BackOrder(f)] \in Order /\ orders[LayOrder(f)] \in Order
         /\ orders[BackOrder(f)].side = "back" /\ orders[LayOrder(f)].side = "lay"
         /\ orders[BackOrder(f)].user # orders[LayOrder(f)].user
         /\ f.odds > 1 /\ f.odds <= orders[LayOrder(f)].odds
         /\ BackRelease(f) = f.stake
         /\ LayRelease(f) = f.stake * (orders[LayOrder(f)].odds - 1)
<1>1. f \in Fill /\ f.taker \in DOMAIN orders /\ f.maker \in DOMAIN orders
  BY DEF IInv, FundsTypeOK, FillsInv
<1>2. orders[f.taker] \in Order /\ orders[f.maker] \in Order
  BY <1>1 DEF IInv, OrdersTypeOK
<1>3. /\ f.odds = orders[f.maker].odds /\ f.odds <= orders[LayOrder(f)].odds
      /\ orders[f.taker].side # orders[f.maker].side
      /\ orders[f.taker].user # orders[f.maker].user
  BY DEF IInv, FillsInv, PriceProtection
<1>4. f.odds > 1
  BY <1>1, <1>3 DEF IInv, OrdersInv
<1>5. orders[BackOrder(f)].side = "back" /\ orders[LayOrder(f)].side = "lay"
      /\ orders[BackOrder(f)].user # orders[LayOrder(f)].user
      /\ BackOrder(f) \in DOMAIN orders /\ LayOrder(f) \in DOMAIN orders
  BY <1>1, <1>2, <1>3 DEF BackOrder, LayOrder, Order, Sides
<1>6. BackRelease(f) = f.stake * 1 /\ LayRelease(f) = f.stake * (orders[LayOrder(f)].odds - 1)
  BY <1>5 DEF BackRelease, LayRelease, Exposure, ExposureRate
<1>7. f.stake * 1 = f.stake
  BY <1>1 DEF Fill
<1>8. orders[BackOrder(f)] \in Order /\ orders[LayOrder(f)] \in Order
  BY <1>5 DEF IInv, OrdersTypeOK
<1> QED
  BY <1>1, <1>3, <1>4, <1>5, <1>6, <1>7, <1>8

\* A wallet moved by integers is a wallet still.
LEMMA WalletMoved ==
  ASSUME NEW w \in [balance: Int, reserved: Int], NEW m \in Int, NEW s \in Int
  PROVE  [balance |-> w.balance + m, reserved |-> w.reserved - s]
           \in [balance: Int, reserved: Int]
  OBVIOUS

\* The loser of a fill never loses more than it had reserved for it.
LEMMA SettleFillFunds ==
  ASSUME IInv, ConstantsAssumption, NEW f \in fills, NEW result, settle_fill(f, result)
  PROVE  /\ wallets' \in [Users -> [balance: Int, reserved: Int]]
         /\ \A u \in Users : Available(u) <= Available(u)'
         /\ \E status \in {"back_won", "lay_won"}, commission \in Nat :
              Close(f, status, commission)
<1> PICK b \in Users, l \in Users : b = orders[BackOrder(f)].user /\ l = orders[LayOrder(f)].user
  BY FillFacts DEF Order
<1> PICK stake \in Nat, odds \in Nat, layOdds \in Nat :
      /\ stake = f.stake /\ odds = f.odds /\ layOdds = orders[LayOrder(f)].odds
      /\ 1 < odds /\ odds <= layOdds
  BY FillFacts DEF Order, Fill
<1> PICK win \in Nat, risk \in Nat : win = stake * (odds - 1) /\ risk = stake * (layOdds - 1)
  OBVIOUS
<1>1. win <= risk
  <2>1. odds - 1 \in Int /\ layOdds - 1 \in Int /\ odds - 1 <= layOdds - 1
    OBVIOUS
  <2> QED
    BY <2>1, MulMono
<1>2. b # l /\ BackRelease(f) = stake /\ LayRelease(f) = risk
  BY FillFacts
<1> PICK profit \in Nat : profit = IF orders[f.taker].selection = result THEN win ELSE stake
  OBVIOUS
<1> PICK c \in Nat : c = Commission(profit) /\ c <= profit
  BY CommissionBound DEF ConstantsAssumption
<1>3. NetWin(profit) = profit - c
  BY DEF NetWin
<1> PICK mb \in Int, ml \in Int :
      /\ mb = IF orders[f.taker].selection = result THEN profit - c ELSE -profit
      /\ ml = IF orders[f.taker].selection = result THEN -profit ELSE profit - c
  OBVIOUS
<1>4. wallets' = [wallets EXCEPT
           ![b] = [balance |-> @.balance + mb, reserved |-> @.reserved - stake],
           ![l] = [balance |-> @.balance + ml, reserved |-> @.reserved - risk]]
  BY <1>2, <1>3 DEF settle_fill
<1>5. mb + stake >= 0 /\ ml + risk >= 0
  BY <1>1
<1>6. \E status \in {"back_won", "lay_won"}, commission \in Nat : Close(f, status, commission)
  BY DEF settle_fill
<1>7. wallets \in [Users -> [balance: Int, reserved: Int]]
  BY DEF IInv, FundsTypeOK
<1>8. wallets' \in [Users -> [balance: Int, reserved: Int]]
  <2> DEFINE wb == [balance |-> wallets[b].balance + mb, reserved |-> wallets[b].reserved - stake]
             wl == [balance |-> wallets[l].balance + ml, reserved |-> wallets[l].reserved - risk]
  <2>1. b # l /\ stake \in Int /\ risk \in Int
    BY <1>2
  <2>2. wallets[b] \in [balance: Int, reserved: Int] /\ wallets[l] \in [balance: Int, reserved: Int]
    BY <1>7
  <2>3. wb \in [balance: Int, reserved: Int]
    BY <2>1, <2>2, WalletMoved
  <2>4. wl \in [balance: Int, reserved: Int]
    BY <2>1, <2>2, WalletMoved
  <2>5. wallets' = [wallets EXCEPT ![b] = wb, ![l] = wl]
    BY <1>4, <1>7, <2>1
  <2> QED
    BY <1>7, <2>3, <2>4, <2>5
<1>9. /\ wallets'[b].balance = wallets[b].balance + mb
      /\ wallets'[b].reserved = wallets[b].reserved - stake
      /\ wallets'[l].balance = wallets[l].balance + ml
      /\ wallets'[l].reserved = wallets[l].reserved - risk
      /\ \A u \in Users \ {b, l} : wallets'[u] = wallets[u]
  BY <1>2, <1>4, <1>7
<1>10. \A u \in Users : Available(u) <= Available(u)'
  <2>1. \A u \in Users : wallets[u].balance \in Int /\ wallets[u].reserved \in Int
    BY <1>7
  <2>2. Available(b) <= Available(b)'
    BY <1>5, <1>9, <2>1 DEF Available
  <2>3. Available(l) <= Available(l)'
    BY <1>5, <1>9, <2>1 DEF Available
  <2>4. \A u \in Users \ {b, l} : Available(u) <= Available(u)'
    BY <2>1, <1>9 DEF Available
  <2> QED
    BY <2>2, <2>3, <2>4
<1> QED
  BY <1>6, <1>8, <1>10

LEMMA VoidFillFunds ==
  ASSUME IInv, NEW f \in fills, void_fill(f)
  PROVE  /\ wallets' \in [Users -> [balance: Int, reserved: Int]]
         /\ \A u \in Users : Available(u) <= Available(u)'
         /\ Close(f, "void", 0)
<1> PICK b \in Users, l \in Users : b = orders[BackOrder(f)].user /\ l = orders[LayOrder(f)].user
  BY FillFacts DEF Order
<1> PICK stake \in Nat, layOdds \in Nat :
      stake = f.stake /\ layOdds = orders[LayOrder(f)].odds /\ 1 < layOdds
  BY FillFacts DEF Order, Fill
<1> PICK risk \in Nat : risk = stake * (layOdds - 1)
  OBVIOUS
<1>1. b # l /\ BackRelease(f) = stake /\ LayRelease(f) = risk
  BY FillFacts
<1>2. wallets \in [Users -> [balance: Int, reserved: Int]]
  BY DEF IInv, FundsTypeOK
<1>3. wallets' = [wallets EXCEPT ![b].reserved = @ - stake, ![l].reserved = @ - risk]
  BY <1>1 DEF void_fill
<1>4. wallets' \in [Users -> [balance: Int, reserved: Int]]
  BY SMTT(30), <1>2, <1>3
<1>5. /\ wallets'[b].balance = wallets[b].balance
      /\ wallets'[b].reserved = wallets[b].reserved - stake
      /\ wallets'[l].balance = wallets[l].balance
      /\ wallets'[l].reserved = wallets[l].reserved - risk
      /\ \A u \in Users \ {b, l} : wallets'[u] = wallets[u]
  BY <1>1, <1>2, <1>3
<1>6. \A u \in Users : Available(u) <= Available(u)'
  <2>1. \A u \in Users : wallets[u].balance \in Int /\ wallets[u].reserved \in Int
    BY <1>2
  <2>2. Available(b) <= Available(b)' /\ Available(l) <= Available(l)'
    BY <2>1, <1>5 DEF Available
  <2>3. \A u \in Users \ {b, l} : Available(u) <= Available(u)'
    BY <2>1, <1>5 DEF Available
  <2> QED
    BY <2>2, <2>3
<1> QED
  BY <1>4, <1>6 DEF void_fill

LEMMA SettleFillIInv ==
  ASSUME IInv, ConstantsAssumption, NEW w \in Workers, SettleFill(w)
  PROVE  IInv'
<1> PICK f \in fills :
      /\ IF AlreadySettled(f) THEN UNCHANGED <<wallets, fills>>
         ELSE IF worker[w].status = "cancelled" THEN void_fill(f)
                 ELSE settle_fill(f, worker[w].result)
      /\ PutWorker(w, [worker[w] EXCEPT !.pending = @ \ {Key(f)}])
  BY DEF SettleFill
<1>1. UNCHANGED <<matches, orders, nextId, tx, seen>> /\ w \in DOMAIN worker
  BY DEF SettleFill
<1>2. LifecycleOK'
  <2> PICK r : r = [worker[w] EXCEPT !.pending = @ \ {Key(f)}]
    OBVIOUS
  <2>1. worker[w] \in Settlement /\ worker[w].open \subseteq DOMAIN orders
    BY <1>1 DEF IInv, LifecycleOK
  <2>2. r \in Settlement /\ r.open \subseteq DOMAIN orders
    BY <2>1 DEF Settlement
  <2> QED
    BY <1>1, <2>2, PutWorkerType DEF IInv
<1>3. CASE AlreadySettled(f)
  BY <1>1, <1>2, <1>3, RowsAndTxUnchanged DEF Rows
<1>4. CASE ~AlreadySettled(f)
  <2>1. /\ wallets' \in [Users -> [balance: Int, reserved: Int]]
        /\ \A u \in Users : Available(u) <= Available(u)'
        /\ \E status \in {"back_won", "lay_won", "void"}, commission \in Nat :
             Close(f, status, commission)
    BY <1>4, SettleFillFunds, VoidFillFunds
  <2> PICK status \in {"back_won", "lay_won", "void"}, commission \in Nat :
        Close(f, status, commission)
    BY <2>1
  <2> PICK g : g = [f EXCEPT !.status = status, !.commission = commission]
    OBVIOUS
  <2>2. f \in Fill
    BY DEF IInv, FundsTypeOK
  <2>3. g \in Fill /\ g.taker = f.taker /\ g.maker = f.maker /\ g.odds = f.odds
    BY <2>2 DEF Fill
  <2>4. fills' = (fills \ {f}) \cup {g}
    BY DEF Close
  <2>5. FundsTypeOK'
    BY <2>1, <2>3, <2>4, <1>1 DEF IInv, FundsTypeOK
  <2>6. \A i \in DOMAIN orders : orders'[i] \in Order /\ SameButStatus(i)
    BY <1>1 DEF IInv, OrdersTypeOK, SameButStatus
  <2>7. \A h \in fills' : \E e \in fills :
          h.taker = e.taker /\ h.maker = e.maker /\ h.odds = e.odds
    BY <2>3, <2>4
  <2> QED
    BY <2>1, <2>5, <2>6, <2>7, <1>1, <1>2, RowsClosed
<1> QED
  BY <1>3, <1>4

-----------------------------------------------------------------------------
(* Commit *)

LEMMA CommitIInv ==
  ASSUME IInv, ConstantsAssumption, NEW s \in Sessions, Commit(s)
  PROVE  IInv'
<1> PICK t \in Tx : t = tx[s] /\ TxInv(t)
  BY DEF Commit, IInv, TxTypeOK, TxsInv
<1> PICK row : row = IF Killed(t) THEN [t.order EXCEPT !.status = "cancelled"] ELSE t.order
  OBVIOUS
<1> DEFINE taken(i) == {f \in t.takes : f.maker = i}
<1>1. /\ s \in DOMAIN tx /\ t.phase = "matching" /\ DropTx(s)
      /\ UNCHANGED <<matches, nextId, worker>>
      /\ fills' = fills \cup t.takes
      /\ orders' =
           [i \in DOMAIN orders \cup {t.id} |->
              IF i = t.id THEN row
              ELSE IF taken(i) # {}
              THEN [orders[i] EXCEPT
                      !.matched = @ + (CHOOSE f \in taken(i) : TRUE).stake]
              ELSE orders[i]]
      /\ wallets' = [wallets EXCEPT
           ![t.order.user].reserved = @ + Exposure(t.order, Kept(t))]
      /\ seen' = [i \in DOMAIN seen \cup {t.id} |->
                    IF i = t.id THEN t.seen ELSE seen[i]]
  BY DEF Commit
<1>2. t.id \in OrderIds /\ t.id < nextId /\ t.id \notin DOMAIN orders
  BY <1>1 DEF TxInv, Busy
<1>3. /\ row \in Order /\ row.user = t.order.user /\ row.match = t.order.match
      /\ row.selection = t.order.selection /\ row.side = t.order.side
      /\ row.odds = t.order.odds /\ row.stake = t.order.stake
      /\ row.matched = t.order.matched
  <2>1. t.order \in Order
    BY DEF Tx
  <2> QED
    BY <2>1 DEF Order
<1>4. /\ DOMAIN orders' = DOMAIN orders \cup {t.id}
      /\ orders'[t.id] = row
  BY <1>1
\* An older row keeps all but its matched stake.
<1>5. ASSUME NEW i \in DOMAIN orders
      PROVE  /\ orders'[i] \in Order
             /\ orders'[i].user = orders[i].user /\ orders'[i].match = orders[i].match
             /\ orders'[i].selection = orders[i].selection
             /\ orders'[i].side = orders[i].side /\ orders'[i].odds = orders[i].odds
             /\ orders'[i].stake = orders[i].stake
             /\ orders'[i].matched <= orders'[i].stake
             /\ i \notin t.locks => orders'[i] = orders[i]
  <2>1. orders[i] \in Order /\ orders[i].matched <= orders[i].stake
    BY DEF IInv, OrdersTypeOK, OrdersInv
  <2>2. CASE taken(i) = {}
    <3>1. orders'[i] = orders[i]
      BY <1>1, <1>2, <2>2
    <3> QED
      BY <2>1, <3>1
  <2>3. CASE taken(i) # {}
    <3> PICK g : g = CHOOSE f \in taken(i) : TRUE
      OBVIOUS
    <3>1. g \in t.takes /\ g.maker = i
      BY <2>3
    <3>2. g \in Fill /\ g.stake <= Unmatched(orders[i]) /\ i \in t.locks
      BY <3>1 DEF TxInv, TakeInv, Tx
    <3> PICK o \in Order : o = orders[i]
      BY <2>1
    <3> PICK n \in Nat : n = g.stake
      BY <3>2 DEF Fill
    <3>4. o.matched \in Nat /\ o.stake \in Nat /\ n <= o.stake - o.matched
      BY <3>2 DEF Order, Unmatched
    <3>3. orders'[i] = [orders[i] EXCEPT !.matched = @ + n]
      BY <1>1, <1>2, <2>3
    <3> QED
      BY <2>1, <3>2, <3>3, <3>4 DEF Order
  <2> QED
    BY <2>2, <2>3
<1> HIDE DEF taken
<1>6. /\ DOMAIN tx' = DOMAIN tx \ {s}
      /\ \A r \in DOMAIN tx' : tx'[r] = tx[r]
  BY <1>1, DropTxFacts
<1>7. TxTypeOK' /\ OrdersTypeOK'
  <2>1. DOMAIN seen' = DOMAIN orders'
    BY <1>1, <1>4 DEF IInv, OrdersTypeOK
  <2>2. \A i \in DOMAIN orders' : orders'[i] \in Order
    BY <1>3, <1>4, <1>5
  <2> QED
    BY <1>2, <1>4, <1>6, <2>1, <2>2 DEF IInv, TxTypeOK, OrdersTypeOK
<1>8. OrdersInv'
  <2>1. row.odds > 1 /\ row.odds <= MaxOdds /\ row.matched <= row.stake
    BY <1>3 DEF TxInv
  <2>2. ASSUME NEW i \in DOMAIN orders
        PROVE  i < nextId' /\ orders'[i].odds > 1 /\ orders'[i].odds <= MaxOdds /\ orders'[i].matched <= orders'[i].stake
    BY <1>1, <1>5 DEF IInv, OrdersInv
  <2> QED
    BY <1>1, <1>2, <1>4, <2>1, <2>2 DEF OrdersInv
<1>9. LifecycleOK'
  BY <1>1, <1>4 DEF IInv, LifecycleOK
<1>10. LocksInv'
  BY <1>6 DEF IInv, LocksInv
\* The transactions that go on hold none of the rows this one wrote.
<1>11. TxsInv'
  <2> SUFFICES ASSUME NEW r \in DOMAIN tx \ {s} PROVE TxInv(tx[r])'
    BY <1>6 DEF TxsInv
  <2> PICK q \in Tx : q = tx[r] /\ TxInv(q)
    BY DEF IInv, TxTypeOK, TxsInv
  <2>1. q.locks \cap t.locks = {} /\ (q.phase \in Busy => q.id # t.id)
    BY <1>1 DEF IInv, LocksInv, Busy
  <2>2. \A i \in DOMAIN orders : MayTrade(q.order, i) => MayTrade(q.order, i)'
    BY <1>5 DEF MayTrade, SameMarket, Acceptable
  <2>3. \A i \in q.locks : orders'[i] = orders[i] /\ i \in DOMAIN orders
    BY <1>5, <2>1 DEF TxInv
  <2>4. \A f : TakeInv(q, f) => TakeInv(q, f)'
    BY <2>2, <2>3 DEF TakeInv, Unmatched
  <2>5. TxInv(q)'
    BY <1>1, <1>4, <2>1, <2>2, <2>4 DEF TxInv
  <2> QED
    BY <1>6, <2>5
<1>12. FillsInv'
  <2> SUFFICES ASSUME NEW f \in fills'
               PROVE  /\ f.taker \in DOMAIN orders' /\ f.maker \in DOMAIN orders'
                      /\ f.odds = orders'[f.maker].odds
                      /\ orders'[BackOrder(f)'].odds <= f.odds
                      /\ f.odds <= orders'[LayOrder(f)'].odds
                      /\ orders'[f.taker].side # orders'[f.maker].side
                      /\ orders'[f.taker].user # orders'[f.maker].user
                      /\ SameMarket(orders'[f.taker], orders'[f.maker])
    BY DEF FillsInv, PriceProtection
  <2>1. CASE f \in fills
    <3>1. f.taker \in DOMAIN orders /\ f.maker \in DOMAIN orders
      BY <2>1 DEF IInv, FillsInv
    <3>2. BackOrder(f)' = BackOrder(f) /\ LayOrder(f)' = LayOrder(f)
      BY <3>1, <1>5 DEF BackOrder, LayOrder
    <3>3. BackOrder(f) \in DOMAIN orders /\ LayOrder(f) \in DOMAIN orders
      BY <3>1 DEF BackOrder, LayOrder
    <3>4. /\ f.odds = orders[f.maker].odds
          /\ orders[BackOrder(f)].odds <= f.odds
          /\ f.odds <= orders[LayOrder(f)].odds
          /\ orders[f.taker].side # orders[f.maker].side
          /\ orders[f.taker].user # orders[f.maker].user
          /\ SameMarket(orders[f.taker], orders[f.maker])
      BY <2>1 DEF IInv, FillsInv, PriceProtection
    <3> QED
      BY <1>4, <1>5, <3>1, <3>2, <3>3, <3>4 DEF SameMarket
  <2>2. CASE f \in t.takes
    <3>1. /\ f.taker = t.id /\ f.maker \in DOMAIN orders
          /\ MayTrade(t.order, f.maker) /\ f.odds = orders[f.maker].odds
      BY <2>2 DEF TxInv, TakeInv
    <3>2. /\ orders[f.maker].side = Opposite(t.order.side)
          /\ orders[f.maker].user # t.order.user
          /\ SameMarket(orders[f.maker], t.order)
          /\ Acceptable(t.order, orders[f.maker])
      BY <3>1 DEF MayTrade
    <3> PICK m \in Order : /\ m = orders[f.maker] /\ m.side = Opposite(t.order.side)
                           /\ Acceptable(t.order, m)
      BY <3>1, <3>2 DEF IInv, OrdersTypeOK
    <3>3. orders'[f.taker] = row /\ f.maker # t.id /\ f.taker # f.maker
      BY <1>2, <1>4, <3>1
    <3>4. t.order.side \in Sides /\ t.order.odds \in Nat /\ m.odds \in Nat
      BY DEF Tx, Order
    <3>5. /\ orders'[f.maker].odds = m.odds /\ orders'[f.maker].side = m.side
          /\ orders'[f.maker].user = m.user /\ orders'[f.maker].match = m.match
          /\ orders'[f.maker].selection = m.selection
      BY <1>5, <3>1
    <3>8. /\ SameMarket(orders'[f.taker], orders'[f.maker])
          /\ orders'[f.taker].user # orders'[f.maker].user
          /\ f.odds = m.odds
      BY <1>3, <3>1, <3>2, <3>3, <3>5 DEF SameMarket
    <3>6. CASE t.order.side = "back"
      <4>1. BackOrder(f)' = f.taker /\ LayOrder(f)' = f.maker /\ m.odds >= t.order.odds
            /\ m.side = "lay"
        BY <1>3, <3>3, <3>6 DEF BackOrder, LayOrder, Acceptable, Opposite
      <4>2. f.taker \in DOMAIN orders' /\ f.maker \in DOMAIN orders'
        BY <1>4, <3>1
      <4>3. f.odds = orders'[f.maker].odds
        BY <3>5, <3>8
      <4>4. orders'[BackOrder(f)'].odds <= f.odds /\ f.odds <= orders'[LayOrder(f)'].odds
        <5> PICK x \in Nat, y \in Nat : x = t.order.odds /\ y = m.odds
          BY <3>4
        <5>1. orders'[f.taker].odds = x /\ orders'[f.maker].odds = y /\ f.odds = y
          BY <1>3, <3>3, <3>5, <3>8
        <5>2. orders'[BackOrder(f)'].odds = x /\ orders'[LayOrder(f)'].odds = y /\ x <= y
          BY <4>1, <5>1
        <5> QED
          BY <5>1, <5>2
      <4>5. orders'[f.taker].side # orders'[f.maker].side
        BY <1>3, <3>3, <3>5, <3>6, <4>1
      <4> QED
        BY <3>8, <4>2, <4>3, <4>4, <4>5
    <3>7. CASE t.order.side = "lay"
      <4>1. BackOrder(f)' = f.maker /\ LayOrder(f)' = f.taker /\ m.odds <= t.order.odds
            /\ m.side = "back"
        BY <1>3, <3>3, <3>7 DEF BackOrder, LayOrder, Acceptable, Opposite
      <4>2. f.taker \in DOMAIN orders' /\ f.maker \in DOMAIN orders'
        BY <1>4, <3>1
      <4>3. f.odds = orders'[f.maker].odds
        BY <3>5, <3>8
      <4>4. orders'[BackOrder(f)'].odds <= f.odds /\ f.odds <= orders'[LayOrder(f)'].odds
        <5> PICK x \in Nat, y \in Nat : x = t.order.odds /\ y = m.odds
          BY <3>4
        <5>1. orders'[f.taker].odds = x /\ orders'[f.maker].odds = y /\ f.odds = y
          BY <1>3, <3>3, <3>5, <3>8
        <5>2. orders'[BackOrder(f)'].odds = y /\ orders'[LayOrder(f)'].odds = x /\ y <= x
          BY <4>1, <5>1
        <5> QED
          BY <5>1, <5>2
      <4>5. orders'[f.taker].side # orders'[f.maker].side
        BY <1>3, <3>3, <3>5, <3>7, <4>1
      <4> QED
        BY <3>8, <4>2, <4>3, <4>4, <4>5
    <3> QED
      BY <3>4, <3>6, <3>7 DEF Sides
  <2> QED
    BY <1>1, <2>1, <2>2
\* The reservation written is at most what was still available for it.
<1>13. FundsTypeOK' /\ FundsInv'
  <2> PICK v \in Users : v = t.order.user
    BY DEF Tx, Order
  <2>1. t.order \in Order /\ t.order.odds > 1 /\ t.order.matched <= t.order.stake
    BY DEF Tx, TxInv
  <2>2. Kept(t) \in Nat /\ Kept(t) <= t.order.stake
    BY <2>1 DEF Kept, Order
  <2> PICK e \in Nat : /\ e = Exposure(t.order, Kept(t))
                       /\ e <= Exposure(t.order, t.order.stake)
    BY <2>1, <2>2, ExposureBounds DEF Order
  <2>3. Exposure(t.order, t.order.stake) \in Nat
    BY <2>1, ExposureBounds DEF Order
  <2>4. 2 * (Exposure(t.order, t.order.stake) - Available(v)) < MaxOdds
    BY <1>1 DEF IInv, FundsInv, Busy, Affords
  <2>5. wallets \in [Users -> [balance: Int, reserved: Int]]
    BY DEF IInv, FundsTypeOK
  <2>6. wallets' = [wallets EXCEPT ![v].reserved = @ + e]
    BY <1>1
  <2>7. wallets' \in [Users -> [balance: Int, reserved: Int]]
    BY <2>5, <2>6
  <2>8. t.takes \subseteq Fill
    BY DEF Tx
  <2>9. FundsTypeOK'
    BY <1>1, <2>7, <2>8 DEF IInv, FundsTypeOK
  <2>10. /\ wallets'[v].balance = wallets[v].balance
         /\ wallets'[v].reserved = wallets[v].reserved + e
         /\ \A u \in Users \ {v} : wallets'[u] = wallets[u]
    BY <2>5, <2>6
  <2>11. 2 * (e - Available(v)) < MaxOdds /\ Available(v) \in Int
    <3>1. Available(v) \in Int
      BY <2>5 DEF Available
    <3> QED
      BY <2>3, <2>4, <3>1, MaxOddsNat
  <2>12. Solvent'
    <3>1. 2 * (wallets'[v].reserved - wallets'[v].balance) < MaxOdds
      BY <2>5, <2>10, <2>11, MaxOddsNat DEF Available
    <3> QED
      BY <2>10, <3>1 DEF IInv, FundsInv, Solvent
  <2>13. ASSUME NEW r \in DOMAIN tx', tx'[r].phase \in Busy
         PROVE  Affords(tx[r].order)'
    <3> PICK q : q = tx[r]
      OBVIOUS
    <3>3. q = tx'[r] /\ r \in DOMAIN tx \ {s} /\ q \in Tx
      BY <1>6, <2>13 DEF IInv, TxTypeOK
    <3>1. q.order.user # v /\ q.order.user \in Users
      <4>1. q.order.user \in Users
        BY <3>3 DEF Tx, Order
      <4>2. q.phase \in Busy /\ tx[s].phase \in Busy /\ r # s
        BY <1>1, <2>13, <3>3 DEF Busy
      <4>3. q.order.user # tx[s].order.user
        BY <1>1, <3>3, <4>2 DEF IInv, LocksInv
      <4> QED
        BY <4>1, <4>3
    <3>2. Affords(q.order)
      BY <2>13, <3>3 DEF IInv, FundsInv
    <3>4. Available(q.order.user)' = Available(q.order.user)
      BY <2>10, <3>1, <3>3 DEF Available
    <3> QED
      BY <3>2, <3>3, <3>4 DEF Affords, Exposure, ExposureRate
  <2> QED
    BY <2>9, <2>12, <2>13 DEF FundsInv
<1> QED
  BY <1>7, <1>8, <1>9, <1>10, <1>11, <1>12, <1>13 DEF IInv

-----------------------------------------------------------------------------
(* The lifecycle of matches and of settlements *)

LEMMA StartSettlementType ==
  ASSUME LifecycleOK, NEW w \in Workers, NEW m \in Matches, NEW status \in Statuses,
         NEW result \in Results \cup {NoResult}, StartSettlement(w, m, status, result),
         matches' \in [Matches -> [status: Statuses, result: Results \cup {NoResult}]],
         orders' = orders
  PROVE  LifecycleOK'
<1> PICK r : r = [phase |-> "captured", match |-> m, status |-> status,
                  result |-> result, pending |-> {}, open |-> {}]
  OBVIOUS
<1>1. r \in Settlement /\ r.open = {}
  BY DEF Settlement
<1>2. /\ DOMAIN worker' = DOMAIN worker \cup {w}
      /\ worker'[w] = r
      /\ \A v \in DOMAIN worker \ {w} : worker'[v] = worker[v]
  BY DEF StartSettlement
<1> QED
  BY <1>1, <1>2 DEF LifecycleOK

LEMMA StopWorkerType ==
  ASSUME LifecycleOK, NEW w, StopWorker(w), matches' = matches, orders' = orders
  PROVE  LifecycleOK'
BY DEF LifecycleOK, StopWorker

LEMMA MatchWritten ==
  ASSUME LifecycleOK, NEW m \in Matches, NEW r \in [status: Statuses, result: Results \cup {NoResult}],
         matches' = [matches EXCEPT ![m] = r]
  PROVE  matches' \in [Matches -> [status: Statuses, result: Results \cup {NoResult}]]
BY DEF LifecycleOK

LEMMA StatusWritten ==
  ASSUME LifecycleOK, NEW m \in Matches, NEW status \in Statuses,
         matches' = [matches EXCEPT ![m].status = status]
  PROVE  matches' \in [Matches -> [status: Statuses, result: Results \cup {NoResult}]]
BY DEF LifecycleOK

\* A match's status changes and nothing else does.
LEMMA StatusStepIInv ==
  ASSUME IInv, ConstantsAssumption, NEW m \in Matches,
         MarkLive(m) \/ EditStatus(m) \/ FinishUnscored(m)
  PROVE  IInv'
<1>1. UNCHANGED <<Rows, tx, worker>>
  BY DEF MarkLive, EditStatus, FinishUnscored, Rows
<1>2. matches \in [Matches -> [status: Statuses, result: Results \cup {NoResult}]]
  BY DEF IInv, LifecycleOK
<1>3. matches' \in [Matches -> [status: Statuses, result: Results \cup {NoResult}]]
  <2>1. CASE MarkLive(m) \/ EditStatus(m)
    <3>1. \E status \in Statuses : matches' = [matches EXCEPT ![m].status = status]
      BY <2>1 DEF MarkLive, EditStatus, Statuses, ConstantsAssumption
    <3> QED
      BY <3>1, StatusWritten DEF IInv
  <2>2. CASE FinishUnscored(m)
    BY <1>2, <2>2 DEF FinishUnscored, Statuses
  <2> QED
    BY <2>1, <2>2
<1>4. LifecycleOK'
  BY <1>1, <1>3 DEF IInv, LifecycleOK, Rows
<1> QED
  BY <1>1, <1>4, RowsAndTxUnchanged

\* A settlement starts.
LEMMA StartIInv ==
  ASSUME IInv, NEW w \in Workers, NEW m \in Matches,
         \/ \E r \in Results : FinishMatch(w, m, r)
         \/ CancelMatch(w, m)
         \/ SettleTask(w, m)
  PROVE  IInv'
<1>1. UNCHANGED <<Rows, tx, orders>>
  BY DEF FinishMatch, CancelMatch, SettleTask, Rows
<1>2. matches[m].result \in Results \cup {NoResult}
  BY DEF IInv, LifecycleOK
<1>3. CASE \E r \in Results : FinishMatch(w, m, r)
  <2> PICK r \in Results : FinishMatch(w, m, r)
    BY <1>3
  <2> PICK x : x = [status |-> "finished", result |-> r]
    OBVIOUS
  <2>1. x \in [status: Statuses, result: Results \cup {NoResult}] /\ "finished" \in Statuses
    BY DEF Statuses
  <2>2. matches' = [matches EXCEPT ![m] = x] /\ StartSettlement(w, m, "finished", r)
    BY DEF FinishMatch
  <2>3. matches' \in [Matches -> [status: Statuses, result: Results \cup {NoResult}]]
    BY <2>1, <2>2, MatchWritten DEF IInv
  <2>4. LifecycleOK'
    BY <1>1, <2>1, <2>2, <2>3, StartSettlementType DEF IInv
  <2> QED
    BY <1>1, <2>4, RowsAndTxUnchanged
<1>4. CASE CancelMatch(w, m)
  <2>1. /\ matches' = [matches EXCEPT ![m].status = "cancelled"]
        /\ StartSettlement(w, m, "cancelled", matches[m].result)
        /\ "cancelled" \in Statuses
    BY <1>4 DEF CancelMatch, Statuses
  <2>2. matches' \in [Matches -> [status: Statuses, result: Results \cup {NoResult}]]
    BY <2>1, StatusWritten DEF IInv
  <2>3. LifecycleOK'
    BY <1>1, <1>2, <2>1, <2>2, StartSettlementType DEF IInv
  <2> QED
    BY <1>1, <2>3, RowsAndTxUnchanged
<1>5. CASE SettleTask(w, m)
  <2>1. /\ matches' = matches
        /\ StartSettlement(w, m, "finished", matches[m].result)
        /\ "finished" \in Statuses
    BY <1>5 DEF SettleTask, Statuses
  <2>2. LifecycleOK'
    BY <1>1, <1>2, <2>1, StartSettlementType DEF IInv, LifecycleOK
  <2> QED
    BY <1>1, <2>2, RowsAndTxUnchanged
<1> QED
  BY <1>3, <1>4, <1>5

\* A settlement reads the rows it will close.
LEMMA ListIInv ==
  ASSUME IInv, NEW w \in Workers, ListFills(w) \/ ListOrders(w)
  PROVE  IInv'
<1>1. w \in DOMAIN worker /\ UNCHANGED <<Rows, tx, matches, orders>>
  BY DEF ListFills, ListOrders, Rows
<1>2. worker[w] \in Settlement /\ worker[w].open \subseteq DOMAIN orders
  BY <1>1 DEF IInv, LifecycleOK
<1>3. \E r \in Settlement : r.open \subseteq DOMAIN orders /\ PutWorker(w, r)
  <2>1. CASE ListFills(w)
    <3> PICK keys : keys = {Key(f) : f \in {f \in fills : /\ f.status = "pending"
                                           /\ orders[f.taker].match = worker[w].match}}
      OBVIOUS
    <3> PICK r : r = [worker[w] EXCEPT !.phase = "fills", !.pending = keys]
      OBVIOUS
    <3>1. keys \in SUBSET Keys
      BY DEF Key, Keys, IInv, FundsTypeOK, Fill
    <3>2. r \in Settlement /\ r.open \subseteq DOMAIN orders
      BY <1>2, <3>1 DEF Settlement
    <3> QED
      BY <2>1, <3>2 DEF ListFills
  <2>2. CASE ListOrders(w)
    <3> PICK open : open = {i \in DOMAIN orders : /\ orders[i].status = "open"
                                                  /\ orders[i].match = worker[w].match}
      OBVIOUS
    <3> PICK r : r = [worker[w] EXCEPT !.phase = "orders", !.open = open]
      OBVIOUS
    <3>1. open \in SUBSET OrderIds /\ open \subseteq DOMAIN orders
      BY DEF IInv, OrdersTypeOK
    <3>2. r \in Settlement /\ r.open \subseteq DOMAIN orders
      BY <1>2, <3>1 DEF Settlement
    <3> QED
      BY <2>2, <3>2 DEF ListOrders
  <2> QED
    BY <2>1, <2>2
<1>4. LifecycleOK'
  <2> PICK r \in Settlement : r.open \subseteq DOMAIN orders /\ PutWorker(w, r)
    BY <1>3
  <2> QED
    BY <1>1, PutWorkerType DEF IInv
<1> QED
  BY <1>1, <1>4, RowsAndTxUnchanged

LEMMA StopIInv ==
  ASSUME IInv, NEW w \in Workers, FinishSettlement(w) \/ Crash(w)
  PROVE  IInv'
<1>1. UNCHANGED <<Rows, tx, matches, orders>> /\ StopWorker(w)
  BY DEF FinishSettlement, Crash, Rows
<1>2. LifecycleOK'
  BY <1>1, StopWorkerType DEF IInv
<1> QED
  BY <1>1, <1>2, RowsAndTxUnchanged

LEMMA DropIInv ==
  ASSUME IInv, NEW s \in Sessions, PlaceReject(s) \/ Abort(s) \/ CashOutGiveUp(s)
  PROVE  IInv'
BY TxDropped DEF PlaceReject, Abort, CashOutGiveUp, Rows

-----------------------------------------------------------------------------
(* The theorems *)

LEMMA NextIInv == ConstantsAssumption /\ IInv /\ [Next]_vars => IInv'
<1> SUFFICES ASSUME ConstantsAssumption, IInv, [Next]_vars PROVE IInv'
  OBVIOUS
<1>1. ASSUME NEW s \in Sessions, SessionStep(s) PROVE IInv'
  BY <1>1, PlaceCheckIInv, PlaceReserveIInv, LockBookIInv, MatchNextIInv, CommitIInv,
     DropIInv, CashOutWalkIInv, CashOutReserveIInv DEF SessionStep
<1>2. ASSUME NEW w \in Workers, WorkerStep(w) PROVE IInv'
  BY <1>2, StartIInv, ListIInv, SettleFillIInv, ReleaseOrderIInv, StopIInv DEF WorkerStep
<1>3. ASSUME NEW i \in OrderIds, cancel_order(i) PROVE IInv'
  BY <1>3, CancelOrderIInv
<1>4. ASSUME NEW m \in Matches, MarkLive(m) \/ EditStatus(m) \/ FinishUnscored(m) PROVE IInv'
  BY <1>4, StatusStepIInv
<1>5. CASE UNCHANGED vars
  <2>1. UNCHANGED <<Rows, tx, matches, worker, orders>>
    BY <1>5 DEF vars, Rows
  <2>2. LifecycleOK'
    BY <2>1 DEF IInv, LifecycleOK
  <2> QED
    BY <2>1, <2>2, RowsAndTxUnchanged
<1> QED
  BY <1>1, <1>2, <1>3, <1>4, <1>5 DEF Next

\* The inductive invariant holds of every behaviour of the exchange.
THEOREM Inductive == Spec => []IInv
<1>1. Init => IInv
  BY ConstantsAssumption, InitIInv
<1>2. IInv /\ [Next]_vars => IInv'
  BY ConstantsAssumption, NextIInv
<1> QED
  BY <1>1, <1>2, PTL DEF Spec

\* Every row, transaction record and settlement keeps its type.
THEOREM TypeCorrect == Spec => []TypeOK
<1>1. IInv => TypeOK
  BY DEF IInv, TxTypeOK, OrdersTypeOK, FundsTypeOK, LifecycleOK, TypeOK
<1> QED
  BY <1>1, Inductive, PTL

\* However many users, orders and settlements there are, no wallet ever holds
\* less than it has reserved, but for the half unit per point of odds that
\* capping a cash-out can round up (place_order, cancel_order, cash_out_order,
\* _settle_fill, _void_fill).
THEOREM AlwaysSolvent == Spec => []Solvent
<1>1. IInv => Solvent
  BY DEF IInv, FundsInv
<1> QED
  BY <1>1, Inductive, PTL

\* However takers interleave, every fill is between two users on opposite sides
\* of one market, at the resting price, within both limits (_match_order).
THEOREM PricesProtected == Spec => []PriceProtection
<1>1. IInv => PriceProtection
  BY DEF IInv, FillsInv
<1> QED
  BY <1>1, Inductive, PTL

-----------------------------------------------------------------------------
(* A fill settles once *)

FillKept(f) ==
  \E g \in fills' :
    /\ [f EXCEPT !.status = g.status, !.commission = g.commission] = g
    /\ f.status # "pending" => g = f

LEMMA NextKeepsFills ==
  ASSUME IInv, ConstantsAssumption, Next, NEW f \in fills
  PROVE  FillKept(f)
<1>1. f \in Fill
  BY DEF IInv, FundsTypeOK
<1>2. [f EXCEPT !.status = f.status, !.commission = f.commission] = f
  BY <1>1 DEF Fill
<1>3. ASSUME f \in fills' PROVE FillKept(f)
  BY <1>2, <1>3 DEF FillKept
<1>4. CASE \E w \in Workers : SettleFill(w)
  <2> PICK w \in Workers : SettleFill(w)
    BY <1>4
  <2>1. PICK h \in fills :
          IF AlreadySettled(h) THEN UNCHANGED <<wallets, fills>>
          ELSE IF worker[w].status = "cancelled" THEN void_fill(h)
                  ELSE settle_fill(h, worker[w].result)
    BY DEF SettleFill
  <2>2. CASE AlreadySettled(h) \/ h # f
    <3>1. CASE AlreadySettled(h)
      BY <1>3, <2>1, <3>1
    <3>2. CASE ~AlreadySettled(h) /\ h # f
      <4>1. \E status, commission : Close(h, status, commission)
        BY <2>1, <3>2 DEF void_fill, settle_fill
      <4>2. f \in fills'
        BY <3>2, <4>1 DEF Close
      <4> QED
        BY <1>3, <4>2
    <3> QED
      BY <2>2, <3>1, <3>2
  <2>3. CASE ~AlreadySettled(h) /\ h = f
    <3>1. \E status, commission : Close(f, status, commission)
      BY <2>1, <2>3 DEF void_fill, settle_fill
    <3>2. PICK status, commission : Close(f, status, commission)
      BY <3>1
    <3>3. PICK g : g = [f EXCEPT !.status = status, !.commission = commission]
      OBVIOUS
    <3>4. g \in fills'
      BY <3>2, <3>3 DEF Close
    <3>5. g.status = status /\ g.commission = commission
      BY <1>1, <3>3 DEF Fill
    <3>6. f.status = "pending"
      BY <2>3 DEF AlreadySettled
    <3> QED
      BY <3>3, <3>4, <3>5, <3>6 DEF FillKept
  <2> QED
    BY <2>2, <2>3
<1>5. CASE ~\E w \in Workers : SettleFill(w)
  <2>1. \/ fills' = fills
        \/ \E s \in Sessions : Commit(s)
    <3>1. ASSUME NEW s \in Sessions, SessionStep(s), ~Commit(s) PROVE fills' = fills
      BY <3>1 DEF SessionStep, PlaceCheck, PlaceReserve, Reserve, PlaceReject, LockBook,
                  MatchNext, Abort, CashOutWalk, CashOutReserve, CashOutGiveUp
    <3>2. ASSUME NEW w \in Workers, WorkerStep(w), ~SettleFill(w) PROVE fills' = fills
      BY <3>2 DEF WorkerStep, FinishMatch, CancelMatch, SettleTask, ListFills, ListOrders,
                  ReleaseOrder, FinishSettlement, Crash
    <3>3. ASSUME NEW i \in OrderIds, cancel_order(i) PROVE fills' = fills
      BY <3>3 DEF cancel_order
    <3>4. ASSUME NEW m \in Matches, MarkLive(m) \/ EditStatus(m) \/ FinishUnscored(m) PROVE fills' = fills
      BY <3>4 DEF MarkLive, EditStatus, FinishUnscored
    <3> QED
      BY <1>5, <3>1, <3>2, <3>3, <3>4 DEF Next
  <2>2. f \in fills'
    BY <2>1 DEF Commit
  <2> QED
    BY <1>3, <2>2
<1> QED
  BY <1>4, <1>5

\* However many settlements of a match run, die and run again, and whatever
\* result each of them holds, a fill closes once and keeps its parties, stake
\* and odds (_settle_fill, _void_fill).
THEOREM FillsNeverResettled == Spec => FillsSettleOnce
<1>1. IInv /\ [Next]_vars =>
        [\A f \in fills : \E g \in fills' :
           /\ [f EXCEPT !.status = g.status, !.commission = g.commission] = g
           /\ f.status # "pending" => g = f]_vars
  BY ConstantsAssumption, NextKeepsFills DEF FillKept
<1> QED
  BY <1>1, Inductive, PTL DEF Spec, FillsSettleOnce

-----------------------------------------------------------------------------
(* What a step may do to the rows *)

\* A step that only moves transactions, matches or settlements on.
Quiet == UNCHANGED <<wallets, orders, fills, seen, cashouts>>

\* An open order is closed and what it had left released: cancel_order and the
\* last loop of settle_exchange_for_match.
CloseOrder(i, status) ==
  /\ i \in DOMAIN orders
  /\ status # "open"
  /\ ~RowLocked(i)
  /\ orders[i].status = "open"
  /\ wallets' = [wallets EXCEPT
       ![orders[i].user].reserved = @ - Exposure(orders[i], Unmatched(orders[i]))]
  /\ orders' = [orders EXCEPT ![i].status = status]
  /\ UNCHANGED <<fills, tx, seen, cashouts>>

\* A pending fill is settled or void.
CloseFill(f) ==
  /\ f \in fills
  /\ f.status = "pending"
  /\ void_fill(f) \/ \E result : settle_fill(f, result)
  /\ UNCHANGED <<orders, tx, seen, cashouts>>

LEMMA StepKinds ==
  ASSUME IInv, [Next]_vars
  PROVE  \/ Quiet
         \/ \E s \in Sessions : Commit(s)
         \/ \E i, status : CloseOrder(i, status)
         \/ \E f : CloseFill(f)
<1>1. ASSUME NEW s \in Sessions, SessionStep(s), ~Commit(s) PROVE Quiet
  BY <1>1 DEF SessionStep, PlaceCheck, PlaceReserve, Reserve, PlaceReject, LockBook,
              MatchNext, Abort, CashOutWalk, CashOutReserve, CashOutGiveUp, Quiet
<1>2. ASSUME NEW w \in Workers, WorkerStep(w), ~SettleFill(w), ~ReleaseOrder(w)
      PROVE  Quiet
  BY <1>2 DEF WorkerStep, FinishMatch, CancelMatch, SettleTask, ListFills, ListOrders,
              FinishSettlement, Crash, Quiet
<1>3. ASSUME NEW w \in Workers, SettleFill(w) PROVE Quiet \/ \E f : CloseFill(f)
  <2>1. PICK f \in fills :
          IF AlreadySettled(f) THEN UNCHANGED <<wallets, fills>>
          ELSE IF worker[w].status = "cancelled" THEN void_fill(f)
                  ELSE settle_fill(f, worker[w].result)
    BY <1>3 DEF SettleFill
  <2>2. UNCHANGED <<orders, tx, seen, cashouts>>
    BY <1>3 DEF SettleFill
  <2>3. CASE AlreadySettled(f)
    BY <2>1, <2>2, <2>3 DEF Quiet
  <2>4. CASE ~AlreadySettled(f)
    <3>1. CloseFill(f)
      BY <2>1, <2>2, <2>4, Zenon DEF CloseFill, AlreadySettled
    <3> QED
      BY <3>1
  <2> QED
    BY <2>3, <2>4
<1>4. ASSUME NEW w \in Workers, ReleaseOrder(w)
      PROVE  Quiet \/ \E i, status : CloseOrder(i, status)
  <2>1. /\ UNCHANGED <<fills, tx, seen, cashouts>>
        /\ w \in DOMAIN worker /\ worker[w].open \subseteq DOMAIN orders
    BY <1>4 DEF ReleaseOrder, IInv, LifecycleOK
  <2>2. PICK i \in worker[w].open :
          /\ ~RowLocked(i)
          /\ IF orders[i].status # "open" THEN UNCHANGED <<wallets, orders>>
             ELSE /\ wallets' = [wallets EXCEPT ![orders[i].user].reserved =
                       @ - Exposure(orders[i], Unmatched(orders[i]))]
                  /\ orders' = [orders EXCEPT ![i].status =
                       IF worker[w].status = "cancelled" THEN "void" ELSE "settled"]
    BY <1>4 DEF ReleaseOrder
  <2>3. CASE orders[i].status # "open"
    BY <2>1, <2>2, <2>3 DEF Quiet
  <2>4. CASE orders[i].status = "open"
    <3> DEFINE status == IF worker[w].status = "cancelled" THEN "void" ELSE "settled"
    <3>1. status # "open"
      OBVIOUS
    <3>2. CloseOrder(i, status)
      BY <2>1, <2>2, <2>4, <3>1, Zenon DEF CloseOrder
    <3> QED
      BY <3>2
  <2> QED
    BY <2>3, <2>4
<1>5. ASSUME NEW i \in OrderIds, cancel_order(i) PROVE \E j, status : CloseOrder(j, status)
  <2>1. CloseOrder(i, "cancelled")
    BY <1>5 DEF cancel_order, CloseOrder
  <2> QED
    BY <2>1
<1>6. ASSUME NEW m \in Matches, MarkLive(m) \/ EditStatus(m) \/ FinishUnscored(m)
      PROVE  Quiet
  BY <1>6 DEF MarkLive, EditStatus, FinishUnscored, Quiet
<1>7. CASE UNCHANGED vars
  BY <1>7 DEF vars, Quiet
<1> QED
  BY <1>1, <1>2, <1>3, <1>4, <1>5, <1>6, <1>7 DEF Next

\* A row keeps its terms.
SameTerms(o, p) ==
  /\ p.user = o.user /\ p.match = o.match /\ p.selection = o.selection
  /\ p.side = o.side /\ p.odds = o.odds /\ p.stake = o.stake

\* What a transaction takes of a resting order.
TakeOf(t, i) == {f \in t.takes : f.maker = i}

\* The rows a commit writes: its own, and those it took from.
LEMMA Committed ==
  ASSUME IInv, NEW s \in Sessions, Commit(s)
  PROVE  LET t == tx[s]
         IN  /\ t \in Tx /\ TxInv(t) /\ t.phase = "matching" /\ MatchingOver(t)
             /\ s \in DOMAIN tx /\ DropTx(s)
             /\ t.id \in OrderIds /\ t.id \notin DOMAIN orders
             /\ fills' = fills \cup t.takes
             /\ seen' = [i \in DOMAIN orders \cup {t.id} |->
                           IF i = t.id THEN t.seen ELSE seen[i]]
             /\ wallets' = [wallets EXCEPT
                  ![t.order.user].reserved = @ + Exposure(t.order, Kept(t))]
             /\ DOMAIN orders' = DOMAIN orders \cup {t.id}
             /\ orders'[t.id] \in Order /\ SameTerms(t.order, orders'[t.id])
             /\ orders'[t.id].matched = t.order.matched
             /\ orders'[t.id].status = IF Killed(t) THEN "cancelled" ELSE t.order.status
             /\ \A i \in DOMAIN orders :
                  TakeOf(t, i) = {} => orders'[i] = orders[i]
             /\ \A f \in t.takes :
                  /\ f \in Fill /\ TakeInv(t, f) /\ f.maker \in DOMAIN orders
                  /\ orders'[f.maker] = [orders[f.maker] EXCEPT !.matched = @ + f.stake]
<1> DEFINE t == tx[s]
           row == IF Killed(t) THEN [t.order EXCEPT !.status = "cancelled"] ELSE t.order
           taken(i) == {f \in t.takes : f.maker = i}
<1>1. /\ s \in DOMAIN tx /\ t.phase = "matching" /\ MatchingOver(t) /\ DropTx(s)
      /\ fills' = fills \cup t.takes
      /\ orders' =
           [i \in DOMAIN orders \cup {t.id} |->
              IF i = t.id THEN row
              ELSE IF taken(i) # {}
              THEN [orders[i] EXCEPT
                      !.matched = @ + (CHOOSE f \in taken(i) : TRUE).stake]
              ELSE orders[i]]
      /\ wallets' = [wallets EXCEPT
           ![t.order.user].reserved = @ + Exposure(t.order, Kept(t))]
      /\ seen' = [i \in DOMAIN seen \cup {t.id} |->
                    IF i = t.id THEN t.seen ELSE seen[i]]
  BY DEF Commit
<1>2. t \in Tx /\ TxInv(t) /\ DOMAIN seen = DOMAIN orders
  BY <1>1 DEF IInv, TxTypeOK, TxsInv, OrdersTypeOK
<1>3. t.id \in OrderIds /\ t.id \notin DOMAIN orders
  BY <1>1, <1>2 DEF TxInv, Busy
<1>4. t.order \in Order
  BY <1>2 DEF Tx
<1>5. /\ row \in Order /\ SameTerms(t.order, row) /\ row.matched = t.order.matched
      /\ row.status = IF Killed(t) THEN "cancelled" ELSE t.order.status
  BY <1>4 DEF Order, SameTerms
<1> HIDE DEF row
<1>6. DOMAIN orders' = DOMAIN orders \cup {t.id} /\ orders'[t.id] = row
  BY <1>1
<1>7. \A i \in DOMAIN orders : TakeOf(t, i) = {} => orders'[i] = orders[i]
  BY <1>1, <1>3 DEF TakeOf
<1>8. ASSUME NEW f \in t.takes
      PROVE  /\ f \in Fill /\ TakeInv(t, f) /\ f.maker \in DOMAIN orders
             /\ orders'[f.maker] = [orders[f.maker] EXCEPT !.matched = @ + f.stake]
  <2>1. f \in Fill /\ TakeInv(t, f) /\ f.maker \in DOMAIN orders
    BY <1>2 DEF Tx, TxInv, TakeInv
  <2>2. f \in taken(f.maker) /\ \A g \in taken(f.maker) : g = f
    BY <1>2 DEF TxInv
  <2>3. (CHOOSE g \in taken(f.maker) : TRUE) = f
    BY <2>2
  <2> HIDE DEF taken
  <2>4. orders'[f.maker] = [orders[f.maker] EXCEPT
                              !.matched = @ + (CHOOSE g \in taken(f.maker) : TRUE).stake]
    BY <1>1, <1>3, <2>1, <2>2
  <2> QED
    BY <2>1, <2>3, <2>4
<1> QED
  BY <1>1, <1>2, <1>3, <1>5, <1>6, <1>7, <1>8 DEF row

\* A committed row keeps its terms, is only ever filled further, and does not
\* open again.
Evolved(o, p) ==
  /\ p \in Order /\ SameTerms(o, p) /\ p.matched >= o.matched
  /\ p.status # o.status => o.status = "open"

LEMMA RowsEvolve ==
  ASSUME IInv, IInv', [Next]_vars
  PROVE  \A i \in DOMAIN orders : i \in DOMAIN orders' /\ Evolved(orders[i], orders'[i])
<1>1. \A i \in DOMAIN orders : orders[i] \in Order
  BY DEF IInv, OrdersTypeOK
<1>2. \A i \in DOMAIN orders : Evolved(orders[i], orders[i])
  BY <1>1 DEF Evolved, SameTerms, Order
<1>3. CASE UNCHANGED orders
  BY <1>2, <1>3
<1>4. ASSUME NEW s \in Sessions, Commit(s)
      PROVE  \A i \in DOMAIN orders : i \in DOMAIN orders' /\ Evolved(orders[i], orders'[i])
  <2> DEFINE t == tx[s]
  <2>1. /\ DOMAIN orders' = DOMAIN orders \cup {t.id}
        /\ \A i \in DOMAIN orders : TakeOf(t, i) = {} => orders'[i] = orders[i]
        /\ \A f \in t.takes :
             /\ f \in Fill /\ f.maker \in DOMAIN orders
             /\ orders'[f.maker] = [orders[f.maker] EXCEPT !.matched = @ + f.stake]
    BY <1>4, Committed
  <2>2. ASSUME NEW i \in DOMAIN orders PROVE Evolved(orders[i], orders'[i])
    <3>1. CASE TakeOf(t, i) = {}
      BY <1>2, <2>1, <3>1
    <3>2. ASSUME NEW f \in t.takes, f.maker = i PROVE Evolved(orders[i], orders'[i])
      <4>1. orders'[i] = [orders[i] EXCEPT !.matched = @ + f.stake] /\ f.stake \in Nat
        BY <2>1, <3>2 DEF Fill
      <4> QED
        BY <1>1, <4>1 DEF Evolved, SameTerms, Order
    <3> QED
      BY <3>1, <3>2 DEF TakeOf
  <2> QED
    BY <2>1, <2>2
<1>5. ASSUME NEW j, NEW status, CloseOrder(j, status)
      PROVE  \A i \in DOMAIN orders : i \in DOMAIN orders' /\ Evolved(orders[i], orders'[i])
  <2>1. orders' = [orders EXCEPT ![j].status = status] /\ orders[j].status = "open"
    BY <1>5 DEF CloseOrder
  <2>2. DOMAIN orders' = DOMAIN orders /\ \A i \in DOMAIN orders' : orders'[i] \in Order
    BY <2>1 DEF IInv, OrdersTypeOK
  <2>3. ASSUME NEW i \in DOMAIN orders PROVE Evolved(orders[i], orders'[i])
    BY <1>1, <1>2, <2>1, <2>2 DEF Evolved, SameTerms, Order
  <2> QED
    BY <2>2, <2>3
<1> QED
  BY <1>3, <1>4, <1>5, StepKinds DEF Quiet, CloseFill

\* A row stays as it is while a transaction holds its lock.
LEMMA LockedStays ==
  ASSUME IInv, [Next]_vars, NEW s \in DOMAIN tx, s \in DOMAIN tx', NEW i \in tx[s].locks
  PROVE  i \in DOMAIN orders /\ orders'[i] = orders[i]
<1>1. i \in DOMAIN orders
  BY DEF IInv, TxsInv, TxInv
<1>2. ASSUME NEW r \in Sessions, Commit(r) PROVE orders'[i] = orders[i]
  <2>1. /\ r \in DOMAIN tx /\ DropTx(r)
        /\ \A f \in tx[r].takes : TakeInv(tx[r], f)
        /\ TakeOf(tx[r], i) = {} => orders'[i] = orders[i]
    BY <1>1, <1>2, Committed
  <2>2. r # s
    BY <2>1, DropTxFacts
  <2>3. i \notin tx[r].locks
    BY <2>1, <2>2 DEF IInv, LocksInv
  <2>4. TakeOf(tx[r], i) = {}
    BY <2>1, <2>3 DEF TakeOf, TakeInv
  <2> QED
    BY <2>1, <2>4
<1>3. ASSUME NEW j, NEW status, CloseOrder(j, status) PROVE orders'[i] = orders[i]
  BY <1>1, <1>3 DEF CloseOrder, RowLocked
<1> QED
  BY <1>1, <1>2, <1>3, StepKinds DEF Quiet, CloseFill

-----------------------------------------------------------------------------
(* What a step may do to a transaction in flight *)

LEMMA TxMoves ==
  ASSUME [Next]_vars, NEW s \in DOMAIN tx'
  PROVE  \/ s \in DOMAIN tx /\ tx'[s] = tx[s]
         \/ /\ Quiet
            /\ \/ PlaceCheck(s) \/ PlaceReserve(s) \/ CashOutReserve(s)
               \/ LockBook(s) \/ MatchNext(s)
               \/ \E i \in OrderIds : CashOutWalk(s, i)
<1>1. ASSUME NEW r \in Sessions, NEW t, PutTx(r, t), r # s
      PROVE  s \in DOMAIN tx /\ tx'[s] = tx[s]
  <2>1. DOMAIN tx' = DOMAIN tx \cup {r} /\ \A q \in DOMAIN tx \ {r} : tx'[q] = tx[q]
    BY <1>1, PutTxFacts
  <2>2. s \in DOMAIN tx \ {r}
    BY <1>1, <2>1
  <2> QED
    BY <2>1, <2>2
<1>2. ASSUME NEW r \in Sessions, DropTx(r) PROVE s \in DOMAIN tx /\ tx'[s] = tx[s]
  BY <1>2, DropTxFacts
<1>3. ASSUME UNCHANGED tx PROVE s \in DOMAIN tx /\ tx'[s] = tx[s]
  BY <1>3
<1>4. ASSUME NEW r \in Sessions, SessionStep(r), r # s
      PROVE  s \in DOMAIN tx /\ tx'[s] = tx[s]
  <2>1. (\E t : PutTx(r, t)) \/ DropTx(r)
    BY <1>4 DEF SessionStep, PlaceCheck, PlaceReserve, Reserve, PlaceReject, LockBook,
                MatchNext, Commit, Abort, CashOutWalk, CashOutReserve, CashOutGiveUp
  <2> QED
    BY <1>1, <1>2, <1>4, <2>1
<1>5. ASSUME s \in Sessions, SessionStep(s)
      PROVE  \/ s \in DOMAIN tx /\ tx'[s] = tx[s]
             \/ /\ Quiet
                /\ \/ PlaceCheck(s) \/ PlaceReserve(s) \/ CashOutReserve(s)
                   \/ LockBook(s) \/ MatchNext(s)
                   \/ \E i \in OrderIds : CashOutWalk(s, i)
  <2>1. CASE PlaceReject(s) \/ Commit(s) \/ Abort(s) \/ CashOutGiveUp(s)
    BY <1>2, <1>5, <2>1 DEF PlaceReject, Commit, Abort, CashOutGiveUp
  <2>2. CASE \/ PlaceCheck(s) \/ PlaceReserve(s) \/ CashOutReserve(s)
             \/ LockBook(s) \/ MatchNext(s)
             \/ \E i \in OrderIds : CashOutWalk(s, i)
    <3>1. Quiet
      BY <2>2 DEF PlaceCheck, PlaceReserve, CashOutReserve, Reserve, LockBook,
                  MatchNext, CashOutWalk, Quiet
    <3> QED
      BY <2>2, <3>1
  <2> QED
    BY <1>5, <2>1, <2>2 DEF SessionStep
<1>6. ASSUME NEW w \in Workers, WorkerStep(w) PROVE UNCHANGED tx
  BY <1>6 DEF WorkerStep, FinishMatch, CancelMatch, SettleTask, ListFills, SettleFill,
              ListOrders, ReleaseOrder, FinishSettlement, Crash
<1>7. ASSUME NEW i \in OrderIds, cancel_order(i) PROVE UNCHANGED tx
  BY <1>7 DEF cancel_order
<1>8. ASSUME NEW m \in Matches, MarkLive(m) \/ EditStatus(m) \/ FinishUnscored(m)
      PROVE  UNCHANGED tx
  BY <1>8 DEF MarkLive, EditStatus, FinishUnscored
<1>9. CASE UNCHANGED vars
  BY <1>3, <1>9 DEF vars
<1> QED
  BY <1>3, <1>4, <1>5, <1>6, <1>7, <1>8, <1>9 DEF Next

\* What of a transaction record no step after the walk writes.
SameWalk(t, t0) ==
  /\ t.origin = t0.origin /\ t.covered = t0.covered /\ t.walked = t0.walked

LEMMA NewChecked ==
  ASSUME NEW s, PlaceCheck(s)
  PROVE  /\ tx'[s].phase = "checked" /\ tx'[s].order.status = "open"
         /\ tx'[s].order.matched = 0
         /\ tx'[s].takes = {} /\ tx'[s].seen = {} /\ tx'[s].locks = {}
         /\ tx'[s].walked = {} /\ tx'[s].origin = 0 /\ tx'[s].covered = {}
         /\ tx'[s].book = {} /\ tx'[s].reached = FALSE
<1>1. PICK r \in Requests :
        PutTx(s, NewTx("checked", NewOrder(r.user, r.match, r.selection,
                                           r.side, r.odds, r.stake)))
  BY DEF PlaceCheck
<1>2. tx'[s] = NewTx("checked", NewOrder(r.user, r.match, r.selection,
                                         r.side, r.odds, r.stake))
  BY <1>1, PutTxFacts
<1> QED
  BY <1>2 DEF NewTx, NewOrder

\* The record a cash-out starts with: the order and its counterparties are
\* locked, the leg is sized on the walk.
Leg(o) == NewOrder(o.user, o.match, o.selection, Opposite(o.side), 2, 0)

LEMMA NewWalked ==
  ASSUME IInv, NEW s \in Sessions, NEW i \in OrderIds, CashOutWalk(s, i)
  PROVE  /\ i \in DOMAIN orders /\ orders[i] \in Order /\ orders[i].status = "open"
         /\ matches[orders[i].match].status \in OpenStatuses
         /\ tx'[s].phase = "walked" /\ tx'[s].takes = {} /\ tx'[s].seen = {}
         /\ tx'[s].book = {}
         /\ tx'[s].locks = {i} \cup Counterparties(Leg(orders[i]))
         /\ tx'[s].origin = i /\ tx'[s].walked = Counterparties(Leg(orders[i]))
         /\ tx'[s].covered = {Key(f) : f \in PendingFillsOf(i)}
         /\ \E last \in tx'[s].walked, side \in {Opposite(orders[i].side)},
               target \in {CashOutTarget(i)}, stake \in Nat :
              /\ WalkEndsAt(side, tx'[s].walked, target, last)
              /\ stake = WalkStake(side, tx'[s].walked, target, last)
              /\ tx'[s].reached = Covers(side, tx'[s].walked, target, last)
              /\ tx'[s].order.odds = orders[last].odds /\ tx'[s].order.stake = stake
         /\ tx'[s].order \in Order /\ tx'[s].order.user = orders[i].user
         /\ tx'[s].order.match = orders[i].match
         /\ tx'[s].order.selection = orders[i].selection
         /\ tx'[s].order.side = Opposite(orders[i].side)
         /\ tx'[s].order.status = "open" /\ tx'[s].order.matched = 0
<1> DEFINE o      == orders[i]
           side   == Opposite(o.side)
           leg    == NewOrder(o.user, o.match, o.selection, side, 2, 0)
<1>1. PICK rows : rows = Counterparties(leg)
  OBVIOUS
<1>2. PICK target : target = CashOutTarget(i)
  OBVIOUS
<1>3. PICK covered : covered = {Key(f) : f \in PendingFillsOf(i)}
  OBVIOUS
<1>4. /\ i \in DOMAIN orders /\ o.status = "open"
      /\ matches[o.match].status \in OpenStatuses
      /\ \E last \in rows :
           /\ WalkEndsAt(side, rows, target, last)
           /\ WalkStake(side, rows, target, last) \in 0 .. MaxStake
           /\ PutTx(s, [NewTx("walked",
                  [leg EXCEPT !.odds = orders[last].odds,
                              !.stake = WalkStake(side, rows, target, last)])
                EXCEPT !.locks = {i} \cup rows, !.origin = i, !.covered = covered,
                       !.walked = rows,
                       !.reached = Covers(side, rows, target, last)])
  BY <1>1, <1>2, <1>3, ZenonT(40) DEF CashOutWalk
<1>5. o \in Order
  BY <1>4 DEF IInv, OrdersTypeOK
<1>6. /\ leg \in Order /\ leg.user = o.user /\ leg.match = o.match /\ leg.matched = 0
      /\ leg.selection = o.selection /\ leg.side = side /\ leg.status = "open"
  BY <1>5, NewOrderType DEF NewOrder, Order, Opposite, Sides
<1> HIDE DEF leg, side
<1>7. PICK last \in rows :
           /\ WalkEndsAt(side, rows, target, last)
           /\ WalkStake(side, rows, target, last) \in 0 .. MaxStake
           /\ PutTx(s, [NewTx("walked",
                  [leg EXCEPT !.odds = orders[last].odds,
                              !.stake = WalkStake(side, rows, target, last)])
                EXCEPT !.locks = {i} \cup rows, !.origin = i, !.covered = covered,
                       !.walked = rows,
                       !.reached = Covers(side, rows, target, last)])
  BY <1>4
<1>8. PICK stake \in Nat : stake = WalkStake(side, rows, target, last)
  BY <1>7
<1>9. orders[last].odds \in Nat
  BY <1>1, <1>7 DEF Counterparties, IInv, OrdersTypeOK, Order
<1>10. PICK n : n = [leg EXCEPT !.odds = orders[last].odds, !.stake = stake]
  OBVIOUS
<1>11. /\ n \in Order /\ n.user = o.user /\ n.match = o.match /\ n.matched = 0
       /\ n.selection = o.selection /\ n.side = side /\ n.status = "open"
  BY <1>6, <1>9, <1>10 DEF Order
<1>12. PICK reached : reached = Covers(side, rows, target, last)
  OBVIOUS
<1>13. tx'[s] = [NewTx("walked", n) EXCEPT !.locks = {i} \cup rows, !.origin = i,
                   !.covered = covered, !.walked = rows, !.reached = reached]
  BY <1>7, <1>8, <1>10, <1>12, PutTxFacts
<1>14. /\ tx'[s].phase = "walked" /\ tx'[s].takes = {} /\ tx'[s].seen = {}
       /\ tx'[s].book = {} /\ tx'[s].locks = {i} \cup rows /\ tx'[s].origin = i
       /\ tx'[s].walked = rows /\ tx'[s].covered = covered
       /\ tx'[s].reached = reached /\ tx'[s].order = n
  BY <1>13 DEF NewTx
<1>15. n.odds = orders[last].odds /\ n.stake = stake
  BY <1>6, <1>10 DEF Order
<1>16. rows = Counterparties(Leg(orders[i]))
  BY <1>1, Zenon DEF Leg, leg, side
<1>17. /\ last \in tx'[s].walked
       /\ WalkEndsAt(side, tx'[s].walked, target, last)
       /\ stake = WalkStake(side, tx'[s].walked, target, last)
       /\ tx'[s].reached = Covers(side, tx'[s].walked, target, last)
       /\ tx'[s].order.odds = orders[last].odds /\ tx'[s].order.stake = stake
  BY <1>7, <1>8, <1>12, <1>14, <1>15, Zenon
<1>18. /\ side \in {Opposite(orders[i].side)} /\ target \in {CashOutTarget(i)}
       /\ side = Opposite(orders[i].side)
  BY <1>2 DEF side
<1>19. \E l \in tx'[s].walked, d \in {Opposite(orders[i].side)},
          g \in {CashOutTarget(i)}, k \in Nat :
         /\ WalkEndsAt(d, tx'[s].walked, g, l)
         /\ k = WalkStake(d, tx'[s].walked, g, l)
         /\ tx'[s].reached = Covers(d, tx'[s].walked, g, l)
         /\ tx'[s].order.odds = orders[l].odds /\ tx'[s].order.stake = k
  BY <1>17, <1>18, Zenon
<1> QED
  BY <1>3, <1>4, <1>5, <1>11, <1>14, <1>16, <1>18, <1>19, Zenon

\* Reserving writes the phase, the id and what the matching query sees; a
\* cash-out may cap its stake.
LEMMA NewReserved ==
  ASSUME IInv, NEW s \in Sessions, PlaceReserve(s) \/ CashOutReserve(s)
  PROVE  LET t0 == tx[s]
             t  == tx'[s]
         IN  /\ s \in DOMAIN tx /\ t0 \in Tx /\ TxInv(t0) /\ Quiet
             /\ t0.phase \in {"checked", "walked"} /\ t.phase = "reserved"
             /\ t.takes = t0.takes /\ t.locks = t0.locks /\ SameWalk(t, t0)
             /\ t.seen = Compatible(t.order) /\ t.book = Compatible(t.order)
             /\ t.order \in Order
             /\ t.order.status = t0.order.status /\ t.order.matched = t0.order.matched
             /\ t.order.side = t0.order.side /\ t.order.odds = t0.order.odds
             /\ t.order.user = t0.order.user /\ t.order.match = t0.order.match
             /\ t.order.selection = t0.order.selection
             /\ t.reached => t0.reached /\ t.order.stake = t0.order.stake
<1>1. s \in DOMAIN tx /\ tx[s] \in Tx /\ TxInv(tx[s])
  BY DEF PlaceReserve, CashOutReserve, IInv, TxTypeOK, TxsInv
<1>2. tx[s].order \in Order
  BY <1>1 DEF Tx
<1>3. CASE PlaceReserve(s)
  <2>1. tx'[s] = [tx[s] EXCEPT !.phase = "reserved", !.id = nextId,
                    !.book = Compatible(tx[s].order), !.seen = Compatible(tx[s].order)]
    BY <1>3, PutTxFacts DEF PlaceReserve, Reserve
  <2>2. tx[s].phase = "checked" /\ Quiet
    BY <1>3 DEF PlaceReserve, Reserve, Quiet
  <2> HIDE DEF Quiet
  <2> QED
    BY <1>1, <1>2, <2>1, <2>2 DEF Tx, SameWalk
<1>4. CASE CashOutReserve(s)
  <2>1. PICK o : o = tx[s].order
    OBVIOUS
  <2>2. PICK stake \in Nat : stake = Affordable(o)
    BY <1>1, <1>2, <1>4, <2>1, AffordableBound DEF CashOutReserve, IInv, TxInv
  <2>3. PICK whole \in BOOLEAN : whole <=> Available(o.user) >= Exposure(o, o.stake)
    OBVIOUS
  <2>4. whole => stake = o.stake
    BY <2>2, <2>3 DEF Affordable
  <2>5. PICK n : n = [o EXCEPT !.stake = stake]
    OBVIOUS
  <2>6. n \in Order /\ n.status = o.status /\ n.matched = o.matched /\ n.side = o.side
        /\ n.odds = o.odds /\ n.user = o.user /\ n.match = o.match
        /\ n.selection = o.selection /\ n.stake = stake
    BY <1>2, <2>1, <2>2, <2>5 DEF Order
  <2>7. PICK t0 : t0 = [tx[s] EXCEPT !.order.stake = stake, !.reached = @ /\ whole]
    OBVIOUS
  <2>8. /\ t0.order = n /\ t0.takes = tx[s].takes /\ t0.locks = tx[s].locks
        /\ t0.origin = tx[s].origin /\ t0.covered = tx[s].covered
        /\ t0.walked = tx[s].walked /\ t0.reached = (tx[s].reached /\ whole)
    BY <1>1, <2>1, <2>5, <2>7 DEF Tx
  <2>9. Reserve(s, t0) /\ tx[s].phase = "walked"
    BY <1>4, <2>1, <2>2, <2>3, <2>7 DEF CashOutReserve
  <2>10. t0.phase = "walked" /\ t0 \in [DOMAIN tx[s] -> {t0[k] : k \in DOMAIN tx[s]}]
    BY <1>1, <2>7, <2>9 DEF Tx
  <2>11. tx'[s] = [t0 EXCEPT !.phase = "reserved", !.id = nextId,
                     !.book = Compatible(n), !.seen = Compatible(n)]
    BY <2>8, <2>9, PutTxFacts DEF Reserve
  <2>12. Quiet
    BY <2>9 DEF Reserve, Quiet
  <2>13. /\ tx'[s].phase = "reserved" /\ tx'[s].order = t0.order
         /\ tx'[s].takes = t0.takes /\ tx'[s].locks = t0.locks
         /\ tx'[s].origin = t0.origin /\ tx'[s].covered = t0.covered
         /\ tx'[s].walked = t0.walked /\ tx'[s].reached = t0.reached
         /\ tx'[s].book = Compatible(n) /\ tx'[s].seen = Compatible(n)
    BY <1>1, <2>7, <2>11 DEF Tx
  <2>14. tx'[s].reached => tx[s].reached /\ stake = o.stake
    BY <2>4, <2>8, <2>13
  <2> HIDE DEF Quiet
  <2> QED
    BY <1>1, <2>1, <2>6, <2>8, <2>9, <2>12, <2>13, <2>14 DEF SameWalk
<1> QED
  BY <1>3, <1>4

LEMMA NewLocked ==
  ASSUME IInv, NEW s \in Sessions, LockBook(s)
  PROVE  LET t0 == tx[s]
             t  == tx'[s]
         IN  /\ s \in DOMAIN tx /\ t0 \in Tx /\ TxInv(t0) /\ Quiet
             /\ t0.phase = "reserved" /\ t.phase = "matching"
             /\ t.takes = t0.takes /\ t.seen = t0.seen /\ SameWalk(t, t0)
             /\ t.order = t0.order /\ t.reached = t0.reached
             /\ t.book = {i \in t0.book : orders[i].status = "open"}
             /\ t.locks = t0.locks \cup t.book
<1> DEFINE rows == {i \in tx[s].book : orders[i].status = "open"}
<1>1. tx'[s] = [tx[s] EXCEPT !.phase = "matching", !.book = rows, !.locks = @ \cup rows]
  BY PutTxFacts DEF LockBook
<1> HIDE DEF rows
<1>2. s \in DOMAIN tx /\ tx[s] \in Tx /\ TxInv(tx[s]) /\ tx[s].phase = "reserved" /\ Quiet
  BY DEF LockBook, IInv, TxTypeOK, TxsInv, Quiet
<1> HIDE DEF Quiet
<1>3. /\ tx'[s].phase = "matching" /\ tx'[s].book = rows
      /\ tx'[s].locks = tx[s].locks \cup rows /\ tx'[s].takes = tx[s].takes
      /\ tx'[s].seen = tx[s].seen /\ SameWalk(tx'[s], tx[s])
      /\ tx'[s].order = tx[s].order /\ tx'[s].reached = tx[s].reached
  BY <1>1, <1>2 DEF Tx, SameWalk
<1> QED
  BY <1>2, <1>3 DEF rows

\* One iteration of the matching loop takes a part of the best row left.
LEMMA NewMatched ==
  ASSUME IInv, NEW s \in Sessions, MatchNext(s)
  PROVE  LET t0 == tx[s]
             t  == tx'[s]
         IN  /\ s \in DOMAIN tx /\ t0 \in Tx /\ TxInv(t0) /\ Quiet
             /\ t0.phase = "matching" /\ t.phase = "matching"
             /\ Unmatched(t0.order) > 0
             /\ t.seen = t0.seen /\ SameWalk(t, t0) /\ t.reached = t0.reached
             /\ t.locks = t0.locks
             /\ t.order.status = t0.order.status /\ t.order.side = t0.order.side
             /\ SameTerms(t0.order, t.order) /\ t.order \in Order
             /\ \E i \in Best(t0.order.side, t0.book), fill \in Fill :
                  /\ t.book = t0.book \ {i}
                  /\ fill.maker = i /\ fill.taker = t0.id /\ fill.odds = orders[i].odds
                  /\ fill.status = "pending" /\ fill.commission = 0
                  /\ \/ fill.stake = Unmatched(t0.order)
                     \/ fill.stake = Unmatched(orders[i])
                  /\ fill.stake <= Unmatched(t0.order)
                  /\ t.order.matched = t0.order.matched + fill.stake
                  /\ t.takes = IF fill.stake = 0 THEN t0.takes ELSE t0.takes \cup {fill}
<1>1. s \in DOMAIN tx /\ tx[s] \in Tx /\ TxInv(tx[s]) /\ Quiet
      /\ tx[s].phase = "matching" /\ Unmatched(tx[s].order) > 0
  BY DEF MatchNext, IInv, TxTypeOK, TxsInv, Quiet
<1> HIDE DEF Quiet
<1> DEFINE t0 == tx[s]
<1>2. t0 = tx[s]
  OBVIOUS
<1> HIDE DEF t0
<1>3. PICK i \in Best(t0.order.side, t0.book) :
      LET mine == Unmatched(t0.order)
          rest == Unmatched(orders[i])
          size == IF mine <= rest THEN mine ELSE rest
          fill == [taker |-> t0.id, maker |-> i, stake |-> size,
                   odds |-> orders[i].odds, status |-> "pending",
                   commission |-> 0]
      IN  PutTx(s, [t0 EXCEPT
                      !.book = @ \ {i},
                      !.order.matched = @ + size,
                      !.takes = IF size = 0 THEN @ ELSE @ \cup {fill}])
  BY <1>2 DEF MatchNext
<1>4. i \in t0.book /\ i \in DOMAIN orders /\ i \in OrderIds /\ orders[i] \in Order
      /\ orders[i].matched <= orders[i].stake
  BY <1>1, <1>2, <1>3 DEF Best, TxInv, IInv, OrdersTypeOK, OrdersInv
<1>5. PICK size \in Nat :
      /\ size = IF Unmatched(t0.order) <= Unmatched(orders[i])
                THEN Unmatched(t0.order) ELSE Unmatched(orders[i])
      /\ size <= Unmatched(t0.order)
  BY <1>1, <1>2, <1>4 DEF Unmatched, Order, Tx
<1>6. PICK fill : fill = [taker |-> t0.id, maker |-> i, stake |-> size,
                   odds |-> orders[i].odds, status |-> "pending", commission |-> 0]
  OBVIOUS
<1>7. t0.id \in OrderIds
  BY <1>1, <1>2 DEF TxInv, Busy
<1>8. fill \in Fill
  BY <1>4, <1>6, <1>7 DEF Fill, Order
<1>9. PICK o : o = [t0.order EXCEPT !.matched = @ + size]
  OBVIOUS
<1>10. /\ o \in Order /\ SameTerms(t0.order, o) /\ o.status = t0.order.status
       /\ o.matched = t0.order.matched + size
  <2>1. t0.order \in Order
    BY <1>1, <1>2 DEF Tx
  <2> QED
    BY <1>9, <2>1 DEF Order, SameTerms
<1>11. PICK takes : takes = IF size = 0 THEN t0.takes ELSE t0.takes \cup {fill}
  OBVIOUS
<1>12. tx'[s] = [t0 EXCEPT !.book = @ \ {i}, !.order.matched = @ + size, !.takes = takes]
  BY <1>3, <1>5, <1>6, <1>11, PutTxFacts
<1>13. /\ tx'[s].phase = t0.phase /\ tx'[s].book = t0.book \ {i}
       /\ tx'[s].order = o /\ tx'[s].takes = takes /\ tx'[s].locks = t0.locks
       /\ tx'[s].seen = t0.seen /\ SameWalk(tx'[s], t0)
       /\ tx'[s].reached = t0.reached
  BY <1>1, <1>2, <1>9, <1>12 DEF Tx, SameWalk
<1>14. /\ fill.maker = i /\ fill.taker = t0.id /\ fill.odds = orders[i].odds
       /\ fill.status = "pending" /\ fill.commission = 0 /\ fill.stake = size
  BY <1>6
<1>15. o.side = t0.order.side
  BY <1>10 DEF SameTerms
<1>16. /\ size = Unmatched(t0.order) \/ size = Unmatched(orders[i])
       /\ takes = IF fill.stake = 0 THEN t0.takes ELSE t0.takes \cup {fill}
  BY <1>5, <1>11, <1>14
<1>17. /\ tx'[s].book = t0.book \ {i}
       /\ fill.maker = i /\ fill.taker = t0.id /\ fill.odds = orders[i].odds
       /\ fill.status = "pending" /\ fill.commission = 0
       /\ \/ fill.stake = Unmatched(t0.order)
          \/ fill.stake = Unmatched(orders[i])
       /\ fill.stake <= Unmatched(t0.order)
       /\ tx'[s].order.matched = t0.order.matched + fill.stake
       /\ tx'[s].takes = IF fill.stake = 0 THEN t0.takes ELSE t0.takes \cup {fill}
  BY <1>5, <1>10, <1>13, <1>14, <1>16
<1>18. \E b \in Best(t0.order.side, t0.book), g \in Fill :
         /\ tx'[s].book = t0.book \ {b}
         /\ g.maker = b /\ g.taker = t0.id /\ g.odds = orders[b].odds
         /\ g.status = "pending" /\ g.commission = 0
         /\ \/ g.stake = Unmatched(t0.order)
            \/ g.stake = Unmatched(orders[b])
         /\ g.stake <= Unmatched(t0.order)
         /\ tx'[s].order.matched = t0.order.matched + g.stake
         /\ tx'[s].takes = IF g.stake = 0 THEN t0.takes ELSE t0.takes \cup {g}
  BY <1>3, <1>8, <1>17, Zenon
<1>19. /\ s \in DOMAIN tx /\ t0 \in Tx /\ TxInv(t0) /\ Quiet
       /\ t0.phase = "matching" /\ tx'[s].phase = "matching"
       /\ Unmatched(t0.order) > 0
       /\ tx'[s].seen = t0.seen /\ SameWalk(tx'[s], t0) /\ tx'[s].reached = t0.reached
       /\ tx'[s].locks = t0.locks
       /\ tx'[s].order.status = t0.order.status /\ tx'[s].order.side = t0.order.side
       /\ SameTerms(t0.order, tx'[s].order) /\ tx'[s].order \in Order
  BY <1>1, <1>2, <1>10, <1>13, <1>15, Zenon
<1> QED
  BY <1>18, <1>19, Zenon DEF t0

-----------------------------------------------------------------------------
(* The books: what the fills add up to *)

StakeOf == [f \in Fill |-> f.stake]

FeeOf == [f \in Fill |-> f.commission]

BalanceOf(w) == [u \in Users |-> w[u].balance]

\* The fills an order takes part in.
FillsOf(F, i) == {f \in F : i \in {f.taker, f.maker}}

\* What a transaction in flight has matched is what its takes add up to.
TakesSum(t) ==
  /\ t.order.status = "open"
  /\ IsFiniteSet(t.takes)
  /\ t.order.matched = SumFunctionOnSet(StakeOf, t.takes)
  /\ \A f \in t.takes : f.status = "pending" /\ f.commission = 0 /\ f.stake > 0

\* The fills have one row for a pair of orders, and fill the orders.
FillsSum(F, rows) ==
  /\ IsFiniteSet(F)
  /\ \A f, g \in F : f.taker = g.taker /\ f.maker = g.maker => f = g
  /\ \A f \in F : f.status = "pending" => f.commission = 0
  /\ \A i \in DOMAIN rows :
       rows[i].matched = SumFunctionOnSet(StakeOf, FillsOf(F, i))

\* What the users and the house hold together.
Held(w, F) ==
  SumFunctionOnSet(BalanceOf(w), Users) + SumFunctionOnSet(FeeOf, F)

BooksInv ==
  /\ \A s \in DOMAIN tx : TakesSum(tx[s])
  /\ FillsSum(fills, orders)
  /\ Held(wallets, fills) = SumFunctionOnSet(InitialBalance, Users)

LEMMA StakeSums ==
  ASSUME NEW F, F \subseteq Fill, IsFiniteSet(F)
  PROVE  /\ \A f \in F : StakeOf[f] = f.stake /\ StakeOf[f] \in Nat /\ StakeOf[f] \in Int
         /\ \A f \in F : FeeOf[f] = f.commission /\ FeeOf[f] \in Int
         /\ SumFunctionOnSet(StakeOf, F) \in Nat /\ SumFunctionOnSet(FeeOf, F) \in Int
<1>1. /\ \A f \in F : StakeOf[f] = f.stake /\ StakeOf[f] \in Nat /\ StakeOf[f] \in Int
      /\ \A f \in F : FeeOf[f] = f.commission /\ FeeOf[f] \in Int
  BY DEF StakeOf, FeeOf, Fill
<1>2. SumFunctionOnSet(StakeOf, F) \in Nat
  BY <1>1, SumNat
<1>3. SumFunctionOnSet(FeeOf, F) \in Int
  BY <1>1, SumInt
<1> QED
  BY <1>1, <1>2, <1>3

LEMMA InitBooks == ConstantsAssumption /\ Init => BooksInv
<1> SUFFICES ASSUME ConstantsAssumption, Init PROVE BooksInv
  OBVIOUS
<1>1. \A s \in DOMAIN tx : TakesSum(tx[s])
  BY DEF Init
<1>2. FillsSum(fills, orders)
  BY FS_EmptySet DEF Init, FillsSum
<1>3. SumFunctionOnSet(BalanceOf(wallets), Users) = SumFunctionOnSet(InitialBalance, Users)
  <2>1. IsFiniteSet(Users) /\ \A u \in Users : BalanceOf(wallets)[u] = InitialBalance[u]
    BY DEF Init, BalanceOf, ConstantsAssumption
  <2> QED
    BY <2>1, SumSame
<1>4. SumFunctionOnSet(FeeOf, fills) = 0
  BY SumEmpty DEF Init
<1>5. SumFunctionOnSet(InitialBalance, Users) \in Int
  BY SumInt DEF ConstantsAssumption
<1>6. Held(wallets, fills) = SumFunctionOnSet(InitialBalance, Users)
  BY <1>3, <1>4, <1>5 DEF Held
<1> QED
  BY <1>1, <1>2, <1>6 DEF BooksInv

\* One iteration of the matching loop keeps the takes adding up.
LEMMA MatchKeepsSum ==
  ASSUME IInv, NEW s \in Sessions, MatchNext(s), TakesSum(tx[s])
  PROVE  TakesSum(tx'[s])
<1> DEFINE t0 == tx[s]
           t == tx'[s]
<1>1. /\ t0 \in Tx /\ TxInv(t0) /\ t.order.status = t0.order.status
      /\ \E i \in Best(t0.order.side, t0.book), fill \in Fill :
           /\ t.book = t0.book \ {i}
           /\ fill.maker = i /\ fill.taker = t0.id /\ fill.odds = orders[i].odds
           /\ fill.status = "pending" /\ fill.commission = 0
           /\ \/ fill.stake = Unmatched(t0.order)
              \/ fill.stake = Unmatched(orders[i])
           /\ fill.stake <= Unmatched(t0.order)
           /\ t.order.matched = t0.order.matched + fill.stake
           /\ t.takes = IF fill.stake = 0 THEN t0.takes ELSE t0.takes \cup {fill}
  BY NewMatched, Zenon
<1> SUFFICES TakesSum(t)
  OBVIOUS
<1> HIDE DEF t0, t
<1>2. PICK i \in Best(t0.order.side, t0.book), fill \in Fill :
           /\ fill.maker = i
           /\ fill.status = "pending" /\ fill.commission = 0
           /\ t.order.matched = t0.order.matched + fill.stake
           /\ t.takes = IF fill.stake = 0 THEN t0.takes ELSE t0.takes \cup {fill}
  BY <1>1
<1>3. /\ t0.order.status = "open" /\ IsFiniteSet(t0.takes)
      /\ t0.order.matched = SumFunctionOnSet(StakeOf, t0.takes)
      /\ \A f \in t0.takes : f.status = "pending" /\ f.commission = 0 /\ f.stake > 0
  BY DEF TakesSum, t0
<1>4. fill \notin t0.takes
  BY <1>1, <1>2 DEF TxInv, TakeInv, Best
<1>5. t0.takes \subseteq Fill /\ fill.stake \in Nat /\ t0.order.matched \in Nat
  BY <1>1, <1>2 DEF Tx, Fill, Order
<1>6. CASE fill.stake = 0
  BY <1>1, <1>2, <1>3, <1>5, <1>6 DEF TakesSum
<1>7. CASE fill.stake # 0
  <2>1. t.takes = t0.takes \cup {fill} /\ fill.stake > 0
    BY <1>2, <1>5, <1>7
  <2>2. /\ \A f \in t0.takes : StakeOf[f] \in Int
        /\ StakeOf[fill] = fill.stake /\ StakeOf[fill] \in Int
    BY <1>5 DEF StakeOf, Fill
  <2>3. SumFunctionOnSet(StakeOf, t0.takes \cup {fill})
          = StakeOf[fill] + SumFunctionOnSet(StakeOf, t0.takes)
    BY <1>3, <1>4, <2>2, SumAdd
  <2>4. IsFiniteSet(t.takes)
    BY <1>3, <2>1, FS_AddElement
  <2>5. t.order.matched = SumFunctionOnSet(StakeOf, t.takes)
    BY <1>2, <1>3, <1>5, <2>1, <2>2, <2>3
  <2> QED
    BY <1>1, <1>2, <1>3, <2>1, <2>4, <2>5 DEF TakesSum
<1> QED
  BY <1>6, <1>7

LEMMA TakesSumKept ==
  ASSUME IInv, [Next]_vars, \A s \in DOMAIN tx : TakesSum(tx[s]), NEW s \in DOMAIN tx'
  PROVE  TakesSum(tx'[s])
<1>1. CASE s \in DOMAIN tx /\ tx'[s] = tx[s]
  BY <1>1
<1>2. CASE ~(s \in DOMAIN tx /\ tx'[s] = tx[s])
  <2>1. \/ PlaceCheck(s) \/ PlaceReserve(s) \/ CashOutReserve(s)
        \/ LockBook(s) \/ MatchNext(s)
        \/ \E i \in OrderIds : CashOutWalk(s, i)
    BY <1>2, TxMoves
  <2>2. s \in Sessions
    BY NextIInv, ConstantsAssumption DEF IInv, TxTypeOK
  <2>3. ASSUME tx'[s].order.status = "open", tx'[s].order.matched = 0, tx'[s].takes = {}
        PROVE  TakesSum(tx'[s])
    BY <2>3, FS_EmptySet, SumEmpty DEF TakesSum
  <2>4. CASE PlaceCheck(s)
    BY <2>3, <2>4, NewChecked
  <2>5. ASSUME NEW i \in OrderIds, CashOutWalk(s, i) PROVE TakesSum(tx'[s])
    BY <2>2, <2>3, <2>5, NewWalked
  <2>6. CASE PlaceReserve(s) \/ CashOutReserve(s)
    <3>1. /\ s \in DOMAIN tx /\ tx'[s].takes = tx[s].takes
          /\ tx'[s].order.status = tx[s].order.status
          /\ tx'[s].order.matched = tx[s].order.matched
      BY <2>2, <2>6, NewReserved
    <3> QED
      BY <3>1 DEF TakesSum
  <2>7. CASE LockBook(s)
    <3>1. s \in DOMAIN tx /\ tx'[s].takes = tx[s].takes /\ tx'[s].order = tx[s].order
      BY <2>2, <2>7, NewLocked
    <3> QED
      BY <3>1 DEF TakesSum
  <2>8. CASE MatchNext(s)
    BY <2>2, <2>8, MatchKeepsSum DEF MatchNext
  <2> QED
    BY <2>1, <2>4, <2>5, <2>6, <2>7, <2>8
<1> QED
  BY <1>1, <1>2

\* What settling or voiding a fill writes: the fill is replaced, what was
\* reserved for it is released, and the balances pay for the commission.
LEMMA FillClosed ==
  ASSUME IInv, ConstantsAssumption, NEW f, CloseFill(f)
  PROVE  \E g \in Fill, b \in Users, l \in Users, mb \in Int, ml \in Int :
           /\ g.taker = f.taker /\ g.maker = f.maker
           /\ g.stake = f.stake /\ g.odds = f.odds
           /\ g.status # "pending" /\ mb + ml + g.commission = 0
           /\ fills' = (fills \ {f}) \cup {g}
           /\ b = orders[BackOrder(f)].user /\ l = orders[LayOrder(f)].user /\ b # l
           /\ wallets'[b].balance = wallets[b].balance + mb
           /\ wallets'[b].reserved = wallets[b].reserved - BackRelease(f)
           /\ wallets'[l].balance = wallets[l].balance + ml
           /\ wallets'[l].reserved = wallets[l].reserved - LayRelease(f)
           /\ \A u \in Users \ {b, l} : wallets'[u] = wallets[u]
<1>1. f \in fills /\ f \in Fill /\ f.stake \in Nat /\ f.odds \in Nat /\ f.odds > 1
  BY FillFacts DEF CloseFill, Fill
<1>2. PICK b \in Users, l \in Users :
        b = orders[BackOrder(f)].user /\ l = orders[LayOrder(f)].user /\ b # l
  BY <1>1, FillFacts DEF Order
<1>3. PICK br \in Int, lr \in Int : br = BackRelease(f) /\ lr = LayRelease(f)
  BY <1>1, FillFacts DEF Order
<1>4. wallets \in [Users -> [balance: Int, reserved: Int]]
  BY DEF IInv, FundsTypeOK
<1> DEFINE Written ==
         \E g \in Fill, mb \in Int, ml \in Int :
           /\ g.taker = f.taker /\ g.maker = f.maker
           /\ g.stake = f.stake /\ g.odds = f.odds
           /\ g.status # "pending" /\ mb + ml + g.commission = 0
           /\ fills' = (fills \ {f}) \cup {g}
           /\ wallets'[b].balance = wallets[b].balance + mb
           /\ wallets'[b].reserved = wallets[b].reserved - br
           /\ wallets'[l].balance = wallets[l].balance + ml
           /\ wallets'[l].reserved = wallets[l].reserved - lr
           /\ \A u \in Users \ {b, l} : wallets'[u] = wallets[u]
<1>5. ASSUME NEW mb \in Int, NEW ml \in Int, NEW c \in Nat, NEW status \in {"void", "back_won", "lay_won"},
             mb + ml + c = 0,
             Close(f, status, c),
             wallets'[b].balance = wallets[b].balance + mb,
             wallets'[b].reserved = wallets[b].reserved - br,
             wallets'[l].balance = wallets[l].balance + ml,
             wallets'[l].reserved = wallets[l].reserved - lr,
             \A u \in Users \ {b, l} : wallets'[u] = wallets[u]
      PROVE  Written
  <2>1. PICK g : g = [f EXCEPT !.status = status, !.commission = c]
    OBVIOUS
  <2>2. /\ g \in Fill /\ g.taker = f.taker /\ g.maker = f.maker /\ g.stake = f.stake
        /\ g.odds = f.odds /\ g.status # "pending" /\ g.commission = c
    BY <1>1, <1>5, <2>1 DEF Fill
  <2>3. fills' = (fills \ {f}) \cup {g}
    BY <1>5, <2>1 DEF Close
  <2>4. mb + ml + g.commission = 0
    BY <1>5, <2>2
  <2> QED
    BY <1>5, <2>2, <2>3, <2>4, Zenon
<1> HIDE DEF Written
<1>6. ASSUME void_fill(f) PROVE Written
  <2>1. wallets' = [wallets EXCEPT ![b].reserved = @ - br, ![l].reserved = @ - lr]
    BY <1>2, <1>3, <1>6 DEF void_fill
  <2>2. Close(f, "void", 0)
    BY <1>6 DEF void_fill
  <2>3. /\ wallets'[b].balance = wallets[b].balance + 0
        /\ wallets'[b].reserved = wallets[b].reserved - br
        /\ wallets'[l].balance = wallets[l].balance + 0
        /\ wallets'[l].reserved = wallets[l].reserved - lr
        /\ \A u \in Users \ {b, l} : wallets'[u] = wallets[u]
    <3>1. /\ wallets'[b] = [wallets[b] EXCEPT !.reserved = @ - br]
          /\ wallets'[l] = [wallets[l] EXCEPT !.reserved = @ - lr]
          /\ \A u \in Users \ {b, l} : wallets'[u] = wallets[u]
      BY <1>2, <1>4, <2>1
    <3>2. /\ wallets[b] \in [balance: Int, reserved: Int]
          /\ wallets[l] \in [balance: Int, reserved: Int]
      BY <1>4
    <3> HIDE <2>1
    <3> QED
      BY <3>1, <3>2
  <2>4. 0 + 0 + 0 = 0
    OBVIOUS
  <2> HIDE <2>1
  <2> QED
    BY <1>5, <2>2, <2>3, <2>4
<1>7. ASSUME \E result : settle_fill(f, result) PROVE Written
  <2> PICK result : settle_fill(f, result)
    BY <1>7
  <2>1. PICK profit \in Nat : profit = IF orders[f.taker].selection = result
                                       THEN f.stake * (f.odds - 1) ELSE f.stake
    BY <1>1
  <2>2. PICK c \in Nat : c = Commission(profit)
    BY CommissionBound DEF ConstantsAssumption
  <2>3. NetWin(profit) = profit - c
    BY <2>2 DEF NetWin
  <2>4. PICK status \in {"back_won", "lay_won"} :
          status = IF orders[f.taker].selection = result THEN "back_won" ELSE "lay_won"
    OBVIOUS
  <2>5. profit - c \in Int /\ -profit \in Int /\ profit - c + -profit + c = 0
        /\ -profit + (profit - c) + c = 0
    OBVIOUS
  <2>6. PICK mb \in Int, ml \in Int :
      /\ mb = IF orders[f.taker].selection = result THEN profit - c ELSE -profit
      /\ ml = IF orders[f.taker].selection = result THEN -profit ELSE profit - c
    BY <2>5
  <2>7. mb + ml + c = 0
    BY <2>5, <2>6
  <2>8. wallets' = [wallets EXCEPT
                   ![b] = [balance |-> @.balance + mb, reserved |-> @.reserved - br],
                   ![l] = [balance |-> @.balance + ml, reserved |-> @.reserved - lr]]
    BY <1>2, <1>3, <2>1, <2>3, <2>6 DEF settle_fill
  <2>9. Close(f, status, c)
    BY <2>1, <2>2, <2>4 DEF settle_fill
  <2>10. /\ wallets'[b].balance = wallets[b].balance + mb
         /\ wallets'[b].reserved = wallets[b].reserved - br
         /\ wallets'[l].balance = wallets[l].balance + ml
         /\ wallets'[l].reserved = wallets[l].reserved - lr
         /\ \A u \in Users \ {b, l} : wallets'[u] = wallets[u]
    BY <1>2, <1>4, <2>8
  <2> HIDE <2>8
  <2> QED
    BY <1>5, <2>4, <2>7, <2>9, <2>10
<1>8. Written
  BY <1>6, <1>7 DEF CloseFill
<1>9. PICK g \in Fill, mb \in Int, ml \in Int :
           /\ g.taker = f.taker /\ g.maker = f.maker
           /\ g.stake = f.stake /\ g.odds = f.odds
           /\ g.status # "pending" /\ mb + ml + g.commission = 0
           /\ fills' = (fills \ {f}) \cup {g}
           /\ wallets'[b].balance = wallets[b].balance + mb
           /\ wallets'[b].reserved = wallets[b].reserved - br
           /\ wallets'[l].balance = wallets[l].balance + ml
           /\ wallets'[l].reserved = wallets[l].reserved - lr
           /\ \A u \in Users \ {b, l} : wallets'[u] = wallets[u]
  BY <1>8, Zenon DEF Written
<1>10. /\ wallets'[b].reserved = wallets[b].reserved - BackRelease(f)
       /\ wallets'[l].reserved = wallets[l].reserved - LayRelease(f)
  BY <1>3, <1>9
<1> QED
  BY <1>2, <1>9, <1>10

\* Replacing a fill by a closed one changes no order's fills but by name.
LEMMA CloseKeepsSums ==
  ASSUME IInv, ConstantsAssumption, BooksInv, NEW f, CloseFill(f)
  PROVE  FillsSum(fills', orders') /\ Held(wallets', fills') = Held(wallets, fills)
<1>1. PICK g \in Fill, b \in Users, l \in Users, mb \in Int, ml \in Int :
           /\ g.taker = f.taker /\ g.maker = f.maker
           /\ g.stake = f.stake /\ g.odds = f.odds
           /\ g.status # "pending" /\ mb + ml + g.commission = 0
           /\ fills' = (fills \ {f}) \cup {g}
           /\ b = orders[BackOrder(f)].user /\ l = orders[LayOrder(f)].user /\ b # l
           /\ wallets'[b].balance = wallets[b].balance + mb
           /\ wallets'[b].reserved = wallets[b].reserved - BackRelease(f)
           /\ wallets'[l].balance = wallets[l].balance + ml
           /\ wallets'[l].reserved = wallets[l].reserved - LayRelease(f)
           /\ \A u \in Users \ {b, l} : wallets'[u] = wallets[u]
  BY FillClosed
<1>2. f \in fills /\ fills \subseteq Fill /\ f.status = "pending" /\ orders' = orders
  BY DEF CloseFill, IInv, FundsTypeOK
<1>3. /\ IsFiniteSet(fills) /\ f.commission = 0
      /\ \A d, e \in fills : d.taker = e.taker /\ d.maker = e.maker => d = e
      /\ \A e \in fills : e.status = "pending" => e.commission = 0
      /\ \A i \in DOMAIN orders : orders[i].matched = SumFunctionOnSet(StakeOf, FillsOf(fills, i))
  BY <1>2 DEF BooksInv, FillsSum
<1>4. g \notin fills
  BY <1>1, <1>2, <1>3
<1>5. IsFiniteSet(fills')
  BY <1>1, <1>3, FS_RemoveElement, FS_AddElement
<1>6. \A d, e \in fills' : d.taker = e.taker /\ d.maker = e.maker => d = e
  BY <1>1, <1>2, <1>3
<1>7. \A e \in fills' : e.status = "pending" => e.commission = 0
  BY <1>1, <1>3
<1>8. ASSUME NEW i \in DOMAIN orders
      PROVE  orders[i].matched = SumFunctionOnSet(StakeOf, FillsOf(fills', i))
  <2>1. PICK S : S = FillsOf(fills, i)
    OBVIOUS
  <2>2. IsFiniteSet(S) /\ S \subseteq Fill /\ g \notin S
    BY <1>2, <1>3, <1>4, <2>1, FS_Subset DEF FillsOf
  <2>3. /\ \A x \in S : StakeOf[x] \in Int
        /\ StakeOf[g] = f.stake /\ StakeOf[f] = f.stake /\ f.stake \in Int
    BY <1>1, <1>2, <2>2 DEF StakeOf, Fill
  <2>4. CASE i \notin {f.taker, f.maker}
    BY <1>1, <1>3, <2>4 DEF FillsOf
  <2>5. CASE i \in {f.taker, f.maker}
    <3>1. f \in S /\ FillsOf(fills', i) = (S \ {f}) \cup {g}
      BY <1>1, <1>2, <2>1, <2>5 DEF FillsOf
    <3>2. SumFunctionOnSet(StakeOf, (S \ {f}) \cup {g})
            = SumFunctionOnSet(StakeOf, S) - StakeOf[f] + StakeOf[g]
      BY <2>2, <2>3, <3>1, SumSwap
    <3>3. SumFunctionOnSet(StakeOf, S) \in Int
      BY <2>2, StakeSums
    <3> QED
      BY <1>3, <2>1, <2>3, <3>1, <3>2, <3>3
  <2> QED
    BY <2>4, <2>5
<1>9. FillsSum(fills', orders')
  BY <1>2, <1>5, <1>6, <1>7, <1>8 DEF FillsSum
<1>10. SumFunctionOnSet(FeeOf, fills') = SumFunctionOnSet(FeeOf, fills) - (mb + ml)
  <2>1. /\ \A x \in fills : FeeOf[x] \in Int
        /\ mb + ml + FeeOf[g] = 0 /\ FeeOf[f] = 0 /\ FeeOf[g] \in Int
    BY <1>1, <1>2, <1>3 DEF FeeOf, Fill
  <2>2. SumFunctionOnSet(FeeOf, (fills \ {f}) \cup {g})
          = SumFunctionOnSet(FeeOf, fills) - FeeOf[f] + FeeOf[g]
    BY <1>2, <1>3, <1>4, <2>1, SumSwap
  <2>3. SumFunctionOnSet(FeeOf, fills) \in Int
    BY <1>2, <1>3, StakeSums
  <2> QED
    BY <1>1, <2>1, <2>2, <2>3
<1>11. SumFunctionOnSet(BalanceOf(wallets'), Users)
         = SumFunctionOnSet(BalanceOf(wallets), Users) + (mb + ml)
  <2>1. PICK p, q : p = BalanceOf(wallets) /\ q = BalanceOf(wallets')
    OBVIOUS
  <2>2. IsFiniteSet(Users) /\ \A u \in Users : p[u] \in Int
    BY <2>1 DEF BalanceOf, IInv, FundsTypeOK, ConstantsAssumption
  <2>3. PICK h : h = [p EXCEPT ![b] = @ + mb]
    OBVIOUS
  <2>4. /\ h[b] = p[b] + mb /\ h[b] \in Int /\ h[l] = p[l] /\ q[l] = p[l] + ml /\ q[b] = p[b] + mb
        /\ \A u \in Users \ {b} : h[u] = p[u]
        /\ \A u \in Users \ {b, l} : q[u] = p[u]
    BY <1>1, <2>1, <2>2, <2>3 DEF BalanceOf
  <2>5. SumFunctionOnSet(h, Users) = SumFunctionOnSet(p, Users) - p[b] + h[b]
    BY <2>2, <2>4, SumChange
  <2>6. (\A u \in Users : h[u] \in Int) /\ q[l] \in Int /\ \A u \in Users \ {l} : q[u] = h[u]
    BY <1>1, <2>2, <2>4
  <2>7. SumFunctionOnSet(q, Users) = SumFunctionOnSet(h, Users) - h[l] + q[l]
    BY <2>2, <2>6, SumChange
  <2>8. SumFunctionOnSet(p, Users) \in Int
    BY <2>2, SumInt
  <2>9. SumFunctionOnSet(q, Users) = SumFunctionOnSet(p, Users) + (mb + ml)
    BY <2>2, <2>4, <2>5, <2>7, <2>8
  <2> QED
    BY <2>1, <2>9
<1>12. /\ SumFunctionOnSet(BalanceOf(wallets), Users) \in Int
       /\ SumFunctionOnSet(FeeOf, fills) \in Int
  <2>1. \A u \in Users : BalanceOf(wallets)[u] \in Int
    BY DEF BalanceOf, IInv, FundsTypeOK
  <2> QED
    BY <1>2, <1>3, <2>1, StakeSums, SumInt DEF ConstantsAssumption
<1>13. Held(wallets', fills') = Held(wallets, fills)
  BY <1>10, <1>11, <1>12 DEF Held
<1> QED
  BY <1>9, <1>13

\* The rows a commit inserts and fills keep adding up.
LEMMA CommitKeepsSums ==
  ASSUME IInv, ConstantsAssumption, BooksInv, NEW s \in Sessions, Commit(s)
  PROVE  FillsSum(fills', orders') /\ Held(wallets', fills') = Held(wallets, fills)
<1> PICK t : t = tx[s]
  OBVIOUS
<1>1. /\ t \in Tx /\ TxInv(t) /\ s \in DOMAIN tx
      /\ t.id \in OrderIds /\ t.id \notin DOMAIN orders
      /\ fills' = fills \cup t.takes
      /\ wallets' = [wallets EXCEPT
           ![t.order.user].reserved = @ + Exposure(t.order, Kept(t))]
      /\ DOMAIN orders' = DOMAIN orders \cup {t.id}
      /\ orders'[t.id].matched = t.order.matched
      /\ \A i \in DOMAIN orders : TakeOf(t, i) = {} => orders'[i] = orders[i]
      /\ \A f \in t.takes :
           /\ f \in Fill /\ TakeInv(t, f) /\ f.maker \in DOMAIN orders
           /\ orders'[f.maker] = [orders[f.maker] EXCEPT !.matched = @ + f.stake]
  BY Committed
<1>2. /\ IsFiniteSet(t.takes)
      /\ t.order.matched = SumFunctionOnSet(StakeOf, t.takes)
      /\ \A f \in t.takes : f.status = "pending" /\ f.commission = 0
  BY <1>1 DEF BooksInv, TakesSum
<1>3. /\ IsFiniteSet(fills)
      /\ \A d, e \in fills : d.taker = e.taker /\ d.maker = e.maker => d = e
      /\ \A e \in fills : e.status = "pending" => e.commission = 0
      /\ \A i \in DOMAIN orders : orders[i].matched = SumFunctionOnSet(StakeOf, FillsOf(fills, i))
  BY DEF BooksInv, FillsSum
<1>4. /\ fills \subseteq Fill /\ t.takes \subseteq Fill
      /\ \A f \in fills : f.taker \in DOMAIN orders /\ f.maker \in DOMAIN orders
      /\ \A i \in DOMAIN orders : orders[i] \in Order
  BY <1>1 DEF Tx, IInv, FundsTypeOK, FillsInv, OrdersTypeOK
<1>5. /\ \A f \in t.takes : f.taker = t.id /\ f.maker # t.id
      /\ \A d, e \in t.takes : d.maker = e.maker => d = e
  BY <1>1 DEF TakeInv, TxInv
<1>6. IsFiniteSet(fills')
  BY <1>1, <1>2, <1>3, FS_Union
<1>7. \A d, e \in fills' : d.taker = e.taker /\ d.maker = e.maker => d = e
  BY <1>1, <1>3, <1>4, <1>5
<1>8. \A e \in fills' : e.status = "pending" => e.commission = 0
  BY <1>1, <1>2, <1>3
<1>9. orders'[t.id].matched = SumFunctionOnSet(StakeOf, FillsOf(fills', t.id))
  <2>1. FillsOf(fills', t.id) = t.takes
    BY <1>1, <1>4, <1>5 DEF FillsOf
  <2> QED
    BY <1>1, <1>2, <2>1
<1>10. ASSUME NEW i \in DOMAIN orders
       PROVE  orders'[i].matched = SumFunctionOnSet(StakeOf, FillsOf(fills', i))
  <2>1. FillsOf(fills', i) = FillsOf(fills, i) \cup TakeOf(t, i)
    BY <1>1, <1>5 DEF FillsOf, TakeOf
  <2>2. CASE TakeOf(t, i) = {}
    BY <1>1, <1>3, <2>1, <2>2
  <2>3. ASSUME NEW f \in TakeOf(t, i)
        PROVE  orders'[i].matched = SumFunctionOnSet(StakeOf, FillsOf(fills', i))
    <3>1. f \in t.takes /\ f.maker = i /\ TakeOf(t, i) = {f}
      BY <1>5, <2>3 DEF TakeOf
    <3>2. PICK S : S = FillsOf(fills, i)
      OBVIOUS
    <3>3. IsFiniteSet(S) /\ S \subseteq Fill /\ f \notin S
      BY <1>1, <1>3, <1>4, <1>5, <3>1, <3>2, FS_Subset DEF FillsOf
    <3>4. /\ \A x \in S : StakeOf[x] \in Int
          /\ StakeOf[f] = f.stake /\ f.stake \in Nat
      BY <1>4, <3>1, <3>3 DEF StakeOf, Fill
    <3>5. SumFunctionOnSet(StakeOf, S \cup {f}) = StakeOf[f] + SumFunctionOnSet(StakeOf, S)
      BY <3>3, <3>4, SumAdd
    <3>6. orders'[i].matched = orders[i].matched + f.stake /\ orders[i].matched \in Nat
      BY <1>1, <1>4, <3>1 DEF Order
    <3> QED
      BY <1>3, <2>1, <3>1, <3>2, <3>4, <3>5, <3>6
  <2> QED
    BY <2>2, <2>3
<1>11. FillsSum(fills', orders')
  BY <1>1, <1>6, <1>7, <1>8, <1>9, <1>10 DEF FillsSum
<1>12. SumFunctionOnSet(FeeOf, fills') = SumFunctionOnSet(FeeOf, fills)
  <2>1. fills \in SUBSET fills' /\ \A x \in fills' \ fills : FeeOf[x] = 0
    BY <1>1, <1>2, <1>4 DEF FeeOf
  <2>2. \A x \in fills' : FeeOf[x] \in Int
    BY <1>1, <1>4 DEF FeeOf, Fill
  <2> QED
    BY <1>6, <2>1, <2>2, SumFilter
<1>13. BalanceOf(wallets') = BalanceOf(wallets)
  <2>1. \A u \in Users : wallets'[u].balance = wallets[u].balance
    BY <1>1 DEF IInv, FundsTypeOK
  <2> QED
    BY <2>1 DEF BalanceOf
<1>14. Held(wallets', fills') = Held(wallets, fills)
  BY <1>12, <1>13 DEF Held
<1> QED
  BY <1>11, <1>14

LEMMA CloseOrderKeepsSums ==
  ASSUME IInv, BooksInv, NEW i, NEW status, CloseOrder(i, status)
  PROVE  FillsSum(fills', orders') /\ Held(wallets', fills') = Held(wallets, fills)
<1>1. /\ i \in DOMAIN orders /\ fills' = fills
      /\ wallets' = [wallets EXCEPT
           ![orders[i].user].reserved = @ - Exposure(orders[i], Unmatched(orders[i]))]
      /\ orders' = [orders EXCEPT ![i].status = status]
      /\ \A j \in DOMAIN orders : orders[j] \in Order
  BY DEF CloseOrder, IInv, OrdersTypeOK
<1>2. DOMAIN orders' = DOMAIN orders /\ \A j \in DOMAIN orders : orders'[j].matched = orders[j].matched
  BY <1>1 DEF Order
<1>3. BalanceOf(wallets') = BalanceOf(wallets)
  <2>1. \A u \in Users : wallets'[u].balance = wallets[u].balance
    BY <1>1 DEF IInv, FundsTypeOK
  <2> QED
    BY <2>1 DEF BalanceOf
<1> QED
  BY <1>1, <1>2, <1>3 DEF BooksInv, FillsSum, Held

LEMMA BooksKept ==
  ASSUME ConstantsAssumption, IInv, [Next]_vars, BooksInv
  PROVE  BooksInv'
<1>1. \A s \in DOMAIN tx' : TakesSum(tx'[s])
  BY TakesSumKept DEF BooksInv
<1>2. FillsSum(fills', orders') /\ Held(wallets', fills') = Held(wallets, fills)
  <2>1. CASE Quiet
    BY <2>1 DEF Quiet, BooksInv
  <2> QED
    BY <2>1, StepKinds, CommitKeepsSums, CloseKeepsSums, CloseOrderKeepsSums
<1> QED
  BY <1>1, <1>2 DEF BooksInv, TakesSum, FillsSum, Held, FillsOf, BalanceOf, StakeOf, FeeOf

\* Every order's matched stake is the sum of its fills, what a transaction took is
\* the sum of its fills to be, and the fills' commissions are what the wallets lost.
THEOREM BooksHold == Spec => []BooksInv
<1>1. Init => BooksInv
  BY InitBooks, ConstantsAssumption
<1>2. IInv /\ BooksInv /\ [Next]_vars => BooksInv'
  BY BooksKept, ConstantsAssumption
<1> QED
  BY <1>1, <1>2, Inductive, PTL DEF Spec

\* However takers race for the same resting orders, none of these is shared
\* out beyond its stake, and its matched stake is what its fills add up to
\* (_match_order).
THEOREM MatchedExactly == Spec => []MatchedIsFilled
<1>1. IInv /\ BooksInv => MatchedIsFilled
  <2> SUFFICES ASSUME IInv, BooksInv, NEW i \in DOMAIN orders
               PROVE  /\ orders[i].matched <= orders[i].stake
                      /\ orders[i].matched =
                           SumFunction([f \in {g \in fills : i \in {g.taker, g.maker}} |-> f.stake])
    BY DEF MatchedIsFilled
  <2>1. orders[i].matched <= orders[i].stake
    BY DEF IInv, OrdersInv
  <2>2. PICK S : S = {g \in fills : i \in {g.taker, g.maker}}
    OBVIOUS
  <2>3. PICK table : table = [f \in S |-> f.stake]
    OBVIOUS
  <2>4. orders[i].matched = SumFunctionOnSet(StakeOf, S)
    BY <2>2 DEF BooksInv, FillsSum, FillsOf
  <2>5. IsFiniteSet(S) /\ \A f \in S : table[f] = StakeOf[f]
    BY <2>2, <2>3, FS_Subset DEF BooksInv, FillsSum, StakeOf, IInv, FundsTypeOK
  <2>6. DOMAIN table = S
    BY <2>3
  <2>7. SumFunction(table) = SumFunctionOnSet(StakeOf, S)
    BY <2>5, <2>6, SumOfTable
  <2> QED
    BY <2>1, <2>2, <2>3, <2>4, <2>7
<1> QED
  BY <1>1, Inductive, BooksHold, PTL

\* Whatever is matched, settled, voided, repeated or left half done, the
\* balances and the commission taken add up to what was there at the start
\* (_settle_fill).
THEOREM MoneyOnlyMoves == Spec => []MoneyConserved
<1>1. IInv /\ BooksInv => MoneyConserved
  <2> SUFFICES ASSUME IInv, BooksInv PROVE MoneyConserved
    OBVIOUS
  <2>1. PICK fees : fees = [f \in fills |-> f.commission]
    OBVIOUS
  <2>2. /\ IsFiniteSet(fills) /\ DOMAIN fees = fills
        /\ \A f \in fills : fees[f] = FeeOf[f]
    BY <2>1 DEF BooksInv, FillsSum, FeeOf, IInv, FundsTypeOK
  <2>3. SumFunction(fees) = SumFunctionOnSet(FeeOf, fills)
    BY <2>2, SumOfTable
  <2>4. SumFunction(BalanceOf(wallets)) = SumFunctionOnSet(BalanceOf(wallets), Users)
    BY DEF SumFunction, BalanceOf
  <2>5. SumFunction(InitialBalance) = SumFunctionOnSet(InitialBalance, Users)
    BY ConstantsAssumption DEF SumFunction, ConstantsAssumption
  <2>6. SumFunction(BalanceOf(wallets)) + SumFunction(fees) = SumFunction(InitialBalance)
    BY <2>3, <2>4, <2>5 DEF BooksInv, Held
  <2> QED
    BY <2>1, <2>6 DEF MoneyConserved, BalanceOf
<1> QED
  BY <1>1, Inductive, BooksHold, PTL

-----------------------------------------------------------------------------
(* Priority in the book *)

\* Nothing of the row can trade any more.
Gone(row) == row.status # "open" \/ Unmatched(row) = 0

\* Precedes, for the given rows.
Beats(side, rows, i, j) ==
  \/ IF side = "back" THEN rows[i].odds > rows[j].odds
                      ELSE rows[i].odds < rows[j].odds
  \/ rows[i].odds = rows[j].odds /\ i < j

\* Row j will have nothing left once t commits.
Emptied(t, rows, j) ==
  Gone(rows[j]) \/ \E f \in t.takes : f.maker = j /\ f.stake = Unmatched(rows[j])

\* The matching loop has emptied what it passed over, and what comes before
\* any row it took from.
MatchingPrio(t, rows) ==
  /\ t.book \subseteq t.seen
  /\ \A i \in t.book : rows[i].status = "open"
  /\ \A f \in t.takes : f.maker \in t.seen /\ rows[f.maker].status = "open"
  /\ Unmatched(t.order) > 0 => \A j \in t.seen \ t.book : Emptied(t, rows, j)
  /\ \A f \in t.takes : \A j \in t.seen :
       Beats(t.order.side, rows, j, f.maker) => Emptied(t, rows, j)

TxPrio(t, rows) ==
  /\ t.seen \subseteq DOMAIN rows
  /\ t.phase = "reserved" => t.book = t.seen
  /\ t.phase = "matching" => MatchingPrio(t, rows)

\* An order that still trades has nothing left to trade with among the rows
\* its query saw.
SeenDone(rows, sn) ==
  \A i \in DOMAIN rows :
    sn[i] \subseteq DOMAIN rows /\ \A j \in sn[i] : Gone(rows[i]) \/ Gone(rows[j])

FillsPrio(F, rows, sn) ==
  \A f \in F : \A j \in sn[f.taker] :
    Beats(rows[f.taker].side, rows, j, f.maker) => Gone(rows[j])

PriorityInv ==
  /\ \A s \in DOMAIN tx : TxPrio(tx[s], orders)
  /\ SeenDone(orders, seen)
  /\ FillsPrio(fills, orders, seen)

LEMMA InitPriority == Init => PriorityInv
BY DEF Init, PriorityInv, SeenDone, FillsPrio

\* What can no longer trade never trades again.
LEMMA GoneStays ==
  ASSUME IInv, IInv', [Next]_vars, NEW i \in DOMAIN orders, Gone(orders[i])
  PROVE  Gone(orders'[i])
<1>1. /\ i \in DOMAIN orders' /\ orders[i] \in Order /\ Evolved(orders[i], orders'[i])
  BY RowsEvolve DEF IInv, OrdersTypeOK
<1>2. orders'[i].matched <= orders'[i].stake
  BY <1>1 DEF IInv, OrdersInv
<1> QED
  BY <1>1, <1>2 DEF Gone, Evolved, SameTerms, Order, Unmatched

LEMMA BeatsStays ==
  ASSUME IInv, IInv', [Next]_vars, NEW side, NEW i \in DOMAIN orders, NEW j \in DOMAIN orders
  PROVE  Beats(side, orders', i, j) <=> Beats(side, orders, i, j)
<1>1. orders'[i].odds = orders[i].odds /\ orders'[j].odds = orders[j].odds
  BY RowsEvolve DEF Evolved, SameTerms
<1> QED
  BY <1>1 DEF Beats

\* A transaction the step leaves alone keeps its promise about the rows.
LEMMA TxPrioStays ==
  ASSUME IInv, IInv', [Next]_vars, NEW s \in DOMAIN tx, s \in DOMAIN tx',
         TxPrio(tx[s], orders)
  PROVE  TxPrio(tx[s], orders')
<1> DEFINE t == tx[s]
<1>1. TxInv(t) /\ t \in Tx
  BY DEF IInv, TxsInv, TxTypeOK
<1>2. /\ t.phase = "matching" => t.book \subseteq t.locks
      /\ \A f \in t.takes : f.maker \in t.locks
  BY <1>1 DEF TxInv, TakeInv
<1>3. \A i \in t.locks : i \in DOMAIN orders /\ orders'[i] = orders[i]
  BY LockedStays
<1>4. \A i \in DOMAIN orders : i \in DOMAIN orders'
  BY RowsEvolve
<1>5. \A j \in DOMAIN orders : Emptied(t, orders, j) => Emptied(t, orders', j)
  <2> SUFFICES ASSUME NEW j \in DOMAIN orders, Emptied(t, orders, j)
               PROVE  Emptied(t, orders', j)
    OBVIOUS
  <2>1. CASE Gone(orders[j])
    BY <2>1, GoneStays DEF Emptied
  <2>2. ASSUME NEW f \in t.takes, f.maker = j, f.stake = Unmatched(orders[j])
        PROVE  Emptied(t, orders', j)
    <3>1. orders'[j] = orders[j]
      BY <1>2, <1>3, <2>2
    <3> QED
      BY <2>2, <3>1 DEF Emptied
  <2> QED
    BY <2>1, <2>2 DEF Emptied
<1>6. t.seen \subseteq DOMAIN orders' /\ (t.phase = "reserved" => t.book = t.seen)
  BY <1>4 DEF TxPrio
<1>7. ASSUME t.phase = "matching" PROVE MatchingPrio(t, orders')
  <2> HIDE DEF t
  <2>1. MatchingPrio(t, orders) /\ t.seen \subseteq DOMAIN orders
    BY <1>7 DEF TxPrio, t
  <2>2. t.book \subseteq t.seen /\ \A i \in t.book : orders'[i].status = "open"
    BY <1>2, <1>3, <1>7, <2>1 DEF MatchingPrio
  <2>3. \A f \in t.takes : f.maker \in t.seen /\ orders'[f.maker].status = "open"
    BY <1>2, <1>3, <2>1 DEF MatchingPrio
  <2>4. Unmatched(t.order) > 0 => \A j \in t.seen \ t.book : Emptied(t, orders', j)
    BY <1>5, <2>1 DEF MatchingPrio
  <2>5. ASSUME NEW f \in t.takes, NEW j \in t.seen,
               Beats(t.order.side, orders', j, f.maker)
        PROVE  Emptied(t, orders', j)
    <3>1. j \in DOMAIN orders /\ f.maker \in DOMAIN orders
      BY <2>1 DEF MatchingPrio
    <3>2. Beats(t.order.side, orders, j, f.maker)
      BY <2>5, <3>1, BeatsStays
    <3> QED
      BY <1>5, <2>1, <3>1, <3>2 DEF MatchingPrio
  <2> QED
    BY <2>2, <2>3, <2>4, <2>5 DEF MatchingPrio
<1> QED
  BY <1>6, <1>7 DEF TxPrio

LEMMA LockBookPrio ==
  ASSUME IInv, NEW s \in Sessions, LockBook(s), TxPrio(tx[s], orders)
  PROVE  TxPrio(tx'[s], orders)
<1>1. /\ tx[s].phase = "reserved" /\ tx'[s].phase = "matching"
      /\ tx'[s].takes = tx[s].takes /\ tx'[s].seen = tx[s].seen
      /\ tx'[s].order = tx[s].order /\ TxInv(tx[s])
      /\ tx'[s].book = {i \in tx[s].book : orders[i].status = "open"}
  BY NewLocked
<1>2. tx'[s].takes = {} /\ tx'[s].book = {i \in tx'[s].seen : orders[i].status = "open"}
      /\ tx'[s].seen \subseteq DOMAIN orders
  BY <1>1 DEF TxPrio, TxInv
<1> QED
  BY <1>1, <1>2 DEF TxPrio, MatchingPrio, Emptied, Gone

LEMMA MatchPrio ==
  ASSUME IInv, NEW s \in Sessions, MatchNext(s), TxPrio(tx[s], orders)
  PROVE  TxPrio(tx'[s], orders)
<1> DEFINE t0 == tx[s]
           t == tx'[s]
<1>1. /\ t0 \in Tx /\ TxInv(t0) /\ t0.phase = "matching" /\ t.phase = "matching"
      /\ Unmatched(t0.order) > 0 /\ t.seen = t0.seen
      /\ SameTerms(t0.order, t.order) /\ t.order \in Order
      /\ \E i \in Best(t0.order.side, t0.book), fill \in Fill :
           /\ t.book = t0.book \ {i}
           /\ fill.maker = i /\ fill.taker = t0.id /\ fill.odds = orders[i].odds
           /\ fill.status = "pending" /\ fill.commission = 0
           /\ \/ fill.stake = Unmatched(t0.order)
              \/ fill.stake = Unmatched(orders[i])
           /\ fill.stake <= Unmatched(t0.order)
           /\ t.order.matched = t0.order.matched + fill.stake
           /\ t.takes = IF fill.stake = 0 THEN t0.takes ELSE t0.takes \cup {fill}
  BY NewMatched, Zenon
<1> SUFFICES TxPrio(t, orders)
  OBVIOUS
<1>2. MatchingPrio(t0, orders) /\ t0.seen \subseteq DOMAIN orders
  BY <1>1 DEF TxPrio
<1> HIDE DEF t0, t
<1>3. PICK i \in Best(t0.order.side, t0.book), fill \in Fill :
           /\ t.book = t0.book \ {i}
           /\ fill.maker = i
           /\ \/ fill.stake = Unmatched(t0.order)
              \/ fill.stake = Unmatched(orders[i])
           /\ t.order.matched = t0.order.matched + fill.stake
           /\ t.takes = IF fill.stake = 0 THEN t0.takes ELSE t0.takes \cup {fill}
  BY <1>1
<1>4. /\ i \in t0.book /\ i \in t0.seen /\ i \in DOMAIN orders /\ orders[i].status = "open"
      /\ \A j \in t0.book \ {i} : Beats(t0.order.side, orders, i, j)
      /\ t0.book \subseteq DOMAIN orders
  BY <1>2, <1>3 DEF Best, Precedes, Beats, MatchingPrio
<1>5. /\ t0.takes \subseteq t.takes
      /\ \A f \in t.takes : f \in t0.takes \/ (f = fill /\ fill.stake # 0)
      /\ fill.stake = 0 \/ fill \in t.takes
  <2>1. CASE fill.stake = 0
    <3>1. t.takes = t0.takes
      BY <1>3, <2>1
    <3> QED
      BY <2>1, <3>1
  <2>2. CASE fill.stake # 0
    <3>1. t.takes = t0.takes \cup {fill}
      BY <1>3, <2>2
    <3> QED
      BY <2>2, <3>1
  <2> QED
    BY <2>1, <2>2
<1>6. \A j \in t0.seen : Emptied(t0, orders, j) => Emptied(t, orders, j)
  BY <1>5 DEF Emptied
<1>7. \A j \in t0.seen \ t0.book : Emptied(t, orders, j)
  BY <1>1, <1>2, <1>6 DEF MatchingPrio
<1>8. ASSUME Unmatched(t.order) > 0 PROVE Emptied(t, orders, i)
  <2>1. /\ t0.order.stake \in Nat /\ t0.order.matched \in Nat
        /\ t.order.stake = t0.order.stake /\ fill.stake \in Nat
    BY <1>1 DEF Tx, Order, SameTerms, Fill
  <2>2. fill.stake # Unmatched(t0.order)
    BY <1>3, <1>8, <2>1 DEF Unmatched
  <2>3. fill.stake = Unmatched(orders[i])
    BY <1>3, <2>2
  <2> QED
    BY <1>3, <1>5, <2>3 DEF Emptied, Gone
<1>9. Unmatched(t.order) > 0 => \A j \in t.seen \ t.book : Emptied(t, orders, j)
  BY <1>1, <1>3, <1>7, <1>8
<1>10. t.order.side = t0.order.side
  BY <1>1 DEF SameTerms
<1>11. ASSUME NEW f \in t.takes, NEW j \in t.seen, Beats(t.order.side, orders, j, f.maker)
       PROVE  Emptied(t, orders, j)
  <2>1. CASE f \in t0.takes
    BY <1>1, <1>2, <1>6, <1>10, <1>11, <2>1 DEF MatchingPrio
  <2>2. CASE f = fill
    <3>1. Beats(t0.order.side, orders, j, i) /\ j \in t0.seen /\ j \in DOMAIN orders
      BY <1>1, <1>2, <1>3, <1>10, <1>11, <2>2
    <3>2. orders[i].odds \in Nat /\ orders[j].odds \in Nat /\ i \in Nat /\ j \in Nat
      BY <1>4, <3>1 DEF IInv, OrdersTypeOK, Order, OrderIds
    <3>3. j # i
      BY <3>1, <3>2 DEF Beats
    <3>4. ~Beats(t0.order.side, orders, i, j)
      BY <3>1, <3>2 DEF Beats
    <3>5. j \notin t0.book
      BY <1>4, <3>3, <3>4
    <3> QED
      BY <1>7, <3>1, <3>5
  <2> QED
    BY <1>5, <2>1, <2>2
<1>12. /\ t.book \subseteq t.seen /\ \A k \in t.book : orders[k].status = "open"
       /\ \A f \in t.takes : f.maker \in t.seen /\ orders[f.maker].status = "open"
  BY <1>1, <1>2, <1>3, <1>4, <1>5 DEF MatchingPrio
<1>13. MatchingPrio(t, orders)
  BY <1>9, <1>11, <1>12 DEF MatchingPrio
<1> QED
  BY <1>1, <1>2, <1>13 DEF TxPrio

LEMMA TxPrioKept ==
  ASSUME IInv, IInv', [Next]_vars, PriorityInv, NEW s \in DOMAIN tx'
  PROVE  TxPrio(tx'[s], orders')
<1>1. CASE s \in DOMAIN tx /\ tx'[s] = tx[s]
  BY <1>1, TxPrioStays DEF PriorityInv
<1>2. CASE ~(s \in DOMAIN tx /\ tx'[s] = tx[s])
  <2>1. /\ orders' = orders
        /\ \/ PlaceCheck(s) \/ PlaceReserve(s) \/ CashOutReserve(s)
           \/ LockBook(s) \/ MatchNext(s)
           \/ \E i \in OrderIds : CashOutWalk(s, i)
    BY <1>2, TxMoves DEF Quiet
  <2>2. s \in Sessions
    BY DEF IInv, TxTypeOK
  <2>3. CASE PlaceCheck(s)
    BY <2>3, NewChecked DEF TxPrio
  <2>4. ASSUME NEW i \in OrderIds, CashOutWalk(s, i) PROVE TxPrio(tx'[s], orders)
    <3>1. tx'[s].phase = "walked" /\ tx'[s].seen = {}
      BY <2>2, <2>4, NewWalked
    <3> QED
      BY <3>1 DEF TxPrio
  <2>5. CASE PlaceReserve(s) \/ CashOutReserve(s)
    <3>1. /\ tx'[s].phase = "reserved" /\ tx'[s].book = tx'[s].seen
          /\ tx'[s].seen = Compatible(tx'[s].order)
      BY <2>2, <2>5, NewReserved
    <3>2. Compatible(tx'[s].order) \subseteq DOMAIN orders
      BY DEF Compatible, Counterparties
    <3> QED
      BY <2>1, <3>1, <3>2 DEF TxPrio
  <2>6. CASE LockBook(s)
    BY <2>2, <2>6, LockBookPrio DEF PriorityInv, LockBook
  <2>7. CASE MatchNext(s)
    BY <2>2, <2>7, MatchPrio DEF PriorityInv, MatchNext
  <2> QED
    BY <2>1, <2>3, <2>4, <2>5, <2>6, <2>7
<1> QED
  BY <1>1, <1>2

\* What was promised of the committed rows stays true of them.
LEMMA OldPrioStays ==
  ASSUME IInv, IInv', [Next]_vars, PriorityInv
  PROVE  /\ \A i \in DOMAIN orders : \A j \in seen[i] :
              j \in DOMAIN orders /\ (Gone(orders'[i]) \/ Gone(orders'[j]))
         /\ \A f \in fills : \A j \in seen[f.taker] :
              Beats(orders'[f.taker].side, orders', j, f.maker) => Gone(orders'[j])
<1>1. ASSUME NEW i \in DOMAIN orders, NEW j \in seen[i]
      PROVE  j \in DOMAIN orders /\ (Gone(orders'[i]) \/ Gone(orders'[j]))
  <2>1. j \in DOMAIN orders /\ (Gone(orders[i]) \/ Gone(orders[j]))
    BY DEF PriorityInv, SeenDone
  <2> QED
    BY <2>1, GoneStays
<1>2. ASSUME NEW f \in fills, NEW j \in seen[f.taker],
             Beats(orders'[f.taker].side, orders', j, f.maker)
      PROVE  Gone(orders'[j])
  <2>1. f.taker \in DOMAIN orders /\ f.maker \in DOMAIN orders
    BY DEF IInv, FillsInv
  <2>2. j \in DOMAIN orders
    BY <2>1 DEF PriorityInv, SeenDone
  <2>3. orders'[f.taker].side = orders[f.taker].side
    BY <2>1, RowsEvolve DEF Evolved, SameTerms
  <2>4. Beats(orders[f.taker].side, orders, j, f.maker)
    BY <1>2, <2>1, <2>2, <2>3, BeatsStays
  <2>5. Gone(orders[j])
    BY <2>4 DEF PriorityInv, FillsPrio
  <2> QED
    BY <2>2, <2>5, GoneStays
<1> QED
  BY <1>1, <1>2

\* A commit empties what its transaction promised to empty.
LEMMA CommitKeepsPriority ==
  ASSUME IInv, IInv', [Next]_vars, PriorityInv, NEW s \in Sessions, Commit(s)
  PROVE  SeenDone(orders', seen') /\ FillsPrio(fills', orders', seen')
<1> PICK t : t = tx[s]
  OBVIOUS
<1>1. /\ t \in Tx /\ TxInv(t) /\ t.phase = "matching" /\ s \in DOMAIN tx
      /\ MatchingOver(t) /\ t.id \notin DOMAIN orders
      /\ fills' = fills \cup t.takes
      /\ DOMAIN orders' = DOMAIN orders \cup {t.id}
      /\ \A f \in t.takes :
           /\ f \in Fill /\ TakeInv(t, f) /\ f.maker \in DOMAIN orders
           /\ orders'[f.maker] = [orders[f.maker] EXCEPT !.matched = @ + f.stake]
  BY Committed
<1>2. /\ SameTerms(t.order, orders'[t.id])
      /\ orders'[t.id].matched = t.order.matched
      /\ Killed(t) => orders'[t.id].status = "cancelled"
  BY Committed
<1>3. /\ seen'[t.id] = t.seen
      /\ \A i \in DOMAIN orders : seen'[i] = seen[i]
  <2>1. seen' = [i \in DOMAIN orders \cup {tx[s].id} |->
                   IF i = tx[s].id THEN tx[s].seen ELSE seen[i]]
    BY Committed, Zenon
  <2> QED
    BY <1>1, <2>1
<1>4. MatchingPrio(t, orders) /\ t.seen \subseteq DOMAIN orders
  BY <1>1 DEF PriorityInv, TxPrio
<1>5. ASSUME NEW j \in t.seen, Emptied(t, orders, j) PROVE Gone(orders'[j])
  <2>1. j \in DOMAIN orders /\ orders[j] \in Order
    BY <1>4 DEF IInv, OrdersTypeOK
  <2>2. CASE Gone(orders[j])
    BY <2>1, <2>2, GoneStays
  <2>3. ASSUME NEW f \in t.takes, f.maker = j, f.stake = Unmatched(orders[j])
        PROVE  Gone(orders'[j])
    <3>1. orders'[j] = [orders[j] EXCEPT !.matched = @ + f.stake]
      BY <1>1, <2>3
    <3>2. /\ orders'[j].matched = orders[j].matched + f.stake
          /\ orders'[j].stake = orders[j].stake
          /\ orders[j].matched \in Nat /\ orders[j].stake \in Nat
      BY <2>1, <3>1 DEF Order
    <3> QED
      BY <2>3, <3>2 DEF Gone, Unmatched
  <2> QED
    BY <1>5, <2>2, <2>3 DEF Emptied
<1>6. ASSUME NEW j \in t.seen PROVE Gone(orders'[t.id]) \/ Gone(orders'[j])
  <2>1. CASE Killed(t)
    BY <1>2, <2>1 DEF Gone
  <2>2. CASE Unmatched(t.order) = 0
    BY <1>2, <2>2 DEF Gone, Unmatched, SameTerms
  <2>3. CASE Unmatched(t.order) # 0
    <3>1. t.order.stake \in Nat /\ t.order.matched \in Nat /\ t.order.matched <= t.order.stake
      BY <1>1 DEF Tx, Order, TxInv
    <3>2. Unmatched(t.order) > 0
      BY <2>3, <3>1 DEF Unmatched
    <3>3. t.book = {}
      BY <1>1, <2>3 DEF MatchingOver
    <3>4. Emptied(t, orders, j)
      BY <1>4, <3>2, <3>3 DEF MatchingPrio
    <3> QED
      BY <1>5, <3>4
  <2> QED
    BY <2>2, <2>3
<1>7. SeenDone(orders', seen')
  <2>1. ASSUME NEW i \in DOMAIN orders'
        PROVE  seen'[i] \subseteq DOMAIN orders' /\ \A j \in seen'[i] : Gone(orders'[i]) \/ Gone(orders'[j])
    <3>1. CASE i = t.id
      BY <1>1, <1>3, <1>4, <1>6, <3>1
    <3>2. CASE i \in DOMAIN orders
      <4>1. seen'[i] = seen[i]
        BY <1>3, <3>2
      <4>2. \A j \in seen[i] : j \in DOMAIN orders /\ (Gone(orders'[i]) \/ Gone(orders'[j]))
        BY <3>2, OldPrioStays
      <4> QED
        BY <1>1, <4>1, <4>2
    <3> QED
      BY <1>1, <3>1, <3>2
  <2> QED
    BY <2>1 DEF SeenDone
<1>8. ASSUME NEW f \in fills', NEW j \in seen'[f.taker],
             Beats(orders'[f.taker].side, orders', j, f.maker)
      PROVE  Gone(orders'[j])
  <2>1. CASE f \in fills
    <3>1. f.taker \in DOMAIN orders
      BY <2>1 DEF IInv, FillsInv
    <3> QED
      BY <1>3, <1>8, <2>1, <3>1, OldPrioStays
  <2>2. CASE f \in t.takes
    <3>1. f.taker = t.id /\ f.maker \in DOMAIN orders /\ j \in t.seen /\ j \in DOMAIN orders
      BY <1>1, <1>3, <1>4, <1>8, <2>2 DEF TakeInv
    <3>2. orders'[t.id].side = t.order.side
      BY <1>2 DEF SameTerms
    <3>3. Beats(t.order.side, orders, j, f.maker)
      BY <1>8, <3>1, <3>2, BeatsStays
    <3>4. Emptied(t, orders, j)
      BY <1>4, <2>2, <3>1, <3>3 DEF MatchingPrio
    <3> QED
      BY <1>5, <3>1, <3>4
  <2> QED
    BY <1>1, <2>1, <2>2
<1>9. FillsPrio(fills', orders', seen')
  BY <1>8 DEF FillsPrio
<1> QED
  BY <1>7, <1>9

LEMMA PriorityKept ==
  ASSUME IInv, IInv', [Next]_vars, PriorityInv
  PROVE  PriorityInv'
<1>1. \A s \in DOMAIN tx' : TxPrio(tx'[s], orders')
  BY TxPrioKept
<1>2. SeenDone(orders', seen') /\ FillsPrio(fills', orders', seen')
  <2>1. CASE Quiet
    BY <2>1 DEF Quiet, PriorityInv
  <2>2. ASSUME NEW i, NEW status, CloseOrder(i, status)
        PROVE  SeenDone(orders', seen') /\ FillsPrio(fills', orders', seen')
    <3>1. DOMAIN orders' = DOMAIN orders /\ fills' = fills /\ seen' = seen
      BY <2>2 DEF CloseOrder
    <3> QED
      BY <3>1, OldPrioStays DEF SeenDone, FillsPrio
  <2>3. ASSUME NEW f, CloseFill(f)
        PROVE  SeenDone(orders', seen') /\ FillsPrio(fills', orders', seen')
    <3>1. orders' = orders /\ seen' = seen /\ f \in fills
      BY <2>3 DEF CloseFill
    <3>2. \E g : /\ g.taker = f.taker /\ g.maker = f.maker
                 /\ fills' = (fills \ {f}) \cup {g}
      BY <2>3, FillClosed, ConstantsAssumption
    <3>3. \A g \in fills' : \E h \in fills : g.taker = h.taker /\ g.maker = h.maker
      BY <3>1, <3>2
    <3> QED
      BY <3>1, <3>3 DEF PriorityInv, SeenDone, FillsPrio
  <2> QED
    BY <2>1, <2>2, <2>3, StepKinds, CommitKeepsPriority
<1> QED
  BY <1>1, <1>2
     DEF PriorityInv, TxPrio, MatchingPrio, Emptied, Gone, Unmatched, Beats, SeenDone, FillsPrio

\* What a transaction in flight has passed over of the orders its query saw is
\* spent or closed, and so is what any fill's taker passed over.
THEOREM PriorityHolds == Spec => []PriorityInv
<1>1. Init => PriorityInv
  BY InitPriority
<1>2. IInv /\ IInv' /\ PriorityInv /\ [Next]_vars => PriorityInv'
  BY PriorityKept
<1> QED
  BY <1>1, <1>2, Inductive, PTL DEF Spec

\* Price-time priority, in every interleaving of takers, cancellations,
\* cash-outs and settlements: an order that traded with a resting order left
\* nothing of the better ones its query saw, unless they closed (_match_order).
THEOREM PriorityRespected == Spec => []PriceTimePriority
<1>1. PriorityInv => PriceTimePriority
  BY DEF PriorityInv, FillsPrio, Beats, Precedes, Gone, PriceTimePriority
<1> QED
  BY <1>1, PriorityHolds, PTL

\* Two orders that could trade with each other rest side by side only if the
\* younger one's query ran before the older one's transaction committed
\* (place_order, _match_order).
THEOREM CrossedWereUnseen == Spec => []CrossedOnlyIfUnseen
<1>1. IInv /\ PriorityInv => CrossedOnlyIfUnseen
  <2> SUFFICES ASSUME IInv, PriorityInv, NEW i \in DOMAIN orders, NEW j \in DOMAIN orders,
                      Crossed(i, j), i \in seen[j]
               PROVE  FALSE
    BY DEF CrossedOnlyIfUnseen
  <2>1. Gone(orders[j]) \/ Gone(orders[i])
    BY DEF PriorityInv, SeenDone
  <2>2. /\ orders[i].status = "open" /\ orders[j].status = "open"
        /\ Unmatched(orders[i]) > 0 /\ Unmatched(orders[j]) > 0
    BY DEF Crossed
  <2>3. Unmatched(orders[i]) # 0 /\ Unmatched(orders[j]) # 0
    BY <2>2
  <2> QED
    BY <2>1, <2>2, <2>3 DEF Gone
<1> QED
  BY <1>1, Inductive, PriorityHolds, PTL

-----------------------------------------------------------------------------
(* Reservations *)

PendingOf(F, i) == {f \in F : f.status = "pending" /\ i \in {f.taker, f.maker}}

\* What of an order's stake can still trade.
Left(row) == IF row.status = "open" THEN Unmatched(row) ELSE 0

\* The stake of an order whose exposure is reserved: what can still trade and
\* what has traded and is not decided.
Carried(row, F, i) == Left(row) + SumFunctionOnSet(StakeOf, PendingOf(F, i))

RiskOf(rows, F) ==
  [i \in DOMAIN rows |-> Exposure(rows[i], Carried(rows[i], F, i))]

Own(rows, u) == {i \in DOMAIN rows : rows[i].user = u}

\* Order by order, a wallet has reserved what its owner carries.
ReservedInv ==
  \A u \in Users :
    wallets[u].reserved = SumFunctionOnSet(RiskOf(orders, fills), Own(orders, u))

LEMMA InitReserved == ConstantsAssumption /\ Init => ReservedInv
<1> SUFFICES ASSUME ConstantsAssumption, Init, NEW u \in Users
             PROVE  wallets[u].reserved = SumFunctionOnSet(RiskOf(orders, fills), Own(orders, u))
  BY DEF ReservedInv
<1>1. wallets[u].reserved = 0 /\ Own(orders, u) = {}
  BY DEF Init, Own
<1> QED
  BY <1>1, SumEmpty

LEMMA RateInt ==
  ASSUME NEW o \in Order
  PROVE  /\ ExposureRate(o.side, o.odds) \in Int
         /\ \A a \in Int : Exposure(o, a) \in Int
<1>1. PICK r \in Int : r = ExposureRate(o.side, o.odds)
  BY DEF ExposureRate, Order
<1> QED
  BY <1>1 DEF Exposure

\* Exposure is linear in the stake.
LEMMA ExposureMinus ==
  ASSUME NEW o \in Order, NEW a \in Int, NEW b \in Int
  PROVE  Exposure(o, a - b) = Exposure(o, a) - Exposure(o, b)
<1>1. PICK r \in Int : r = ExposureRate(o.side, o.odds)
  BY RateInt
<1>2. (a - b) * r = a * r - b * r
  OBVIOUS
<1> QED
  BY <1>1, <1>2 DEF Exposure

\* The pieces a reservation is made of are numbers.
LEMMA CarriedInt ==
  ASSUME IInv, BooksInv, NEW i \in DOMAIN orders
  PROVE  /\ IsFiniteSet(PendingOf(fills, i)) /\ PendingOf(fills, i) \subseteq Fill
         /\ SumFunctionOnSet(StakeOf, PendingOf(fills, i)) \in Int
         /\ orders[i] \in Order /\ Left(orders[i]) \in Int
         /\ Carried(orders[i], fills, i) \in Int
         /\ RiskOf(orders, fills)[i] = Exposure(orders[i], Carried(orders[i], fills, i))
         /\ RiskOf(orders, fills)[i] \in Int
<1>1. IsFiniteSet(PendingOf(fills, i)) /\ PendingOf(fills, i) \subseteq Fill
  BY FS_Subset DEF PendingOf, BooksInv, FillsSum, IInv, FundsTypeOK
<1>2. SumFunctionOnSet(StakeOf, PendingOf(fills, i)) \in Int
  BY <1>1, StakeSums
<1>3. orders[i] \in Order /\ Left(orders[i]) \in Int
  BY DEF IInv, OrdersTypeOK, Left, Unmatched, Order
<1>4. Carried(orders[i], fills, i) \in Int
  BY <1>2, <1>3 DEF Carried
<1>5. RiskOf(orders, fills)[i] = Exposure(orders[i], Carried(orders[i], fills, i))
  BY DEF RiskOf
<1> QED
  BY <1>1, <1>2, <1>3, <1>4, <1>5, RateInt

LEMMA OwnFinite ==
  ASSUME IInv, ConstantsAssumption, NEW u
  PROVE  IsFiniteSet(Own(orders, u)) /\ Own(orders, u) \subseteq DOMAIN orders
<1>1. IsFiniteSet(OrderIds)
  BY FS_Interval DEF OrderIds, ConstantsAssumption
<1>2. Own(orders, u) \subseteq OrderIds /\ Own(orders, u) \subseteq DOMAIN orders
  BY DEF Own, IInv, OrdersTypeOK
<1> QED
  BY <1>1, <1>2, FS_Subset

\* A commit carries its own order from now on, and what it took stays carried
\* by the orders it took it from.
LEMMA CommitCarries ==
  ASSUME IInv, ConstantsAssumption, BooksInv, PriorityInv, NEW s \in Sessions, Commit(s)
  PROVE  /\ Carried(orders'[tx[s].id], fills', tx[s].id) = Kept(tx[s])
         /\ \A i \in DOMAIN orders :
              Carried(orders'[i], fills', i) = Carried(orders[i], fills, i)
<1> PICK t : t = tx[s]
  OBVIOUS
<1>1. /\ t \in Tx /\ TxInv(t) /\ s \in DOMAIN tx /\ t.phase = "matching"
      /\ t.id \in OrderIds /\ t.id \notin DOMAIN orders
      /\ fills' = fills \cup t.takes
      /\ SameTerms(t.order, orders'[t.id]) /\ orders'[t.id].matched = t.order.matched
      /\ orders'[t.id].status = IF Killed(t) THEN "cancelled" ELSE t.order.status
      /\ \A i \in DOMAIN orders : TakeOf(t, i) = {} => orders'[i] = orders[i]
      /\ \A f \in t.takes :
           /\ f \in Fill /\ TakeInv(t, f) /\ f.maker \in DOMAIN orders
           /\ orders'[f.maker] = [orders[f.maker] EXCEPT !.matched = @ + f.stake]
  BY Committed
<1>2. /\ IsFiniteSet(t.takes) /\ t.takes \subseteq Fill /\ t.order.status = "open"
      /\ t.order.matched = SumFunctionOnSet(StakeOf, t.takes)
      /\ \A f \in t.takes : f.status = "pending"
  BY <1>1 DEF BooksInv, TakesSum, Tx
<1>3. \A f \in t.takes : orders[f.maker].status = "open"
  BY <1>1 DEF PriorityInv, TxPrio, MatchingPrio
<1>4. /\ fills \subseteq Fill
      /\ \A f \in fills : f.taker \in DOMAIN orders /\ f.maker \in DOMAIN orders
  BY DEF IInv, FundsTypeOK, FillsInv
<1>5. /\ \A f \in t.takes : f.taker = t.id /\ f.maker # t.id
      /\ \A d, e \in t.takes : d.maker = e.maker => d = e
  BY <1>1 DEF TakeInv, TxInv
<1>6. Carried(orders'[t.id], fills', t.id) = Kept(t)
  <2>1. PendingOf(fills', t.id) = t.takes
    BY <1>1, <1>2, <1>4, <1>5 DEF PendingOf
  <2>2. t.order.stake \in Nat /\ t.order.matched \in Nat /\ orders'[t.id].stake = t.order.stake
    BY <1>1 DEF Tx, Order, SameTerms
  <2>3. CASE Killed(t)
    <3>1. Left(orders'[t.id]) = 0
      BY <1>1, <2>3 DEF Left
    <3> QED
      BY <1>2, <2>1, <2>2, <2>3, <3>1 DEF Carried, Kept
  <2>4. CASE ~Killed(t)
    <3>1. Left(orders'[t.id]) = t.order.stake - t.order.matched
      BY <1>1, <1>2, <2>2, <2>4 DEF Left, Unmatched
    <3> QED
      BY <1>2, <2>1, <2>2, <2>4, <3>1 DEF Carried, Kept
  <2> QED
    BY <2>3, <2>4
<1>7. ASSUME NEW i \in DOMAIN orders
      PROVE  Carried(orders'[i], fills', i) = Carried(orders[i], fills, i)
  <2>1. PendingOf(fills', i) = PendingOf(fills, i) \cup TakeOf(t, i)
    BY <1>1, <1>2, <1>5 DEF PendingOf, TakeOf
  <2>2. CASE TakeOf(t, i) = {}
    BY <1>1, <2>1, <2>2 DEF Carried
  <2>3. ASSUME NEW f \in TakeOf(t, i)
        PROVE  Carried(orders'[i], fills', i) = Carried(orders[i], fills, i)
    <3>1. f \in t.takes /\ f.maker = i /\ TakeOf(t, i) = {f}
      BY <1>5, <2>3 DEF TakeOf
    <3>2. PICK S : S = PendingOf(fills, i)
      OBVIOUS
    <3>3. IsFiniteSet(S) /\ S \subseteq Fill /\ f \notin S /\ SumFunctionOnSet(StakeOf, S) \in Int
      BY <1>1, <1>4, <1>5, <3>1, <3>2, CarriedInt DEF PendingOf
    <3>4. /\ \A x \in S : StakeOf[x] \in Int
          /\ StakeOf[f] = f.stake /\ f.stake \in Nat
      BY <1>2, <3>1, <3>3 DEF StakeOf, Fill
    <3>5. SumFunctionOnSet(StakeOf, S \cup {f}) = StakeOf[f] + SumFunctionOnSet(StakeOf, S)
      BY <3>3, <3>4, SumAdd
    <3>6. /\ orders'[i].matched = orders[i].matched + f.stake
          /\ orders'[i].stake = orders[i].stake /\ orders'[i].status = "open"
          /\ orders[i].status = "open"
          /\ orders[i].matched \in Nat /\ orders[i].stake \in Nat
      <4>1. orders[i] \in Order
        BY DEF IInv, OrdersTypeOK
      <4>2. orders'[i] = [orders[i] EXCEPT !.matched = @ + f.stake] /\ orders[i].status = "open"
        BY <1>1, <1>3, <3>1
      <4> QED
        BY <4>1, <4>2 DEF Order
    <3>7. Left(orders'[i]) = Left(orders[i]) - f.stake /\ Left(orders[i]) \in Int
      BY <3>4, <3>6 DEF Left, Unmatched
    <3> QED
      BY <2>1, <3>1, <3>2, <3>3, <3>4, <3>5, <3>7 DEF Carried
  <2> QED
    BY <2>2, <2>3
<1> QED
  BY <1>6, <1>7

LEMMA CommitReserved ==
  ASSUME IInv, IInv', ConstantsAssumption, [Next]_vars, BooksInv, PriorityInv, ReservedInv,
         NEW s \in Sessions, Commit(s), NEW u \in Users
  PROVE  wallets'[u].reserved = SumFunctionOnSet(RiskOf(orders', fills'), Own(orders', u))
<1> PICK t : t = tx[s]
  OBVIOUS
<1>1. /\ t \in Tx /\ TxInv(t)
      /\ t.id \notin DOMAIN orders /\ DOMAIN orders' = DOMAIN orders \cup {t.id}
      /\ SameTerms(t.order, orders'[t.id])
      /\ wallets' = [wallets EXCEPT
           ![t.order.user].reserved = @ + Exposure(t.order, Kept(t))]
  BY Committed
<1>2. PICK p, q : p = RiskOf(orders, fills) /\ q = RiskOf(orders', fills')
  OBVIOUS
<1>3. PICK S : S = Own(orders, u)
  OBVIOUS
<1>4. /\ IsFiniteSet(S) /\ S \subseteq DOMAIN orders /\ t.id \notin S
      /\ \A i \in S : p[i] \in Int
      /\ wallets[u].reserved = SumFunctionOnSet(p, S)
  BY <1>1, <1>2, <1>3, OwnFinite, CarriedInt DEF ReservedInv
<1>5. \A i \in DOMAIN orders : SameTerms(orders[i], orders'[i])
  BY RowsEvolve DEF Evolved
<1>6. \A i \in DOMAIN orders : p[i] = q[i]
  <2> SUFFICES ASSUME NEW i \in DOMAIN orders PROVE p[i] = q[i]
    OBVIOUS
  <2>1. Carried(orders'[i], fills', i) = Carried(orders[i], fills, i)
    BY CommitCarries
  <2>2. i \in DOMAIN orders' /\ orders'[i].side = orders[i].side /\ orders'[i].odds = orders[i].odds
    BY <1>1, <1>5 DEF SameTerms
  <2>3. q[i] = Exposure(orders'[i], Carried(orders'[i], fills', i))
    BY <1>2, <2>2 DEF RiskOf
  <2>4. p[i] = Exposure(orders[i], Carried(orders[i], fills, i))
    BY <1>2 DEF RiskOf
  <2> QED
    BY <2>1, <2>2, <2>3, <2>4 DEF Exposure
<1>7. q[t.id] = Exposure(t.order, Kept(t))
  <2>1. Carried(orders'[t.id], fills', t.id) = Kept(t)
    BY CommitCarries
  <2>2. q[t.id] = Exposure(orders'[t.id], Carried(orders'[t.id], fills', t.id))
    BY <1>1, <1>2 DEF RiskOf
  <2>3. orders'[t.id].side = t.order.side /\ orders'[t.id].odds = t.order.odds
    BY <1>1 DEF SameTerms
  <2> QED
    BY <2>1, <2>2, <2>3 DEF Exposure
<1>8. SumFunctionOnSet(q, S) = SumFunctionOnSet(p, S)
  BY <1>4, <1>6, SumSame
<1>9. \A i \in DOMAIN orders' : orders'[i].user = u <=> i \in S \/ (i = t.id /\ t.order.user = u)
  BY <1>1, <1>3, <1>5 DEF Own, SameTerms
<1>10. wallets[u].reserved \in Int /\ wallets \in [Users -> [balance: Int, reserved: Int]]
       /\ t.order \in Order /\ Kept(t) \in Int
  BY <1>1 DEF IInv, FundsTypeOK, Tx, Kept, Order
<1>11. CASE t.order.user = u
  <2>1. Own(orders', u) = S \cup {t.id}
    BY <1>1, <1>3, <1>9, <1>11 DEF Own
  <2>2. \A i \in S : q[i] \in Int
    BY <1>4, <1>6
  <2>3. q[t.id] \in Int
    BY <1>7, <1>10, RateInt
  <2>4. SumFunctionOnSet(q, S \cup {t.id}) = q[t.id] + SumFunctionOnSet(q, S)
    BY <1>4, <2>2, <2>3, SumAdd
  <2>5. wallets'[u].reserved = wallets[u].reserved + Exposure(t.order, Kept(t))
    BY <1>1, <1>10, <1>11
  <2>6. wallets'[u].reserved = SumFunctionOnSet(q, Own(orders', u))
    BY <1>4, <1>7, <1>8, <1>10, <2>1, <2>3, <2>4, <2>5
  <2> QED
    BY <1>2, <2>6
<1>12. CASE t.order.user # u
  <2>1. Own(orders', u) = S
    BY <1>1, <1>3, <1>9, <1>12 DEF Own
  <2>2. wallets'[u].reserved = wallets[u].reserved
    BY <1>1, <1>10, <1>12
  <2> QED
    BY <1>2, <1>4, <1>8, <2>1, <2>2
<1> QED
  BY <1>11, <1>12

LEMMA CloseOrderReserved ==
  ASSUME IInv, ConstantsAssumption, BooksInv, ReservedInv,
         NEW i, NEW status, CloseOrder(i, status), NEW u \in Users
  PROVE  wallets'[u].reserved = SumFunctionOnSet(RiskOf(orders', fills'), Own(orders', u))
<1>1. /\ i \in DOMAIN orders /\ fills' = fills /\ orders[i].status = "open" /\ status # "open"
      /\ wallets' = [wallets EXCEPT
           ![orders[i].user].reserved = @ - Exposure(orders[i], Unmatched(orders[i]))]
      /\ orders' = [orders EXCEPT ![i].status = status]
      /\ \A j \in DOMAIN orders : orders[j] \in Order
  BY DEF CloseOrder, IInv, OrdersTypeOK
<1>2. /\ DOMAIN orders' = DOMAIN orders
      /\ \A j \in DOMAIN orders : orders'[j].user = orders[j].user
      /\ \A j \in DOMAIN orders \ {i} : orders'[j] = orders[j]
      /\ orders'[i].side = orders[i].side /\ orders'[i].odds = orders[i].odds
      /\ orders'[i].status # "open"
  BY <1>1 DEF Order
<1>3. PICK p, q : p = RiskOf(orders, fills) /\ q = RiskOf(orders', fills')
  OBVIOUS
<1>4. PICK S : S = Own(orders, u)
  OBVIOUS
<1>5. /\ IsFiniteSet(S) /\ S \subseteq DOMAIN orders /\ Own(orders', u) = S
      /\ \A j \in S : p[j] \in Int
      /\ wallets[u].reserved = SumFunctionOnSet(p, S)
  <2>1. Own(orders', u) = S
    BY <1>2, <1>4 DEF Own
  <2> QED
    BY <2>1, <1>3, <1>4, OwnFinite, CarriedInt DEF ReservedInv
<1>6. \A j \in DOMAIN orders \ {i} : q[j] = p[j]
  BY <1>1, <1>2, <1>3 DEF RiskOf
<1>7. PICK left \in Int : left = Exposure(orders[i], Unmatched(orders[i]))
  BY <1>1, RateInt DEF Unmatched, Order
<1>8. q[i] = p[i] - left /\ p[i] \in Int /\ q[i] \in Int
  <2>1. PICK c \in Int, m \in Int : c = Carried(orders[i], fills, i) /\ m = Unmatched(orders[i])
    BY <1>1, CarriedInt DEF Unmatched, Order
  <2>2. Carried(orders'[i], fills', i) = c - m
    <3>1. SumFunctionOnSet(StakeOf, PendingOf(fills, i)) \in Int
      BY <1>1, CarriedInt
    <3>2. Left(orders'[i]) = 0 /\ Left(orders[i]) = m
      BY <1>1, <1>2, <2>1 DEF Left
    <3> QED
      BY <1>1, <2>1, <3>1, <3>2 DEF Carried
  <2>3. Exposure(orders[i], c - m) = Exposure(orders[i], c) - Exposure(orders[i], m)
    BY <1>1, ExposureMinus
  <2>4. p[i] = Exposure(orders[i], c) /\ p[i] \in Int
    BY <1>1, <1>3, <2>1, CarriedInt
  <2>5. q[i] = Exposure(orders'[i], c - m)
    BY <1>1, <1>2, <1>3, <2>2 DEF RiskOf
  <2>6. q[i] = Exposure(orders[i], c - m)
    BY <2>5, <1>2 DEF Exposure
  <2> QED
    BY <1>7, <2>1, <2>3, <2>4, <2>6
<1>9. wallets[u].reserved \in Int /\ wallets \in [Users -> [balance: Int, reserved: Int]]
  BY DEF IInv, FundsTypeOK
<1>10. CASE orders[i].user = u
  <2>1. i \in S
    BY <1>1, <1>4, <1>10 DEF Own
  <2>2. \A j \in S \ {i} : q[j] = p[j]
    BY <1>5, <1>6
  <2>3. SumFunctionOnSet(q, S) = SumFunctionOnSet(p, S) - p[i] + q[i]
    BY <1>5, <1>8, <2>1, <2>2, SumChange
  <2>4. wallets'[u].reserved = wallets[u].reserved - left
    BY <1>1, <1>7, <1>9, <1>10
  <2>5. wallets'[u].reserved = SumFunctionOnSet(q, S)
    BY <1>5, <1>8, <1>9, <2>3, <2>4
  <2> QED
    BY <1>3, <1>5, <2>5
<1>11. CASE orders[i].user # u
  <2>1. i \notin S
    BY <1>4, <1>11 DEF Own
  <2>2. \A j \in S : p[j] = q[j]
    BY <1>5, <1>6, <2>1
  <2>3. SumFunctionOnSet(p, S) = SumFunctionOnSet(q, S)
    BY <1>5, <2>2, SumSame
  <2>4. wallets'[u].reserved = wallets[u].reserved
    BY <1>1, <1>9, <1>11
  <2> QED
    BY <1>3, <1>5, <2>3, <2>4
<1> QED
  BY <1>10, <1>11

\* One side of a closed fill carries its stake no more.
LEMMA SideReleased ==
  ASSUME IInv, ConstantsAssumption, BooksInv, NEW f, CloseFill(f),
         NEW i \in DOMAIN orders
  PROVE  /\ RiskOf(orders', fills')[i] \in Int
         /\ i \in {f.taker, f.maker} =>
              RiskOf(orders', fills')[i] = RiskOf(orders, fills)[i] - Exposure(orders[i], f.stake)
         /\ i \notin {f.taker, f.maker} => RiskOf(orders', fills')[i] = RiskOf(orders, fills)[i]
<1>1. /\ f \in fills /\ f \in Fill /\ f.status = "pending" /\ orders' = orders
      /\ \E g \in Fill : g.status # "pending" /\ fills' = (fills \ {f}) \cup {g}
  BY FillClosed DEF CloseFill, IInv, FundsTypeOK
<1>2. PendingOf(fills', i) = PendingOf(fills, i) \ {f}
  BY <1>1 DEF PendingOf
<1>3. PICK S : S = PendingOf(fills, i)
  OBVIOUS
<1>4. /\ IsFiniteSet(S) /\ S \subseteq Fill /\ orders[i] \in Order /\ Left(orders[i]) \in Int
      /\ Carried(orders[i], fills, i) = Left(orders[i]) + SumFunctionOnSet(StakeOf, S)
      /\ RiskOf(orders, fills)[i] = Exposure(orders[i], Carried(orders[i], fills, i))
      /\ RiskOf(orders, fills)[i] \in Int
      /\ SumFunctionOnSet(StakeOf, S) \in Int
  BY <1>3, CarriedInt DEF Carried
<1>5. RiskOf(orders', fills')[i] = Exposure(orders[i], Carried(orders[i], fills', i))
  BY <1>1 DEF RiskOf
<1>6. Carried(orders[i], fills', i) = Left(orders[i]) + SumFunctionOnSet(StakeOf, S \ {f})
  BY <1>2, <1>3 DEF Carried
<1>7. CASE i \in {f.taker, f.maker}
  <2>1. f \in S /\ \A x \in S : StakeOf[x] \in Int
    BY <1>1, <1>3, <1>4, <1>7, StakeSums DEF PendingOf
  <2>2. SumFunctionOnSet(StakeOf, S) = StakeOf[f] + SumFunctionOnSet(StakeOf, S \ {f})
    BY <1>4, <2>1, SumTake
  <2>3. StakeOf[f] = f.stake /\ f.stake \in Int
    BY <1>1 DEF StakeOf, Fill
  <2>4. IsFiniteSet(S \ {f})
    BY <1>4, FS_Subset
  <2>5. SumFunctionOnSet(StakeOf, S \ {f}) \in Int
    BY <1>4, <2>4, StakeSums
  <2>6. PICK c \in Int : c = Carried(orders[i], fills, i)
    BY <1>4
  <2>7. Carried(orders[i], fills', i) = c - f.stake
    BY <1>4, <1>6, <2>2, <2>3, <2>5, <2>6
  <2>8. Exposure(orders[i], c - f.stake) = Exposure(orders[i], c) - Exposure(orders[i], f.stake)
    BY <1>4, <2>3, ExposureMinus
  <2>9. RiskOf(orders', fills')[i] = RiskOf(orders, fills)[i] - Exposure(orders[i], f.stake)
    BY <1>4, <1>5, <2>6, <2>7, <2>8
  <2>10. Exposure(orders[i], f.stake) \in Int
    BY <1>4, <2>3, RateInt
  <2> QED
    BY <1>4, <1>7, <2>9, <2>10
<1>8. CASE i \notin {f.taker, f.maker}
  <2>1. S \ {f} = S
    BY <1>3, <1>8 DEF PendingOf
  <2> QED
    BY <1>4, <1>5, <1>6, <1>8, <2>1
<1> QED
  BY <1>7, <1>8

LEMMA CloseFillReserved ==
  ASSUME IInv, ConstantsAssumption, BooksInv, ReservedInv, NEW f, CloseFill(f), NEW u \in Users
  PROVE  wallets'[u].reserved = SumFunctionOnSet(RiskOf(orders', fills'), Own(orders', u))
<1>1. /\ f \in fills /\ f \in Fill /\ orders' = orders
      /\ BackOrder(f) \in DOMAIN orders /\ LayOrder(f) \in DOMAIN orders
  BY FillFacts DEF CloseFill
<1>2. PICK b \in Users, l \in Users :
        /\ b = orders[BackOrder(f)].user /\ l = orders[LayOrder(f)].user /\ b # l
        /\ wallets'[b].reserved = wallets[b].reserved - BackRelease(f)
        /\ wallets'[l].reserved = wallets[l].reserved - LayRelease(f)
        /\ \A v \in Users \ {b, l} : wallets'[v] = wallets[v]
  BY FillClosed
<1>3. PICK p, q : p = RiskOf(orders, fills) /\ q = RiskOf(orders', fills')
  OBVIOUS
<1>4. PICK S : S = Own(orders, u)
  OBVIOUS
<1>5. /\ IsFiniteSet(S) /\ S \subseteq DOMAIN orders /\ Own(orders', u) = S
      /\ \A j \in S : p[j] \in Int
      /\ wallets[u].reserved = SumFunctionOnSet(p, S)
  BY <1>1, <1>3, <1>4, OwnFinite, CarriedInt DEF ReservedInv
<1>6. /\ \A j \in DOMAIN orders : q[j] \in Int /\ p[j] \in Int
      /\ \A j \in DOMAIN orders \ {f.taker, f.maker} : q[j] = p[j]
      /\ \A j \in {f.taker, f.maker} :
           j \in DOMAIN orders => q[j] = p[j] - Exposure(orders[j], f.stake)
  BY <1>3, SideReleased, CarriedInt
<1>7. wallets[u].reserved \in Int
  BY DEF IInv, FundsTypeOK
<1>8. {BackOrder(f), LayOrder(f)} = {f.taker, f.maker}
  BY DEF BackOrder, LayOrder
<1>9. ASSUME NEW i \in {BackOrder(f), LayOrder(f)}, i \in S,
             \A j \in {f.taker, f.maker} : j = i \/ j \notin S,
             wallets'[u].reserved = wallets[u].reserved - Exposure(orders[i], f.stake)
      PROVE  wallets'[u].reserved = SumFunctionOnSet(q, S)
  <2>1. \A j \in S \ {i} : q[j] = p[j]
    BY <1>5, <1>6, <1>9
  <2>2. q[i] = p[i] - Exposure(orders[i], f.stake) /\ q[i] \in Int /\ p[i] \in Int
    BY <1>5, <1>6, <1>8, <1>9
  <2>3. SumFunctionOnSet(q, S) = SumFunctionOnSet(p, S) - p[i] + q[i]
    BY <1>5, <1>9, <2>1, <2>2, SumChange
  <2>4. Exposure(orders[i], f.stake) \in Int
    BY <1>1, <1>5, <1>9, RateInt DEF IInv, OrdersTypeOK, Fill
  <2> QED
    BY <1>5, <1>7, <1>9, <2>2, <2>3, <2>4
<1>10. CASE u = b
  <2>1. BackOrder(f) \in S /\ LayOrder(f) \notin S
    BY <1>1, <1>2, <1>4, <1>10 DEF Own
  <2>2. wallets'[u].reserved = wallets[u].reserved - Exposure(orders[BackOrder(f)], f.stake)
    BY <1>2, <1>10 DEF BackRelease
  <2>3. \A j \in {f.taker, f.maker} : j = BackOrder(f) \/ j \notin S
    BY <1>8, <2>1
  <2> QED
    BY <1>3, <1>5, <1>9, <2>1, <2>2, <2>3
<1>11. CASE u = l
  <2>1. LayOrder(f) \in S /\ BackOrder(f) \notin S
    BY <1>1, <1>2, <1>4, <1>11 DEF Own
  <2>2. wallets'[u].reserved = wallets[u].reserved - Exposure(orders[LayOrder(f)], f.stake)
    BY <1>2, <1>11 DEF LayRelease
  <2>3. \A j \in {f.taker, f.maker} : j = LayOrder(f) \/ j \notin S
    BY <1>8, <2>1
  <2> QED
    BY <1>3, <1>5, <1>9, <2>1, <2>2, <2>3
<1>12. CASE u \notin {b, l}
  <2>1. \A j \in S : j \notin {f.taker, f.maker}
    BY <1>2, <1>4, <1>8, <1>12 DEF Own
  <2>2. \A j \in S : p[j] = q[j]
    BY <1>5, <1>6, <2>1
  <2>3. SumFunctionOnSet(p, S) = SumFunctionOnSet(q, S)
    BY <1>5, <2>2, SumSame
  <2> QED
    BY <1>2, <1>3, <1>5, <1>12, <2>3
<1> QED
  BY <1>10, <1>11, <1>12

LEMMA ReservedKept ==
  ASSUME ConstantsAssumption, IInv, IInv', [Next]_vars, BooksInv, PriorityInv, ReservedInv
  PROVE  ReservedInv'
<1>1. ASSUME NEW u \in Users
      PROVE  wallets'[u].reserved = SumFunctionOnSet(RiskOf(orders', fills'), Own(orders', u))
  <2>1. CASE Quiet
    BY <2>1 DEF Quiet, ReservedInv
  <2> QED
    BY <2>1, StepKinds, CommitReserved, CloseOrderReserved, CloseFillReserved
<1> QED
  BY <1>1 DEF ReservedInv, RiskOf, Own, Carried, Left, PendingOf, Exposure, Unmatched, StakeOf

\* Each wallet's reservation is what its orders carry, order by order.
THEOREM ReservedHolds == Spec => []ReservedInv
<1>1. Init => ReservedInv
  BY InitReserved, ConstantsAssumption
<1>2. IInv /\ IInv' /\ BooksInv /\ PriorityInv /\ ReservedInv /\ [Next]_vars => ReservedInv'
  BY ReservedKept, ConstantsAssumption
<1> QED
  BY <1>1, <1>2, Inductive, BooksHold, PriorityHolds, PTL DEF Spec

BackKey == [f \in fills |-> BackOrder(f)]
LayKey == [f \in fills |-> LayOrder(f)]
BackReleases == [f \in fills |-> BackRelease(f)]
LayReleases == [f \in fills |-> LayRelease(f)]

\* The pending fills of a user's back orders, and of its lay orders.
Backs(u) == {f \in fills : f.status = "pending" /\ orders[BackOrder(f)].user = u}
Lays(u) == {f \in fills : f.status = "pending" /\ orders[LayOrder(f)].user = u}

BacksBy(u) == Groups(BackReleases, BackKey, Backs(u), Own(orders, u))
LaysBy(u) == Groups(LayReleases, LayKey, Lays(u), Own(orders, u))

\* What an order's pending fills hold reserved, all at the order's own odds.
FilledRisk(i) == Exposure(orders[i], SumFunctionOnSet(StakeOf, PendingOf(fills, i)))

\* Summing releases fill by fill or order by order is the same.
LEMMA ReleaseGroups ==
  ASSUME IInv, ConstantsAssumption, BooksInv, NEW u
  PROVE  /\ SumFunctionOnSet(BacksBy(u), Own(orders, u)) = SumFunctionOnSet(BackReleases, Backs(u))
         /\ SumFunctionOnSet(LaysBy(u), Own(orders, u)) = SumFunctionOnSet(LayReleases, Lays(u))
<1>1. IsFiniteSet(Own(orders, u)) /\ IsFiniteSet(Backs(u)) /\ IsFiniteSet(Lays(u))
  BY OwnFinite, FS_Subset DEF Backs, Lays, BooksInv, FillsSum
<1>2. /\ \A f \in Backs(u) : BackReleases[f] \in Int /\ BackKey[f] \in Own(orders, u)
      /\ \A f \in Lays(u) : LayReleases[f] \in Int /\ LayKey[f] \in Own(orders, u)
  <2>1. ASSUME NEW f \in fills
        PROVE  /\ BackRelease(f) \in Int /\ LayRelease(f) \in Int
               /\ BackOrder(f) \in DOMAIN orders /\ LayOrder(f) \in DOMAIN orders
    BY FillFacts, RateInt DEF Fill, BackRelease, LayRelease
  <2> QED
    BY <2>1 DEF Backs, Lays, BackReleases, LayReleases, BackKey, LayKey, Own
<1>3. SumFunctionOnSet(BacksBy(u), Own(orders, u)) = SumFunctionOnSet(BackReleases, Backs(u))
  BY <1>1, <1>2, SumGroups DEF BacksBy
<1>4. SumFunctionOnSet(LaysBy(u), Own(orders, u)) = SumFunctionOnSet(LayReleases, Lays(u))
  BY <1>1, <1>2, SumGroups DEF LaysBy
<1> QED
  BY <1>3, <1>4

\* Every pending fill of an order is on the order's own side.
LEMMA GroupIsPending ==
  ASSUME IInv, BooksInv, NEW u, NEW i \in Own(orders, u)
  PROVE  /\ BacksBy(u)[i] \in Int /\ LaysBy(u)[i] \in Int
         /\ BacksBy(u)[i] + LaysBy(u)[i] = FilledRisk(i)
<1> PICK S : S = PendingOf(fills, i)
  OBVIOUS
<1>1. i \in DOMAIN orders /\ orders[i] \in Order /\ orders[i].user = u
  BY DEF Own, IInv, OrdersTypeOK
<1>2. /\ IsFiniteSet(S) /\ S \subseteq Fill /\ S \subseteq fills
      /\ SumFunctionOnSet(StakeOf, S) \in Int
  BY <1>1, CarriedInt DEF PendingOf
<1>3. PICK r \in Int : r = ExposureRate(orders[i].side, orders[i].odds)
  BY <1>1, RateInt
<1>4. \A f \in S : StakeOf[f] \in Int /\ StakeOf[f] = f.stake
  BY <1>2, StakeSums
<1>5. \A f \in fills : /\ i \in {f.taker, f.maker} <=> i \in {BackOrder(f), LayOrder(f)}
                       /\ orders[BackOrder(f)].side = "back" /\ orders[LayOrder(f)].side = "lay"
  BY FillFacts DEF BackOrder, LayOrder
<1>6. PICK B : B = {f \in Backs(u) : BackKey[f] = i}
  OBVIOUS
<1>7. PICK L : L = {f \in Lays(u) : LayKey[f] = i}
  OBVIOUS
<1>8. /\ B = {f \in fills : f.status = "pending" /\ BackOrder(f) = i}
      /\ L = {f \in fills : f.status = "pending" /\ LayOrder(f) = i}
  BY <1>1, <1>6, <1>7 DEF Backs, Lays, BackKey, LayKey
<1>9. /\ BacksBy(u)[i] = SumFunctionOnSet(BackReleases, B)
      /\ LaysBy(u)[i] = SumFunctionOnSet(LayReleases, L)
  BY <1>6, <1>7 DEF BacksBy, LaysBy, Groups
<1>10. FilledRisk(i) = SumFunctionOnSet(StakeOf, S) * r
  BY <1>3 DEF FilledRisk, Exposure
<1>11. SumFunctionOnSet(StakeOf, S) * r \in Int
  BY <1>2, <1>3
<1>12. CASE orders[i].side = "back"
  <2>1. L = {} /\ B = S
    BY <1>5, <1>8, <1>12 DEF PendingOf
  <2>2. \A f \in S : BackReleases[f] = StakeOf[f] * r
    BY <1>2, <1>3, <1>4, <1>8, <2>1 DEF BackReleases, BackRelease, Exposure
  <2>3. SumFunctionOnSet(BackReleases, S) = SumFunctionOnSet(StakeOf, S) * r
    BY <1>2, <1>4, <2>2, SumScale
  <2>4. SumFunctionOnSet(LayReleases, L) = 0
    BY <2>1, SumEmpty
  <2> QED
    BY <1>9, <1>10, <1>11, <2>1, <2>3, <2>4
<1>13. CASE orders[i].side = "lay"
  <2>1. B = {} /\ L = S
    BY <1>5, <1>8, <1>13 DEF PendingOf
  <2>2. \A f \in S : LayReleases[f] = StakeOf[f] * r
    BY <1>2, <1>3, <1>4, <1>8, <2>1 DEF LayReleases, LayRelease, Exposure
  <2>3. SumFunctionOnSet(LayReleases, S) = SumFunctionOnSet(StakeOf, S) * r
    BY <1>2, <1>4, <2>2, SumScale
  <2>4. SumFunctionOnSet(BackReleases, B) = 0
    BY <2>1, SumEmpty
  <2> QED
    BY <1>9, <1>10, <1>11, <2>1, <2>3, <2>4
<1> QED
  BY <1>1, <1>12, <1>13 DEF Order, Sides

OpenRisk == [i \in DOMAIN orders |-> Exposure(orders[i], Left(orders[i]))]

OpenOf(u) == {i \in DOMAIN orders : orders[i].user = u /\ orders[i].status = "open"}

\* What the orders of a user carry is what the user has at risk.
LEMMA CarriedIsAtRisk ==
  ASSUME IInv, ConstantsAssumption, BooksInv, NEW u \in Users
  PROVE  SumFunctionOnSet(RiskOf(orders, fills), Own(orders, u))
           = SumFunctionOnSet(OpenRisk, OpenOf(u))
             + SumFunctionOnSet(BackReleases, Backs(u))
             + SumFunctionOnSet(LayReleases, Lays(u))
<1> PICK S : S = Own(orders, u)
  OBVIOUS
<1>1. IsFiniteSet(S) /\ S \subseteq DOMAIN orders
  BY OwnFinite
<1>2. PICK a, b, c, p : /\ a = OpenRisk /\ b = BacksBy(u) /\ c = LaysBy(u)
                        /\ p = [i \in S |-> FilledRisk(i)]
  OBVIOUS
<1>3. PICK d : d = RiskOf(orders, fills)
  OBVIOUS
<1>4. \A i \in S : /\ a[i] \in Int /\ b[i] \in Int /\ c[i] \in Int /\ p[i] \in Int
                   /\ p[i] = b[i] + c[i] /\ d[i] = a[i] + p[i]
  <2> SUFFICES ASSUME NEW i \in S
               PROVE  /\ a[i] \in Int /\ b[i] \in Int /\ c[i] \in Int /\ p[i] \in Int
                      /\ p[i] = b[i] + c[i] /\ d[i] = a[i] + p[i]
    OBVIOUS
  <2>1. b[i] \in Int /\ c[i] \in Int /\ b[i] + c[i] = FilledRisk(i)
    BY <1>2, GroupIsPending
  <2>2. p[i] = FilledRisk(i)
    BY <1>2
  <2>3. PICK left \in Int, stake \in Int :
          left = Left(orders[i]) /\ stake = SumFunctionOnSet(StakeOf, PendingOf(fills, i))
    BY <1>1, CarriedInt
  <2>4. a[i] = Exposure(orders[i], left) /\ p[i] = Exposure(orders[i], stake)
    BY <1>1, <1>2, <2>2, <2>3 DEF OpenRisk, FilledRisk
  <2>5. d[i] = Exposure(orders[i], left + stake)
    BY <1>1, <1>3, <2>3, CarriedInt DEF Carried
  <2>6. PICK r \in Int : r = ExposureRate(orders[i].side, orders[i].odds)
    BY <1>1, RateInt, CarriedInt
  <2>7. (left + stake) * r = left * r + stake * r /\ left * r \in Int /\ stake * r \in Int
    BY <2>3, <2>6
  <2>8. a[i] = left * r /\ p[i] = stake * r /\ d[i] = (left + stake) * r
    BY <2>4, <2>5, <2>6 DEF Exposure
  <2> QED
    BY <2>1, <2>2, <2>7, <2>8
<1>5. SumFunctionOnSet(d, S) = SumFunctionOnSet(a, S) + SumFunctionOnSet(p, S)
  BY <1>1, <1>4, SumPlus
<1>6. SumFunctionOnSet(p, S) = SumFunctionOnSet(b, S) + SumFunctionOnSet(c, S)
  BY <1>1, <1>4, SumPlus
<1>7. /\ SumFunctionOnSet(b, S) = SumFunctionOnSet(BackReleases, Backs(u))
      /\ SumFunctionOnSet(c, S) = SumFunctionOnSet(LayReleases, Lays(u))
  BY <1>2, ReleaseGroups
<1>8. SumFunctionOnSet(a, S) = SumFunctionOnSet(a, OpenOf(u))
  <2>1. OpenOf(u) \in SUBSET S
    BY DEF OpenOf, Own
  <2>2. ASSUME NEW i \in S \ OpenOf(u) PROVE a[i] = 0
    <3>1. Left(orders[i]) = 0 /\ i \in DOMAIN orders
      BY <1>1, <2>2 DEF OpenOf, Own, Left
    <3>2. PICK r \in Int : r = ExposureRate(orders[i].side, orders[i].odds)
      BY <3>1, RateInt, CarriedInt
    <3>3. a[i] = 0 * r
      BY <1>2, <3>1, <3>2 DEF OpenRisk, Exposure
    <3> QED
      BY <3>2, <3>3
  <2> QED
    BY <1>1, <1>4, <2>1, <2>2, SumFilter
<1>9. SumFunctionOnSet(a, S) \in Int /\ SumFunctionOnSet(b, S) \in Int /\ SumFunctionOnSet(c, S) \in Int
  BY <1>1, <1>4, SumInt
<1> QED
  BY <1>2, <1>3, <1>5, <1>6, <1>7, <1>8, <1>9

\* The reservation of every wallet is exactly what its owner has at risk,
\* through matching, cancelling, cash-out, settlement, crashes and late
\* orders: every release undoes what was reserved, at the order's own odds
\* (place_order, _match_order, cancel_order, _settle_fill, _void_fill).
THEOREM ReservedIsAtRisk == Spec => []ReservedMatchesExposure
<1>1. IInv /\ BooksInv /\ ReservedInv => ReservedMatchesExposure
  <2> SUFFICES ASSUME IInv, BooksInv, ReservedInv, NEW u \in Users
               PROVE  wallets[u].reserved = AtRisk(u)
    BY DEF ReservedMatchesExposure
  <2>1. PICK open, back, lay :
          /\ open = [i \in OpenOf(u) |-> Exposure(orders[i], Unmatched(orders[i]))]
          /\ back = [f \in Backs(u) |-> BackRelease(f)]
          /\ lay = [f \in Lays(u) |-> LayRelease(f)]
    OBVIOUS
  <2>2. AtRisk(u) = SumFunction(open) + SumFunction(back) + SumFunction(lay)
    BY <2>1, Zenon DEF AtRisk, OpenOf, Backs, Lays
  <2>3. IsFiniteSet(OpenOf(u)) /\ IsFiniteSet(Backs(u)) /\ IsFiniteSet(Lays(u))
    <3>1. OpenOf(u) \subseteq Own(orders, u) /\ Backs(u) \subseteq fills /\ Lays(u) \subseteq fills
      BY DEF OpenOf, Own, Backs, Lays
    <3> QED
      BY <3>1, OwnFinite, FS_Subset, ConstantsAssumption DEF BooksInv, FillsSum
  <2>4. /\ DOMAIN open = OpenOf(u) /\ DOMAIN back = Backs(u) /\ DOMAIN lay = Lays(u)
        /\ \A i \in OpenOf(u) : open[i] = OpenRisk[i]
        /\ \A f \in Backs(u) : back[f] = BackReleases[f]
        /\ \A f \in Lays(u) : lay[f] = LayReleases[f]
    BY <2>1 DEF OpenOf, OpenRisk, Left, Backs, BackReleases, Lays, LayReleases
  <2>5. /\ SumFunction(open) = SumFunctionOnSet(OpenRisk, OpenOf(u))
        /\ SumFunction(back) = SumFunctionOnSet(BackReleases, Backs(u))
        /\ SumFunction(lay) = SumFunctionOnSet(LayReleases, Lays(u))
    BY <2>3, <2>4, SumOfTable
  <2> QED
    BY <2>2, <2>5, CarriedIsAtRisk, ConstantsAssumption DEF ReservedInv
<1> QED
  BY <1>1, Inductive, BooksHold, ReservedHolds, PTL

-----------------------------------------------------------------------------
(* Cash-out: what the leg trades against what it covers *)

NotionalOf == [f \in Fill |-> f.stake * f.odds]

MakerOf == [f \in Fill |-> f.maker]

LEMMA NotionalSums ==
  ASSUME NEW F, F \subseteq Fill, IsFiniteSet(F)
  PROVE  /\ \A f \in F : NotionalOf[f] = f.stake * f.odds /\ NotionalOf[f] \in Int
         /\ SumFunctionOnSet(NotionalOf, F) \in Int
<1>1. \A f \in F : NotionalOf[f] = f.stake * f.odds /\ NotionalOf[f] \in Int
  <2> SUFFICES ASSUME NEW f \in F
               PROVE  NotionalOf[f] = f.stake * f.odds /\ NotionalOf[f] \in Int
    OBVIOUS
  <2>1. f \in Fill /\ f.stake \in Nat /\ f.odds \in Nat
    BY DEF Fill
  <2>2. f.stake * f.odds \in Int
    BY <2>1
  <2> QED
    BY <2>1, <2>2 DEF NotionalOf
<1> QED
  BY <1>1, SumInt

\* The one take from a row, if there is one.
LEMMA GroupOfOne ==
  ASSUME NEW T, T \subseteq Fill, \A f, g \in T : f.maker = g.maker => f = g,
         NEW e, NEW A, NEW f \in T, f.maker \in A, e[f] \in Int
  PROVE  Groups(e, MakerOf, T, A)[f.maker] = e[f]
<1>1. {g \in T : MakerOf[g] = f.maker} = {f}
  BY DEF MakerOf
<1>2. SumFunctionOnSet(e, {f}) = e[f]
  BY SumSingle
<1> QED
  BY <1>1, <1>2 DEF Groups

\* Takes spend what the rows of A have left and q more, and go past a row of A
\* only when they have emptied it.
Spends(T, A, un, od, ln, q, d) ==
  /\ T \subseteq Fill /\ IsFiniteSet(T) /\ IsFiniteSet(A)
  /\ \A f, g \in T : f.maker = g.maker => f = g
  /\ \A k \in A : un[k] \in Nat /\ un[k] > 0 /\ od[k] \in Nat /\ ln[k] = un[k] * od[k]
  /\ SumFunctionOnSet(StakeOf, T) = SumFunctionOnSet(un, A) + q
  /\ \A f \in T : f.maker \in A => f.stake <= un[f.maker] /\ f.odds = od[f.maker]
  /\ \A f \in T : f.maker \notin A => f.odds = d
  /\ \A k \in A : \/ \E f \in T : f.maker = k /\ f.stake = un[k]
                 \/ \A f \in T : f.maker \in A

\* They spend q elsewhere then, so what they are worth is what A is worth and q
\* at the price d paid elsewhere.
LEMMA FullMatch ==
  ASSUME NEW T, NEW A, NEW un, NEW od, NEW ln, NEW q \in Nat, NEW d \in Nat,
         Spends(T, A, un, od, ln, q, d)
  PROVE  SumFunctionOnSet(NotionalOf, T) = SumFunctionOnSet(ln, A) + q * d
<1>0. /\ T \subseteq Fill /\ IsFiniteSet(T) /\ IsFiniteSet(A)
      /\ \A f, g \in T : f.maker = g.maker => f = g
      /\ \A k \in A : un[k] \in Nat /\ un[k] > 0 /\ od[k] \in Nat /\ ln[k] = un[k] * od[k]
      /\ SumFunctionOnSet(StakeOf, T) = SumFunctionOnSet(un, A) + q
      /\ \A f \in T : f.maker \in A => f.stake <= un[f.maker] /\ f.odds = od[f.maker]
      /\ \A f \in T : f.maker \notin A => f.odds = d
      /\ \A k \in A : \/ \E f \in T : f.maker = k /\ f.stake = un[k]
                     \/ \A f \in T : f.maker \in A
  BY Zenon DEF Spends
<1> USE <1>0
<1> PICK P : P = {f \in T : f.maker \in A}
  OBVIOUS
<1>1. /\ P \in SUBSET T /\ IsFiniteSet(P) /\ P \subseteq Fill
      /\ \A f, g \in P : f.maker = g.maker => f = g
      /\ \A f \in P : MakerOf[f] \in A /\ MakerOf[f] = f.maker
      /\ IsFiniteSet(T \ P) /\ T \ P \subseteq Fill
  BY FS_Subset DEF MakerOf
<1>2. /\ \A f \in P : StakeOf[f] = f.stake /\ StakeOf[f] \in Nat /\ StakeOf[f] \in Int
      /\ \A f \in P : NotionalOf[f] = f.stake * f.odds /\ NotionalOf[f] \in Int
  BY <1>1, StakeSums, NotionalSums
<1> PICK g : g = Groups(StakeOf, MakerOf, P, A)
  OBVIOUS
<1> PICK h : h = Groups(NotionalOf, MakerOf, P, A)
  OBVIOUS
<1>3. SumFunctionOnSet(g, A) = SumFunctionOnSet(StakeOf, P)
  BY <1>1, <1>2, SumGroups
<1>4. SumFunctionOnSet(h, A) = SumFunctionOnSet(NotionalOf, P)
  BY <1>1, <1>2, SumGroups
<1>5. ASSUME NEW k \in A PROVE g[k] \in Nat /\ g[k] <= un[k]
  <2>1. CASE \E f \in T : f.maker = k
    <3> PICK f \in T : f.maker = k
      BY <2>1
    <3>1. f \in P /\ StakeOf[f] = f.stake /\ f.stake \in Nat /\ f.stake <= un[k]
      BY <1>2
    <3>2. g[k] = StakeOf[f]
      BY <1>1, <1>2, <3>1, GroupOfOne
    <3> QED
      BY <3>1, <3>2
  <2>2. CASE ~\E f \in T : f.maker = k
    <3>1. {f \in P : MakerOf[f] = k} = {}
      BY <1>1, <2>2
    <3>2. g[k] = 0
      BY <3>1, SumEmpty DEF Groups
    <3> QED
      BY <3>2
  <2> QED
    BY <2>1, <2>2
<1>6. /\ SumFunctionOnSet(un, A) \in Int
      /\ SumFunctionOnSet(StakeOf, P) \in Int /\ SumFunctionOnSet(NotionalOf, P) \in Int
      /\ SumFunctionOnSet(StakeOf, T \ P) \in Int /\ SumFunctionOnSet(NotionalOf, T \ P) \in Int
  BY <1>1, SumInt, StakeSums, NotionalSums
<1>7. /\ SumFunctionOnSet(StakeOf, T)
           = SumFunctionOnSet(StakeOf, P) + SumFunctionOnSet(StakeOf, T \ P)
      /\ SumFunctionOnSet(NotionalOf, T)
           = SumFunctionOnSet(NotionalOf, P) + SumFunctionOnSet(NotionalOf, T \ P)
  <2>1. \A f \in T : StakeOf[f] \in Int /\ NotionalOf[f] \in Int
    BY StakeSums, NotionalSums
  <2>2. P \in SUBSET T
    BY <1>1
  <2>3. SumFunctionOnSet(StakeOf, T)
           = SumFunctionOnSet(StakeOf, P) + SumFunctionOnSet(StakeOf, T \ P)
    BY <2>1, <2>2, SumParts
  <2>4. SumFunctionOnSet(NotionalOf, T)
           = SumFunctionOnSet(NotionalOf, P) + SumFunctionOnSet(NotionalOf, T \ P)
    BY <2>1, <2>2, SumParts
  <2> QED
    BY <2>3, <2>4
<1>8. \A k \in A : \E f \in T : f.maker = k /\ f.stake = un[k]
  <2> SUFFICES ASSUME NEW k \in A, ~\E f \in T : f.maker = k /\ f.stake = un[k] PROVE FALSE
    OBVIOUS
  <2>1. P = T
    OBVIOUS
  <2>2. g[k] < un[k]
    <3>1. CASE \E f \in T : f.maker = k
      <4> PICK f \in T : f.maker = k
        BY <3>1
      <4>1. f \in P /\ StakeOf[f] = f.stake /\ f.stake \in Nat /\ f.stake <= un[k] /\ f.stake # un[k]
        BY <1>2
      <4>2. g[k] = StakeOf[f]
        BY <1>1, <1>2, <4>1, GroupOfOne
      <4> QED
        BY <4>1, <4>2
    <3>2. CASE ~\E f \in T : f.maker = k
      <4>1. {f \in P : MakerOf[f] = k} = {}
        BY <1>1, <3>2
      <4>2. g[k] = 0
        BY <4>1, SumEmpty DEF Groups
      <4> QED
        BY <4>2
    <3> QED
      BY <3>1, <3>2
  <2>3. \A j \in A : g[j] \in Int /\ un[j] \in Int /\ g[j] <= un[j]
    BY <1>5
  <2>4. SumFunctionOnSet(g, A) < SumFunctionOnSet(un, A)
    BY <2>2, <2>3, SumLess
  <2>5. SumFunctionOnSet(g, A) = SumFunctionOnSet(un, A) + q
    BY <1>3, <2>1
  <2> QED
    BY <1>6, <2>4, <2>5
<1>9. \A k \in A : g[k] = un[k] /\ h[k] = ln[k]
  <2> SUFFICES ASSUME NEW k \in A PROVE g[k] = un[k] /\ h[k] = ln[k]
    OBVIOUS
  <2>1. PICK f \in T : f.maker = k /\ f.stake = un[k]
    BY <1>8
  <2>2. f \in P /\ StakeOf[f] = un[k] /\ f.odds = od[k]
    BY <1>2, <2>1
  <2>3. g[k] = StakeOf[f] /\ h[k] = NotionalOf[f]
    BY <1>1, <1>2, <2>1, <2>2, GroupOfOne
  <2>4. NotionalOf[f] = f.stake * f.odds
    BY <1>2, <2>2
  <2> QED
    BY <2>1, <2>2, <2>3, <2>4
<1>10. /\ SumFunctionOnSet(g, A) = SumFunctionOnSet(un, A)
       /\ SumFunctionOnSet(h, A) = SumFunctionOnSet(ln, A)
  BY <1>9, SumSame
<1>11. SumFunctionOnSet(StakeOf, T \ P) = q
  <2>1. PICK a \in Int, b \in Int : /\ a = SumFunctionOnSet(un, A)
                                   /\ b = SumFunctionOnSet(StakeOf, T \ P)
    BY <1>6
  <2>2. SumFunctionOnSet(StakeOf, P) = a
    BY <1>3, <1>10, <2>1, Zenon
  <2>3. a + b = a + q
    BY <1>7, <2>1, <2>2, Zenon
  <2>4. b = q
    BY <2>3
  <2> QED
    BY <2>1, <2>4
<1>12. SumFunctionOnSet(NotionalOf, T \ P) = SumFunctionOnSet(StakeOf, T \ P) * d
  <2>1. \A f \in T \ P : StakeOf[f] \in Int /\ NotionalOf[f] = StakeOf[f] * d
    <3> SUFFICES ASSUME NEW f \in T \ P
                 PROVE  StakeOf[f] \in Int /\ NotionalOf[f] = StakeOf[f] * d
      OBVIOUS
    <3>1. f.odds = d
      OBVIOUS
    <3>2. StakeOf[f] \in Int /\ StakeOf[f] = f.stake /\ NotionalOf[f] = f.stake * f.odds
      BY <1>1, StakeSums, NotionalSums
    <3> QED
      BY <3>1, <3>2
  <2> QED
    BY <1>1, <2>1, SumScale
<1> QED
  BY <1>4, <1>7, <1>10, <1>11, <1>12

\* Rounding half-even is off by half the divisor at most, the other way too.
LEMMA QuantizedLow ==
  ASSUME NEW a \in Int, NEW d \in Nat, d > 0
  PROVE  2 * (a - Quantized(a, d) * d) <= d
<1> DEFINE q == a \div d
           m == a % d
<1>1. q \in Int /\ m \in 0 .. d - 1 /\ a = d * q + m
  OBVIOUS
<1> HIDE DEF q, m
<1>2. (q + 1) * d = d * q + d /\ q * d = d * q /\ d * q \in Int
  BY <1>1
<1>3. CASE 2 * m > d \/ (2 * m = d /\ q % 2 = 1)
  <2>1. Quantized(a, d) = q + 1
    BY <1>3 DEF Quantized, q, m
  <2> QED
    BY <1>1, <1>2, <1>3, <2>1
<1>4. CASE ~(2 * m > d \/ (2 * m = d /\ q % 2 = 1))
  <2>1. Quantized(a, d) = q
    BY <1>4 DEF Quantized, q, m
  <2>2. 2 * m <= d
    BY <1>1, <1>4
  <2> QED
    BY <1>1, <1>2, <2>1, <2>2
<1> QED
  BY <1>3, <1>4

\* The fills of the given pairs of taker and maker.
Covered(F, K) == {f \in F : <<f.taker, f.maker>> \in K}

LeftOf(rows) == [j \in DOMAIN rows |-> Unmatched(rows[j])]

WorthOf(rows) == [j \in DOMAIN rows |-> Unmatched(rows[j]) * rows[j].odds]

\* Counterparties and Ahead, for the given rows.
Facing(o, rows) ==
  {i \in DOMAIN rows : /\ SameMarket(rows[i], o)
                       /\ rows[i].side = Opposite(o.side)
                       /\ rows[i].status = "open"
                       /\ rows[i].user # o.user}

AheadOf(side, rows, W, i) ==
  {j \in W : Unmatched(rows[j]) > 0 /\ Beats(side, rows, j, i)}

\* Twice what the covered fills are worth more than the levels ahead and q at
\* the last level.
TwiceOff(covered, worth, q, odds) == 2 * (covered - worth - q * odds)

\* The leg takes every level ahead of the last one, and of that one what makes
\* up for the covered fills to half a unit.
Sized(t, rows, F) ==
  \E last \in t.walked, q \in Nat :
    LET ahead == AheadOf(t.order.side, rows, t.walked, last)
    IN  /\ t.order.odds = rows[last].odds
        /\ t.order.stake = SumFunctionOnSet(LeftOf(rows), ahead) + q
        /\ TwiceOff(SumFunctionOnSet(NotionalOf, Covered(F, t.covered)),
                    SumFunctionOnSet(WorthOf(rows), ahead), q, t.order.odds)
             \in -t.order.odds .. t.order.odds
        /\ t.phase \in Busy => ahead \subseteq t.seen

CashTx(t, rows, F) ==
  t.origin # 0 =>
    /\ t.walked \subseteq t.locks
    /\ \A k \in t.covered : k[1] \in DOMAIN rows
    /\ t.walked \subseteq Facing(t.order, rows)
    /\ t.reached => Sized(t, rows, F)

\* A finite set of rows has a last one in price-time order.
LEMMA LastRow ==
  ASSUME IInv, NEW side, NEW A, A \subseteq DOMAIN orders, IsFiniteSet(A), A # {}
  PROVE  \E j \in A : \A k \in A : ~Beats(side, orders, j, k)
<1> DEFINE Behind(j) == {k \in A : Beats(side, orders, j, k)}
           C == {Behind(j) : j \in A}
<1>1. C \subseteq SUBSET A /\ C # {}
  OBVIOUS
<1>2. PICK T \in C : \A U \in C : U \subseteq T => U = T
  <2> HIDE DEF C
  <2> QED
    BY <1>1, SmallestSubset
<1>3. PICK j \in A : T = Behind(j)
  BY <1>2
<1>4. \A k \in A : orders[k].odds \in Nat /\ k \in Nat
  BY DEF IInv, OrdersTypeOK, Order, OrderIds
<1>5. ASSUME NEW k \in A, Beats(side, orders, j, k) PROVE FALSE
  <2>1. Behind(k) \subseteq Behind(j)
    <3> SUFFICES ASSUME NEW n \in A, Beats(side, orders, k, n) PROVE Beats(side, orders, j, n)
      OBVIOUS
    <3> QED
      BY <1>4, <1>5 DEF Beats
  <2>2. Behind(k) \in C
    OBVIOUS
  <2>3. Behind(k) = Behind(j)
    BY <1>2, <1>3, <2>1, <2>2
  <2>4. k \in Behind(k)
    BY <1>5, <2>3
  <2>5. ~Beats(side, orders, k, k)
    BY <1>4 DEF Beats
  <2> QED
    BY <2>4, <2>5
<1> QED
  BY <1>5

\* What the sizing of a cash-out adds up, on the rows that are open for it.
LEMMA WalkSums ==
  ASSUME IInv, ConstantsAssumption, NEW side, NEW W, W \subseteq DOMAIN orders,
         NEW target, NEW i \in W
  PROVE  LET ahead == AheadOf(side, orders, W, i)
         IN  /\ IsFiniteSet(ahead) /\ ahead \subseteq W
             /\ Ahead(side, W, i) = ahead
             /\ Missing(side, W, target, i)
                  = target - SumFunctionOnSet(WorthOf(orders), ahead)
             /\ SumFunction([j \in ahead |-> Unmatched(orders[j])])
                  = SumFunctionOnSet(LeftOf(orders), ahead)
             /\ SumFunctionOnSet(WorthOf(orders), ahead) \in Int
             /\ SumFunctionOnSet(LeftOf(orders), ahead) \in Int
             /\ LevelNotional(i) = WorthOf(orders)[i] /\ LevelNotional(i) \in Nat
<1>1. PICK A : A = AheadOf(side, orders, W, i)
  OBVIOUS
<1>2. A \subseteq W /\ A \subseteq DOMAIN orders /\ Ahead(side, W, i) = A
  BY <1>1 DEF AheadOf, Ahead, Levels, Precedes, Beats
<1>3. IsFiniteSet(A)
  <2>1. IsFiniteSet(OrderIds)
    BY FS_Interval DEF OrderIds, ConstantsAssumption
  <2> QED
    BY <1>2, <2>1, FS_Subset DEF IInv, OrdersTypeOK
<1>4. ASSUME NEW j \in DOMAIN orders
      PROVE  /\ LeftOf(orders)[j] = Unmatched(orders[j]) /\ WorthOf(orders)[j] = LevelNotional(j)
             /\ LeftOf(orders)[j] \in Nat /\ WorthOf(orders)[j] \in Nat
             /\ LeftOf(orders)[j] \in Int /\ WorthOf(orders)[j] \in Int
  <2>1. /\ orders[j].stake \in Nat /\ orders[j].matched \in Nat /\ orders[j].odds \in Nat
        /\ orders[j].matched <= orders[j].stake
    BY DEF IInv, OrdersTypeOK, OrdersInv, Order
  <2>2. PICK m \in Nat : m = Unmatched(orders[j])
    BY <2>1 DEF Unmatched
  <2>3. m * orders[j].odds \in Nat
    BY <2>1
  <2> QED
    BY <2>2, <2>3 DEF LeftOf, WorthOf, LevelNotional
<1>5. /\ SumFunctionOnSet(WorthOf(orders), A) \in Int
      /\ SumFunctionOnSet(LeftOf(orders), A) \in Int
  BY <1>2, <1>3, <1>4, SumInt
<1>6. SumFunction([j \in A |-> LevelNotional(j)]) = SumFunctionOnSet(WorthOf(orders), A)
  <2>1. PICK table : table = [j \in A |-> LevelNotional(j)]
    OBVIOUS
  <2>2. DOMAIN table = A /\ \A j \in A : table[j] = WorthOf(orders)[j]
    BY <1>2, <1>4, <2>1
  <2> QED
    BY <1>3, <2>1, <2>2, SumOfTable
<1>7. SumFunction([j \in A |-> Unmatched(orders[j])]) = SumFunctionOnSet(LeftOf(orders), A)
  <2>1. PICK table : table = [j \in A |-> Unmatched(orders[j])]
    OBVIOUS
  <2>2. DOMAIN table = A /\ \A j \in A : table[j] = LeftOf(orders)[j]
    BY <1>2, <1>4, <2>1
  <2> QED
    BY <1>3, <2>1, <2>2, SumOfTable
<1>8. Missing(side, W, target, i) = target - SumFunctionOnSet(WorthOf(orders), A)
  BY <1>2, <1>6, Zenon DEF Missing
<1> QED
  BY <1>1, <1>2, <1>3, <1>4, <1>5, <1>7, <1>8


\* No administrator opens a match again: admin_edit_match_view is used for
\* nothing but to close one.
NoReopening == EditStatuses \cap OpenStatuses = {}

MatchClosed(rows, m) == rows[m].status \notin OpenStatuses

\* What is settled, and what is being settled, is of a match that is closed.
WorkerLife(r, ms, rows) ==
  /\ MatchClosed(ms, r.match)
  /\ \A k \in r.pending : k[1] \in DOMAIN rows /\ rows[k[1]].match = r.match

LifeInv ==
  /\ \A f \in fills : f.status # "pending" => MatchClosed(matches, orders[f.taker].match)
  /\ \A w \in DOMAIN worker : WorkerLife(worker[w], matches, orders)

\* No step opens a closed match.
LEMMA ClosedStays ==
  ASSUME IInv, NoReopening, [Next]_vars, NEW m \in Matches, MatchClosed(matches, m)
  PROVE  MatchClosed(matches', m)
<1>1. matches \in [Matches -> [status: Statuses, result: Results \cup {NoResult}]]
  BY DEF IInv, LifecycleOK
<1>2. ASSUME NEW s \in Sessions, SessionStep(s) PROVE matches' = matches
  BY <1>2 DEF SessionStep, PlaceCheck, PlaceReserve, Reserve, PlaceReject, LockBook,
              MatchNext, Commit, Abort, CashOutWalk, CashOutReserve, CashOutGiveUp
<1>3. ASSUME NEW w \in Workers, NEW n \in Matches, NEW r, FinishMatch(w, n, r)
      PROVE  MatchClosed(matches', m)
  <2>1. matches' = [matches EXCEPT ![n] = [status |-> "finished", result |-> r]]
    BY <1>3 DEF FinishMatch
  <2> QED
    BY <1>1, <2>1 DEF MatchClosed, OpenStatuses
<1>4. ASSUME NEW w \in Workers, NEW n \in Matches, CancelMatch(w, n)
      PROVE  MatchClosed(matches', m)
  <2>1. matches' = [matches EXCEPT ![n].status = "cancelled"]
    BY <1>4 DEF CancelMatch
  <2> QED
    BY <1>1, <2>1 DEF MatchClosed, OpenStatuses
<1>5. ASSUME NEW w \in Workers,
             \/ \E n \in Matches : SettleTask(w, n)
             \/ ListFills(w) \/ SettleFill(w) \/ ListOrders(w) \/ ReleaseOrder(w)
             \/ FinishSettlement(w) \/ Crash(w)
      PROVE  matches' = matches
  BY <1>5 DEF SettleTask, ListFills, SettleFill, ListOrders, ReleaseOrder, FinishSettlement, Crash
<1>6. ASSUME NEW i \in OrderIds, cancel_order(i) PROVE matches' = matches
  BY <1>6 DEF cancel_order
<1>7. ASSUME NEW n \in Matches, MarkLive(n) PROVE MatchClosed(matches', m)
  <2>1. matches' = [matches EXCEPT ![n].status = "live"] /\ matches[n].status = "scheduled"
    BY <1>7 DEF MarkLive
  <2>2. n # m
    BY <2>1 DEF MatchClosed, OpenStatuses
  <2> QED
    BY <1>1, <2>1, <2>2 DEF MatchClosed
<1>8. ASSUME NEW n \in Matches, EditStatus(n) PROVE MatchClosed(matches', m)
  <2>1. PICK status \in EditStatuses : matches' = [matches EXCEPT ![n].status = status]
    BY <1>8 DEF EditStatus
  <2>2. status \notin OpenStatuses
    BY DEF NoReopening
  <2> QED
    BY <1>1, <2>1, <2>2 DEF MatchClosed
<1>9. ASSUME NEW n \in Matches, FinishUnscored(n) PROVE MatchClosed(matches', m)
  <2>1. matches' = [matches EXCEPT ![n] = [status |-> "finished", result |-> NoResult]]
    BY <1>9 DEF FinishUnscored
  <2> QED
    BY <1>1, <2>1 DEF MatchClosed, OpenStatuses
<1>10. CASE UNCHANGED vars
  BY <1>10 DEF vars
<1> QED
  BY <1>2, <1>3, <1>4, <1>5, <1>6, <1>7, <1>8, <1>9, <1>10, Zenon DEF Next, WorkerStep

\* A settlement stays with its match and lists fills of that match only.
LEMMA WorkerLifeKept ==
  ASSUME IInv, IInv', NoReopening, [Next]_vars, LifeInv, NEW w \in DOMAIN worker'
  PROVE  WorkerLife(worker'[w], matches', orders')
<1>1. ASSUME NEW r, r.match \in Matches, WorkerLife(r, matches, orders)
      PROVE  WorkerLife(r, matches', orders')
  <2>1. MatchClosed(matches', r.match)
    BY <1>1, ClosedStays DEF WorkerLife
  <2>2. \A k \in r.pending : k[1] \in DOMAIN orders' /\ orders'[k[1]].match = r.match
    BY <1>1, RowsEvolve DEF WorkerLife, Evolved, SameTerms
  <2> QED
    BY <2>1, <2>2 DEF WorkerLife
<1>2. ASSUME w \in DOMAIN worker, worker'[w] = worker[w]
      PROVE  WorkerLife(worker'[w], matches', orders')
  <2>1. worker[w].match \in Matches /\ WorkerLife(worker[w], matches, orders)
    BY <1>2 DEF IInv, LifecycleOK, Settlement, LifeInv
  <2> QED
    BY <1>1, <1>2, <2>1
<1>3. ASSUME NEW v \in Workers, NEW m \in Matches, NEW status, NEW result,
             StartSettlement(v, m, status, result), MatchClosed(matches', m)
      PROVE  WorkerLife(worker'[w], matches', orders')
  <2>1. CASE w = v
    <3>1. worker'[w].match = m /\ worker'[w].pending = {}
      BY <1>3, <2>1 DEF StartSettlement
    <3> QED
      BY <1>3, <3>1 DEF WorkerLife
  <2>2. CASE w # v
    <3>1. w \in DOMAIN worker /\ worker'[w] = worker[w]
      BY <1>3, <2>2 DEF StartSettlement
    <3> QED
      BY <1>2, <3>1
  <2> QED
    BY <2>1, <2>2
<1>4. matches \in [Matches -> [status: Statuses, result: Results \cup {NoResult}]]
  BY DEF IInv, LifecycleOK
<1>5. ASSUME NEW v \in Workers, NEW m \in Matches, NEW r, FinishMatch(v, m, r)
      PROVE  WorkerLife(worker'[w], matches', orders')
  <2>1. /\ matches' = [matches EXCEPT ![m] = [status |-> "finished", result |-> r]]
        /\ StartSettlement(v, m, "finished", r)
    BY <1>5 DEF FinishMatch
  <2>2. MatchClosed(matches', m)
    BY <1>4, <2>1 DEF MatchClosed, OpenStatuses
  <2> QED
    BY <1>3, <2>1, <2>2
<1>6. ASSUME NEW v \in Workers, NEW m \in Matches, CancelMatch(v, m)
      PROVE  WorkerLife(worker'[w], matches', orders')
  <2>1. /\ matches' = [matches EXCEPT ![m].status = "cancelled"]
        /\ StartSettlement(v, m, "cancelled", matches[m].result)
    BY <1>6 DEF CancelMatch
  <2>2. MatchClosed(matches', m)
    BY <1>4, <2>1 DEF MatchClosed, OpenStatuses
  <2> QED
    BY <1>3, <2>1, <2>2
<1>7. ASSUME NEW v \in Workers, NEW m \in Matches, SettleTask(v, m)
      PROVE  WorkerLife(worker'[w], matches', orders')
  <2>1. /\ matches' = matches /\ matches[m].status = "finished"
        /\ StartSettlement(v, m, "finished", matches[m].result)
    BY <1>7 DEF SettleTask, NeedsSettling, Scored
  <2>2. MatchClosed(matches', m)
    BY <2>1 DEF MatchClosed, OpenStatuses
  <2> QED
    BY <1>3, <2>1, <2>2
<1>8. ASSUME NEW v \in Workers,
             ListFills(v) \/ SettleFill(v) \/ ListOrders(v) \/ ReleaseOrder(v)
      PROVE  WorkerLife(worker'[w], matches', orders')
  <2>1. v \in DOMAIN worker /\ worker[v] \in Settlement /\ WorkerLife(worker[v], matches, orders)
    BY <1>8 DEF ListFills, SettleFill, ListOrders, ReleaseOrder, IInv, LifecycleOK, LifeInv
  <2>2. ASSUME NEW r, PutWorker(v, r), r.match = worker[v].match,
               \A k \in r.pending : k[1] \in DOMAIN orders /\ orders[k[1]].match = r.match
        PROVE  WorkerLife(worker'[w], matches', orders')
    <3>1. DOMAIN worker' = DOMAIN worker
      BY <2>2 DEF PutWorker
    <3>2. CASE w = v
      <4>1. worker'[w] = r
        BY <2>1, <2>2, <3>2 DEF PutWorker
      <4>2. r.match \in Matches /\ WorkerLife(r, matches, orders)
        BY <2>1, <2>2 DEF WorkerLife, Settlement
      <4> QED
        BY <1>1, <4>1, <4>2
    <3>3. CASE w # v
      <4>1. worker'[w] = worker[w]
        BY <2>1, <2>2, <3>3, <3>1 DEF PutWorker
      <4> QED
        BY <1>2, <3>1, <4>1
    <3> QED
      BY <3>2, <3>3
  <2>3. CASE ListFills(v)
    <3>1. PICK K : K = {Key(f) : f \in {g \in fills : /\ g.status = "pending"
                                             /\ orders[g.taker].match = worker[v].match}}
      OBVIOUS
    <3>2. PutWorker(v, [worker[v] EXCEPT !.phase = "fills", !.pending = K])
      BY <2>3, <3>1, Zenon DEF ListFills
    <3>3. \A k \in K : k[1] \in DOMAIN orders /\ orders[k[1]].match = worker[v].match
      BY <3>1 DEF Key, IInv, FillsInv
    <3>4. /\ [worker[v] EXCEPT !.phase = "fills", !.pending = K].match = worker[v].match
          /\ [worker[v] EXCEPT !.phase = "fills", !.pending = K].pending = K
      BY <2>1 DEF Settlement
    <3> QED
      BY <2>2, <3>2, <3>3, <3>4
  <2>4. CASE SettleFill(v)
    <3>1. PICK K : K \subseteq worker[v].pending /\ PutWorker(v, [worker[v] EXCEPT !.pending = K])
      BY <2>4, <2>1 DEF SettleFill, Settlement
    <3>2. /\ [worker[v] EXCEPT !.pending = K].match = worker[v].match
          /\ [worker[v] EXCEPT !.pending = K].pending = K
      BY <2>1 DEF Settlement
    <3> QED
      BY <2>1, <2>2, <3>1, <3>2 DEF WorkerLife
  <2>5. CASE ListOrders(v)
    <3>1. PICK open : PutWorker(v, [worker[v] EXCEPT !.phase = "orders", !.open = open])
      BY <2>5 DEF ListOrders
    <3>2. /\ [worker[v] EXCEPT !.phase = "orders", !.open = open].match = worker[v].match
          /\ [worker[v] EXCEPT !.phase = "orders", !.open = open].pending = worker[v].pending
      BY <2>1 DEF Settlement
    <3> QED
      BY <2>1, <2>2, <3>1, <3>2 DEF WorkerLife
  <2>6. CASE ReleaseOrder(v)
    <3>1. PICK open : PutWorker(v, [worker[v] EXCEPT !.open = open])
      BY <2>6, <2>1 DEF ReleaseOrder, Settlement
    <3>2. /\ [worker[v] EXCEPT !.open = open].match = worker[v].match
          /\ [worker[v] EXCEPT !.open = open].pending = worker[v].pending
      BY <2>1 DEF Settlement
    <3> QED
      BY <2>1, <2>2, <3>1, <3>2 DEF WorkerLife
  <2> QED
    BY <1>8, <2>3, <2>4, <2>5, <2>6
<1>9. ASSUME NEW v \in Workers, FinishSettlement(v) \/ Crash(v)
      PROVE  WorkerLife(worker'[w], matches', orders')
  <2>1. worker' = [x \in DOMAIN worker \ {v} |-> worker[x]]
    BY <1>9 DEF FinishSettlement, Crash, StopWorker
  <2> QED
    BY <1>2, <2>1
<1>10. ASSUME worker' = worker PROVE WorkerLife(worker'[w], matches', orders')
  BY <1>2, <1>10
<1>11. ASSUME NEW s \in Sessions, SessionStep(s) PROVE worker' = worker
  BY <1>11 DEF SessionStep, PlaceCheck, PlaceReserve, Reserve, PlaceReject, LockBook,
              MatchNext, Commit, Abort, CashOutWalk, CashOutReserve, CashOutGiveUp
<1>12. ASSUME NEW i \in OrderIds, cancel_order(i) PROVE worker' = worker
  BY <1>12 DEF cancel_order
<1>13. ASSUME NEW m \in Matches, MarkLive(m) \/ EditStatus(m) \/ FinishUnscored(m)
       PROVE  worker' = worker
  BY <1>13 DEF MarkLive, EditStatus, FinishUnscored
<1>14. CASE UNCHANGED vars
  BY <1>10, <1>14 DEF vars
<1> QED
  BY <1>5, <1>6, <1>7, <1>8, <1>9, <1>10, <1>11, <1>12, <1>13, <1>14, Zenon DEF Next, WorkerStep

\* A fill is new and pending, one there was, or one a settlement had listed.
LEMMA FillsCome ==
  ASSUME IInv, BooksInv, [Next]_vars, NEW g \in fills', g.status # "pending"
  PROVE  \/ g \in fills
         \/ \E w \in DOMAIN worker : <<g.taker, g.maker>> \in worker[w].pending
<1>1. ASSUME NEW s \in Sessions, Commit(s) PROVE g \in fills
  <2>1. fills' = fills \cup tx[s].takes /\ s \in DOMAIN tx
    BY <1>1, Committed
  <2>2. \A f \in tx[s].takes : f.status = "pending"
    BY <2>1 DEF BooksInv, TakesSum
  <2> QED
    BY <2>1, <2>2
<1>2. ASSUME NEW w \in Workers, SettleFill(w)
      PROVE  \/ g \in fills
             \/ w \in DOMAIN worker /\ <<g.taker, g.maker>> \in worker[w].pending
  <2>1. PICK f \in fills :
          /\ Key(f) \in worker[w].pending
          /\ IF AlreadySettled(f) THEN UNCHANGED <<wallets, fills>>
             ELSE IF worker[w].status = "cancelled" THEN void_fill(f)
                  ELSE settle_fill(f, worker[w].result)
    BY <1>2 DEF SettleFill
  <2>2. w \in DOMAIN worker /\ f \in Fill
    BY <1>2 DEF SettleFill, IInv, FundsTypeOK
  <2>3. CASE AlreadySettled(f)
    <3>1. UNCHANGED <<wallets, fills>>
      BY <2>1, <2>3, Zenon
    <3>2. g \in fills
      BY <3>1
    <3> QED
      BY <3>2
  <2>4. CASE ~AlreadySettled(f)
    <3>1. \E status, commission : Close(f, status, commission)
      <4>1. CASE void_fill(f)
        BY <4>1, Zenon DEF void_fill
      <4>2. CASE settle_fill(f, worker[w].result)
        BY <4>2, Zenon DEF settle_fill
      <4> QED
        BY <2>1, <2>4, <4>1, <4>2
    <3>2. PICK h : /\ fills' = (fills \ {f}) \cup {h}
                   /\ h.taker = f.taker /\ h.maker = f.maker
      <4>1. PICK status, commission : Close(f, status, commission)
        BY <3>1
      <4>2. PICK h : h = [f EXCEPT !.status = status, !.commission = commission]
        OBVIOUS
      <4>3. fills' = (fills \ {f}) \cup {h}
        BY <4>1, <4>2 DEF Close
      <4>4. h.taker = f.taker /\ h.maker = f.maker
        BY <2>2, <4>2 DEF Fill
      <4> QED
        BY <4>3, <4>4
    <3> QED
      BY <2>1, <2>2, <3>2 DEF Key
  <2> QED
    BY <2>3, <2>4
<1>3. ASSUME NEW s \in Sessions, SessionStep(s), ~Commit(s) PROVE fills' = fills
  BY <1>3 DEF SessionStep, PlaceCheck, PlaceReserve, Reserve, PlaceReject, LockBook,
              MatchNext, Abort, CashOutWalk, CashOutReserve, CashOutGiveUp
<1>4. ASSUME NEW w \in Workers, WorkerStep(w), ~SettleFill(w) PROVE fills' = fills
  BY <1>4 DEF WorkerStep, FinishMatch, CancelMatch, SettleTask, ListFills, ListOrders,
              ReleaseOrder, FinishSettlement, Crash
<1>5. ASSUME NEW i \in OrderIds, cancel_order(i) PROVE fills' = fills
  BY <1>5 DEF cancel_order
<1>6. ASSUME NEW m \in Matches, MarkLive(m) \/ EditStatus(m) \/ FinishUnscored(m)
      PROVE  fills' = fills
  BY <1>6 DEF MarkLive, EditStatus, FinishUnscored
<1>7. CASE UNCHANGED vars
  BY <1>7 DEF vars
<1> QED
  BY <1>1, <1>2, <1>3, <1>4, <1>5, <1>6, <1>7 DEF Next

LEMMA LifeKept ==
  ASSUME IInv, IInv', BooksInv, NoReopening, [Next]_vars, LifeInv
  PROVE  LifeInv'
<1>1. ASSUME NEW g \in fills', g.status # "pending"
      PROVE  MatchClosed(matches', orders'[g.taker].match)
  <2>1. CASE g \in fills
    <3>1. g.taker \in DOMAIN orders /\ MatchClosed(matches, orders[g.taker].match)
      BY <1>1, <2>1 DEF IInv, FillsInv, LifeInv
    <3>2. orders[g.taker].match \in Matches
      BY <3>1 DEF IInv, OrdersTypeOK, Order
    <3>3. orders'[g.taker].match = orders[g.taker].match
      BY <3>1, RowsEvolve DEF Evolved, SameTerms
    <3> QED
      BY <3>1, <3>2, <3>3, ClosedStays
  <2>2. ASSUME NEW w \in DOMAIN worker, <<g.taker, g.maker>> \in worker[w].pending
        PROVE  MatchClosed(matches', orders'[g.taker].match)
    <3>1. WorkerLife(worker[w], matches, orders) /\ worker[w].match \in Matches
      BY DEF LifeInv, IInv, LifecycleOK, Settlement
    <3>2. g.taker \in DOMAIN orders /\ orders[g.taker].match = worker[w].match
      BY <2>2, <3>1 DEF WorkerLife
    <3>3. MatchClosed(matches', worker[w].match)
      BY <3>1, ClosedStays DEF WorkerLife
    <3>4. orders'[g.taker].match = orders[g.taker].match
      BY <3>2, RowsEvolve DEF Evolved, SameTerms
    <3> QED
      BY <3>2, <3>3, <3>4
  <2> QED
    BY <1>1, <2>1, <2>2, FillsCome
<1>2. \A w \in DOMAIN worker' : WorkerLife(worker'[w], matches', orders')
  BY WorkerLifeKept
<1> QED
  BY <1>1, <1>2 DEF LifeInv, MatchClosed, WorkerLife

\* What is settled belongs to a closed match, if none is opened again.
THEOREM LifeHolds == ASSUME NoReopening PROVE Spec => []LifeInv
<1>1. Init => LifeInv
  BY DEF Init, LifeInv
<1>2. IInv /\ IInv' /\ BooksInv /\ LifeInv /\ [Next]_vars => LifeInv'
  BY LifeKept
<1> QED
  BY <1>1, <1>2, Inductive, BooksHold, PTL DEF Spec

\* In an open match, the target of a cash-out is what its fills are worth,
\* stake and winnings.
LEMMA TargetIsNotional ==
  ASSUME IInv, BooksInv, LifeInv, NEW i \in DOMAIN orders,
         ~MatchClosed(matches, orders[i].match)
  PROVE  LET K == {Key(f) : f \in PendingFillsOf(i)}
         IN  /\ CashOutTarget(i) = SumFunctionOnSet(NotionalOf, Covered(fills, K))
             /\ CashOutTarget(i) \in Int
             /\ \A k \in K : k[1] \in DOMAIN orders
<1> PICK K : K = {Key(f) : f \in PendingFillsOf(i)}
  OBVIOUS
<1> PICK P : P = PendingFillsOf(i)
  OBVIOUS
<1>1. P \subseteq fills /\ P \subseteq Fill /\ fills \subseteq Fill /\ IsFiniteSet(P)
  BY FS_Subset DEF PendingFillsOf, IInv, FundsTypeOK, BooksInv, FillsSum
<1>2. P = FillsOf(fills, i)
  <2>1. ASSUME NEW f \in fills, i \in {f.taker, f.maker} PROVE f.status = "pending"
    <3>1. f.taker \in DOMAIN orders /\ f.maker \in DOMAIN orders
      BY DEF IInv, FillsInv
    <3>2. orders[f.taker].match = orders[f.maker].match
      BY DEF IInv, FillsInv, PriceProtection, SameMarket
    <3>3. ~MatchClosed(matches, orders[f.taker].match)
      BY <2>1, <3>2
    <3> QED
      BY <3>3 DEF LifeInv
  <2> QED
    BY <2>1 DEF PendingFillsOf, FillsOf
<1>3. Covered(fills, K) = P
  <2>1. ASSUME NEW f \in fills, <<f.taker, f.maker>> \in K PROVE f \in P
    <3>1. PICK g \in P : <<f.taker, f.maker>> = <<g.taker, g.maker>>
      BY <2>1 DEF Key
    <3>2. g \in fills /\ f.taker = g.taker /\ f.maker = g.maker
      BY <1>1, <3>1
    <3>3. f = g
      BY <3>2 DEF BooksInv, FillsSum
    <3> QED
      BY <3>1, <3>3
  <2>2. ASSUME NEW f \in P PROVE f \in fills /\ <<f.taker, f.maker>> \in K
    BY <1>1 DEF Key
  <2> QED
    BY <2>1, <2>2 DEF Covered
<1>4. orders[i].matched = SumFunctionOnSet(StakeOf, P)
  BY <1>2 DEF BooksInv, FillsSum
<1> DEFINE won == [f \in P |-> f.stake * (f.odds - 1)]
<1>5. /\ \A f \in P : won[f] \in Int
      /\ \A f \in P : StakeOf[f] \in Int /\ NotionalOf[f] = StakeOf[f] + won[f]
  <2> SUFFICES ASSUME NEW f \in P
               PROVE  won[f] \in Int /\ StakeOf[f] \in Int /\ NotionalOf[f] = StakeOf[f] + won[f]
    OBVIOUS
  <2>1. f \in Fill /\ f.stake \in Nat /\ f.odds \in Nat
    BY <1>1 DEF Fill
  <2>2. StakeOf[f] = f.stake /\ NotionalOf[f] = f.stake * f.odds /\ won[f] = f.stake * (f.odds - 1)
    BY <2>1 DEF StakeOf, NotionalOf
  <2> QED
    BY <2>1, <2>2
<1>6. CashOutTarget(i) = orders[i].matched + SumFunction(won)
  BY Zenon DEF CashOutTarget
<1>7. DOMAIN won = P
  OBVIOUS
<1> HIDE DEF won
<1>8. SumFunction(won) = SumFunctionOnSet(won, P)
  BY <1>1, <1>7, SumOfTable
<1>9. SumFunctionOnSet(NotionalOf, P) = SumFunctionOnSet(StakeOf, P) + SumFunctionOnSet(won, P)
  BY <1>1, <1>5, SumPlus
<1>10. SumFunctionOnSet(NotionalOf, P) \in Int
  BY <1>1, NotionalSums
<1>11. \A k \in K : k[1] \in DOMAIN orders
  <2> SUFFICES ASSUME NEW f \in P PROVE Key(f)[1] \in DOMAIN orders
    OBVIOUS
  <2> QED
    BY <1>1 DEF Key, IInv, FillsInv
<1>12. CashOutTarget(i) = SumFunctionOnSet(NotionalOf, P)
  BY <1>4, <1>6, <1>8, <1>9, Zenon
<1> QED
  BY <1>3, <1>10, <1>11, <1>12

LEMMA BeatsOrders ==
  ASSUME IInv, NEW side, NEW i \in DOMAIN orders, NEW j \in DOMAIN orders, NEW k \in DOMAIN orders
  PROVE  /\ Beats(side, orders, i, j) <=> Precedes(side, i, j)
         /\ ~Beats(side, orders, i, i)
         /\ Beats(side, orders, i, j) => ~Beats(side, orders, j, i)
         /\ i # j => Beats(side, orders, i, j) \/ Beats(side, orders, j, i)
         /\ Beats(side, orders, i, j) /\ Beats(side, orders, j, k) => Beats(side, orders, i, k)
<1>1. /\ orders[i].odds \in Nat /\ orders[j].odds \in Nat /\ orders[k].odds \in Nat
      /\ i \in Nat /\ j \in Nat /\ k \in Nat
  BY DEF IInv, OrdersTypeOK, Order, OrderIds
<1> QED
  BY <1>1 DEF Beats, Precedes

\* The level a walk ends on, when the book reaches the target, is the first
\* that does: those ahead of it leave something missing.
LEMMA MissingNat ==
  ASSUME IInv, ConstantsAssumption, NEW side, NEW W, W \subseteq DOMAIN orders,
         NEW target \in Nat, NEW last \in W,
         WalkEndsAt(side, W, target, last), Covers(side, W, target, last)
  PROVE  Missing(side, W, target, last) \in Nat
<1> PICK worth : worth = WorthOf(orders)
  OBVIOUS
<1> PICK A : A = AheadOf(side, orders, W, last)
  OBVIOUS
<1>1. /\ IsFiniteSet(A) /\ A \subseteq W /\ A \subseteq DOMAIN orders
      /\ SumFunctionOnSet(worth, A) \in Int
      /\ Missing(side, W, target, last) = target - SumFunctionOnSet(worth, A)
  BY WalkSums
<1>2. CASE A = {}
  <2>1. SumFunctionOnSet(worth, A) = 0
    BY <1>2, SumEmpty
  <2> QED
    BY <1>1, <2>1
<1>3. CASE A # {}
  <2>1. PICK j \in A : \A k \in A : ~Beats(side, orders, j, k)
    BY <1>1, <1>3, LastRow
  <2>2. j \in W /\ Unmatched(orders[j]) > 0 /\ Beats(side, orders, j, last)
    BY DEF AheadOf
  <2> PICK B : B = AheadOf(side, orders, W, j)
    OBVIOUS
  <2>3. /\ IsFiniteSet(B) /\ B \subseteq W /\ SumFunctionOnSet(worth, B) \in Int
        /\ Missing(side, W, target, j) = target - SumFunctionOnSet(worth, B)
        /\ LevelNotional(j) = worth[j] /\ LevelNotional(j) \in Nat
    BY <2>2, WalkSums
  <2>4. ~Covers(side, W, target, j)
    <3> SUFFICES ASSUME Covers(side, W, target, j) PROVE FALSE
      OBVIOUS
    <3> PICK C : C = {i \in Levels(W) : Covers(side, W, target, i)}
      OBVIOUS
    <3>1. j \in C
      BY <2>2 DEF Levels
    <3>2. last \in Best(side, C)
      BY <3>1, Zenon DEF WalkEndsAt
    <3>3. j # last /\ ~Precedes(side, last, j)
      BY <2>2, BeatsOrders
    <3> QED
      BY <3>1, <3>2, <3>3 DEF Best
  <2>5. LevelNotional(j) < Missing(side, W, target, j)
    <3>1. Missing(side, W, target, j) \in Int
      BY <2>3
    <3> QED
      BY <2>3, <2>4, <3>1 DEF Covers
  <2>6. A = B \cup {j} /\ j \notin B
    <3>1. ASSUME NEW k \in A, k # j PROVE k \in B
      <4>1. k \in W /\ k \in DOMAIN orders /\ Unmatched(orders[k]) > 0
        BY <1>1 DEF AheadOf
      <4>2. Beats(side, orders, k, j)
        BY <2>1, <2>2, <3>1, <4>1, BeatsOrders
      <4> QED
        BY <4>1, <4>2 DEF AheadOf
    <3>2. ASSUME NEW k \in B PROVE k \in A
      <4>1. k \in W /\ Unmatched(orders[k]) > 0 /\ Beats(side, orders, k, j)
        BY DEF AheadOf
      <4>2. Beats(side, orders, k, last)
        BY <2>2, <4>1, BeatsOrders
      <4> QED
        BY <4>1, <4>2 DEF AheadOf
    <3>3. j \notin B
      BY <2>2, BeatsOrders DEF AheadOf
    <3> QED
      BY <3>1, <3>2, <3>3
  <2>7. \A k \in B : worth[k] \in Int
    <3> SUFFICES ASSUME NEW k \in B PROVE worth[k] \in Int
      OBVIOUS
    <3>1. k \in W
      BY <2>3
    <3>2. LevelNotional(k) = WorthOf(orders)[k] /\ LevelNotional(k) \in Nat
      BY <3>1, WalkSums
    <3> QED
      BY <3>2
  <2>8. SumFunctionOnSet(worth, A) = worth[j] + SumFunctionOnSet(worth, B)
    BY <2>3, <2>6, <2>7, SumAdd
  <2> QED
    BY <1>1, <2>3, <2>5, <2>8
<1> QED
  BY <1>2, <1>3

\* A walk that reaches its target sizes the leg to half a unit of it.
LEMMA WalkSized ==
  ASSUME IInv, ConstantsAssumption, NEW side, NEW W, W \subseteq DOMAIN orders,
         NEW target \in Nat, NEW last \in W,
         WalkEndsAt(side, W, target, last), Covers(side, W, target, last)
  PROVE  \E q \in Nat :
           LET ahead == AheadOf(side, orders, W, last)
           IN  /\ WalkStake(side, W, target, last)
                    = SumFunctionOnSet(LeftOf(orders), ahead) + q
               /\ TwiceOff(target, SumFunctionOnSet(WorthOf(orders), ahead), q, orders[last].odds)
                    \in -orders[last].odds .. orders[last].odds
<1> PICK A : A = AheadOf(side, orders, W, last)
  OBVIOUS
<1>1. PICK w \in Int, l \in Int : /\ w = SumFunctionOnSet(WorthOf(orders), A)
                                  /\ l = SumFunctionOnSet(LeftOf(orders), A)
  BY WalkSums
<1>2. PICK m \in Nat : m = Missing(side, W, target, last)
  BY MissingNat
<1>3. m = target - w
  BY <1>1, <1>2, WalkSums
<1>4. PICK d \in Nat : d = orders[last].odds /\ d > 0
  BY DEF IInv, OrdersTypeOK, Order, OrdersInv
<1>5. PICK q \in Int : q = Quantized(m, d)
  <2>1. Quantized(m, d) \in Int
    BY <1>4, m \in Int, QuantizedBound
  <2> QED
    BY <2>1
<1>6. q >= 0 /\ 2 * (q * d - m) <= d
  BY <1>4, <1>5, QuantizedBound
<1>7. 2 * (m - q * d) <= d
  BY <1>4, <1>5, QuantizedLow
<1>8. WalkStake(side, W, target, last) = l + q
  <2>1. Ahead(side, W, last) = A
    BY WalkSums
  <2>2. SumFunction([i \in A |-> Unmatched(orders[i])]) = l
    BY <1>1, WalkSums
  <2> QED
    BY <1>2, <1>4, <1>5, <2>1, <2>2, Zenon DEF WalkStake
<1>9. TwiceOff(target, w, q, d) \in -d .. d
  <2> PICK p \in Int : p = q * d
    OBVIOUS
  <2>1. 2 * (p - m) <= d /\ 2 * (m - p) <= d
    BY <1>6, <1>7
  <2>2. TwiceOff(target, w, q, d) = 2 * (m - p)
    BY <1>3 DEF TwiceOff
  <2>3. 2 * (m - p) \in Int /\ 0 - d <= 2 * (m - p)
    BY <2>1
  <2> QED
    BY <2>1, <2>2, <2>3
<1>10. q \in Nat
  BY <1>6
<1> QED
  BY <1>1, <1>4, <1>8, <1>9, <1>10, Zenon

\* What the fills of orders that are rows are worth never changes: settling a
\* fill keeps its stake and odds, and new fills are of new orders.
LEMMA NotionalStays ==
  ASSUME IInv, ConstantsAssumption, BooksInv, [Next]_vars,
         NEW K, \A k \in K : k[1] \in DOMAIN orders
  PROVE  /\ SumFunctionOnSet(NotionalOf, Covered(fills', K))
              = SumFunctionOnSet(NotionalOf, Covered(fills, K))
         /\ SumFunctionOnSet(NotionalOf, Covered(fills, K)) \in Int
<1> PICK C : C = Covered(fills, K)
  OBVIOUS
<1>1. C \subseteq fills /\ C \subseteq Fill /\ fills \subseteq Fill /\ IsFiniteSet(C)
  BY FS_Subset DEF Covered, IInv, FundsTypeOK, BooksInv, FillsSum
<1>2. /\ \A f \in C : NotionalOf[f] = f.stake * f.odds /\ NotionalOf[f] \in Int
      /\ SumFunctionOnSet(NotionalOf, C) \in Int
  BY <1>1, NotionalSums
<1>3. ASSUME fills' = fills
      PROVE  SumFunctionOnSet(NotionalOf, Covered(fills', K)) = SumFunctionOnSet(NotionalOf, C)
  BY <1>3
<1>4. ASSUME NEW s \in Sessions, Commit(s)
      PROVE  SumFunctionOnSet(NotionalOf, Covered(fills', K)) = SumFunctionOnSet(NotionalOf, C)
  <2>1. /\ fills' = fills \cup tx[s].takes
        /\ \A f \in tx[s].takes : f.taker \notin DOMAIN orders
    BY <1>4, Committed DEF TakeInv
  <2>2. Covered(fills', K) = C
    BY <2>1 DEF Covered
  <2> QED
    BY <2>2
<1>5. ASSUME NEW f, CloseFill(f)
      PROVE  SumFunctionOnSet(NotionalOf, Covered(fills', K)) = SumFunctionOnSet(NotionalOf, C)
  <2>1. f \in fills /\ f.status = "pending"
    BY <1>5 DEF CloseFill
  <2>2. PICK g \in Fill :
          /\ g.taker = f.taker /\ g.maker = f.maker
          /\ g.stake = f.stake /\ g.odds = f.odds
          /\ g.status # "pending" /\ fills' = (fills \ {f}) \cup {g}
    BY <1>5, FillClosed
  <2>3. g \notin fills
    BY <2>1, <2>2 DEF BooksInv, FillsSum
  <2>4. CASE <<f.taker, f.maker>> \notin K
    <3>1. Covered(fills', K) = C
      BY <2>2, <2>4 DEF Covered
    <3> QED
      BY <3>1
  <2>5. CASE <<f.taker, f.maker>> \in K
    <3>1. Covered(fills', K) = (C \ {f}) \cup {g} /\ f \in C /\ g \notin C
      BY <1>1, <2>1, <2>2, <2>3, <2>5 DEF Covered
    <3>2. NotionalOf[g] = g.stake * g.odds
      BY DEF NotionalOf
    <3>3. NotionalOf[g] = NotionalOf[f]
      BY <1>2, <2>2, <3>1, <3>2
    <3>4. NotionalOf[g] \in Int
      BY <1>2, <3>1, <3>3
    <3>5. SumFunctionOnSet(NotionalOf, (C \ {f}) \cup {g})
            = SumFunctionOnSet(NotionalOf, C) - NotionalOf[f] + NotionalOf[g]
      BY <1>1, <1>2, <3>1, <3>4, SumSwap
    <3> QED
      BY <1>2, <3>1, <3>3, <3>4, <3>5
  <2> QED
    BY <2>4, <2>5
<1>6. SumFunctionOnSet(NotionalOf, Covered(fills', K)) = SumFunctionOnSet(NotionalOf, C)
  BY <1>3, <1>4, <1>5, StepKinds DEF Quiet, CloseOrder
<1> QED
  BY <1>2, <1>6

\* What is ahead of a row depends on the rows alone.
LEMMA AheadSame ==
  ASSUME NEW rows, NEW new, NEW W, NEW side, NEW last \in W,
         \A j \in W : new[j] = rows[j]
  PROVE  AheadOf(side, new, W, last) = AheadOf(side, rows, W, last)
<1>1. \A j \in W : Beats(side, new, j, last) <=> Beats(side, rows, j, last)
  BY DEF Beats
<1> QED
  BY <1>1 DEF AheadOf

\* A sizing depends on the locked rows, the covered fills' worth and the part
\* of the record matching leaves alone.
LEMMA SizedStays ==
  ASSUME NEW t, NEW t0, NEW rows, NEW new, NEW F, NEW G,
         Sized(t0, rows, F), IsFiniteSet(t0.walked),
         \A j \in t0.walked : j \in DOMAIN rows /\ j \in DOMAIN new /\ new[j] = rows[j],
         SumFunctionOnSet(NotionalOf, Covered(G, t0.covered))
           = SumFunctionOnSet(NotionalOf, Covered(F, t0.covered)),
         t.walked = t0.walked, t.covered = t0.covered,
         t.order.side = t0.order.side, t.order.odds = t0.order.odds,
         t.order.stake = t0.order.stake,
         \A last \in t0.walked :
           t.phase \in Busy
             => \/ t0.phase \in Busy /\ t0.seen \subseteq t.seen
                \/ t0.order.odds = rows[last].odds
                     => AheadOf(t0.order.side, rows, t0.walked, last) \subseteq t.seen
  PROVE  Sized(t, new, G)
<1> PICK W : W = t0.walked
  OBVIOUS
<1> PICK side : side = t0.order.side
  OBVIOUS
<1> PICK cov : cov = SumFunctionOnSet(NotionalOf, Covered(F, t0.covered))
  OBVIOUS
<1>1. PICK last \in W, q \in Nat :
        /\ t0.order.odds = rows[last].odds
        /\ t0.order.stake = SumFunctionOnSet(LeftOf(rows), AheadOf(side, rows, W, last)) + q
        /\ TwiceOff(cov, SumFunctionOnSet(WorthOf(rows), AheadOf(side, rows, W, last)),
                    q, t0.order.odds)
             \in -t0.order.odds .. t0.order.odds
        /\ t0.phase \in Busy => AheadOf(side, rows, W, last) \subseteq t0.seen
  BY Zenon DEF Sized
<1> PICK A : A = AheadOf(side, rows, W, last)
  OBVIOUS
<1>2. /\ AheadOf(side, new, W, last) = A /\ A \subseteq W
      /\ \A j \in W : LeftOf(new)[j] = LeftOf(rows)[j] /\ WorthOf(new)[j] = WorthOf(rows)[j]
  <2>1. \A j \in W : j \in DOMAIN rows /\ j \in DOMAIN new /\ new[j] = rows[j]
    OBVIOUS
  <2>2. AheadOf(side, new, W, last) = AheadOf(side, rows, W, last)
    BY <2>1, AheadSame
  <2>3. A \subseteq W
    BY DEF AheadOf
  <2>4. \A j \in W : LeftOf(new)[j] = LeftOf(rows)[j] /\ WorthOf(new)[j] = WorthOf(rows)[j]
    BY <2>1 DEF LeftOf, WorthOf
  <2> QED
    BY <2>2, <2>3, <2>4
<1>3. IsFiniteSet(A)
  BY <1>2, FS_Subset
<1>4. /\ SumFunctionOnSet(LeftOf(new), A) = SumFunctionOnSet(LeftOf(rows), A)
      /\ SumFunctionOnSet(WorthOf(new), A) = SumFunctionOnSet(WorthOf(rows), A)
  <2>1. /\ \A j \in A : LeftOf(new)[j] = LeftOf(rows)[j]
        /\ \A j \in A : WorthOf(new)[j] = WorthOf(rows)[j]
    BY <1>2
  <2>2. SumFunctionOnSet(LeftOf(new), A) = SumFunctionOnSet(LeftOf(rows), A)
    BY <1>3, <2>1, SumSame
  <2>3. SumFunctionOnSet(WorthOf(new), A) = SumFunctionOnSet(WorthOf(rows), A)
    BY <1>3, <2>1, SumSame
  <2> QED
    BY <2>2, <2>3
<1>5. t.order.odds = new[last].odds
  BY <1>1
<1>6. t.order.stake = SumFunctionOnSet(LeftOf(new), A) + q
  BY <1>1, <1>4, Zenon
<1>7. TwiceOff(SumFunctionOnSet(NotionalOf, Covered(G, t.covered)),
               SumFunctionOnSet(WorthOf(new), A), q, t.order.odds)
        \in -t.order.odds .. t.order.odds
  BY <1>1, <1>4, Zenon
<1>8. t.phase \in Busy => A \subseteq t.seen
  BY <1>1
<1>9. AheadOf(t.order.side, new, t.walked, last) = A /\ last \in t.walked
  BY <1>2
<1> QED
  BY <1>5, <1>6, <1>7, <1>8, <1>9, Zenon DEF Sized

\* The rows ahead of the level that sets the leg's odds are acceptable to it.
LEMMA AheadCompatible ==
  ASSUME IInv, NEW o, NEW W, W \subseteq Facing(o, orders), NEW last \in W,
         o.odds = orders[last].odds
  PROVE  AheadOf(o.side, orders, W, last) \subseteq Compatible(o)
<1> SUFFICES ASSUME NEW j \in AheadOf(o.side, orders, W, last) PROVE j \in Compatible(o)
  OBVIOUS
<1>1. j \in W /\ last \in DOMAIN orders /\ Beats(o.side, orders, j, last)
  BY DEF AheadOf, Facing
<1>2. j \in DOMAIN orders /\ j \in Counterparties(o)
  BY <1>1 DEF Facing, Counterparties
<1>3. orders[j].odds \in Nat /\ orders[last].odds \in Nat
  BY <1>1, <1>2 DEF IInv, OrdersTypeOK, Order
<1>4. Acceptable(o, orders[j])
  BY <1>1, <1>3 DEF Beats, Acceptable
<1> QED
  BY <1>2, <1>4 DEF Compatible

LEMMA RowsFinite ==
  ASSUME IInv, ConstantsAssumption, NEW W, W \subseteq DOMAIN orders
  PROVE  IsFiniteSet(W)
<1>1. IsFiniteSet(OrderIds)
  BY FS_Interval DEF OrderIds, ConstantsAssumption
<1> QED
  BY <1>1, FS_Subset DEF IInv, OrdersTypeOK

\* A step that leaves the walk and the terms of a leg alone keeps its sizing.
LEMMA CashTxCarried ==
  ASSUME IInv, IInv', ConstantsAssumption, BooksInv, [Next]_vars,
         NEW s \in DOMAIN tx, s \in DOMAIN tx',
         NEW t0, t0 = tx[s], NEW t, t = tx'[s],
         CashTx(t0, orders, fills), SameWalk(t, t0), t0.locks \subseteq t.locks,
         t.order.side = t0.order.side, t.order.odds = t0.order.odds,
         t.order.user = t0.order.user, t.order.match = t0.order.match,
         t.order.selection = t0.order.selection,
         t.reached => t0.reached /\ t.order.stake = t0.order.stake,
         \/ t.phase \in Busy => t0.phase \in Busy /\ t0.seen \subseteq t.seen
         \/ t.seen = Compatible(t.order)
  PROVE  CashTx(t, orders', fills')
<1> SUFFICES ASSUME t.origin # 0 PROVE CashTx(t, orders', fills')
  BY DEF CashTx
<1> PICK W : W = t0.walked
  OBVIOUS
<1> PICK K : K = t0.covered
  OBVIOUS
<1>1. t.walked = W /\ t.covered = K /\ t0.origin # 0
  BY DEF SameWalk
<1>2. /\ W \subseteq t0.locks /\ W \subseteq t.locks
      /\ \A k \in K : k[1] \in DOMAIN orders
      /\ W \subseteq Facing(t0.order, orders)
      /\ t0.reached => Sized(t0, orders, fills)
  BY <1>1 DEF CashTx
<1>3. \A j \in W : j \in DOMAIN orders /\ j \in DOMAIN orders' /\ orders'[j] = orders[j]
  BY <1>2, LockedStays, RowsEvolve
<1>4. IsFiniteSet(W)
  BY <1>3, RowsFinite
<1>5. SumFunctionOnSet(NotionalOf, Covered(fills', K))
        = SumFunctionOnSet(NotionalOf, Covered(fills, K))
  BY <1>2, NotionalStays
<1>6. W \subseteq Facing(t.order, orders')
  <2> SUFFICES ASSUME NEW j \in W PROVE j \in Facing(t.order, orders')
    OBVIOUS
  <2>1. j \in Facing(t0.order, orders) /\ j \in DOMAIN orders' /\ orders'[j] = orders[j]
    BY <1>2, <1>3
  <2> QED
    BY <2>1 DEF Facing, SameMarket
<1>7. \A k \in K : k[1] \in DOMAIN orders'
  BY <1>2, RowsEvolve
<1>8. ASSUME t.reached PROVE Sized(t, orders', fills')
  <2>1. Sized(t0, orders, fills) /\ t.order.stake = t0.order.stake
    BY <1>2, <1>8
  <2>2. ASSUME NEW last \in W, t.phase \in Busy
        PROVE  \/ t0.phase \in Busy /\ t0.seen \subseteq t.seen
               \/ t0.order.odds = orders[last].odds
                    => AheadOf(t0.order.side, orders, W, last) \subseteq t.seen
    <3>1. CASE t0.phase \in Busy /\ t0.seen \subseteq t.seen
      BY <3>1
    <3>2. CASE t.seen = Compatible(t.order)
      <4> SUFFICES ASSUME t0.order.odds = orders[last].odds
                   PROVE  AheadOf(t0.order.side, orders, W, last) \subseteq t.seen
        OBVIOUS
      <4>1. AheadOf(t0.order.side, orders, W, last) \subseteq Compatible(t0.order)
        BY <1>2, AheadCompatible
      <4>2. Compatible(t.order) = Compatible(t0.order)
        BY DEF Compatible, Counterparties, SameMarket, Acceptable
      <4> QED
        BY <3>2, <4>1, <4>2
    <3> QED
      BY <2>2, <3>1, <3>2
  <2> QED
    BY <1>1, <1>3, <1>4, <1>5, <2>1, <2>2, SizedStays
<1> QED
  BY <1>1, <1>2, <1>6, <1>7, <1>8 DEF CashTx

\* A walk that has just been made is sized as the properties say.
LEMMA NewWalkSized ==
  ASSUME IInv, IInv', ConstantsAssumption, BooksInv, LifeInv,
         NEW s \in Sessions, NEW i \in OrderIds, CashOutWalk(s, i)
  PROVE  CashTx(tx'[s], orders, fills)
<1> PICK o : o = orders[i]
  OBVIOUS
<1> PICK t : t = tx'[s]
  OBVIOUS
<1> PICK side : side = Opposite(o.side)
  OBVIOUS
<1> PICK target : target = CashOutTarget(i)
  OBVIOUS
<1> PICK K : K = {Key(f) : f \in PendingFillsOf(i)}
  OBVIOUS
<1>1. /\ i \in DOMAIN orders /\ o \in Order /\ matches[o.match].status \in OpenStatuses
      /\ t.phase = "walked" /\ t.covered = K
      /\ t.locks = {i} \cup Counterparties(Leg(o)) /\ t.walked = Counterparties(Leg(o))
      /\ t.order \in Order /\ t.order.user = o.user /\ t.order.match = o.match
      /\ t.order.selection = o.selection /\ t.order.side = side
  BY NewWalked
<1>2. \E last \in t.walked, stake \in Nat :
        /\ WalkEndsAt(side, t.walked, target, last)
        /\ stake = WalkStake(side, t.walked, target, last)
        /\ t.reached = Covers(side, t.walked, target, last)
        /\ t.order.odds = orders[last].odds /\ t.order.stake = stake
  BY NewWalked
<1>3. t.walked \subseteq Facing(t.order, orders) /\ t.walked \subseteq DOMAIN orders
  <2>1. /\ Leg(o).match = o.match /\ Leg(o).selection = o.selection
        /\ Leg(o).side = side /\ Leg(o).user = o.user
    BY DEF Leg, NewOrder
  <2> QED
    BY <1>1, <2>1 DEF Facing, Counterparties, SameMarket
<1>4. /\ target = SumFunctionOnSet(NotionalOf, Covered(fills, K))
      /\ \A k \in K : k[1] \in DOMAIN orders
  BY <1>1, TargetIsNotional DEF MatchClosed
<1>5. target \in Nat
  <2> PICK C : C = Covered(fills, K)
    OBVIOUS
  <2>1. C \subseteq Fill /\ IsFiniteSet(C)
    BY FS_Subset DEF Covered, IInv, FundsTypeOK, BooksInv, FillsSum
  <2>2. \A f \in C : NotionalOf[f] \in Nat
    BY <2>1 DEF NotionalOf, Fill
  <2> QED
    BY <1>4, <2>1, <2>2, SumNat
<1>6. ASSUME t.reached PROVE Sized(t, orders, fills)
  <2>1. PICK last \in t.walked :
          /\ WalkEndsAt(side, t.walked, target, last) /\ Covers(side, t.walked, target, last)
          /\ t.order.odds = orders[last].odds
          /\ t.order.stake = WalkStake(side, t.walked, target, last)
    BY <1>2, <1>6, Zenon
  <2> PICK A : A = AheadOf(side, orders, t.walked, last)
    OBVIOUS
  <2>2. PICK q \in Nat :
          /\ t.order.stake = SumFunctionOnSet(LeftOf(orders), A) + q
          /\ TwiceOff(target, SumFunctionOnSet(WorthOf(orders), A), q, orders[last].odds)
               \in -orders[last].odds .. orders[last].odds
    <3>1. \E q \in Nat :
            LET ahead == AheadOf(side, orders, t.walked, last)
            IN  /\ WalkStake(side, t.walked, target, last)
                     = SumFunctionOnSet(LeftOf(orders), ahead) + q
                /\ TwiceOff(target, SumFunctionOnSet(WorthOf(orders), ahead), q, orders[last].odds)
                     \in -orders[last].odds .. orders[last].odds
      BY <1>3, <1>5, <2>1, WalkSized
    <3> QED
      BY <2>1, <3>1, Zenon
  <2>3. TwiceOff(SumFunctionOnSet(NotionalOf, Covered(fills, t.covered)),
                 SumFunctionOnSet(WorthOf(orders), A), q, t.order.odds)
          \in -t.order.odds .. t.order.odds
    BY <1>1, <1>4, <2>1, <2>2, Zenon
  <2>4. t.phase \in Busy => A \subseteq t.seen
    BY <1>1 DEF Busy
  <2>5. A = AheadOf(t.order.side, orders, t.walked, last)
    BY <1>1
  <2> QED
    BY <2>1, <2>2, <2>3, <2>4, <2>5, Zenon DEF Sized
<1> QED
  BY <1>1, <1>3, <1>4, <1>6 DEF CashTx

LEMMA CashTxKept ==
  ASSUME IInv, IInv', ConstantsAssumption, BooksInv, LifeInv, [Next]_vars,
         \A r \in DOMAIN tx : CashTx(tx[r], orders, fills),
         NEW s \in DOMAIN tx'
  PROVE  CashTx(tx'[s], orders', fills')
<1>1. CASE s \in DOMAIN tx /\ tx'[s] = tx[s]
  BY <1>1, CashTxCarried DEF SameWalk
<1>2. CASE ~(s \in DOMAIN tx /\ tx'[s] = tx[s])
  <2>1. /\ orders' = orders /\ fills' = fills
        /\ \/ PlaceCheck(s) \/ PlaceReserve(s) \/ CashOutReserve(s)
           \/ LockBook(s) \/ MatchNext(s)
           \/ \E i \in OrderIds : CashOutWalk(s, i)
    BY <1>2, TxMoves DEF Quiet
  <2>2. s \in Sessions
    BY DEF IInv, TxTypeOK
  <2>3. CASE PlaceCheck(s)
    BY <2>3, NewChecked DEF CashTx
  <2>4. ASSUME NEW i \in OrderIds, CashOutWalk(s, i) PROVE CashTx(tx'[s], orders', fills')
    BY <2>1, <2>2, <2>4, NewWalkSized
  <2>5. CASE PlaceReserve(s) \/ CashOutReserve(s)
    <3> PICK t0, t : t0 = tx[s] /\ t = tx'[s]
      OBVIOUS
    <3>1. /\ s \in DOMAIN tx /\ t.locks = t0.locks /\ SameWalk(t, t0)
          /\ t.seen = Compatible(t.order)
          /\ t.order.side = t0.order.side /\ t.order.odds = t0.order.odds
          /\ t.order.user = t0.order.user /\ t.order.match = t0.order.match
          /\ t.order.selection = t0.order.selection
          /\ t.reached => t0.reached /\ t.order.stake = t0.order.stake
      BY <2>2, <2>5, NewReserved
    <3>2. CashTx(t0, orders, fills)
      BY <3>1
    <3> QED
      BY <3>1, <3>2, CashTxCarried
  <2>6. CASE LockBook(s)
    <3> PICK t0, t : t0 = tx[s] /\ t = tx'[s]
      OBVIOUS
    <3>1. /\ s \in DOMAIN tx /\ t0.locks \subseteq t.locks /\ SameWalk(t, t0)
          /\ t.seen = t0.seen /\ t.order = t0.order /\ t.reached = t0.reached
          /\ t0.phase \in Busy
      BY <2>2, <2>6, NewLocked DEF Busy
    <3>2. CashTx(t0, orders, fills)
      BY <3>1
    <3> QED
      BY <3>1, <3>2, CashTxCarried
  <2>7. CASE MatchNext(s)
    <3> PICK t0, t : t0 = tx[s] /\ t = tx'[s]
      OBVIOUS
    <3>1. /\ s \in DOMAIN tx /\ t.locks = t0.locks /\ SameWalk(t, t0)
          /\ t.seen = t0.seen /\ t.reached = t0.reached /\ t0.phase \in Busy
          /\ SameTerms(t0.order, t.order)
      BY <2>2, <2>7, NewMatched DEF Busy
    <3>2. CashTx(t0, orders, fills)
      BY <3>1
    <3> QED
      BY <3>1, <3>2, CashTxCarried DEF SameTerms
  <2> QED
    BY <2>1, <2>3, <2>4, <2>5, <2>6, <2>7
<1> QED
  BY <1>1, <1>2

OfLeg(i) == {i} \X OrderIds

Gap(F, K, i) ==
  SumFunctionOnSet(NotionalOf, Covered(F, K)) - SumFunctionOnSet(NotionalOf, Covered(F, OfLeg(i)))

CashDone(c, rows, F, sn) ==
  /\ c.leg \in DOMAIN rows
  /\ \A k \in c.covered : k[1] \in DOMAIN rows
  /\ c.full /\ sn[c.leg] \subseteq c.walked
       => 2 * Gap(F, c.covered, c.leg) \in -rows[c.leg].odds .. rows[c.leg].odds

CashInv ==
  /\ \A s \in DOMAIN tx : CashTx(tx[s], orders, fills)
  /\ \A c \in cashouts : CashDone(c, orders, fills, seen)

\* Matching a leg that was sized on the rows its query saw trades what the
\* sizing added up.
LEMMA LegTradesSizing ==
  ASSUME IInv, ConstantsAssumption, BooksInv, PriorityInv, NEW s \in DOMAIN tx,
         NEW t, t = tx[s], t.phase = "matching", t.origin # 0,
         CashTx(t, orders, fills), t.reached, Unmatched(t.order) = 0,
         t.seen \subseteq t.walked
  PROVE  2 * (SumFunctionOnSet(NotionalOf, Covered(fills, t.covered))
                - SumFunctionOnSet(NotionalOf, t.takes))
           \in -t.order.odds .. t.order.odds
<1> PICK W : W = t.walked
  OBVIOUS
<1> PICK T : T = t.takes
  OBVIOUS
<1> PICK side : side = t.order.side
  OBVIOUS
<1> PICK d : d = t.order.odds
  OBVIOUS
<1> PICK cov : cov = SumFunctionOnSet(NotionalOf, Covered(fills, t.covered))
  OBVIOUS
<1>1. /\ t \in Tx /\ TxInv(t) /\ TakesSum(t) /\ MatchingPrio(t, orders)
      /\ W \subseteq Facing(t.order, orders) /\ Sized(t, orders, fills)
  BY DEF IInv, TxTypeOK, TxsInv, BooksInv, PriorityInv, TxPrio, CashTx
<1>2. PICK last \in W, q \in Nat :
        LET ahead == AheadOf(side, orders, W, last)
        IN  /\ d = orders[last].odds
            /\ t.order.stake = SumFunctionOnSet(LeftOf(orders), ahead) + q
            /\ TwiceOff(cov, SumFunctionOnSet(WorthOf(orders), ahead), q, d) \in -d .. d
            /\ t.phase \in Busy => ahead \subseteq t.seen
  BY <1>1, Zenon DEF Sized
<1> PICK A : A = AheadOf(side, orders, W, last)
  OBVIOUS
<1> PICK un, od, ln : un = LeftOf(orders) /\ ln = WorthOf(orders)
                        /\ od = [j \in DOMAIN orders |-> orders[j].odds]
  OBVIOUS
<1>3. /\ d = orders[last].odds
      /\ t.order.stake = SumFunctionOnSet(un, A) + q
      /\ TwiceOff(cov, SumFunctionOnSet(ln, A), q, d) \in -d .. d
      /\ A \subseteq t.seen
  BY <1>2, Zenon DEF Busy
<1>4. /\ W \subseteq DOMAIN orders /\ last \in DOMAIN orders /\ IsFiniteSet(A)
      /\ \A k \in A : /\ k \in W /\ k \in DOMAIN orders /\ Unmatched(orders[k]) > 0
                      /\ Beats(side, orders, k, last) /\ orders[k].status = "open"
  <2>1. W \subseteq DOMAIN orders /\ \A k \in W : orders[k].status = "open"
    BY <1>1 DEF Facing
  <2>2. A \subseteq W /\ \A k \in A : Unmatched(orders[k]) > 0 /\ Beats(side, orders, k, last)
    BY DEF AheadOf
  <2>3. IsFiniteSet(A)
    BY <2>1, <2>2, RowsFinite
  <2> QED
    BY <2>1, <2>2, <2>3
<1>5. T \subseteq Fill /\ IsFiniteSet(T) /\ \A f, g \in T : f.maker = g.maker => f = g
  BY <1>1 DEF Tx, TxInv, TakesSum
<1>6. ASSUME NEW j \in DOMAIN orders
      PROVE  /\ un[j] = Unmatched(orders[j]) /\ od[j] = orders[j].odds /\ od[j] \in Nat
             /\ un[j] \in Nat /\ ln[j] = un[j] * od[j]
  BY DEF IInv, OrdersTypeOK, OrdersInv, Order, Unmatched, LeftOf, WorthOf
<1>7. d \in Nat
  BY <1>1 DEF Tx, Order
<1>8. SumFunctionOnSet(StakeOf, T) = SumFunctionOnSet(un, A) + q
  <2>1. t.order.matched = t.order.stake
    BY <1>1 DEF Unmatched, Tx, Order
  <2> QED
    BY <1>1, <1>3, <2>1 DEF TakesSum
<1>9. ASSUME NEW f \in T
      PROVE  /\ f.maker \in W /\ f.maker \in DOMAIN orders /\ Unmatched(orders[f.maker]) > 0
             /\ f.stake <= Unmatched(orders[f.maker]) /\ f.odds = orders[f.maker].odds
             /\ Acceptable(t.order, orders[f.maker])
  <2>1. TakeInv(t, f) /\ f.stake > 0 /\ f.maker \in t.seen
    BY <1>1 DEF TxInv, TakesSum, MatchingPrio
  <2>2. f.maker \in W /\ f.maker \in DOMAIN orders
    BY <1>4, <2>1
  <2>3. f.stake \in Nat /\ Unmatched(orders[f.maker]) \in Nat
    BY <1>5, <1>6, <2>2 DEF Fill
  <2> QED
    BY <2>1, <2>2, <2>3 DEF TakeInv, MayTrade
<1>10. ASSUME NEW f \in T, f.maker \notin A PROVE f.odds = d /\ ~Beats(side, orders, f.maker, last)
  <2>1. ~Beats(side, orders, f.maker, last)
    BY <1>9, <1>10 DEF AheadOf
  <2>2. orders[f.maker].odds \in Nat /\ orders[last].odds \in Nat
    BY <1>4, <1>6, <1>9
  <2>3. CASE side = "back"
    <3>1. orders[f.maker].odds >= d
      BY <1>9, <2>3 DEF Acceptable
    <3>2. ~(orders[f.maker].odds > orders[last].odds)
      BY <2>1, <2>3 DEF Beats
    <3> QED
      BY <1>3, <1>9, <2>1, <2>2, <3>1, <3>2
  <2>4. CASE side # "back"
    <3>1. orders[f.maker].odds <= d
      BY <1>9, <2>4 DEF Acceptable
    <3>2. ~(orders[f.maker].odds < orders[last].odds)
      BY <2>1, <2>4 DEF Beats
    <3> QED
      BY <1>3, <1>9, <2>1, <2>2, <3>1, <3>2
  <2> QED
    BY <2>3, <2>4
<1>11. ASSUME NEW k \in A
       PROVE  \/ \E f \in T : f.maker = k /\ f.stake = un[k]
              \/ \A f \in T : f.maker \in A
  <2> SUFFICES ASSUME NEW f \in T, f.maker \notin A
               PROVE  \E g \in T : g.maker = k /\ g.stake = un[k]
    OBVIOUS
  <2>1. Beats(side, orders, k, last) /\ ~Beats(side, orders, f.maker, last) /\ k \in t.seen
    BY <1>3, <1>4, <1>10
  <2>2. Beats(side, orders, k, f.maker)
    <3> PICK m : m = f.maker
      OBVIOUS
    <3>1. k \in DOMAIN orders /\ m \in DOMAIN orders /\ last \in DOMAIN orders
      BY <1>4, <1>9
    <3>2. ~Beats(side, orders, m, last)
      BY <2>1
    <3>3. /\ orders[k].odds \in Nat /\ orders[m].odds \in Nat /\ orders[last].odds \in Nat
          /\ k \in Nat /\ m \in Nat /\ last \in Nat
      BY <3>1 DEF IInv, OrdersTypeOK, Order, OrderIds
    <3>4. Beats(side, orders, k, m)
      BY <2>1, <3>2, <3>3 DEF Beats
    <3> QED
      BY <3>4
  <2>3. Emptied(t, orders, k)
    BY <1>1, <2>1, <2>2 DEF MatchingPrio
  <2>4. ~Gone(orders[k])
    BY <1>4 DEF Gone
  <2>5. un[k] = Unmatched(orders[k])
    BY <1>4, <1>6
  <2> QED
    BY <2>3, <2>4, <2>5 DEF Emptied
<1>12. SumFunctionOnSet(NotionalOf, T) = SumFunctionOnSet(ln, A) + q * d
  <2>1. \A k \in A : un[k] \in Nat /\ un[k] > 0 /\ od[k] \in Nat /\ ln[k] = un[k] * od[k]
    <3> SUFFICES ASSUME NEW k \in A
                 PROVE  un[k] \in Nat /\ un[k] > 0 /\ od[k] \in Nat /\ ln[k] = un[k] * od[k]
      OBVIOUS
    <3>1. k \in DOMAIN orders /\ Unmatched(orders[k]) > 0
      BY <1>4
    <3> QED
      BY <1>6, <3>1
  <2>2. \A f \in T : f.maker \in A => f.stake <= un[f.maker] /\ f.odds = od[f.maker]
    BY <1>6, <1>9
  <2>3. \A f \in T : f.maker \notin A => f.odds = d
    BY <1>10
  <2>4. \A k \in A : \/ \E f \in T : f.maker = k /\ f.stake = un[k]
                   \/ \A f \in T : f.maker \in A
    BY <1>11
  <2>5. IsFiniteSet(A) /\ IsFiniteSet(T) /\ T \subseteq Fill
    BY <1>4, <1>5
  <2>6. \A f, g \in T : f.maker = g.maker => f = g
    BY <1>5
  <2> QED
    <3>1. Spends(T, A, un, od, ln, q, d)
      BY <1>8, <2>1, <2>2, <2>3, <2>4, <2>5, <2>6, Zenon DEF Spends
    <3> QED
      BY <1>7, <3>1, FullMatch
<1>13. cov \in Int /\ SumFunctionOnSet(ln, A) \in Int
  <2>1. cov \in Int
    <3>1. Covered(fills, t.covered) \subseteq Fill /\ IsFiniteSet(Covered(fills, t.covered))
      BY FS_Subset DEF Covered, IInv, FundsTypeOK, BooksInv, FillsSum
    <3> QED
      BY <3>1, NotionalSums
  <2>2. \A k \in A : ln[k] \in Int
    <3> SUFFICES ASSUME NEW k \in A PROVE ln[k] \in Int
      OBVIOUS
    <3>1. un[k] \in Nat /\ od[k] \in Nat /\ ln[k] = un[k] * od[k]
      BY <1>4, <1>6
    <3> QED
      BY <3>1
  <2> QED
    BY <1>4, <2>1, <2>2, SumInt
<1>14. PICK w \in Int, n \in Int, p \in Int : /\ w = SumFunctionOnSet(ln, A) /\ p = q * d
                                             /\ n = SumFunctionOnSet(NotionalOf, T)
  <2>1. q * d \in Int
    BY <1>7
  <2> QED
    BY <1>12, <1>13, <2>1
<1>15. n = w + p
  BY <1>12, <1>14, Zenon
<1>16. TwiceOff(cov, w, q, d) = 2 * (cov - n)
  <2>1. TwiceOff(cov, w, q, d) = 2 * (cov - w - p)
    BY <1>14, Zenon DEF TwiceOff
  <2> QED
    BY <1>13, <1>15, <2>1
<1>17. 2 * (cov - n) \in -d .. d
  BY <1>3, <1>14, <1>16, Zenon
<1> QED
  BY <1>14, <1>17, Zenon

\* What is true of a committed cash-out stays true of it.
LEMMA CashDoneStays ==
  ASSUME IInv, IInv', ConstantsAssumption, BooksInv, [Next]_vars,
         NEW c, CashDone(c, orders, fills, seen)
  PROVE  CashDone(c, orders', fills', seen')
<1> PICK i : i = c.leg
  OBVIOUS
<1>1. i \in DOMAIN orders /\ \A k \in c.covered : k[1] \in DOMAIN orders
  BY DEF CashDone
<1>2. i \in DOMAIN orders' /\ orders'[i].odds = orders[i].odds
  BY <1>1, RowsEvolve DEF Evolved, SameTerms
<1>3. \A k \in c.covered : k[1] \in DOMAIN orders'
  BY <1>1, RowsEvolve
<1>4. SumFunctionOnSet(NotionalOf, Covered(fills', c.covered))
        = SumFunctionOnSet(NotionalOf, Covered(fills, c.covered))
  BY <1>1, NotionalStays
<1>5. SumFunctionOnSet(NotionalOf, Covered(fills', OfLeg(i)))
        = SumFunctionOnSet(NotionalOf, Covered(fills, OfLeg(i)))
  <2>1. \A k \in OfLeg(i) : k[1] \in DOMAIN orders
    BY <1>1 DEF OfLeg
  <2> QED
    BY <2>1, NotionalStays
<1>6. seen'[i] = seen[i]
  <2>1. ASSUME NEW s \in Sessions, Commit(s) PROVE seen'[i] = seen[i]
    <3>1. /\ seen' = [j \in DOMAIN orders \cup {tx[s].id} |->
                        IF j = tx[s].id THEN tx[s].seen ELSE seen[j]]
          /\ tx[s].id \notin DOMAIN orders
      BY <2>1, Committed, Zenon
    <3> QED
      BY <1>1, <3>1
  <2> QED
    BY <2>1, StepKinds DEF Quiet, CloseOrder, CloseFill
<1>7. Gap(fills', c.covered, i) = Gap(fills, c.covered, i)
  BY <1>4, <1>5, Zenon DEF Gap
<1>8. c.full /\ seen'[i] \subseteq c.walked
        => 2 * Gap(fills', c.covered, i) \in -orders'[i].odds .. orders'[i].odds
  BY <1>2, <1>6, <1>7 DEF CashDone
<1> QED
  BY <1>2, <1>3, <1>8 DEF CashDone

\* A cash-out is committed balanced.
LEMMA NewCashDone ==
  ASSUME IInv, IInv', ConstantsAssumption, BooksInv, PriorityInv, CashInv, [Next]_vars,
         NEW s \in Sessions, Commit(s),
         NEW c \in cashouts', c \notin cashouts
  PROVE  CashDone(c, orders', fills', seen')
<1> PICK t : t = tx[s]
  OBVIOUS
<1> PICK i : i = t.id
  OBVIOUS
<1>1. /\ t.origin # 0
      /\ c = [origin |-> t.origin, leg |-> i, covered |-> t.covered,
              walked |-> t.walked, full |-> t.reached /\ ~Killed(t)]
  BY DEF Commit
<1>2. /\ c.leg = i /\ c.covered = t.covered /\ c.walked = t.walked
      /\ c.full => t.reached /\ ~Killed(t)
  BY <1>1
<1>3. /\ t \in Tx /\ TxInv(t) /\ t.phase = "matching" /\ s \in DOMAIN tx
      /\ i \in OrderIds /\ i \notin DOMAIN orders
      /\ fills' = fills \cup t.takes
      /\ DOMAIN orders' = DOMAIN orders \cup {i}
      /\ SameTerms(t.order, orders'[i])
      /\ \A f \in t.takes : f \in Fill /\ TakeInv(t, f)
  BY Committed
<1>4. seen'[i] = t.seen
  <2>1. seen' = [j \in DOMAIN orders \cup {tx[s].id} |->
                   IF j = tx[s].id THEN tx[s].seen ELSE seen[j]]
    BY Committed, Zenon
  <2> QED
    BY <2>1
<1>5. CashTx(t, orders, fills)
  BY <1>3 DEF CashInv
<1>6. \A k \in t.covered : k[1] \in DOMAIN orders
  BY <1>1, <1>5 DEF CashTx
<1>7. Covered(fills', OfLeg(i)) = t.takes
  <2>1. ASSUME NEW f \in fills PROVE f.taker # i
    BY <1>3 DEF IInv, FillsInv
  <2>2. ASSUME NEW f \in t.takes PROVE f \in fills' /\ <<f.taker, f.maker>> \in OfLeg(i)
    <3>1. f \in Fill /\ f.taker = i /\ f \in fills'
      BY <1>3 DEF TakeInv
    <3> QED
      BY <3>1 DEF Fill, OfLeg
  <2>3. ASSUME NEW f \in fills', <<f.taker, f.maker>> \in OfLeg(i) PROVE f \in t.takes
    <3>1. f.taker = i
      BY <2>3 DEF OfLeg
    <3> QED
      BY <1>3, <2>1, <3>1
  <2> QED
    BY <2>2, <2>3 DEF Covered
<1>8. SumFunctionOnSet(NotionalOf, Covered(fills', t.covered))
        = SumFunctionOnSet(NotionalOf, Covered(fills, t.covered))
  BY <1>6, NotionalStays
<1>9. ASSUME c.full, seen'[i] \subseteq c.walked
      PROVE  2 * Gap(fills', t.covered, i) \in -orders'[i].odds .. orders'[i].odds
  <2>1. t.reached /\ ~Killed(t) /\ t.seen \subseteq t.walked
    BY <1>2, <1>4, <1>9
  <2>2. Unmatched(t.order) = 0
    <3>1. t.order.stake \in Nat /\ t.order.matched \in Nat /\ t.order.matched <= t.order.stake
      BY <1>3 DEF Tx, Order, TxInv
    <3> QED
      BY <1>1, <2>1, <3>1 DEF Killed, Unmatched
  <2>3. 2 * (SumFunctionOnSet(NotionalOf, Covered(fills, t.covered))
               - SumFunctionOnSet(NotionalOf, t.takes))
          \in -t.order.odds .. t.order.odds
    BY <1>1, <1>3, <1>5, <2>1, <2>2, LegTradesSizing
  <2>4. orders'[i].odds = t.order.odds
    BY <1>3 DEF SameTerms
  <2> QED
    BY <1>7, <1>8, <2>3, <2>4, Zenon DEF Gap
<1> QED
  BY <1>2, <1>3, <1>6, <1>9 DEF CashDone

LEMMA CashKept ==
  ASSUME IInv, IInv', ConstantsAssumption, BooksInv, PriorityInv, LifeInv, CashInv, [Next]_vars
  PROVE  CashInv'
<1>1. \A s \in DOMAIN tx' : CashTx(tx'[s], orders', fills')
  BY CashTxKept DEF CashInv
<1>2. ASSUME NEW c \in cashouts' PROVE CashDone(c, orders', fills', seen')
  <2>1. CASE c \in cashouts
    BY <2>1, CashDoneStays DEF CashInv
  <2>2. CASE c \notin cashouts
    <3>1. PICK s \in Sessions : Commit(s)
      BY <2>2, StepKinds DEF Quiet, CloseOrder, CloseFill
    <3> QED
      BY <2>2, <3>1, NewCashDone
  <2> QED
    BY <2>1, <2>2
<1> QED
  BY <1>1, <1>2
     DEF CashInv, CashTx, Facing, SameMarket, Sized, AheadOf, Unmatched, Beats, LeftOf,
         WorthOf, Covered, CashDone, Gap

\* What a cash-out in flight was sized by holds until it commits, and what it
\* traded for stays balanced after, if no match is opened again.
THEOREM CashHolds == ASSUME NoReopening PROVE Spec => []CashInv
<1>1. Init => CashInv
  BY DEF Init, CashInv
<1>2. IInv /\ IInv' /\ BooksInv /\ PriorityInv /\ LifeInv /\ CashInv /\ [Next]_vars => CashInv'
  BY CashKept, ConstantsAssumption
<1>3. Spec => []LifeInv
  BY LifeHolds
<1> QED
  BY <1>1, <1>2, <1>3, Inductive, BooksHold, PriorityHolds, PTL DEF Spec

\* A full cash-out makes its user's gross result the same whatever the outcome,
\* to the half unit of stake that rounding its last level leaves, if its
\* matching query saw no order its walk had not locked and nobody opens a match
\* again after closing it (cash_out_order, _simulate_cash_out_walk, _match_order).
THEOREM CashOutsBalance == ASSUME NoReopening PROVE Spec => []CashOutBalanced
<1>1. IInv /\ BooksInv /\ CashInv => CashOutBalanced
  <2> SUFFICES ASSUME IInv, BooksInv, CashInv, NEW c \in cashouts,
                      c.full, seen[c.leg] \subseteq c.walked
               PROVE  2 * (Notional(CoveredFills(c)) - Notional(LegFills(c)))
                        \in -orders[c.leg].odds .. orders[c.leg].odds
    BY Zenon DEF CashOutBalanced
  <2>1. ASSUME NEW F, F \subseteq fills
        PROVE  Notional(F) = SumFunctionOnSet(NotionalOf, F)
    <3>1. IsFiniteSet(F) /\ F \subseteq Fill
      BY <2>1, FS_Subset DEF IInv, FundsTypeOK, BooksInv, FillsSum
    <3> PICK table : table = [f \in F |-> f.stake * f.odds]
      OBVIOUS
    <3>2. DOMAIN table = F /\ \A f \in F : table[f] = NotionalOf[f]
      BY <3>1 DEF NotionalOf
    <3>3. SumFunction(table) = SumFunctionOnSet(NotionalOf, F)
      BY <3>1, <3>2, SumOfTable
    <3> QED
      BY <3>3, Zenon DEF Notional
  <2>2. CoveredFills(c) = Covered(fills, c.covered)
    BY DEF CoveredFills, Covered, Key
  <2>3. LegFills(c) = Covered(fills, OfLeg(c.leg))
    <3>1. \A f \in fills : f.maker \in OrderIds
      BY DEF IInv, FundsTypeOK, Fill
    <3> QED
      BY <3>1 DEF LegFills, Covered, OfLeg
  <2>4. CoveredFills(c) \subseteq fills /\ LegFills(c) \subseteq fills
    BY DEF CoveredFills, LegFills
  <2>5. 2 * Gap(fills, c.covered, c.leg) \in -orders[c.leg].odds .. orders[c.leg].odds
    BY DEF CashInv, CashDone
  <2>6. Notional(CoveredFills(c)) = SumFunctionOnSet(NotionalOf, Covered(fills, c.covered))
    BY <2>1, <2>2, <2>4
  <2>7. Notional(LegFills(c)) = SumFunctionOnSet(NotionalOf, Covered(fills, OfLeg(c.leg)))
    BY <2>1, <2>3, <2>4
  <2> QED
    BY <2>5, <2>6, <2>7, Zenon DEF Gap
<1>2. Spec => []CashInv
  BY CashHolds
<1> QED
  BY <1>1, <1>2, Inductive, BooksHold, PTL

=============================================================================
