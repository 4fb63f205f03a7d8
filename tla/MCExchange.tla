----------------------------- MODULE MCExchange -----------------------------
(* The instances of Exchange that TLC checks. *)
EXTENDS Exchange, TLC

Req(user, side, odds, stake) ==
  [user |-> user, match |-> "m1", selection |-> "home",
   side |-> side, odds |-> odds, stake |-> stake]

\* A back order both lays accept, at two prices and with stakes that make it
\* trade with one or with both, and a back order that cal's lay is too low for;
\* ann and bob afford two orders at a time, cal one.
BookRequests ==
  {Req("ann", "back", 2, 2), Req("bob", "lay", 3, 1), Req("cal", "lay", 2, 2),
   Req("bob", "back", 3, 1)}

BookBalances == [u \in Users |-> CASE u = "ann" -> 4 [] u = "bob" -> 3 [] u = "cal" -> 2]

\* One fill, or one order left open, for two settlements to compete for.
SettleRequests ==
  {Req("ann", "back", 2, 2), Req("bob", "lay", 3, 1)}

TwoEach == [u \in Users |-> 2]

SessionSymmetry == Permutations(Sessions)

\* A position of ann's against bob and two lays, at two prices, that a cash-out
\* of it can back against.  Bob's wallet carries one of each of his orders at a
\* time, ann's her order and the leg that closes it.
CashOutRequests ==
  {Req("ann", "lay", 3, 60), Req("bob", "back", 3, 60),
   Req("bob", "lay", 4, 25), Req("bob", "lay", 6, 15)}

CashOutBalances == [u \in Users |-> IF u = "ann" THEN 160 ELSE 210]


=============================================================================
