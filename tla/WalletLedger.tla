---------------------------- MODULE WalletLedger ----------------------------
(***************************************************************************)
(* What a wallet promises whoever moves its money: the balance changes only *)
(* by posting an entry, and an entry is posted once, however often and in   *)
(* whatever order what caused it is reported.  The abstract specification   *)
(* of the casino gateway (Casino.tla).                                      *)
(***************************************************************************)
EXTENDS Integers

CONSTANTS
  Entries,   \* what can be posted: launches, rounds, wallet calls, bets
  Opening    \* the balance the wallet starts with

VARIABLES
  cash,      \* Wallet.balance
  posted     \* the amount of each entry of the ledger, on those there are

ledgerVars == <<cash, posted>>

Init ==
  /\ cash = Opening
  /\ posted = [e \in {} |-> 0]

\* The entry is the change of the balance.
Post(e) ==
  /\ e \notin DOMAIN posted
  /\ posted' = [x \in DOMAIN posted \cup {e} |->
                  IF x = e THEN cash' - cash ELSE posted[x]]

Next == \E e \in Entries : Post(e)

Spec == Init /\ [][Next]_ledgerVars

=============================================================================
