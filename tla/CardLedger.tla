----------------------------- MODULE CardLedger -----------------------------
(***************************************************************************)
(* What the payment service promises, without handlers, keys to sign with, *)
(* or failures: the money on the cards, an entry for every charge, and the *)
(* merchant's books, which follow the entries and never run ahead.         *)
(***************************************************************************)
EXTENDS Integers

CONSTANTS Cards, Txns, Keys, Amounts, None

VARIABLES
  funds,    \* what is left on each card
  ledger,   \* one entry per charge
  books     \* what the merchant's books say was taken and given back

ledgerVars == <<funds, ledger, books>>

NoCharge == [charged |-> 0, credited |-> 0, key |-> None, card |-> None]

LedgerInit ==
  /\ funds \in [Cards -> Nat]
  /\ ledger = [t \in Txns |-> NoCharge]
  /\ books = [t \in Txns |-> [taken |-> 0, returned |-> 0]]

\* A key pays for one charge only.
Charge(t, card, amount, key) ==
  /\ ledger[t] = NoCharge
  /\ \A u \in Txns : ledger[u].key # key
  /\ funds[card] >= amount
  /\ funds' = [funds EXCEPT ![card] = @ - amount]
  /\ ledger' = [ledger EXCEPT ![t] = [charged |-> amount, credited |-> 0,
                                      key |-> key, card |-> card]]
  /\ UNCHANGED books

\* Money goes back to the card it came from, and no more than came from it.
GiveBack(t, amount) ==
  /\ ledger[t].credited + amount <= ledger[t].charged
  /\ funds' = [funds EXCEPT ![ledger[t].card] = @ + amount]
  /\ ledger' = [ledger EXCEPT ![t].credited = @ + amount]
  /\ UNCHANGED books

\* The books take over what the ledger says, a charge before its refunds.
BookCharge(t) ==
  /\ ledger[t] # NoCharge
  /\ books[t].taken = 0
  /\ books' = [books EXCEPT ![t].taken = ledger[t].charged]
  /\ UNCHANGED <<funds, ledger>>

BookReturn(t) ==
  /\ books[t].taken = ledger[t].charged
  /\ books[t].returned < ledger[t].credited
  /\ books' = [books EXCEPT ![t].returned = ledger[t].credited]
  /\ UNCHANGED <<funds, ledger>>

LedgerNext ==
  \E t \in Txns :
    \/ \E card \in Cards, amount \in Amounts, key \in Keys :
         Charge(t, card, amount, key)
    \/ \E amount \in 1..ledger[t].charged : GiveBack(t, amount)
    \/ BookCharge(t)
    \/ BookReturn(t)

LedgerSpec == LedgerInit /\ [][LedgerNext]_ledgerVars
=============================================================================
