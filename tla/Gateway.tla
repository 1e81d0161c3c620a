------------------------------ MODULE Gateway ------------------------------
(***************************************************************************)
(* The acquirer behind the payment service (payments/nexi_mock.py): card   *)
(* accounts, authorisations, and the cache of answers by idempotency key.  *)
(* Each operation holds the gateway's lock, so it is one action here.      *)
(*                                                                         *)
(* statement is a history variable: what the cardholder was charged and    *)
(* credited for every authorisation, whatever the gateway still remembers. *)
(***************************************************************************)
EXTENDS Integers, Functions

CONSTANTS
  Tokens,        \* card tokens; a customer's profile stores exactly one
  FailingTokens, \* cards whose authorisation is scripted to fail, or expired
  Txns,          \* pool of transaction identifiers
  Keys,          \* pool of idempotency keys
  Amounts,       \* amounts a caller asks for, in minor units
  StartBalance,  \* default_balance_minor
  None

\* What authorize tells its caller, and caches.
Answer == [approved : BOOLEAN, txn : Txns \cup {None}, amount : Nat]

ASSUME GatewayAssumption ==
  /\ FailingTokens \subseteq Tokens
  /\ Amounts \subseteq Nat \ {0}
  /\ StartBalance \in Nat
  /\ None \notin Tokens \cup Txns \cup Keys \cup Answer

VARIABLES
  accounts,      \* tokens with an account (the keys of _accounts)
  balance,       \* balance_minor of each account
  transactions,  \* _transactions
  idempotency,   \* _idempotency: the answer cached under a key, or None
  statement      \* history

gatewayMemory == <<accounts, balance, transactions, idempotency>>
gatewayVars == <<accounts, balance, transactions, idempotency, statement>>

Transaction ==
  [status : {"none", "approved", "voided"}, token : Tokens \cup {None},
   amount : Nat, captured : BOOLEAN, refunded : Nat]
NoTransaction ==
  [status |-> "none", token |-> None, amount |-> 0,
   captured |-> FALSE, refunded |-> 0]

Entry == [charged : Nat, credited : Nat, key : Keys \cup {None}]
NoEntry == [charged |-> 0, credited |-> 0, key |-> None]

GatewayTypeOK ==
  /\ accounts \subseteq Tokens
  /\ balance \in [Tokens -> Nat]
  /\ transactions \in [Txns -> Transaction]
  /\ idempotency \in [Keys -> Answer \cup {None}]
  /\ statement \in [Txns -> Entry]

GatewayInit ==
  /\ accounts = {}
  /\ balance = [k \in Tokens |-> StartBalance]
  /\ transactions = [t \in Txns |-> NoTransaction]
  /\ idempotency = [k \in Keys |-> None]
  /\ statement = [t \in Txns |-> NoEntry]

Charged(t) == statement[t].charged > 0

Tokenize(token) ==
  /\ token \notin accounts
  /\ accounts' = accounts \cup {token}
  /\ balance' = [balance EXCEPT ![token] = StartBalance]
  /\ UNCHANGED <<transactions, idempotency, statement>>

-----------------------------------------------------------------------------
(***************************************************************************)
(* A request is [token, amount, key, mayProceed]; its answer is            *)
(* idempotency'[request.key] in every case, cached or new.                 *)
(***************************************************************************)
Request == [token : Tokens, amount : Amounts, key : Keys, mayProceed : BOOLEAN]

\* A slip: the balance is not looked at.
ApprovesOverdrawn(request) ==
  /\ request.mayProceed
  /\ request.token \in accounts \ FailingTokens

Approves(request) ==
  /\ request.mayProceed
  /\ request.token \in accounts \ FailingTokens
  /\ balance[request.token] >= request.amount

\* A slip: only approvals are remembered well enough to be repeated.
AnswerApprovalsFromCache(request) ==
  /\ idempotency[request.key] # None
  /\ idempotency[request.key].approved
  /\ UNCHANGED gatewayVars

AnswerFromCache(request) ==
  /\ idempotency[request.key] # None
  /\ UNCHANGED gatewayVars

Decline(request) ==
  /\ idempotency[request.key] = None
  /\ ~Approves(request)
  /\ idempotency' = [idempotency EXCEPT ![request.key] =
                       [approved |-> FALSE, txn |-> None,
                        amount |-> request.amount]]
  /\ UNCHANGED <<accounts, balance, transactions, statement>>

\* A slip: the transaction is noted and the money stays on the card.
ChargeWithoutDebit(request, t) ==
  /\ statement[t] = NoEntry
  /\ transactions' = [transactions EXCEPT ![t] =
                        [status |-> "approved", token |-> request.token,
                         amount |-> request.amount, captured |-> FALSE,
                         refunded |-> 0]]
  /\ idempotency' = [idempotency EXCEPT ![request.key] =
                       [approved |-> TRUE, txn |-> t,
                        amount |-> request.amount]]
  /\ statement' = [statement EXCEPT ![t] =
                     [charged |-> request.amount, credited |-> 0,
                      key |-> request.key]]
  /\ UNCHANGED <<accounts, balance>>

\* What an approval writes, whichever check let it through.
ChargeCard(request, t) ==
  /\ statement[t] = NoEntry
  /\ balance' = [balance EXCEPT ![request.token] = @ - request.amount]
  /\ transactions' = [transactions EXCEPT ![t] =
                        [status |-> "approved", token |-> request.token,
                         amount |-> request.amount, captured |-> FALSE,
                         refunded |-> 0]]
  /\ idempotency' = [idempotency EXCEPT ![request.key] =
                       [approved |-> TRUE, txn |-> t,
                        amount |-> request.amount]]
  /\ statement' = [statement EXCEPT ![t] =
                     [charged |-> request.amount, credited |-> 0,
                      key |-> request.key]]
  /\ UNCHANGED accounts

\* A slip: charging again although the key already has an answer.
ApproveWithoutCache(request, t) ==
  /\ Approves(request)
  /\ ChargeCard(request, t)

Approve(request, t) ==
  /\ idempotency[request.key] = None
  /\ Approves(request)
  /\ ChargeCard(request, t)

Authorize(request, t) ==
  \/ AnswerFromCache(request)
  \/ Decline(request)
  \/ Approve(request, t)

-----------------------------------------------------------------------------
\* amount_minor or the authorised amount: zero means all of it.
OrAll(amount, t) == IF amount = 0 THEN transactions[t].amount ELSE amount

Capture(t, amount) ==
  /\ transactions[t].status = "approved"
  /\ OrAll(amount, t) <= transactions[t].amount
  /\ transactions' = [transactions EXCEPT ![t].amount = OrAll(amount, t),
                                          ![t].captured = TRUE]
  /\ UNCHANGED <<accounts, balance, idempotency, statement>>

\* The credit reaches the card only while its account exists.
Credit(t, amount) ==
  IF transactions[t].token \in accounts
  THEN /\ balance' = [balance EXCEPT ![transactions[t].token] = @ + amount]
       /\ statement' = [statement EXCEPT ![t].credited = @ + amount]
  ELSE UNCHANGED <<balance, statement>>

Refundable(t, amount) ==
  /\ transactions[t].status = "approved"
  /\ amount <= transactions[t].amount - transactions[t].refunded

GatewayRefund(t, amount) ==
  /\ Refundable(t, OrAll(amount, t))
  /\ transactions' = [transactions EXCEPT ![t].refunded =
                        @ + OrAll(amount, t)]
  /\ Credit(t, OrAll(amount, t))
  /\ UNCHANGED <<accounts, idempotency>>

\* A slip: voiding without asking whether the money was captured.
VoidableIgnoringCapture(t) == transactions[t].status # "none"

Voidable(t) ==
  /\ transactions[t].status # "none"
  /\ ~transactions[t].captured

GatewayVoid(t) ==
  /\ Voidable(t)
  /\ transactions' = [transactions EXCEPT ![t].status = "voided",
                                          ![t].amount = 0]
  /\ Credit(t, transactions[t].amount)
  /\ UNCHANGED <<accounts, idempotency>>

-----------------------------------------------------------------------------
(***************************************************************************)
(* The gateway on its own, called in any order by any client.              *)
(***************************************************************************)
GatewayNext ==
  \/ \E token \in Tokens : Tokenize(token)
  \/ \E request \in Request, t \in Txns : Authorize(request, t)
  \/ \E t \in Txns, amount \in Amounts \cup {0} :
       Capture(t, amount) \/ GatewayRefund(t, amount)
  \/ \E t \in Txns : GatewayVoid(t)

GatewaySpec == GatewayInit /\ [][GatewayNext]_gatewayVars

(***************************************************************************)
(* "A retried request after a dropped response must not charge the         *)
(* customer twice" (nexi_mock.py): no two charges carry the same key.      *)
(***************************************************************************)
OneChargePerKey ==
  \A t, u \in Txns :
    Charged(t) /\ Charged(u) /\ statement[t].key = statement[u].key => t = u

(***************************************************************************)
(* Once captured, a transaction is never credited beyond its charge: the   *)
(* void, which credits the whole amount whatever was refunded before, is   *)
(* out of reach for good.                                                  *)
(***************************************************************************)
CapturedNeverOverCredited ==
  [][\A t \in Txns :
       transactions[t].captured =>
         statement'[t].credited <= statement[t].charged]_gatewayVars

\* What a card's holder was charged and not credited.
Spent(token) ==
  SumFunctionOnSet([t \in Txns |-> statement[t].charged - statement[t].credited],
                   {t \in Txns : transactions[t].token = token})

(***************************************************************************)
(* No operation creates or destroys money: a card's balance is what it     *)
(* started with, less what the cardholder was charged and not credited.    *)
(***************************************************************************)
MoneyConserved ==
  \A token \in accounts : balance[token] = StartBalance - Spent(token)
=============================================================================
