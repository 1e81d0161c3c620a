------------------------------ MODULE Payments ------------------------------
(***************************************************************************)
(* The payment service (services/payment.py) over its three stores: the    *)
(* database rows, the acquirer and the audit log.  Every repository or     *)
(* gateway call commits on its own, so pay, refund and void are sequences  *)
(* of steps; a worker is one handler in progress, and between its steps    *)
(* another worker may run or a call may fail.                              *)
(*                                                                         *)
(* One worker is the program as shipped: each handler runs to its end on   *)
(* the single event loop.  Several are several server processes over one   *)
(* database and one acquirer, which the durable counters are there for.    *)
(*                                                                         *)
(* Every customer is enrolled.  A request without an idempotency key gets  *)
(* a new one (uuid4), which is a request with a key nobody used.           *)
(***************************************************************************)
EXTENDS Gateway, Sca

CONSTANTS
  Workers,       \* handlers that can be in progress at the same time
  Customers,
  Merchants,
  SecretHint,    \* customers whose pay code is a secret (HintType.SECRET)
  Faults         \* what may go wrong: a subset of FaultKinds

FaultKinds == {"storage", "gateway", "restart"}

ASSUME PaymentsAssumption ==
  /\ Workers # {}
  /\ SecretHint \subseteq Customers
  /\ Faults \subseteq FaultKinds
  /\ None \notin Customers \cup Merchants

VARIABLES
  card,          \* the card token each profile stores
  payments,      \* the payments table
  usage,         \* the low_value_usage table
  audit,         \* audit rows of charges, refunds and voids; their order and
                 \* number, and the rows of other events, are abstracted
  worker,        \* the handler each worker is in the middle of
  exempt,        \* history: exempt charges since the customer's last SCA
  mishap         \* history: a repository call failed, or the process restarted

tables == <<card, payments, usage, audit>>
vars == <<accounts, balance, transactions, idempotency, statement,
          card, payments, usage, audit, worker, exempt, mishap>>

PaymentRow ==
  [customer : Customers \cup {None}, merchant : Merchants \cup {None},
   amount : Nat, refunded : Nat, voided : BOOLEAN]
NoRow ==
  [customer |-> None, merchant |-> None, amount |-> 0,
   refunded |-> 0, voided |-> FALSE]

AuditRow == [event : {"payment", "refund", "void"}, txn : Txns]

(***************************************************************************)
(* pc names the call a handler makes next.                                 *)
(***************************************************************************)
PayPcs == {"authorize", "record_payment", "count_use", "audit_payment"}
RefundPcs == {"gateway_refund", "record_refund", "audit_refund"}
VoidPcs == {"gateway_void", "mark_voided", "audit_void"}
ReplacePcs == {"update_payment_token"}
Pcs == {"idle"} \cup PayPcs \cup RefundPcs \cup VoidPcs \cup ReplacePcs

Job ==
  [pc : Pcs, customer : Customers \cup {None}, token : Tokens \cup {None},
   merchant : Merchants \cup {None}, key : Keys \cup {None}, amount : Nat,
   sca : Assessment, approved : BOOLEAN, txn : Txns \cup {None}, charged : Nat]
Idle ==
  [pc |-> "idle", customer |-> None, token |-> None, merchant |-> None,
   key |-> None, amount |-> 0, sca |-> [strong |-> FALSE, lowValue |-> FALSE],
   approved |-> FALSE, txn |-> None, charged |-> 0]

Init ==
  /\ card \in [Customers -> Tokens]
  /\ \A c, d \in Customers : card[c] = card[d] => c = d
  /\ accounts = {card[c] : c \in Customers}
  /\ balance = [k \in Tokens |-> StartBalance]
  /\ transactions = [t \in Txns |-> NoTransaction]
  /\ idempotency = [k \in Keys |-> None]
  /\ statement = [t \in Txns |-> NoEntry]
  /\ payments = [t \in Txns |-> NoRow]
  /\ usage = [c \in Customers |-> NoUsage]
  /\ audit = {}
  /\ worker = [w \in Workers |-> Idle]
  /\ exempt = [c \in Customers |-> NoUsage]
  /\ mishap = FALSE

-----------------------------------------------------------------------------
Advance(w, pc) == worker' = [worker EXCEPT ![w].pc = pc]
Finish(w) == worker' = [worker EXCEPT ![w] = Idle]
Log(event, t) == audit' = audit \cup {[event |-> event, txn |-> t]}

(***************************************************************************)
(* pay, up to the authorisation: the palm identifies a customer; the low-  *)
(* value counter and the card token are read once, and the verdict and the *)
(* token are kept from here on, whatever other handlers change.            *)
(* A palm that identifies nobody changes nothing this module keeps.        *)
(***************************************************************************)
ScaOf(c, amount) ==
  Assess(FactorCategories(TRUE, c \in SecretHint), usage[c], amount)

PayBegin(w, c, m, k, amount) ==
  /\ worker[w].pc = "idle"
  /\ worker' = [worker EXCEPT ![w] =
       [Idle EXCEPT !.pc = "authorize", !.customer = c, !.token = card[c],
                    !.merchant = m, !.key = k, !.amount = amount,
                    !.sca = ScaOf(c, amount)]]
  /\ UNCHANGED <<gatewayVars, tables, exempt, mishap>>

RequestOf(job) ==
  [token |-> job.token, amount |-> job.amount, key |-> job.key,
   mayProceed |-> MayProceed(job.sca)]

\* History: an exempt charge adds to the account, a strong one clears it.
ExemptAfter(job) ==
  IF idempotency[job.key] = None /\ idempotency'[job.key].approved
  THEN [exempt EXCEPT ![job.customer] =
          IF job.sca.strong THEN NoUsage ELSE AddUse(@, job.amount)]
  ELSE exempt

PayAuthorize(w, t) ==
  /\ worker[w].pc = "authorize"
  /\ Authorize(RequestOf(worker[w]), t)
  /\ LET answer == idempotency'[worker[w].key]
     IN worker' = [worker EXCEPT
          ![w].pc = IF answer.approved THEN "record_payment"
                    ELSE "audit_payment",
          ![w].approved = answer.approved,
          ![w].txn = answer.txn,
          ![w].charged = answer.amount]
  /\ exempt' = ExemptAfter(worker[w])
  /\ UNCHANGED <<tables, mishap>>

\* authorize raises PaymentError: nothing was charged.
PayGatewayError(w) ==
  /\ "gateway" \in Faults
  /\ worker[w].pc = "authorize"
  /\ Finish(w)
  /\ UNCHANGED <<gatewayVars, tables, exempt, mishap>>

RowOf(job) ==
  [customer |-> job.customer, merchant |-> job.merchant,
   amount |-> job.charged, refunded |-> 0, voided |-> FALSE]

\* Slips: recording the amount asked for, and INSERT OR REPLACE.
InsertRequestedAmount(job) ==
  IF payments[job.txn] = NoRow
  THEN [payments EXCEPT ![job.txn] = [RowOf(job) EXCEPT !.amount = job.amount]]
  ELSE payments
InsertOrReplace(job) == [payments EXCEPT ![job.txn] = RowOf(job)]

InsertOrIgnore(job) ==
  IF payments[job.txn] = NoRow
  THEN [payments EXCEPT ![job.txn] = RowOf(job)]
  ELSE payments

PayRecord(w) ==
  /\ worker[w].pc = "record_payment"
  /\ payments' = InsertOrIgnore(worker[w])
  /\ Advance(w, "count_use")
  /\ UNCHANGED <<gatewayVars, card, usage, audit, exempt, mishap>>

\* A slip: the exempt payment is not counted.
UsageWithoutExempt(job) ==
  [usage EXCEPT ![job.customer] = IF job.sca.strong THEN NoUsage ELSE @]

UsageAfter(job) ==
  [usage EXCEPT ![job.customer] =
     IF job.sca.strong THEN NoUsage
     ELSE IF job.sca.lowValue THEN AddUse(@, job.amount)
     ELSE @]

PayCount(w) ==
  /\ worker[w].pc = "count_use"
  /\ usage' = UsageAfter(worker[w])
  /\ Advance(w, "audit_payment")
  /\ UNCHANGED <<gatewayVars, card, payments, audit, exempt, mishap>>

PayAudit(w) ==
  /\ worker[w].pc = "audit_payment"
  /\ IF worker[w].approved THEN Log("payment", worker[w].txn)
     ELSE UNCHANGED audit
  /\ Finish(w)
  /\ UNCHANGED <<gatewayVars, card, payments, usage, exempt, mishap>>

-----------------------------------------------------------------------------
(***************************************************************************)
(* refund and void, authorised against the service's own row.              *)
(***************************************************************************)
OwnedPayment(t, m) == payments[t] # NoRow /\ payments[t].merchant = m

Remaining(t) == payments[t].amount - payments[t].refunded

JobOn(pc, t, m, amount) ==
  [Idle EXCEPT !.pc = pc, !.txn = t, !.merchant = m, !.amount = amount]

\* A slip: the refund is booked before the acquirer is asked for it.
RefundBookedFirst(w, t, m, amount) ==
  LET asked == IF amount = None THEN Remaining(t) ELSE amount
  IN /\ worker[w].pc = "idle"
     /\ OwnedPayment(t, m)
     /\ ~payments[t].voided
     /\ asked > 0
     /\ asked <= Remaining(t)
     /\ payments' = [payments EXCEPT ![t].refunded = @ + asked]
     /\ worker' = [worker EXCEPT ![w] = JobOn("gateway_refund", t, m, asked)]
     /\ UNCHANGED <<gatewayVars, card, usage, audit, exempt, mishap>>

\* amount is None when the caller refunds whatever is left.
RefundBegin(w, t, m, amount) ==
  LET asked == IF amount = None THEN Remaining(t) ELSE amount
  IN /\ worker[w].pc = "idle"
     /\ OwnedPayment(t, m)
     /\ ~payments[t].voided
     /\ asked > 0
     /\ asked <= Remaining(t)
     /\ worker' = [worker EXCEPT ![w] = JobOn("gateway_refund", t, m, asked)]
     /\ UNCHANGED <<gatewayVars, tables, exempt, mishap>>

\* A slip: the refund is logged before it is booked.
RefundLoggedEarly(w) ==
  /\ worker[w].pc = "gateway_refund"
  /\ GatewayRefund(worker[w].txn, worker[w].amount)
  /\ Log("refund", worker[w].txn)
  /\ Advance(w, "record_refund")
  /\ UNCHANGED <<card, payments, usage, exempt, mishap>>

RefundAtGateway(w) ==
  /\ worker[w].pc = "gateway_refund"
  /\ GatewayRefund(worker[w].txn, worker[w].amount)
  /\ Advance(w, "record_refund")
  /\ UNCHANGED <<tables, exempt, mishap>>

RefundRefused(w) ==
  /\ worker[w].pc = "gateway_refund"
  /\ ~Refundable(worker[w].txn, worker[w].amount)
  /\ Finish(w)
  /\ UNCHANGED <<gatewayVars, tables, exempt, mishap>>

RefundRecord(w) ==
  /\ worker[w].pc = "record_refund"
  /\ payments' = [payments EXCEPT ![worker[w].txn].refunded =
                    @ + worker[w].amount]
  /\ Advance(w, "audit_refund")
  /\ UNCHANGED <<gatewayVars, card, usage, audit, exempt, mishap>>

RefundAudit(w) ==
  /\ worker[w].pc = "audit_refund"
  /\ Log("refund", worker[w].txn)
  /\ Finish(w)
  /\ UNCHANGED <<gatewayVars, card, payments, usage, exempt, mishap>>

\* A slip: voiding what was already refunded.
MayVoidRefunded(t) == ~payments[t].voided

MayVoid(t) == ~payments[t].voided /\ payments[t].refunded = 0

VoidBegin(w, t, m) ==
  /\ worker[w].pc = "idle"
  /\ OwnedPayment(t, m)
  /\ MayVoid(t)
  /\ worker' = [worker EXCEPT ![w] = JobOn("gateway_void", t, m, 0)]
  /\ UNCHANGED <<gatewayVars, tables, exempt, mishap>>

VoidAtGateway(w) ==
  /\ worker[w].pc = "gateway_void"
  /\ GatewayVoid(worker[w].txn)
  /\ Advance(w, "mark_voided")
  /\ UNCHANGED <<tables, exempt, mishap>>

VoidRefused(w) ==
  /\ worker[w].pc = "gateway_void"
  /\ ~Voidable(worker[w].txn)
  /\ Finish(w)
  /\ UNCHANGED <<gatewayVars, tables, exempt, mishap>>

\* A slip: the void leaves no audit row.
VoidUnlogged(w) ==
  /\ worker[w].pc = "mark_voided"
  /\ payments' = [payments EXCEPT ![worker[w].txn].voided = TRUE]
  /\ Finish(w)
  /\ UNCHANGED <<gatewayVars, card, usage, audit, exempt, mishap>>

VoidRecord(w) ==
  /\ worker[w].pc = "mark_voided"
  /\ payments' = [payments EXCEPT ![worker[w].txn].voided = TRUE]
  /\ Advance(w, "audit_void")
  /\ UNCHANGED <<gatewayVars, card, usage, audit, exempt, mishap>>

VoidAudit(w) ==
  /\ worker[w].pc = "audit_void"
  /\ Log("void", worker[w].txn)
  /\ Finish(w)
  /\ UNCHANGED <<gatewayVars, card, payments, usage, exempt, mishap>>

-----------------------------------------------------------------------------
(***************************************************************************)
(* replace_card (services/account.py): a new card is tokenised, which      *)
(* opens an account for it, and then stored in the profile.                *)
(***************************************************************************)
\* A slip: the new card is not registered with the acquirer.
ReplaceUnregistered(w, c, token) ==
  /\ worker[w].pc = "idle"
  /\ \A d \in Customers : card[d] # token
  /\ worker' = [worker EXCEPT ![w] =
       [Idle EXCEPT !.pc = "update_payment_token", !.customer = c,
                    !.token = token]]
  /\ UNCHANGED <<gatewayVars, tables, exempt, mishap>>

ReplaceBegin(w, c, token) ==
  /\ worker[w].pc = "idle"
  /\ \A d \in Customers : card[d] # token
  /\ Tokenize(token)
  /\ worker' = [worker EXCEPT ![w] =
       [Idle EXCEPT !.pc = "update_payment_token", !.customer = c,
                    !.token = token]]
  /\ UNCHANGED <<tables, exempt, mishap>>

ReplaceRecord(w) ==
  /\ worker[w].pc = "update_payment_token"
  /\ card' = [card EXCEPT ![worker[w].customer] = worker[w].token]
  /\ Finish(w)
  /\ UNCHANGED <<gatewayVars, payments, usage, audit, exempt, mishap>>

-----------------------------------------------------------------------------
(***************************************************************************)
(* Failures.  A repository call raises and the handler ends there, with    *)
(* the calls before it committed; or the process restarts, which empties   *)
(* the acquirer's memory as well.                                          *)
(***************************************************************************)
RepositoryPcs ==
  {"record_payment", "count_use", "audit_payment", "record_refund",
   "audit_refund", "mark_voided", "audit_void", "update_payment_token"}

StorageFault(w) ==
  /\ "storage" \in Faults
  /\ worker[w].pc \in RepositoryPcs
  /\ Finish(w)
  /\ mishap' = TRUE
  /\ UNCHANGED <<gatewayVars, tables, exempt>>

Restart ==
  /\ "restart" \in Faults
  /\ worker' = [w \in Workers |-> Idle]
  /\ accounts' = {}
  /\ balance' = [k \in Tokens |-> StartBalance]
  /\ transactions' = [t \in Txns |-> NoTransaction]
  /\ idempotency' = [k \in Keys |-> None]
  /\ mishap' = TRUE
  /\ UNCHANGED <<statement, tables, exempt>>

WorkerStep(w) ==
  \/ \E t \in Txns : PayAuthorize(w, t)
  \/ PayGatewayError(w) \/ PayRecord(w) \/ PayCount(w) \/ PayAudit(w)
  \/ RefundAtGateway(w) \/ RefundRefused(w)
  \/ RefundRecord(w) \/ RefundAudit(w)
  \/ VoidAtGateway(w) \/ VoidRefused(w) \/ VoidRecord(w) \/ VoidAudit(w)
  \/ ReplaceRecord(w)
  \/ StorageFault(w)

Next ==
  \/ \E w \in Workers :
       \/ \E c \in Customers, m \in Merchants, k \in Keys, a \in Amounts :
            PayBegin(w, c, m, k, a)
       \/ \E t \in Txns, m \in Merchants :
            \/ \E a \in Amounts \cup {None} : RefundBegin(w, t, m, a)
            \/ VoidBegin(w, t, m)
       \/ \E c \in Customers, token \in Tokens : ReplaceBegin(w, c, token)
       \/ WorkerStep(w)
  \/ Restart

Spec == Init /\ [][Next]_vars

-----------------------------------------------------------------------------
TypeOK ==
  /\ GatewayTypeOK
  /\ card \in [Customers -> Tokens]
  /\ payments \in [Txns -> PaymentRow]
  /\ usage \in [Customers -> Usage]
  /\ audit \subseteq AuditRow
  /\ worker \in [Workers -> Job]
  /\ exempt \in [Customers -> Usage]
  /\ mishap \in BOOLEAN

Recorded(t) == payments[t] # NoRow
Quiet == \A w \in Workers : worker[w].pc = "idle"
Counting(c) ==
  \E w \in Workers : /\ worker[w].customer = c
                     /\ worker[w].pc \in {"record_payment", "count_use"}

(***************************************************************************)
(* Whatever fails and however handlers interleave, a row in the payments   *)
(* table is a charge that was made, for the amount that was charged:       *)
(* record_payment stores the authorisation's amount, also when a retry     *)
(* under the same key asked for another one.                               *)
(***************************************************************************)
RowsAreCharges ==
  \A t \in Txns :
    Recorded(t) => Charged(t) /\ payments[t].amount = statement[t].charged

(***************************************************************************)
(* The books never run ahead of the money: what a row says was refunded    *)
(* has been credited to the cardholder, also when the calls that follow a  *)
(* gateway refund fail.                                                    *)
(***************************************************************************)
RefundsNeverAhead ==
  \A t \in Txns : payments[t].refunded <= statement[t].credited

(***************************************************************************)
(* A retry never rewrites a row: who took the payment, from whom and how   *)
(* much stay as first recorded, and what was refunded or voided since is   *)
(* not forgotten (INSERT OR IGNORE), whatever amount the retry asks for.    *)
(***************************************************************************)
RowsNeverRewritten ==
  [][\A t \in Txns :
       Recorded(t) =>
         /\ payments'[t].merchant = payments[t].merchant
         /\ payments'[t].customer = payments[t].customer
         /\ payments'[t].amount = payments[t].amount
         /\ payments'[t].refunded >= payments[t].refunded
         /\ payments[t].voided => payments'[t].voided]_vars

(***************************************************************************)
(* Every profile stores a card the acquirer has an account for, however    *)
(* payments, reversals and replacements follow one another: a replacement  *)
(* tokenises the new card before it stores it.                             *)
(***************************************************************************)
CardsRegistered == \A c \in Customers : card[c] \in accounts

(***************************************************************************)
(* The audit log never claims an effect the tables do not show, whichever  *)
(* call of a handler fails.                                                *)
(***************************************************************************)
AuditBacked ==
  \A row \in audit :
    /\ row.event = "payment" => Recorded(row.txn)
    /\ row.event = "refund" => payments[row.txn].refunded > 0
    /\ row.event = "void" => payments[row.txn].voided

(***************************************************************************)
(* As long as nothing failed, once the handlers in progress are done, the  *)
(* service's rows and the acquirer's transactions tell the same story, also *)
(* when handlers worked on the same payment at the same time.              *)
(***************************************************************************)
RecordsAgree ==
  Quiet /\ ~mishap => \A t \in Txns :
    /\ Recorded(t) <=> Charged(t)
    /\ payments[t].refunded = transactions[t].refunded
    /\ payments[t].voided <=> transactions[t].status = "voided"

(***************************************************************************)
(* As long as nothing failed, every effect has its audit row once the      *)
(* handlers in progress are done.                                          *)
(***************************************************************************)
AuditComplete ==
  Quiet /\ ~mishap => \A t \in Txns :
    /\ Recorded(t) =>
         [event |-> "payment", txn |-> t] \in audit
    /\ payments[t].refunded > 0 =>
         [event |-> "refund", txn |-> t] \in audit
    /\ payments[t].voided =>
         [event |-> "void", txn |-> t] \in audit

(***************************************************************************)
(* A cardholder is never credited more than the charge: "this transaction  *)
(* has been refunded; it cannot be voided" (payment.py).  It takes one     *)
(* handler at a time and a storage that does not fail between a gateway    *)
(* refund and its record.                                                  *)
(***************************************************************************)
NoOverCredit ==
  \A t \in Txns : statement[t].credited <= statement[t].charged

(***************************************************************************)
(* "EUR 150.00 since last SCA", "consecutive transactions since last SCA"  *)
(* (sca.py): the charges that were really made under the exemption stay    *)
(* within its limits.                                                      *)
(***************************************************************************)
LowValueWithinLimits ==
  \A c \in Customers : /\ exempt[c].minor <= LowValueCumulativeMax
                       /\ exempt[c].count <= LowValueMaxCount

(***************************************************************************)
(* The counters never show less than the exempt charges that were made,    *)
(* except while the handler that made one has yet to count it.             *)
(***************************************************************************)
AllowanceNeverUndercounted ==
  \A c \in Customers :
    ~Counting(c) => /\ exempt[c].minor <= usage[c].minor
                    /\ exempt[c].count <= usage[c].count

(***************************************************************************)
(* One handler at a time, with a storage that does not fail, the service   *)
(* implements CardLedger: the acquirer's balances are the funds, the       *)
(* statement the ledger, and the payments table the merchant's books,      *)
(* where a void returns the whole charge.                                  *)
(***************************************************************************)
CL == INSTANCE CardLedger WITH
  Cards <- Tokens,
  funds <- balance,
  ledger <- [t \in Txns |->
               [charged |-> statement[t].charged,
                credited |-> statement[t].credited,
                key |-> statement[t].key,
                card |-> transactions[t].token]],
  books <- [t \in Txns |->
              [taken |-> payments[t].amount,
               returned |-> IF payments[t].voided THEN payments[t].amount
                            ELSE payments[t].refunded]]

ImplementsCardLedger == CL!LedgerSpec
=============================================================================
