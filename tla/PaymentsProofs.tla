--------------------------- MODULE PaymentsProofs ---------------------------
(***************************************************************************)
(* Theorems about the payment service, for any number of customers, cards, *)
(* keys, transactions, merchants and workers, any amounts and limits.      *)
(*                                                                         *)
(* Typing, RowsAreCharges, RefundsNeverAhead, RowsNeverRewritten and       *)
(* AuditBacked hold for concurrent handlers and every failure of the       *)
(* model; RecordsAgree and AuditComplete say themselves that nothing       *)
(* failed; OneChargePerKey and CardsRegistered hold as long as the         *)
(* acquirer does not lose its memory, and AllowanceNeverUndercounted as    *)
(* long as no handler is cut off.  The last section is about one handler   *)
(* at a time.                                                              *)
(***************************************************************************)
EXTENDS Payments, TLAPS

(***************************************************************************)
(* What a handler in progress may rely on.                                 *)
(***************************************************************************)
PayJobOK(job) ==
  /\ job.pc \in PayPcs =>
       /\ job.customer \in Customers
       /\ job.token \in Tokens
       /\ job.merchant \in Merchants
       /\ job.key \in Keys
       /\ job.amount \in Amounts
  /\ job.pc \in {"record_payment", "count_use"} => job.approved
  /\ job.pc \in PayPcs /\ job.approved =>
       /\ job.txn \in Txns
       /\ job.charged = statement[job.txn].charged
       /\ job.charged > 0

ReversalJobOK(job) ==
  job.pc \in RefundPcs \cup VoidPcs =>
    job.txn \in Txns /\ payments[job.txn].amount > 0

ReplaceJobOK(job) ==
  job.pc \in ReplacePcs =>
    /\ job.customer \in Customers
    /\ job.token \in Tokens
    /\ "restart" \notin Faults => job.token \in accounts

JobOK(job) == PayJobOK(job) /\ ReversalJobOK(job) /\ ReplaceJobOK(job)
JobsOK == \A w \in Workers : JobOK(worker[w])

(***************************************************************************)
(* An approved answer in the cache is that of a charge, and while the      *)
(* acquirer keeps its memory every charge is in the cache under its key.   *)
(***************************************************************************)
ApprovedIn(cache, k) == cache[k] # None /\ cache[k].approved

AnswersOK ==
  \A k \in Keys : ApprovedIn(idempotency, k) =>
    /\ idempotency[k].txn \in Txns
    /\ idempotency[k].amount = statement[idempotency[k].txn].charged
    /\ idempotency[k].amount > 0

ChargesCached ==
  "restart" \notin Faults =>
    \A t \in Txns : Charged(t) =>
      /\ statement[t].key \in Keys
      /\ ApprovedIn(idempotency, statement[t].key)
      /\ idempotency[statement[t].key].txn = t

CardsKnown == "restart" \notin Faults => CardsRegistered

\* A row is written whole or not at all.
RowsOK == \A t \in Txns : Recorded(t) => payments[t].amount > 0

Inv ==
  /\ TypeOK
  /\ JobsOK
  /\ AnswersOK
  /\ ChargesCached
  /\ CardsKnown
  /\ RowsOK
  /\ RowsAreCharges

-----------------------------------------------------------------------------
USE GatewayAssumption, ScaAssumption, PaymentsAssumption

LEMMA ScaType ==
  ASSUME NEW c, NEW amount
  PROVE  ScaOf(c, amount) \in Assessment
BY DEF ScaOf, Assess, Assessment

LEMMA IdleType == Idle \in Job /\ JobOK(Idle)
BY DEF Idle, Job, Pcs, Assessment, JobOK, PayJobOK, ReversalJobOK,
       ReplaceJobOK, PayPcs, RefundPcs, VoidPcs, ReplacePcs

LEMMA InitInv == Init => Inv
<1> SUFFICES ASSUME Init PROVE Inv
  OBVIOUS
<1> USE DEF Init
<1>1. TypeOK
  <2>1. GatewayTypeOK
    BY DEF GatewayTypeOK, Transaction, NoTransaction, Entry, NoEntry, Answer
  <2>2. payments \in [Txns -> PaymentRow] /\ audit \subseteq AuditRow
    BY DEF PaymentRow, NoRow
  <2>3. usage \in [Customers -> Usage] /\ exempt \in [Customers -> Usage]
    BY DEF Usage, NoUsage
  <2>4. worker \in [Workers -> Job]
    BY IdleType
  <2> QED
    BY <2>1, <2>2, <2>3, <2>4 DEF TypeOK
<1>2. JobsOK
  BY IdleType DEF JobsOK
<1>3. AnswersOK /\ ChargesCached /\ CardsKnown
  BY DEF AnswersOK, ApprovedIn, ChargesCached, Charged, NoEntry, CardsKnown,
         CardsRegistered
<1>4. RowsOK /\ RowsAreCharges
  BY DEF RowsOK, RowsAreCharges, Recorded
<1> QED
  BY <1>1, <1>2, <1>3, <1>4 DEF Inv

-----------------------------------------------------------------------------
(***************************************************************************)
(* A step of one handler that leaves the acquirer, the cards and the       *)
(* payments table alone.                                                   *)
(***************************************************************************)
LEMMA LocalStep ==
  ASSUME Inv,
         UNCHANGED <<gatewayVars, card, payments>>,
         usage' \in [Customers -> Usage],
         audit' \subseteq AuditRow,
         exempt' \in [Customers -> Usage], mishap' \in BOOLEAN,
         NEW w \in Workers, NEW job \in Job, JobOK(job),
         worker' = [worker EXCEPT ![w] = job]
  PROVE  Inv'
<1> USE DEF Inv, gatewayVars
<1>1. TypeOK'
  BY DEF TypeOK, GatewayTypeOK
<1>2. JobsOK'
  <2> SUFFICES ASSUME NEW v \in Workers PROVE JobOK(worker[v])'
    BY DEF JobsOK
  <2>1. JobOK(worker'[v])
    BY DEF JobsOK, TypeOK
  <2> QED
    BY <2>1 DEF JobOK, PayJobOK, ReversalJobOK, ReplaceJobOK
<1>3. AnswersOK' /\ ChargesCached' /\ CardsKnown'
  BY DEF AnswersOK, ApprovedIn, ChargesCached, Charged, CardsKnown,
         CardsRegistered
<1>4. RowsOK' /\ RowsAreCharges'
  BY DEF RowsOK, RowsAreCharges, Recorded, Charged
<1> QED
  BY <1>1, <1>2, <1>3, <1>4

LEMMA PayBeginInv ==
  ASSUME Inv, NEW w \in Workers, NEW c \in Customers, NEW m \in Merchants,
         NEW k \in Keys, NEW amount \in Amounts, PayBegin(w, c, m, k, amount)
  PROVE  Inv'
<1> DEFINE job == [Idle EXCEPT !.pc = "authorize", !.customer = c,
                               !.token = card[c], !.merchant = m, !.key = k,
                               !.amount = amount, !.sca = ScaOf(c, amount)]
<1>1. job \in Job /\ JobOK(job)
  BY ScaType DEF Inv, TypeOK, Idle, Job, Pcs, PayPcs, RefundPcs, VoidPcs,
                 ReplacePcs, JobOK, PayJobOK, ReversalJobOK, ReplaceJobOK
<1>2. worker' = [worker EXCEPT ![w] = job]
  BY DEF PayBegin
<1> HIDE DEF job
<1> QED
  BY <1>1, <1>2, LocalStep DEF PayBegin, tables, Inv, TypeOK

\* A handler that ends, whatever it logged or counted.
LEMMA FinishInv ==
  ASSUME Inv, NEW w \in Workers, Finish(w), UNCHANGED <<gatewayVars, card,
         payments, usage, exempt>>, audit' \subseteq AuditRow,
         mishap' \in BOOLEAN
  PROVE  Inv'
BY IdleType, LocalStep DEF Finish, Inv, TypeOK

\* A handler that goes on to its next call.
LEMMA AdvanceInv ==
  ASSUME Inv, NEW w \in Workers, NEW pc \in Pcs, Advance(w, pc),
         UNCHANGED <<gatewayVars, card, payments, audit, exempt, mishap>>,
         usage' \in [Customers -> Usage],
         JobOK([worker[w] EXCEPT !.pc = pc])
  PROVE  Inv'
<1> DEFINE job == [worker[w] EXCEPT !.pc = pc]
<1>1. job \in Job
  BY DEF Inv, TypeOK, Job
<1>2. worker' = [worker EXCEPT ![w] = job]
  BY DEF Advance, Inv, TypeOK
<1> HIDE DEF job
<1> QED
  BY <1>1, <1>2, LocalStep DEF job, Inv, TypeOK

LEMMA PayCountInv ==
  ASSUME Inv, NEW w \in Workers, PayCount(w)
  PROVE  Inv'
<1>1. JobOK(worker[w]) /\ worker[w] \in Job
  BY DEF Inv, JobsOK, TypeOK
<1>2. usage' \in [Customers -> Usage]
  <2>1. worker[w].customer \in Customers /\ worker[w].amount \in Nat
    BY <1>1 DEF PayCount, Job, JobOK, PayJobOK, PayPcs
  <2> QED
    BY <2>1 DEF PayCount, UsageAfter, Inv, TypeOK, Usage, NoUsage, AddUse
<1>3. JobOK([worker[w] EXCEPT !.pc = "audit_payment"])
  BY <1>1 DEF PayCount, Job, JobOK, PayJobOK, ReversalJobOK, ReplaceJobOK,
              PayPcs, RefundPcs, VoidPcs, ReplacePcs
<1> QED
  BY <1>2, <1>3, AdvanceInv DEF PayCount, Pcs, PayPcs

LEMMA AuditInv ==
  ASSUME Inv, NEW w \in Workers,
         PayAudit(w) \/ RefundAudit(w) \/ VoidAudit(w)
  PROVE  Inv'
<1>1. JobOK(worker[w])
  BY DEF Inv, JobsOK
<1>2. audit' \subseteq AuditRow
  <2>1. worker[w].approved \/ worker[w].pc # "audit_payment" =>
          worker[w].txn \in Txns
    BY <1>1 DEF PayAudit, RefundAudit, VoidAudit, JobOK, PayJobOK,
                ReversalJobOK, PayPcs, RefundPcs, VoidPcs
  <2> QED
    BY <2>1 DEF PayAudit, RefundAudit, VoidAudit, Log, AuditRow, Inv, TypeOK
<1>3. /\ Finish(w) /\ mishap' \in BOOLEAN
      /\ UNCHANGED <<gatewayVars, card, payments, usage, exempt>>
  BY DEF PayAudit, RefundAudit, VoidAudit, Inv, TypeOK
<1> QED
  BY <1>2, <1>3, FinishInv

\* refund and void, up to the acquirer: the row they were authorised against.
LEMMA ReversalBeginInv ==
  ASSUME Inv, NEW w \in Workers, NEW t \in Txns, NEW m \in Merchants,
         \/ \E a \in Amounts \cup {None} : RefundBegin(w, t, m, a)
         \/ VoidBegin(w, t, m)
  PROVE  Inv'
<1>1. PICK pc \in {"gateway_refund", "gateway_void"}, asked \in Nat :
        /\ worker' = [worker EXCEPT ![w] = JobOn(pc, t, m, asked)]
        /\ Recorded(t)
        /\ UNCHANGED <<gatewayVars, tables, exempt, mishap>>
  <2>1. CASE \E a \in Amounts \cup {None} : RefundBegin(w, t, m, a)
    <3>1. PICK a \in Amounts \cup {None} : RefundBegin(w, t, m, a)
      BY <2>1
    <3> DEFINE asked == IF a = None THEN Remaining(t) ELSE a
    <3>2. payments[t].amount \in Int /\ payments[t].refunded \in Int
      BY DEF Inv, TypeOK, PaymentRow
    <3>3. asked \in Int
      <4>1. Remaining(t) \in Int
        BY <3>2 DEF Remaining
      <4>2. a # None => a \in Int
        BY DEF GatewayAssumption
      <4> QED
        BY <4>1, <4>2
    <3>4. asked \in Nat
      BY <3>1, <3>3 DEF RefundBegin
    <3>5. worker' = [worker EXCEPT ![w] = JobOn("gateway_refund", t, m, asked)]
      BY <3>1 DEF RefundBegin
    <3> HIDE DEF asked
    <3> QED
      BY <3>1, <3>4, <3>5 DEF RefundBegin, OwnedPayment, Recorded
  <2>2. CASE VoidBegin(w, t, m)
    BY <2>2 DEF VoidBegin, OwnedPayment, Recorded
  <2> QED
    BY <2>1, <2>2
<1> DEFINE job == JobOn(pc, t, m, asked)
<1>2. job \in Job /\ JobOK(job)
  BY <1>1 DEF Inv, RowsOK, JobOn, Idle, Job, Assessment, Pcs, PayPcs,
              RefundPcs, VoidPcs, ReplacePcs, JobOK, PayJobOK, ReversalJobOK,
              ReplaceJobOK
<1> HIDE DEF job
<1> QED
  BY <1>1, <1>2, LocalStep DEF job, tables, Inv, TypeOK

-----------------------------------------------------------------------------
(***************************************************************************)
(* The authorisation: an answer from the cache, a decline, a new charge.   *)
(***************************************************************************)
Answered(job, pc, answer) ==
  [job EXCEPT !.pc = pc, !.approved = answer.approved, !.txn = answer.txn,
              !.charged = answer.amount]

LEMMA AnswerTaken ==
  ASSUME Inv, NEW w \in Workers, NEW t \in Txns, PayAuthorize(w, t),
         NEW answer, answer = idempotency'[worker[w].key],
         NEW pc, pc = IF answer.approved THEN "record_payment"
                      ELSE "audit_payment"
  PROVE  worker' = [worker EXCEPT ![w] = Answered(worker[w], pc, answer)]
BY DEF PayAuthorize, Answered, Inv, TypeOK

LEMMA RequestType ==
  ASSUME Inv, NEW w \in Workers, worker[w].pc = "authorize"
  PROVE  /\ worker[w] \in Job
         /\ RequestOf(worker[w]) \in Request
BY DEF Inv, TypeOK, JobsOK, JobOK, PayJobOK, PayPcs, Job, RequestOf, Request,
       MayProceed, Assessment

LEMMA AnsweredFromCacheInv ==
  ASSUME Inv, NEW w \in Workers, NEW t \in Txns, PayAuthorize(w, t),
         AnswerFromCache(RequestOf(worker[w]))
  PROVE  Inv'
<1> DEFINE key == worker[w].key
           answer == idempotency[key]
           pc == IF answer.approved THEN "record_payment" ELSE "audit_payment"
           job == Answered(worker[w], pc, answer)
<1>1. /\ worker[w] \in Job
      /\ key \in Keys
      /\ JobOK(worker[w])
  BY RequestType DEF PayAuthorize, RequestOf, Request, Inv, JobsOK
<1>2. /\ answer \in Answer
      /\ idempotency' = idempotency
      /\ UNCHANGED gatewayVars
  BY <1>1 DEF AnswerFromCache, RequestOf, gatewayVars, Inv, TypeOK,
              GatewayTypeOK
<1>3. answer.approved => /\ answer.txn \in Txns
                         /\ answer.amount = statement[answer.txn].charged
                         /\ answer.amount > 0
  BY <1>1, <1>2 DEF Inv, AnswersOK, ApprovedIn, AnswerFromCache, RequestOf
<1>4. job \in Job
  <2>1. /\ answer.approved \in BOOLEAN
        /\ answer.txn \in Txns \cup {None}
        /\ answer.amount \in Nat
    BY <1>2 DEF Answer
  <2> HIDE DEF answer
  <2> QED
    BY <1>1, <2>1 DEF Answered, Job, Pcs, PayPcs
<1>5. JobOK(job)
  BY <1>1, <1>2, <1>3 DEF PayAuthorize, Answered, Job, Answer, JobOK, PayJobOK,
     ReversalJobOK, ReplaceJobOK, PayPcs, RefundPcs, VoidPcs, ReplacePcs
<1>6. worker' = [worker EXCEPT ![w] = job]
  BY <1>2, AnswerTaken
<1>7. exempt' \in [Customers -> Usage] /\ mishap' \in BOOLEAN
  BY <1>2 DEF PayAuthorize, ExemptAfter, AnswerFromCache, RequestOf, Inv, TypeOK
<1> HIDE DEF job, pc, answer, key
<1> QED
  BY <1>2, <1>4, <1>5, <1>6, <1>7, LocalStep DEF PayAuthorize, tables, Inv,
                                               TypeOK

LEMMA DeclinedInv ==
  ASSUME Inv, NEW w \in Workers, NEW t \in Txns, PayAuthorize(w, t),
         Decline(RequestOf(worker[w]))
  PROVE  Inv'
<1> DEFINE key == worker[w].key
           answer == [approved |-> FALSE, txn |-> None,
                      amount |-> worker[w].amount]
           job == Answered(worker[w], "audit_payment", answer)
<1>1. /\ worker[w] \in Job
      /\ key \in Keys
      /\ worker[w].amount \in Nat
      /\ JobOK(worker[w])
  BY RequestType DEF PayAuthorize, RequestOf, Request, Inv, JobsOK, Job
<1>2. /\ idempotency' = [idempotency EXCEPT ![key] = answer]
      /\ idempotency[key] = None
      /\ UNCHANGED <<accounts, balance, transactions, statement>>
      /\ UNCHANGED tables
  BY DEF Decline, RequestOf, PayAuthorize
<1>3. idempotency'[key] = answer
  BY <1>1, <1>2 DEF Inv, TypeOK, GatewayTypeOK
<1>4. job \in Job /\ JobOK(job)
  BY <1>1 DEF PayAuthorize, Answered, Job, Pcs, PayPcs, JobOK, PayJobOK,
     ReversalJobOK, ReplaceJobOK, RefundPcs, VoidPcs, ReplacePcs
<1>5. worker' = [worker EXCEPT ![w] = job] /\ UNCHANGED <<exempt, mishap>>
  <2>1. worker' = [worker EXCEPT ![w] = job]
    <3> HIDE DEF answer
    <3>1. ~answer.approved
      BY DEF answer
    <3> QED
      BY <1>3, <3>1, AnswerTaken
  <2>2. UNCHANGED <<exempt, mishap>>
    BY <1>3 DEF PayAuthorize, ExemptAfter
  <2> QED
    BY <2>1, <2>2
<1>6. TypeOK'
  <2>1. answer \in Answer
    BY <1>1 DEF Answer
  <2> HIDE DEF answer, job
  <2> QED
    BY <1>1, <1>2, <1>4, <1>5, <2>1 DEF Inv, TypeOK, GatewayTypeOK, tables
<1>7. JobsOK'
  <2> HIDE DEF job
  <2> SUFFICES ASSUME NEW v \in Workers PROVE JobOK(worker[v])'
    BY DEF JobsOK
  <2>1. JobOK(worker'[v])
    BY <1>4, <1>5 DEF Inv, JobsOK, TypeOK
  <2> QED
    BY <1>2, <2>1 DEF JobOK, PayJobOK, ReversalJobOK, ReplaceJobOK, tables
<1>8. AnswersOK' /\ ChargesCached' /\ CardsKnown'
  BY <1>1, <1>2 DEF Inv, TypeOK, GatewayTypeOK, AnswersOK, ApprovedIn,
     ChargesCached, Charged, CardsKnown, CardsRegistered, tables
<1>9. RowsOK' /\ RowsAreCharges'
  BY <1>2 DEF Inv, RowsOK, RowsAreCharges, Recorded, Charged, tables
<1> QED
  BY <1>6, <1>7, <1>8, <1>9 DEF Inv

LEMMA ApprovedInv ==
  ASSUME Inv, NEW w \in Workers, NEW t \in Txns, PayAuthorize(w, t),
         Approve(RequestOf(worker[w]), t)
  PROVE  Inv'
<1> DEFINE request == RequestOf(worker[w])
           key == worker[w].key
           amount == worker[w].amount
           answer == [approved |-> TRUE, txn |-> t, amount |-> amount]
           job == Answered(worker[w], "record_payment", answer)
<1>1. /\ worker[w] \in Job
      /\ key \in Keys
      /\ amount \in Nat \ {0}
      /\ worker[w].token \in Tokens
      /\ worker[w].customer \in Customers
      /\ JobOK(worker[w])
  BY RequestType DEF PayAuthorize, Inv, JobsOK, JobOK, PayJobOK, PayPcs
<1>2. /\ idempotency' = [idempotency EXCEPT ![key] = answer]
      /\ statement' = [statement EXCEPT ![t] = [charged |-> amount,
                         credited |-> 0, key |-> key]]
      /\ statement[t] = NoEntry
      /\ idempotency[key] = None
      /\ UNCHANGED <<accounts, card, payments, usage, audit>>
  BY DEF Approve, ChargeCard, RequestOf, PayAuthorize, tables
<1>3. idempotency'[key] = answer
  BY <1>1, <1>2 DEF Inv, TypeOK, GatewayTypeOK
<1>4. job \in Job
  BY <1>1 DEF Answered, Job, Pcs, PayPcs
<1>5. worker' = [worker EXCEPT ![w] = job]
  <2>1. answer.approved
    OBVIOUS
  <2> HIDE DEF answer
  <2> QED
    BY <1>3, <2>1, AnswerTaken
<1>6. TypeOK'
  <2>1. balance' \in [Tokens -> Nat]
    <3>1. /\ balance' = [balance EXCEPT ![worker[w].token] = @ - amount]
          /\ balance[worker[w].token] >= amount
      BY DEF Approve, Approves, ChargeCard, RequestOf
    <3>2. balance[worker[w].token] - amount \in Nat
      BY <1>1, <3>1 DEF Inv, TypeOK, GatewayTypeOK
    <3> QED
      BY <1>1, <3>1, <3>2 DEF Inv, TypeOK, GatewayTypeOK
  <2>2. transactions' \in [Txns -> Transaction]
    BY <1>1 DEF Approve, ChargeCard, RequestOf, Inv, TypeOK, GatewayTypeOK,
                Transaction
  <2>3. /\ idempotency' \in [Keys -> Answer \cup {None}]
        /\ statement' \in [Txns -> Entry]
    BY <1>1, <1>2 DEF Inv, TypeOK, GatewayTypeOK, Answer, Entry
  <2>4. exempt' \in [Customers -> Usage] /\ mishap' \in BOOLEAN
    BY <1>1 DEF PayAuthorize, ExemptAfter, Inv, TypeOK, Usage, NoUsage, AddUse
  <2> HIDE DEF job
  <2> QED
    BY <1>2, <1>4, <1>5, <2>1, <2>2, <2>3, <2>4
       DEF Inv, TypeOK, GatewayTypeOK
<1>7. JobsOK'
  <2> SUFFICES ASSUME NEW v \in Workers PROVE JobOK(worker[v])'
    BY DEF JobsOK
  <2>1. CASE v = w
    <3>1. worker'[v] = job
      BY <1>5, <2>1 DEF Inv, TypeOK
    <3>2. statement'[t].charged = amount
      BY <1>2 DEF Inv, TypeOK, GatewayTypeOK
    <3>3. /\ job.pc = "record_payment"
          /\ job.customer \in Customers /\ job.token \in Tokens
          /\ job.merchant \in Merchants /\ job.key \in Keys
          /\ job.amount \in Amounts
          /\ job.approved /\ job.txn = t /\ job.charged = amount
      BY <1>1 DEF PayAuthorize, Answered, Job, JobOK, PayJobOK, PayPcs
    <3> HIDE DEF job
    <3>4. PayJobOK(worker[v])'
      BY <1>1, <3>1, <3>2, <3>3 DEF PayJobOK
    <3>5. ReversalJobOK(worker[v])' /\ ReplaceJobOK(worker[v])'
      BY <3>1, <3>3 DEF ReversalJobOK, ReplaceJobOK, RefundPcs, VoidPcs,
                        ReplacePcs
    <3> QED
      BY <3>4, <3>5 DEF JobOK
  <2>2. CASE v # w
    <3>1. worker'[v] = worker[v] /\ JobOK(worker[v])
      BY <1>5, <2>2 DEF Inv, TypeOK, JobsOK
    <3>2. \A u \in Txns : statement[u].charged > 0 =>
                            statement'[u] = statement[u]
      BY <1>2 DEF Inv, TypeOK, GatewayTypeOK, NoEntry
    <3>3. PayJobOK(worker[v])'
      BY <3>1, <3>2 DEF JobOK, PayJobOK
    <3>4. ReversalJobOK(worker[v])' /\ ReplaceJobOK(worker[v])'
      BY <1>2, <3>1 DEF JobOK, ReversalJobOK, ReplaceJobOK
    <3> QED
      BY <3>3, <3>4 DEF JobOK
  <2> QED
    BY <2>1, <2>2
<1>8. AnswersOK' /\ ChargesCached' /\ CardsKnown'
  <2>1. AnswersOK'
    BY <1>1, <1>2 DEF Inv, TypeOK, GatewayTypeOK, NoEntry, AnswersOK, ApprovedIn
  <2>2. ChargesCached'
    <3> SUFFICES ASSUME "restart" \notin Faults, NEW u \in Txns, Charged(u)'
                 PROVE  /\ statement'[u].key \in Keys
                        /\ ApprovedIn(idempotency', statement'[u].key)
                        /\ idempotency'[statement'[u].key].txn = u
      BY DEF ChargesCached
    <3>1. CASE u = t
      <4>1. statement'[u].key = key
        BY <1>2, <3>1 DEF Inv, TypeOK, GatewayTypeOK
      <4>2. answer # None /\ answer.approved /\ answer.txn = u
        <5>1. answer \in Answer
          BY <1>1 DEF Answer
        <5> QED
          BY <3>1, <5>1 DEF GatewayAssumption
      <4> QED
        BY <1>1, <1>3, <4>1, <4>2 DEF ApprovedIn
    <3>2. CASE u # t
      <4>1. statement'[u] = statement[u] /\ Charged(u)
        BY <1>2, <3>2 DEF Inv, TypeOK, GatewayTypeOK, Charged
      <4>2. /\ statement[u].key \in Keys \ {key}
            /\ ApprovedIn(idempotency, statement[u].key)
            /\ idempotency[statement[u].key].txn = u
        BY <1>2, <4>1 DEF Inv, ChargesCached, ApprovedIn
      <4> QED
        BY <1>1, <1>2, <4>1, <4>2 DEF Inv, TypeOK, GatewayTypeOK, ApprovedIn
    <3> QED
      BY <3>1, <3>2
  <2>3. CardsKnown'
    BY <1>2 DEF Inv, CardsKnown, CardsRegistered
  <2> QED
    BY <2>1, <2>2, <2>3
<1>9. RowsOK' /\ RowsAreCharges'
  BY <1>2 DEF Inv, TypeOK, GatewayTypeOK, NoEntry, RowsOK, RowsAreCharges,
              Recorded, Charged
<1> QED
  BY <1>6, <1>7, <1>8, <1>9 DEF Inv

LEMMA PayAuthorizeInv ==
  ASSUME Inv, NEW w \in Workers, NEW t \in Txns, PayAuthorize(w, t)
  PROVE  Inv'
BY AnsweredFromCacheInv, DeclinedInv, ApprovedInv DEF PayAuthorize, Authorize

-----------------------------------------------------------------------------
(***************************************************************************)
(* The steps that write the payments table.                                *)
(***************************************************************************)
LEMMA RowStep ==
  ASSUME Inv, NEW w \in Workers, NEW pc \in Pcs, Advance(w, pc),
         JobOK([worker[w] EXCEPT !.pc = pc]),
         UNCHANGED <<gatewayVars, card, usage, audit, exempt, mishap>>,
         payments' \in [Txns -> PaymentRow],
         \A t \in Txns : payments[t].amount > 0 => payments'[t].amount > 0,
         RowsOK', RowsAreCharges'
  PROVE  Inv'
<1> DEFINE job == [worker[w] EXCEPT !.pc = pc]
<1>1. worker' = [worker EXCEPT ![w] = job] /\ job \in Job
  BY DEF Advance, Inv, TypeOK, Job
<1>2. TypeOK'
  <2> HIDE DEF job
  <2> QED
    BY <1>1 DEF gatewayVars, Inv, TypeOK, GatewayTypeOK
<1>3. JobsOK'
  <2> SUFFICES ASSUME NEW v \in Workers PROVE JobOK(worker[v])'
    BY DEF JobsOK
  <2> HIDE DEF job
  <2>1. JobOK(worker'[v])
    BY <1>1 DEF job, Inv, TypeOK, JobsOK
  <2> QED
    BY <2>1 DEF gatewayVars, JobOK, PayJobOK, ReversalJobOK, ReplaceJobOK
<1>4. AnswersOK' /\ ChargesCached' /\ CardsKnown'
  BY DEF gatewayVars, Inv, AnswersOK, ApprovedIn, ChargesCached, Charged,
         CardsKnown, CardsRegistered
<1> QED
  BY <1>2, <1>3, <1>4 DEF Inv

LEMMA PayRecordInv ==
  ASSUME Inv, NEW w \in Workers, PayRecord(w)
  PROVE  Inv'
<1> DEFINE job == worker[w]
<1>1. /\ job \in Job
      /\ JobOK(job)
  BY DEF Inv, TypeOK, JobsOK
<1>2. /\ job.customer \in Customers
      /\ job.merchant \in Merchants
      /\ job.txn \in Txns
      /\ job.charged \in Nat \ {0}
      /\ job.charged = statement[job.txn].charged
  BY <1>1 DEF PayRecord, Job, JobOK, PayJobOK, PayPcs
<1>3. RowOf(job) \in PaymentRow /\ RowOf(job).amount = job.charged
  BY <1>2 DEF RowOf, PaymentRow
<1>4. payments' \in [Txns -> PaymentRow]
  BY <1>2, <1>3 DEF PayRecord, InsertOrIgnore, Inv, TypeOK
<1>5. \A t \in Txns : \/ payments'[t] = payments[t]
                      \/ t = job.txn /\ payments'[t] = RowOf(job)
  BY <1>2 DEF PayRecord, InsertOrIgnore, Inv, TypeOK
<1>6. \A t \in Txns : payments[t].amount > 0 => payments'[t].amount > 0
  BY <1>2, <1>3, <1>5
<1>7. RowsOK' /\ RowsAreCharges'
  BY <1>2, <1>3, <1>5 DEF PayRecord, gatewayVars, Inv, RowsOK, RowsAreCharges,
                          Recorded, Charged
<1>8. JobOK([job EXCEPT !.pc = "count_use"])
  BY <1>1 DEF PayRecord, Job, JobOK, PayJobOK, ReversalJobOK, ReplaceJobOK,
              PayPcs, RefundPcs, VoidPcs, ReplacePcs
<1> QED
  BY <1>4, <1>6, <1>7, <1>8, RowStep DEF PayRecord, Pcs, PayPcs

LEMMA RowType ==
  ASSUME NEW row \in PaymentRow, NEW amount \in Nat
  PROVE  /\ [row EXCEPT !.refunded = @ + amount] \in PaymentRow
         /\ [row EXCEPT !.voided = TRUE] \in PaymentRow
<1>1. row.refunded \in Nat
  BY DEF PaymentRow
<1>2. row.refunded + amount \in Nat
  BY <1>1
<1> QED
  BY <1>2 DEF PaymentRow

LEMMA ReversalRecordInv ==
  ASSUME Inv, NEW w \in Workers, RefundRecord(w) \/ VoidRecord(w)
  PROVE  Inv'
<1> DEFINE job == worker[w]
<1>1. /\ job \in Job
      /\ JobOK(job)
  BY DEF Inv, TypeOK, JobsOK
<1>2. job.txn \in Txns /\ payments[job.txn].amount > 0 /\ job.amount \in Nat
  BY <1>1 DEF RefundRecord, VoidRecord, Job, JobOK, ReversalJobOK, RefundPcs,
              VoidPcs
<1>3. payments' \in [Txns -> PaymentRow]
  <2>1. payments[job.txn] \in PaymentRow
    BY <1>2 DEF Inv, TypeOK
  <2>2. /\ [payments[job.txn] EXCEPT !.refunded = @ + job.amount] \in PaymentRow
        /\ [payments[job.txn] EXCEPT !.voided = TRUE] \in PaymentRow
    BY <1>2, <2>1, RowType
  <2>3. CASE RefundRecord(w)
    BY <1>2, <2>2, <2>3 DEF RefundRecord, Inv, TypeOK
  <2>4. CASE VoidRecord(w)
    BY <1>2, <2>2, <2>4 DEF VoidRecord, Inv, TypeOK
  <2> QED
    BY <2>3, <2>4
<1>4. \A t \in Txns : payments'[t].amount = payments[t].amount
  BY <1>2 DEF RefundRecord, VoidRecord, Inv, TypeOK, PaymentRow
<1>5. \A t \in Txns : t # job.txn => payments'[t] = payments[t]
  BY <1>2 DEF RefundRecord, VoidRecord, Inv, TypeOK
<1>6. UNCHANGED gatewayVars
  BY DEF RefundRecord, VoidRecord
<1>7. \A t \in Txns : payments[t].amount > 0 => Recorded(t)
  BY DEF Recorded, NoRow
<1>8. \A t \in Txns : payments'[t] # NoRow => Recorded(t)
  BY <1>2, <1>5, <1>7 DEF Recorded
<1>9. RowsOK' /\ RowsAreCharges'
  BY <1>4, <1>6, <1>8 DEF gatewayVars, Inv, RowsOK, RowsAreCharges, Recorded,
                          Charged
<1>10. \A pc \in {"audit_refund", "audit_void"} : JobOK([job EXCEPT !.pc = pc])
  BY <1>1, <1>2 DEF Job, JobOK, PayJobOK, ReversalJobOK, ReplaceJobOK, PayPcs,
                    RefundPcs, VoidPcs, ReplacePcs
<1> QED
  BY <1>3, <1>4, <1>9, <1>10, RowStep
     DEF RefundRecord, VoidRecord, Pcs, RefundPcs, VoidPcs

-----------------------------------------------------------------------------
(***************************************************************************)
(* The steps that credit a card: no charge and no row is touched.          *)
(***************************************************************************)
LEMMA CreditType ==
  ASSUME Inv, NEW t \in Txns, NEW amount \in Nat, Credit(t, amount)
  PROVE  /\ balance' \in [Tokens -> Nat]
         /\ statement' \in [Txns -> Entry]
         /\ \A u \in Txns : /\ statement'[u].charged = statement[u].charged
                            /\ statement'[u].key = statement[u].key
<1>1. balance \in [Tokens -> Nat] /\ statement \in [Txns -> Entry]
  BY DEF Inv, TypeOK, GatewayTypeOK
<1>2. statement[t] \in Entry
  BY <1>1
<1>3. [statement[t] EXCEPT !.credited = @ + amount] \in Entry
  BY <1>2 DEF Entry
<1>4. CASE transactions[t].token \in accounts
  <2>1. /\ balance' = [balance EXCEPT ![transactions[t].token] = @ + amount]
        /\ statement' = [statement EXCEPT ![t].credited = @ + amount]
    BY <1>4 DEF Credit
  <2>2. balance' \in [Tokens -> Nat]
    <3>1. \A k \in Tokens : balance[k] + amount \in Nat
      BY <1>1
    <3> QED
      BY <1>1, <2>1, <3>1
  <2>3. statement' \in [Txns -> Entry]
    BY <1>1, <1>3, <2>1
  <2>4. \A u \in Txns : /\ statement'[u].charged = statement[u].charged
                        /\ statement'[u].key = statement[u].key
    BY <1>1, <2>1 DEF Entry
  <2> QED
    BY <2>2, <2>3, <2>4
<1>5. CASE transactions[t].token \notin accounts
  BY <1>1, <1>5 DEF Credit
<1> QED
  BY <1>4, <1>5

LEMMA ReversalAtGatewayInv ==
  ASSUME Inv, NEW w \in Workers, RefundAtGateway(w) \/ VoidAtGateway(w)
  PROVE  Inv'
<1> DEFINE t == worker[w].txn
<1>1. /\ worker[w] \in Job
      /\ JobOK(worker[w])
  BY DEF Inv, TypeOK, JobsOK
<1>2. t \in Txns /\ worker[w].amount \in Nat
  BY <1>1 DEF RefundAtGateway, VoidAtGateway, Job, JobOK, ReversalJobOK,
              RefundPcs, VoidPcs
<1>3. transactions[t] \in Transaction
  BY <1>2 DEF Inv, TypeOK, GatewayTypeOK
<1>4. PICK amount \in Nat : Credit(t, amount)
  <2>1. CASE RefundAtGateway(w)
    BY <1>2, <1>3, <2>1 DEF RefundAtGateway, GatewayRefund, OrAll, Transaction
  <2>2. CASE VoidAtGateway(w)
    BY <1>3, <2>2 DEF VoidAtGateway, GatewayVoid, Transaction
  <2> QED
    BY <2>1, <2>2
<1>5. transactions' \in [Txns -> Transaction]
  <2>1. CASE RefundAtGateway(w)
    BY <1>2, <1>3, <2>1 DEF RefundAtGateway, GatewayRefund, OrAll, Transaction,
                            Inv, TypeOK, GatewayTypeOK
  <2>2. CASE VoidAtGateway(w)
    BY <1>2, <1>3, <2>2 DEF VoidAtGateway, GatewayVoid, Transaction, Inv,
                            TypeOK, GatewayTypeOK
  <2> QED
    BY <2>1, <2>2
<1>6. /\ UNCHANGED <<accounts, idempotency, card, payments, usage, audit>>
      /\ UNCHANGED <<exempt, mishap>>
      /\ \E pc \in {"record_refund", "mark_voided"} : Advance(w, pc)
  BY DEF RefundAtGateway, VoidAtGateway, GatewayRefund, GatewayVoid, tables
<1>7. PICK pc \in {"record_refund", "mark_voided"} : Advance(w, pc)
  BY <1>6
<1> DEFINE job == [worker[w] EXCEPT !.pc = pc]
<1>8. worker' = [worker EXCEPT ![w] = job] /\ job \in Job /\ JobOK(job)
  BY <1>1, <1>2, <1>7 DEF RefundAtGateway, VoidAtGateway, Advance, Inv, TypeOK,
     Job, Pcs, JobOK, PayJobOK, ReversalJobOK, ReplaceJobOK, PayPcs, RefundPcs,
     VoidPcs, ReplacePcs
<1> HIDE DEF t, job
<1>9. TypeOK'
  BY <1>2, <1>4, <1>5, <1>6, <1>8, CreditType DEF Inv, TypeOK, GatewayTypeOK
<1>10. JobsOK'
  <2> SUFFICES ASSUME NEW v \in Workers PROVE JobOK(worker[v])'
    BY DEF JobsOK
  <2>1. JobOK(worker'[v])
    BY <1>8 DEF Inv, TypeOK, JobsOK
  <2>2. \A u \in Txns : statement'[u].charged = statement[u].charged
    BY <1>2, <1>4, CreditType
  <2>3. PayJobOK(worker[v])'
    BY <2>1, <2>2 DEF JobOK, PayJobOK
  <2> QED
    BY <1>6, <2>1, <2>3 DEF JobOK, ReversalJobOK, ReplaceJobOK
<1>11. AnswersOK' /\ ChargesCached' /\ CardsKnown'
  BY <1>2, <1>4, <1>6, CreditType DEF Inv, AnswersOK, ApprovedIn, ChargesCached,
                                      Charged, CardsKnown, CardsRegistered
<1>12. RowsOK' /\ RowsAreCharges'
  BY <1>2, <1>4, <1>6, CreditType DEF Inv, RowsOK, RowsAreCharges, Recorded,
                                      Charged
<1> QED
  BY <1>9, <1>10, <1>11, <1>12 DEF Inv

-----------------------------------------------------------------------------
(***************************************************************************)
(* The replacement of a card, and the restart.                             *)
(***************************************************************************)
LEMMA ReplaceBeginInv ==
  ASSUME Inv, NEW w \in Workers, NEW c \in Customers, NEW token \in Tokens,
         ReplaceBegin(w, c, token)
  PROVE  Inv'
<1> DEFINE job == [Idle EXCEPT !.pc = "update_payment_token", !.customer = c,
                               !.token = token]
<1>1. /\ accounts' = accounts \cup {token}
      /\ balance' = [balance EXCEPT ![token] = StartBalance]
      /\ UNCHANGED <<transactions, idempotency, statement>>
      /\ UNCHANGED <<card, payments, usage, audit, exempt, mishap>>
      /\ worker' = [worker EXCEPT ![w] = job]
  BY DEF ReplaceBegin, Tokenize, tables
<1>2. /\ job \in Job
      /\ job.pc = "update_payment_token" /\ job.customer \in Customers
      /\ job.token = token
  BY IdleType DEF Idle, Job, Pcs, ReplacePcs
<1> HIDE DEF job
<1>3. TypeOK'
  BY <1>1, <1>2 DEF Inv, TypeOK, GatewayTypeOK
<1>4. JobsOK'
  <2> SUFFICES ASSUME NEW v \in Workers PROVE JobOK(worker[v])'
    BY DEF JobsOK
  <2>1. CASE v = w
    <3>1. worker'[v] = job
      BY <1>1, <2>1 DEF Inv, TypeOK
    <3> QED
      BY <1>1, <1>2, <3>1 DEF JobOK, PayJobOK, ReversalJobOK, ReplaceJobOK,
                              PayPcs, RefundPcs, VoidPcs
  <2>2. CASE v # w
    <3>1. worker'[v] = worker[v] /\ JobOK(worker[v])
      BY <1>1, <2>2 DEF Inv, TypeOK, JobsOK
    <3> QED
      BY <1>1, <3>1 DEF JobOK, PayJobOK, ReversalJobOK, ReplaceJobOK
  <2> QED
    BY <2>1, <2>2
<1>5. AnswersOK' /\ ChargesCached' /\ CardsKnown'
  BY <1>1 DEF Inv, AnswersOK, ApprovedIn, ChargesCached, Charged, CardsKnown,
              CardsRegistered
<1>6. RowsOK' /\ RowsAreCharges'
  BY <1>1 DEF Inv, RowsOK, RowsAreCharges, Recorded, Charged
<1> QED
  BY <1>3, <1>4, <1>5, <1>6 DEF Inv

LEMMA ReplaceRecordInv ==
  ASSUME Inv, NEW w \in Workers, ReplaceRecord(w)
  PROVE  Inv'
<1>1. /\ worker[w].customer \in Customers
      /\ worker[w].token \in Tokens
      /\ "restart" \notin Faults => worker[w].token \in accounts
  BY DEF ReplaceRecord, Inv, JobsOK, JobOK, ReplaceJobOK, ReplacePcs
<1>2. /\ card' = [card EXCEPT ![worker[w].customer] = worker[w].token]
      /\ worker' = [worker EXCEPT ![w] = Idle]
      /\ UNCHANGED gatewayVars
      /\ UNCHANGED <<payments, usage, audit, exempt, mishap>>
  BY DEF ReplaceRecord, Finish
<1>3. TypeOK'
  BY <1>1, <1>2, IdleType DEF gatewayVars, Inv, TypeOK, GatewayTypeOK
<1>4. JobsOK'
  <2> SUFFICES ASSUME NEW v \in Workers PROVE JobOK(worker[v])'
    BY DEF JobsOK
  <2>1. JobOK(worker'[v])
    BY <1>2, IdleType DEF Inv, TypeOK, JobsOK
  <2> QED
    BY <1>2, <2>1 DEF gatewayVars, JobOK, PayJobOK, ReversalJobOK, ReplaceJobOK
<1>5. AnswersOK' /\ ChargesCached'
  BY <1>2 DEF gatewayVars, Inv, AnswersOK, ApprovedIn, ChargesCached, Charged
<1>6. CardsKnown'
  BY <1>1, <1>2 DEF gatewayVars, Inv, TypeOK, CardsKnown, CardsRegistered
<1>7. RowsOK' /\ RowsAreCharges'
  BY <1>2 DEF gatewayVars, Inv, RowsOK, RowsAreCharges, Recorded, Charged
<1> QED
  BY <1>3, <1>4, <1>5, <1>6, <1>7 DEF Inv

LEMMA RestartInv ==
  ASSUME Inv, Restart
  PROVE  Inv'
<1>1. /\ "restart" \in Faults
      /\ worker' = [w \in Workers |-> Idle]
      /\ \A k \in Keys : idempotency'[k] = None
      /\ UNCHANGED <<statement, card, payments, usage, audit, exempt>>
      /\ mishap' \in BOOLEAN
  BY DEF Restart, tables
<1>2. TypeOK'
  <2>1. GatewayTypeOK'
    BY <1>1 DEF Restart, Inv, TypeOK, GatewayTypeOK, Transaction, NoTransaction
  <2> QED
    BY <1>1, <2>1, IdleType DEF Inv, TypeOK
<1>3. JobsOK'
  <2> SUFFICES ASSUME NEW v \in Workers PROVE JobOK(worker[v])'
    BY DEF JobsOK
  <2>1. worker'[v] = Idle
    BY <1>1
  <2> QED
    BY <2>1 DEF Idle, JobOK, PayJobOK, ReversalJobOK, ReplaceJobOK, PayPcs,
                RefundPcs, VoidPcs, ReplacePcs
<1>4. AnswersOK' /\ ChargesCached' /\ CardsKnown'
  BY <1>1 DEF AnswersOK, ApprovedIn, ChargesCached, CardsKnown
<1>5. RowsOK' /\ RowsAreCharges'
  BY <1>1 DEF Inv, RowsOK, RowsAreCharges, Recorded, Charged
<1> QED
  BY <1>2, <1>3, <1>4, <1>5 DEF Inv

-----------------------------------------------------------------------------
LEMMA WorkerStepInv ==
  ASSUME Inv, NEW w \in Workers, WorkerStep(w)
  PROVE  Inv'
<1>1. CASE \E t \in Txns : PayAuthorize(w, t)
  BY <1>1, PayAuthorizeInv
<1>2. CASE PayGatewayError(w) \/ RefundRefused(w) \/ VoidRefused(w)
           \/ StorageFault(w)
  <2>1. /\ Finish(w) /\ UNCHANGED <<gatewayVars, tables, exempt>>
        /\ mishap' \in BOOLEAN
    BY <1>2 DEF PayGatewayError, RefundRefused, VoidRefused, StorageFault, Inv,
                TypeOK
  <2> QED
    BY <2>1, FinishInv DEF tables, Inv, TypeOK
<1>3. CASE PayRecord(w)
  BY <1>3, PayRecordInv
<1>4. CASE PayCount(w)
  BY <1>4, PayCountInv
<1>5. CASE PayAudit(w) \/ RefundAudit(w) \/ VoidAudit(w)
  BY <1>5, AuditInv
<1>6. CASE RefundAtGateway(w) \/ VoidAtGateway(w)
  BY <1>6, ReversalAtGatewayInv
<1>7. CASE RefundRecord(w) \/ VoidRecord(w)
  BY <1>7, ReversalRecordInv
<1>8. CASE ReplaceRecord(w)
  BY <1>8, ReplaceRecordInv
<1> QED
  BY <1>1, <1>2, <1>3, <1>4, <1>5, <1>6, <1>7, <1>8 DEF WorkerStep

LEMMA InvStep == Inv /\ [Next]_vars => Inv'
<1> SUFFICES ASSUME Inv, [Next]_vars PROVE Inv'
  OBVIOUS
<1>1. CASE Next
  <2>1. CASE Restart
    BY <2>1, RestartInv
  <2>2. ASSUME NEW w \in Workers, WorkerStep(w) PROVE Inv'
    BY <2>2, WorkerStepInv
  <2>3. ASSUME NEW w \in Workers, NEW c \in Customers, NEW m \in Merchants,
               NEW k \in Keys, NEW a \in Amounts, PayBegin(w, c, m, k, a)
        PROVE  Inv'
    BY <2>3, PayBeginInv
  <2>4. ASSUME NEW w \in Workers, NEW t \in Txns, NEW m \in Merchants,
               \/ \E a \in Amounts \cup {None} : RefundBegin(w, t, m, a)
               \/ VoidBegin(w, t, m)
        PROVE  Inv'
    BY <2>4, ReversalBeginInv
  <2>5. ASSUME NEW w \in Workers, NEW c \in Customers, NEW token \in Tokens,
               ReplaceBegin(w, c, token)
        PROVE  Inv'
    BY <2>5, ReplaceBeginInv
  <2> QED
    BY <1>1, <2>1, <2>2, <2>3, <2>4, <2>5 DEF Next
<1>2. CASE UNCHANGED vars
  <2>1. UNCHANGED <<accounts, balance, transactions, idempotency, statement,
                    card, payments, usage, audit, worker, exempt, mishap>>
    BY <1>2 DEF vars
  <2>2. TypeOK' /\ JobsOK'
    BY <2>1 DEF Inv, TypeOK, GatewayTypeOK, JobsOK, JobOK, PayJobOK,
                ReversalJobOK, ReplaceJobOK
  <2>3. AnswersOK' /\ ChargesCached' /\ CardsKnown'
    BY <2>1 DEF Inv, AnswersOK, ApprovedIn, ChargesCached, Charged, CardsKnown,
                CardsRegistered
  <2>4. RowsOK' /\ RowsAreCharges'
    BY <2>1 DEF Inv, RowsOK, RowsAreCharges, Recorded, Charged
  <2> QED
    BY <2>2, <2>3, <2>4 DEF Inv
<1> QED
  BY <1>1, <1>2

(***************************************************************************)
(* The invariant holds in every reachable state.                           *)
(***************************************************************************)
THEOREM Invariance == Spec => []Inv
BY InitInv, InvStep, PTL DEF Spec

(***************************************************************************)
(* Every variable keeps its type, whatever handlers overlap or fail.       *)
(***************************************************************************)
THEOREM Typing == Spec => []TypeOK
<1>1. Inv => TypeOK
  BY DEF Inv
<1> QED
  BY <1>1, Invariance, PTL

(***************************************************************************)
(* Every row of the payments table is a charge that was made, for the      *)
(* amount charged: pay, over any interleaving, storage fault and restart.  *)
(***************************************************************************)
THEOREM RowsRecordCharges == Spec => []RowsAreCharges
<1>1. Inv => RowsAreCharges
  BY DEF Inv
<1> QED
  BY <1>1, Invariance, PTL

(***************************************************************************)
(* A key charges at most once, for any number of concurrent retries, card  *)
(* replacements and storage faults, as long as the acquirer keeps the      *)
(* answers it cached (authorize).                                          *)
(***************************************************************************)
THEOREM KeysChargeOnce ==
  ASSUME "restart" \notin Faults
  PROVE  Spec => []OneChargePerKey
<1>1. Inv => OneChargePerKey
  BY DEF Inv, ChargesCached, OneChargePerKey
<1> QED
  BY <1>1, Invariance, PTL

(***************************************************************************)
(* Every profile stores a card the acquirer knows, under the same proviso  *)
(* (replace_card tokenises before it stores).                              *)
(***************************************************************************)
THEOREM CardsStayRegistered ==
  ASSUME "restart" \notin Faults
  PROVE  Spec => []CardsRegistered
<1>1. Inv => CardsRegistered
  BY DEF Inv, CardsKnown
<1> QED
  BY <1>1, Invariance, PTL

-----------------------------------------------------------------------------
\* From here on an assumption is cited where it is used.
HIDE PaymentsAssumption
HIDE ScaAssumption
HIDE GatewayAssumption

(***************************************************************************)
(* Sums over the handlers in progress, of which there may be any number.   *)
(*                                                                         *)
(* A refund is credited at one call and booked at a later one, and so is   *)
(* an exempt charge and its count. What is under way makes up the          *)
(* difference, but a sum over a set of handlers is defined by recursion,   *)
(* and what a recursion computes needs an induction. So the sum is not     *)
(* computed: the amounts, as intervals of the natural numbers, are packed  *)
(* side by side. If they fit without overlap between low and top, their    *)
(* sum is at most top - low; if they cover what lies between low and top,  *)
(* and stay below top, it is at least that. The packing is rearranged by   *)
(* hand when a handler comes or goes, and that takes no induction.         *)
(***************************************************************************)
\* P: the handlers; size: their amounts; at: where each amount is packed.
Sized(P, size) == \A w \in P : size[w] \in Nat \ {0}

Disjoint(P, size, at) ==
  \A v, w \in P :
    v # w => at[v] + size[v] <= at[w] \/ at[w] + size[w] <= at[v]

Fits(P, size, at, top) == \A w \in P : at[w] + size[w] <= top

Covers(P, size, at, low, top) ==
  \A n \in low..(top - 1) :
    \E v \in P : at[v] <= n /\ n < at[v] + size[v]

AtMost(P, size, low, top) ==
  /\ low <= top
  /\ \E at \in [P -> Nat] :
       /\ Disjoint(P, size, at)
       /\ Fits(P, size, at, top)
       /\ \A w \in P : low <= at[w]

AtLeast(P, size, low, top) ==
  \E at \in [P -> Nat] :
    /\ Disjoint(P, size, at)
    /\ Fits(P, size, at, top)
    /\ Covers(P, size, at, low, top)

LEMMA NothingPending ==
  ASSUME NEW size, NEW low \in Nat, NEW top \in Nat
  PROVE  /\ AtMost({}, size, low, top) <=> low <= top
         /\ AtLeast({}, size, low, top) <=> top <= low
<1>1. [w \in {} |-> 0] \in [{} -> Nat]
  OBVIOUS
<1>2. AtMost({}, size, low, top) <=> low <= top
  BY <1>1 DEF AtMost, Disjoint, Fits
<1>3. ASSUME top <= low PROVE AtLeast({}, size, low, top)
  <2>1. Covers({}, size, [w \in {} |-> 0], low, top)
    BY <1>3 DEF Covers
  <2>2. /\ Disjoint({}, size, [w \in {} |-> 0])
        /\ Fits({}, size, [w \in {} |-> 0], top)
    BY DEF Disjoint, Fits
  <2> QED
    BY <1>1, <2>1, <2>2 DEF AtLeast
<1>4. ASSUME AtLeast({}, size, low, top) PROVE top <= low
  <2>1. ~(low \in low..(top - 1))
    BY <1>4 DEF AtLeast, Covers
  <2> QED
    BY <2>1
<1> QED
  BY <1>2, <1>3, <1>4

\* Only the sizes of what is pending matter.
LEMMA SameSizes ==
  ASSUME NEW P, NEW size, NEW size2, NEW low, NEW top,
         \A w \in P : size2[w] = size[w]
  PROVE  /\ AtMost(P, size, low, top) => AtMost(P, size2, low, top)
         /\ AtLeast(P, size, low, top) => AtLeast(P, size2, low, top)
BY DEF AtMost, AtLeast, Disjoint, Fits, Covers

\* One more comes, and the total grows by it: it is placed on top.
LEMMA OneMore ==
  ASSUME NEW P, NEW size, NEW low \in Nat, NEW top \in Nat,
         NEW w, w \notin P, Sized(P \cup {w}, size)
  PROVE  /\ AtMost(P, size, low, top) =>
              AtMost(P \cup {w}, size, low, top + size[w])
         /\ AtLeast(P, size, low, top) =>
              AtLeast(P \cup {w}, size, low, top + size[w])
<1> DEFINE Q == P \cup {w}
<1>1. ASSUME NEW at \in [P -> Nat], Disjoint(P, size, at),
             Fits(P, size, at, top)
      PROVE  LET new == [v \in Q |-> IF v = w THEN top ELSE at[v]]
             IN  /\ new \in [Q -> Nat]
                 /\ Disjoint(Q, size, new)
                 /\ Fits(Q, size, new, top + size[w])
                 /\ new[w] = top
                 /\ \A v \in P : new[v] = at[v]
  <2> DEFINE new == [v \in Q |-> IF v = w THEN top ELSE at[v]]
  <2>1. new \in [Q -> Nat] /\ new[w] = top /\ \A v \in P : new[v] = at[v]
    OBVIOUS
  <2> HIDE DEF new
  <2>2. Disjoint(Q, size, new)
    BY <1>1, <2>1 DEF Disjoint, Fits, Sized
  <2>3. Fits(Q, size, new, top + size[w])
    BY <1>1, <2>1 DEF Fits, Sized
  <2> QED
    BY <2>1, <2>2, <2>3 DEF new
<1>2. ASSUME AtMost(P, size, low, top)
      PROVE  AtMost(Q, size, low, top + size[w])
  <2>1. PICK at \in [P -> Nat] :
          /\ Disjoint(P, size, at)
          /\ Fits(P, size, at, top)
          /\ \A v \in P : low <= at[v]
    BY <1>2 DEF AtMost
  <2>2. PICK new \in [Q -> Nat] :
          /\ Disjoint(Q, size, new)
          /\ Fits(Q, size, new, top + size[w])
          /\ new[w] = top
          /\ \A v \in P : new[v] = at[v]
    BY <1>1, <2>1
  <2>3. low <= top /\ low <= top + size[w]
    BY <1>2 DEF AtMost, Sized
  <2>4. \A v \in Q : low <= new[v]
    BY <2>1, <2>2, <2>3
  <2> QED
    BY <2>2, <2>3, <2>4 DEF AtMost
<1>3. ASSUME AtLeast(P, size, low, top)
      PROVE  AtLeast(Q, size, low, top + size[w])
  <2>1. PICK at \in [P -> Nat] :
          /\ Disjoint(P, size, at)
          /\ Fits(P, size, at, top)
          /\ Covers(P, size, at, low, top)
    BY <1>3 DEF AtLeast
  <2>2. PICK new \in [Q -> Nat] :
          /\ Disjoint(Q, size, new)
          /\ Fits(Q, size, new, top + size[w])
          /\ new[w] = top
          /\ \A v \in P : new[v] = at[v]
    BY <1>1, <2>1
  <2>3. ASSUME NEW n \in low..((top + size[w]) - 1)
        PROVE  \E v \in Q : new[v] <= n /\ n < new[v] + size[v]
    <3>0. size[w] \in Nat
      BY DEF Sized
    <3>1. CASE n < top
      <4>1. n \in low..(top - 1)
        BY <3>0, <3>1
      <4> QED
        BY <2>1, <2>2, <4>1 DEF Covers
    <3>2. CASE n >= top
      BY <2>2, <3>0, <3>2
    <3> QED
      BY <3>0, <3>1, <3>2
  <2>4. Covers(Q, size, new, low, top + size[w])
    BY <2>3 DEF Covers
  <2> QED
    BY <2>2, <2>4 DEF AtLeast
<1> QED
  BY <1>2, <1>3

\* One of them is added to the part already there: what lay below it moves up.
LEMMA OneLess ==
  ASSUME NEW P, NEW size, NEW low \in Nat, NEW top \in Nat,
         NEW w \in P, Sized(P, size)
  PROVE  /\ AtMost(P, size, low, top) =>
              AtMost(P \ {w}, size, low + size[w], top)
         /\ AtLeast(P, size, low, top) =>
              AtLeast(P \ {w}, size, low + size[w], top)
<1> DEFINE Q == P \ {w}
           a == size[w]
<1>0. a \in Nat \ {0} /\ \A v \in P : size[v] \in Nat \ {0}
  BY DEF Sized
<1>1. ASSUME NEW at \in [P -> Nat], Disjoint(P, size, at),
             Fits(P, size, at, top)
      PROVE  \E new \in [Q -> Nat] :
               /\ Disjoint(Q, size, new)
               /\ Fits(Q, size, new, top)
               /\ \A v \in Q : at[v] < at[w] => new[v] = at[v] + a
               /\ \A v \in Q : at[v] >= at[w] => new[v] = at[v]
  <2> DEFINE new == [v \in Q |-> IF at[v] < at[w] THEN at[v] + a ELSE at[v]]
  <2>1. new \in [Q -> Nat]
    BY <1>0
  <2>2. /\ \A v \in Q : at[v] < at[w] => new[v] = at[v] + a
        /\ \A v \in Q : at[v] >= at[w] => new[v] = at[v]
    OBVIOUS
  <2> HIDE DEF new
  <2>3. \A v \in Q : \/ at[v] + size[v] <= at[w] /\ new[v] = at[v] + a
                     \/ at[w] + a <= at[v] /\ new[v] = at[v]
    BY <1>0, <1>1, <2>2 DEF Disjoint
  <2>4. Disjoint(Q, size, new)
    BY <1>0, <1>1, <2>1, <2>3 DEF Disjoint
  <2>5. Fits(Q, size, new, top)
    BY <1>0, <1>1, <2>1, <2>3 DEF Fits
  <2> QED
    BY <2>1, <2>2, <2>4, <2>5
<1>2. ASSUME AtMost(P, size, low, top) PROVE AtMost(Q, size, low + a, top)
  <2>1. PICK at \in [P -> Nat] :
          /\ Disjoint(P, size, at)
          /\ Fits(P, size, at, top)
          /\ \A v \in P : low <= at[v]
    BY <1>2 DEF AtMost
  <2>2. PICK new \in [Q -> Nat] :
          /\ Disjoint(Q, size, new)
          /\ Fits(Q, size, new, top)
          /\ \A v \in Q : at[v] < at[w] => new[v] = at[v] + a
          /\ \A v \in Q : at[v] >= at[w] => new[v] = at[v]
    BY <1>1, <2>1
  <2>3. low + a <= top
    BY <1>0, <2>1 DEF Fits
  <2>4. \A v \in Q : low + a <= new[v]
    BY <1>0, <2>1, <2>2 DEF Disjoint
  <2> QED
    BY <2>2, <2>3, <2>4 DEF AtMost
<1>3. ASSUME AtLeast(P, size, low, top) PROVE AtLeast(Q, size, low + a, top)
  <2>1. PICK at \in [P -> Nat] :
          /\ Disjoint(P, size, at)
          /\ Fits(P, size, at, top)
          /\ Covers(P, size, at, low, top)
    BY <1>3 DEF AtLeast
  <2>2. PICK new \in [Q -> Nat] :
          /\ Disjoint(Q, size, new)
          /\ Fits(Q, size, new, top)
          /\ \A v \in Q : at[v] < at[w] => new[v] = at[v] + a
          /\ \A v \in Q : at[v] >= at[w] => new[v] = at[v]
    BY <1>1, <2>1
  <2>3. ASSUME NEW n \in (low + a)..(top - 1)
        PROVE  \E v \in Q : new[v] <= n /\ n < new[v] + size[v]
    <3>1. CASE n < at[w] + a
      <4>1. n - a \in low..(top - 1)
        BY <1>0
      <4>2. PICK v \in P : at[v] <= n - a /\ n - a < at[v] + size[v]
        BY <2>1, <4>1 DEF Covers
      <4>3. v \in Q /\ at[v] < at[w]
        BY <1>0, <3>1, <4>2
      <4> QED
        BY <1>0, <2>2, <4>2, <4>3
    <3>2. CASE n >= at[w] + a
      <4>1. n \in low..(top - 1)
        BY <1>0
      <4>2. PICK v \in P : at[v] <= n /\ n < at[v] + size[v]
        BY <2>1, <4>1 DEF Covers
      <4>3. v \in Q
        BY <1>0, <3>2, <4>2
      <4>4. at[v] >= at[w]
        BY <1>0, <2>1, <3>2, <4>2, <4>3 DEF Disjoint
      <4> QED
        BY <1>0, <2>2, <4>2, <4>3, <4>4
    <3> QED
      BY <1>0, <3>1, <3>2
  <2> QED
    BY <2>2, <2>3 DEF AtLeast, Covers
<1> QED
  BY <1>2, <1>3

\* What is given up, and any further growth of the total, only leaves room.
LEMMA MoreRoom ==
  ASSUME NEW P, NEW Q \in SUBSET P, NEW size, Sized(P, size),
         NEW low \in Nat, NEW top \in Nat, NEW top2 \in Nat, top <= top2,
         AtMost(P, size, low, top)
  PROVE  AtMost(Q, size, low, top2)
<1>1. PICK at \in [P -> Nat] :
        /\ Disjoint(P, size, at)
        /\ Fits(P, size, at, top)
        /\ \A v \in P : low <= at[v]
  BY DEF AtMost
<1> DEFINE new == [v \in Q |-> at[v]]
<1>2. new \in [Q -> Nat] /\ \A v \in Q : new[v] = at[v]
  OBVIOUS
<1> HIDE DEF new
<1>3. Disjoint(Q, size, new) /\ Fits(Q, size, new, top2)
  BY <1>1, <1>2 DEF Disjoint, Fits, Sized
<1>4. low <= top2 /\ \A v \in Q : low <= new[v]
  BY <1>1, <1>2 DEF AtMost
<1> QED
  BY <1>2, <1>3, <1>4 DEF AtMost

\* What is counted twice only helps.
LEMMA CountedBeyond ==
  ASSUME NEW P, NEW size, NEW low \in Nat, NEW low2 \in Nat, low <= low2,
         NEW top \in Nat, AtLeast(P, size, low, top)
  PROVE  AtLeast(P, size, low2, top)
<1>1. \A n \in low2..(top - 1) : n \in low..(top - 1)
  OBVIOUS
<1> QED
  BY <1>1 DEF AtLeast, Covers

-----------------------------------------------------------------------------
(***************************************************************************)
(* One handler's step: who moves, and what it leaves alone.                *)
(***************************************************************************)
StepOf(w) ==
  \/ \E c \in Customers, m \in Merchants, k \in Keys, a \in Amounts :
       PayBegin(w, c, m, k, a)
  \/ \E t \in Txns, m \in Merchants :
       \/ \E a \in Amounts \cup {None} : RefundBegin(w, t, m, a)
       \/ VoidBegin(w, t, m)
  \/ \E c \in Customers, token \in Tokens : ReplaceBegin(w, c, token)
  \/ WorkerStep(w)

LEMMA Steps == Next <=> Restart \/ \E w \in Workers : StepOf(w)
BY DEF Next, StepOf

At(w, pcs, t) == worker[w].pc \in pcs /\ worker[w].txn = t

\* A step of one handler leaves the others where they are.
LEMMA OthersStay ==
  ASSUME TypeOK, NEW w \in Workers, StepOf(w)
  PROVE  \A v \in Workers \ {w} : worker'[v] = worker[v]
<1> USE DEF TypeOK
<1>1. ASSUME NEW c \in Customers, NEW m \in Merchants, NEW k \in Keys,
             NEW a \in Amounts, PayBegin(w, c, m, k, a)
      PROVE  \A v \in Workers \ {w} : worker'[v] = worker[v]
  BY <1>1 DEF PayBegin
<1>2. ASSUME NEW t \in Txns, NEW m \in Merchants,
             NEW a \in Amounts \cup {None}, RefundBegin(w, t, m, a)
      PROVE  \A v \in Workers \ {w} : worker'[v] = worker[v]
  BY <1>2 DEF RefundBegin
<1>3. ASSUME NEW t \in Txns, NEW m \in Merchants, VoidBegin(w, t, m)
      PROVE  \A v \in Workers \ {w} : worker'[v] = worker[v]
  BY <1>3 DEF VoidBegin
<1>4. ASSUME NEW c \in Customers, NEW token \in Tokens,
             ReplaceBegin(w, c, token)
      PROVE  \A v \in Workers \ {w} : worker'[v] = worker[v]
  BY <1>4 DEF ReplaceBegin
<1>5. ASSUME NEW t \in Txns, PayAuthorize(w, t)
      PROVE  \A v \in Workers \ {w} : worker'[v] = worker[v]
  BY <1>5 DEF PayAuthorize
<1>6. CASE \/ PayGatewayError(w) \/ PayAudit(w) \/ RefundRefused(w)
           \/ RefundAudit(w) \/ VoidRefused(w) \/ VoidAudit(w)
           \/ ReplaceRecord(w) \/ StorageFault(w)
  BY <1>6 DEF PayGatewayError, PayAudit, RefundRefused, RefundAudit,
              VoidRefused, VoidAudit, ReplaceRecord, StorageFault, Finish
<1>7. CASE \/ PayRecord(w) \/ PayCount(w) \/ RefundAtGateway(w)
           \/ RefundRecord(w) \/ VoidAtGateway(w) \/ VoidRecord(w)
  BY <1>7 DEF PayRecord, PayCount, RefundAtGateway, RefundRecord,
              VoidAtGateway, VoidRecord, Advance
<1> QED
  BY <1>1, <1>2, <1>3, <1>4, <1>5, <1>6, <1>7 DEF StepOf, WorkerStep

\* A handler that goes on to its next call keeps everything else.
LEMMA GoesOn ==
  ASSUME TypeOK, NEW w \in Workers, NEW pc, Advance(w, pc)
  PROVE  /\ worker'[w].pc = pc
         /\ worker'[w].txn = worker[w].txn
         /\ worker'[w].amount = worker[w].amount
         /\ worker'[w].approved = worker[w].approved
         /\ worker'[w].customer = worker[w].customer
         /\ worker'[w].sca = worker[w].sca
BY DEF Advance, TypeOK, Job

LEMMA Ends ==
  ASSUME TypeOK, NEW w \in Workers, Finish(w)
  PROVE  worker'[w] = Idle
BY DEF Finish, TypeOK

\* What the calls before the first commit leave behind.
LEMMA Starts ==
  ASSUME TypeOK, NEW w \in Workers,
         \/ \E c \in Customers, m \in Merchants, k \in Keys, a \in Amounts :
              PayBegin(w, c, m, k, a)
         \/ \E t \in Txns, m \in Merchants :
              \/ \E a \in Amounts \cup {None} : RefundBegin(w, t, m, a)
              \/ VoidBegin(w, t, m)
         \/ \E c \in Customers, token \in Tokens : ReplaceBegin(w, c, token)
  PROVE  /\ worker[w].pc = "idle"
         /\ worker'[w].pc \in {"authorize", "gateway_refund", "gateway_void",
                               "update_payment_token"}
         /\ UNCHANGED <<transactions, statement, tables, exempt, mishap>>
<1> USE DEF TypeOK
<1>1. ASSUME NEW c \in Customers, NEW m \in Merchants, NEW k \in Keys,
             NEW a \in Amounts, PayBegin(w, c, m, k, a)
      PROVE  worker[w].pc = "idle" /\ worker'[w].pc = "authorize"
  BY <1>1 DEF PayBegin, Idle
<1>2. ASSUME NEW t \in Txns, NEW m \in Merchants,
             NEW a \in Amounts \cup {None}, RefundBegin(w, t, m, a)
      PROVE  worker[w].pc = "idle" /\ worker'[w].pc = "gateway_refund"
  BY <1>2 DEF RefundBegin, JobOn, Idle
<1>3. ASSUME NEW t \in Txns, NEW m \in Merchants, VoidBegin(w, t, m)
      PROVE  worker[w].pc = "idle" /\ worker'[w].pc = "gateway_void"
  BY <1>3 DEF VoidBegin, JobOn, Idle
<1>4. ASSUME NEW c \in Customers, NEW token \in Tokens,
             ReplaceBegin(w, c, token)
      PROVE  worker[w].pc = "idle" /\ worker'[w].pc = "update_payment_token"
  BY <1>4 DEF ReplaceBegin, Idle
<1>5. UNCHANGED <<transactions, statement, tables, exempt, mishap>>
  BY DEF PayBegin, RefundBegin, VoidBegin, ReplaceBegin, Tokenize, gatewayVars
<1> QED
  BY <1>1, <1>2, <1>3, <1>4, <1>5

\* An answer that is not an approval goes straight to the audit log.
LEMMA Authorized ==
  ASSUME TypeOK, NEW w \in Workers, NEW t \in Txns, PayAuthorize(w, t)
  PROVE  /\ worker[w].pc = "authorize"
         /\ worker'[w].pc = IF worker'[w].approved THEN "record_payment"
                            ELSE "audit_payment"
         /\ UNCHANGED <<payments, audit, mishap>>
<1>1. worker'[w].pc = IF worker'[w].approved THEN "record_payment"
                      ELSE "audit_payment"
  BY DEF PayAuthorize, TypeOK, Job
<1> QED
  BY <1>1 DEF PayAuthorize, tables

\* Where a handler's transaction is one.
LEMMA TxnKnown ==
  ASSUME Inv, NEW w \in Workers
  PROVE  /\ worker[w].pc \in RefundPcs \cup VoidPcs => worker[w].txn \in Txns
         /\ worker[w].pc \in {"record_payment", "count_use"} =>
              worker[w].approved
         /\ worker[w].pc \in PayPcs /\ worker[w].approved =>
              worker[w].txn \in Txns /\ worker[w].charged > 0
BY DEF Inv, JobsOK, JobOK, PayJobOK, ReversalJobOK

-----------------------------------------------------------------------------
(***************************************************************************)
(* Refunds: the acquirer credits before the service books. What is booked  *)
(* and what the handlers between the two calls are about to book fits into *)
(* what was credited.                                                      *)
(***************************************************************************)
Refunding(t) == {w \in Workers : At(w, {"record_refund"}, t)}
Asked == [w \in Workers |-> worker[w].amount]

TokensKnown ==
  \A t \in Txns :
    transactions[t].status # "none" => transactions[t].token \in accounts

RefundJobs ==
  \A w \in Workers :
    worker[w].pc \in {"gateway_refund", "record_refund"} =>
      worker[w].amount > 0

RefundsInv ==
  /\ TokensKnown
  /\ RefundJobs
  /\ \A t \in Txns :
       AtMost(Refunding(t), Asked, payments[t].refunded, statement[t].credited)

LEMMA RefundsInit == Init => RefundsInv
<1> SUFFICES ASSUME Init PROVE RefundsInv
  OBVIOUS
<1>1. TokensKnown /\ RefundJobs
  BY DEF Init, TokensKnown, RefundJobs, NoTransaction, Idle
<1>2. ASSUME NEW t \in Txns
      PROVE  AtMost(Refunding(t), Asked, payments[t].refunded,
                    statement[t].credited)
  <2>1. /\ Refunding(t) = {}
        /\ payments[t].refunded = 0 /\ statement[t].credited = 0
    BY DEF Init, Refunding, At, Idle, NoRow, NoEntry
  <2> QED
    BY <2>1, NothingPending
<1> QED
  BY <1>1, <1>2 DEF RefundsInv

\* No refund is added, and none is booked.
LEMMA RefundsKept ==
  ASSUME TypeOK, TypeOK', RefundsInv, NEW w \in Workers,
         \A v \in Workers \ {w} : worker'[v] = worker[v],
         worker'[w].pc # "record_refund",
         worker'[w].pc = "gateway_refund" => worker'[w].amount > 0,
         TokensKnown',
         \A t \in Txns : /\ payments'[t].refunded = payments[t].refunded
                         /\ statement[t].credited <= statement'[t].credited
  PROVE  RefundsInv'
<1>1. RefundJobs'
  BY DEF RefundJobs, RefundsInv
<1>2. ASSUME NEW t \in Txns
      PROVE  AtMost(Refunding(t), Asked, payments[t].refunded,
                    statement[t].credited)'
  <2>1. /\ Refunding(t)' \in SUBSET Refunding(t)
        /\ \A v \in Refunding(t)' : Asked'[v] = Asked[v]
    BY DEF Refunding, At, Asked
  <2>2. Sized(Refunding(t), Asked)
    BY DEF Sized, Refunding, At, Asked, RefundsInv, RefundJobs, TypeOK, Job
  <2>3. /\ payments[t].refunded \in Nat
        /\ statement[t].credited \in Nat /\ statement'[t].credited \in Nat
    BY DEF TypeOK, GatewayTypeOK, PaymentRow, Entry
  <2>4. AtMost(Refunding(t)', Asked, payments[t].refunded,
               statement'[t].credited)
    BY <2>1, <2>2, <2>3, MoreRoom DEF RefundsInv
  <2> QED
    BY <2>1, <2>4, SameSizes
<1> QED
  BY <1>1, <1>2 DEF RefundsInv

LEMMA RefundsBegin ==
  ASSUME Inv, TypeOK', RefundsInv, NEW w \in Workers,
         \/ \E c \in Customers, m \in Merchants, k \in Keys, a \in Amounts :
              PayBegin(w, c, m, k, a)
         \/ \E t \in Txns, m \in Merchants :
              \/ \E a \in Amounts \cup {None} : RefundBegin(w, t, m, a)
              \/ VoidBegin(w, t, m)
         \/ \E c \in Customers, token \in Tokens : ReplaceBegin(w, c, token)
  PROVE  RefundsInv'
<1>1. \A v \in Workers \ {w} : worker'[v] = worker[v]
  BY OthersStay DEF StepOf, Inv
<1>2. /\ UNCHANGED <<transactions, statement, payments>>
      /\ accounts \subseteq accounts'
  BY DEF PayBegin, RefundBegin, VoidBegin, ReplaceBegin, Tokenize,
         gatewayVars, tables
<1>3. TokensKnown'
  BY <1>2 DEF TokensKnown, RefundsInv
<1>4. /\ worker'[w].pc # "record_refund"
      /\ worker'[w].pc = "gateway_refund" => worker'[w].amount > 0
  <2> USE DEF Inv, TypeOK
  <2>1. ASSUME NEW c \in Customers, NEW m \in Merchants, NEW k \in Keys,
               NEW a \in Amounts, PayBegin(w, c, m, k, a)
        PROVE  worker'[w].pc = "authorize"
    BY <2>1 DEF PayBegin, Idle
  <2>2. ASSUME NEW t \in Txns, NEW m \in Merchants,
               NEW a \in Amounts \cup {None}, RefundBegin(w, t, m, a)
        PROVE  worker'[w].pc = "gateway_refund" /\ worker'[w].amount > 0
    BY <2>2 DEF RefundBegin, JobOn, Idle
  <2>3. ASSUME NEW t \in Txns, NEW m \in Merchants, VoidBegin(w, t, m)
        PROVE  worker'[w].pc = "gateway_void"
    BY <2>3 DEF VoidBegin, JobOn, Idle
  <2>4. ASSUME NEW c \in Customers, NEW token \in Tokens,
               ReplaceBegin(w, c, token)
        PROVE  worker'[w].pc = "update_payment_token"
    BY <2>4 DEF ReplaceBegin, Idle
  <2> QED
    BY <2>1, <2>2, <2>3, <2>4
<1> QED
  BY <1>1, <1>2, <1>3, <1>4, RefundsKept DEF Inv, TypeOK, GatewayTypeOK, Entry

LEMMA PendingSized ==
  ASSUME TypeOK, RefundJobs, NEW t \in Txns
  PROVE  Sized(Refunding(t), Asked)
BY DEF Sized, Refunding, At, Asked, RefundJobs, TypeOK, Job

\* A handler that has no refund to book, before and after its step.
LEMMA PendingStays ==
  ASSUME NEW w \in Workers,
         \A v \in Workers \ {w} : worker'[v] = worker[v],
         worker[w].pc # "record_refund", worker'[w].pc # "record_refund",
         NEW t \in Txns, NEW low, NEW top
  PROVE  /\ AtMost(Refunding(t), Asked, low, top) =>
              AtMost(Refunding(t)', Asked', low, top)
         /\ AtLeast(Refunding(t), Asked, low, top) =>
              AtLeast(Refunding(t)', Asked', low, top)
<1>1. Refunding(t)' = Refunding(t)
  BY DEF Refunding, At
<1>2. \A v \in Refunding(t) : Asked'[v] = Asked[v]
  BY DEF Refunding, At, Asked
<1> QED
  BY <1>1, <1>2, SameSizes

\* The acquirer has refunded; the books have not.
LEMMA PendingComes ==
  ASSUME TypeOK, TypeOK', RefundJobs, NEW w \in Workers,
         \A v \in Workers \ {w} : worker'[v] = worker[v],
         worker[w].pc = "gateway_refund",
         worker'[w].pc = "record_refund",
         worker'[w].txn = worker[w].txn,
         worker'[w].amount = worker[w].amount,
         NEW t \in Txns, NEW low \in Nat, NEW top \in Nat
  PROVE  LET more == IF t = worker[w].txn THEN worker[w].amount ELSE 0
         IN  /\ AtMost(Refunding(t), Asked, low, top) =>
                  AtMost(Refunding(t)', Asked', low, top + more)
             /\ AtLeast(Refunding(t), Asked, low, top) =>
                  AtLeast(Refunding(t)', Asked', low, top + more)
<1>1. /\ worker'[w].pc = "record_refund"
      /\ worker'[w].txn = worker[w].txn
      /\ worker'[w].amount = worker[w].amount
      /\ worker[w].amount \in Nat \ {0}
  BY DEF TypeOK, Job, RefundJobs
<1>2. RefundJobs'
  BY <1>1 DEF RefundJobs
<1>3. \A v \in Refunding(t) : Asked'[v] = Asked[v]
  BY <1>1 DEF Refunding, At, Asked
<1>4. CASE t = worker[w].txn
  <2>1. Refunding(t)' = Refunding(t) \cup {w} /\ w \notin Refunding(t)
    <3>1. \A v \in Workers : /\ v = w => worker'[v].pc = "record_refund"
                             /\ v = w => worker'[v].txn = t
                             /\ v # w => worker'[v] = worker[v]
      BY <1>1, <1>4
    <3> QED
      BY <3>1 DEF Refunding, At
  <2>2. Sized(Refunding(t) \cup {w}, Asked')
    <3>1. \A v \in Refunding(t) : Asked[v] \in Nat \ {0}
      BY PendingSized DEF Sized
    <3>2. Asked'[w] \in Nat \ {0}
      BY <1>1 DEF Asked
    <3> QED
      BY <1>3, <3>1, <3>2 DEF Sized
  <2>3. Asked'[w] = worker[w].amount
    BY <1>1 DEF Asked
  <2> QED
    BY <1>3, <1>4, <2>1, <2>2, <2>3, SameSizes, OneMore
<1>5. CASE t # worker[w].txn
  <2>1. Refunding(t)' = Refunding(t)
    BY <1>1, <1>5 DEF Refunding, At
  <2> QED
    BY <1>3, <1>5, <2>1, SameSizes
<1> QED
  BY <1>4, <1>5

\* The refund is booked.
LEMMA PendingGoes ==
  ASSUME TypeOK, RefundJobs, NEW w \in Workers,
         \A v \in Workers \ {w} : worker'[v] = worker[v],
         worker[w].pc = "record_refund", worker'[w].pc # "record_refund",
         NEW t \in Txns, NEW low \in Nat, NEW top \in Nat
  PROVE  LET more == IF t = worker[w].txn THEN worker[w].amount ELSE 0
         IN  /\ AtMost(Refunding(t), Asked, low, top) =>
                  AtMost(Refunding(t)', Asked', low + more, top)
             /\ AtLeast(Refunding(t), Asked, low, top) =>
                  AtLeast(Refunding(t)', Asked', low + more, top)
<1>1. \A v \in Refunding(t) \ {w} : Asked'[v] = Asked[v]
  BY DEF Refunding, At, Asked
<1>2. CASE t = worker[w].txn
  <2>1. Refunding(t)' = Refunding(t) \ {w} /\ w \in Refunding(t)
    BY <1>2 DEF Refunding, At
  <2>2. Sized(Refunding(t), Asked) /\ Asked[w] = worker[w].amount
    BY PendingSized DEF Asked
  <2> DEFINE P == Refunding(t)
             a == worker[w].amount
  <2>3. /\ AtMost(P, Asked, low, top) => AtMost(P \ {w}, Asked, low + a, top)
        /\ AtLeast(P, Asked, low, top) => AtLeast(P \ {w}, Asked, low + a, top)
    BY <2>1, <2>2, OneLess
  <2>4. /\ AtMost(P \ {w}, Asked, low + a, top) =>
             AtMost(P \ {w}, Asked', low + a, top)
        /\ AtLeast(P \ {w}, Asked, low + a, top) =>
             AtLeast(P \ {w}, Asked', low + a, top)
    BY <1>1, SameSizes
  <2> QED
    BY <1>2, <2>1, <2>3, <2>4
<1>3. CASE t # worker[w].txn
  <2>1. Refunding(t)' = Refunding(t) /\ w \notin Refunding(t)
    BY <1>3 DEF Refunding, At
  <2> QED
    BY <1>1, <1>3, <2>1, SameSizes
<1> QED
  BY <1>2, <1>3

LEMMA RefundsAuthorize ==
  ASSUME Inv, TypeOK', RefundsInv, NEW w \in Workers, NEW t \in Txns,
         PayAuthorize(w, t)
  PROVE  RefundsInv'
<1>1. \A v \in Workers \ {w} : worker'[v] = worker[v]
  BY OthersStay DEF StepOf, WorkerStep, Inv
<1>2. worker'[w].pc \in {"record_payment", "audit_payment"}
  BY DEF PayAuthorize, Inv, TypeOK, Job
<1>3. UNCHANGED <<accounts, payments>>
  BY DEF PayAuthorize, Authorize, AnswerFromCache, Decline, Approve,
         ChargeCard, gatewayVars, tables
<1>4. /\ TokensKnown'
      /\ \A u \in Txns : statement[u].credited <= statement'[u].credited
  <2> USE DEF Inv, TypeOK, GatewayTypeOK, RefundsInv
  <2>1. CASE UNCHANGED <<transactions, statement>>
    BY <1>3, <2>1 DEF TokensKnown, Entry
  <2>2. CASE Approve(RequestOf(worker[w]), t)
    <3>1. /\ worker[w].token \in accounts
          /\ statement[t] = NoEntry
          /\ transactions'[t].token = worker[w].token
          /\ statement'[t].credited = 0
          /\ \A u \in Txns \ {t} : /\ transactions'[u] = transactions[u]
                                   /\ statement'[u] = statement[u]
      <4>1. /\ worker[w].token \in accounts
            /\ statement[t] = NoEntry
            /\ transactions' = [transactions EXCEPT ![t] =
                 [status |-> "approved", token |-> worker[w].token,
                  amount |-> worker[w].amount, captured |-> FALSE,
                  refunded |-> 0]]
            /\ statement' = [statement EXCEPT ![t] =
                 [charged |-> worker[w].amount, credited |-> 0,
                  key |-> worker[w].key]]
        BY <2>2 DEF Approve, Approves, ChargeCard, RequestOf
      <4>2. /\ transactions'[t].token = worker[w].token
            /\ statement'[t].credited = 0
        BY <4>1
      <4>3. \A u \in Txns \ {t} : /\ transactions'[u] = transactions[u]
                                   /\ statement'[u] = statement[u]
        BY <4>1
      <4> QED
        BY <4>1, <4>2, <4>3
    <3>2. TokensKnown'
      BY <1>3, <3>1 DEF TokensKnown
    <3>3. \A u \in Txns : statement[u] \in Entry /\ statement'[u] \in Entry
      OBVIOUS
    <3> QED
      BY <3>1, <3>2, <3>3 DEF Entry, NoEntry
  <2> QED
    BY <2>1, <2>2 DEF PayAuthorize, Authorize, AnswerFromCache, Decline,
                      gatewayVars
<1> QED
  BY <1>1, <1>2, <1>3, <1>4, RefundsKept DEF Inv

LEMMA RefundsAtGateway ==
  ASSUME Inv, TypeOK', RefundsInv, NEW w \in Workers, RefundAtGateway(w)
  PROVE  RefundsInv'
<1> DEFINE t == worker[w].txn
           a == worker[w].amount
<1>1. /\ \A v \in Workers \ {w} : worker'[v] = worker[v]
      /\ worker[w].pc = "gateway_refund"
      /\ worker'[w].pc = "record_refund"
      /\ worker'[w].txn = worker[w].txn
      /\ worker'[w].amount = worker[w].amount
  BY OthersStay DEF StepOf, WorkerStep, Inv, TypeOK, Job, RefundAtGateway,
                    Advance
<1>2. t \in Txns /\ a \in Nat \ {0}
  BY <1>1 DEF Inv, JobsOK, JobOK, ReversalJobOK, RefundPcs, RefundsInv,
              RefundJobs, TypeOK, Job
<1>3. /\ transactions[t].status = "approved"
      /\ transactions' = [transactions EXCEPT ![t].refunded = @ + a]
      /\ Credit(t, a)
      /\ UNCHANGED <<accounts, payments>>
  BY <1>2 DEF RefundAtGateway, GatewayRefund, Refundable, OrAll, tables
<1>4. statement' = [statement EXCEPT ![t].credited = @ + a]
  BY <1>2, <1>3 DEF Credit, RefundsInv, TokensKnown
<1>5. \A u \in Txns :
        /\ transactions'[u].status = transactions[u].status
        /\ transactions'[u].token = transactions[u].token
        /\ statement'[u].credited =
             statement[u].credited + (IF u = t THEN a ELSE 0)
  BY <1>2, <1>3, <1>4 DEF Inv, TypeOK, GatewayTypeOK, Transaction, Entry
<1>6. TokensKnown'
  BY <1>3, <1>5 DEF TokensKnown, RefundsInv
<1>7. RefundJobs'
  BY <1>1, <1>2 DEF RefundJobs, RefundsInv, Inv, TypeOK, Job
<1>8. ASSUME NEW u \in Txns
      PROVE  AtMost(Refunding(u), Asked, payments[u].refunded,
                    statement[u].credited)'
  <2>1. payments[u].refunded \in Nat /\ statement[u].credited \in Nat
    BY DEF Inv, TypeOK, GatewayTypeOK, PaymentRow, Entry
  <2>2. AtMost(Refunding(u)', Asked', payments[u].refunded,
               statement[u].credited + (IF u = t THEN a ELSE 0))
    BY <1>1, <2>1, PendingComes DEF RefundsInv, Inv
  <2> QED
    BY <1>3, <1>5, <2>2
<1> QED
  BY <1>6, <1>7, <1>8 DEF RefundsInv

LEMMA RefundsAfterBooking ==
  ASSUME Inv, TypeOK', RefundsInv, NEW w \in Workers, RefundRecord(w)
  PROVE  RefundsInv'
<1> DEFINE t == worker[w].txn
           a == worker[w].amount
<1>1. /\ \A v \in Workers \ {w} : worker'[v] = worker[v]
      /\ worker[w].pc = "record_refund"
      /\ worker'[w].pc = "audit_refund"
      /\ UNCHANGED gatewayVars
  BY OthersStay DEF StepOf, WorkerStep, Inv, TypeOK, Job, RefundRecord, Advance
<1>2. t \in Txns /\ a \in Nat \ {0}
  BY <1>1 DEF Inv, JobsOK, JobOK, ReversalJobOK, RefundPcs, RefundsInv,
              RefundJobs, TypeOK, Job
<1>3. \A u \in Txns :
        payments'[u].refunded =
          payments[u].refunded + (IF u = t THEN a ELSE 0)
  BY <1>2 DEF RefundRecord, Inv, TypeOK, PaymentRow
<1>4. TokensKnown' /\ RefundJobs'
  BY <1>1 DEF gatewayVars, TokensKnown, RefundJobs, RefundsInv
<1>5. ASSUME NEW u \in Txns
      PROVE  AtMost(Refunding(u), Asked, payments[u].refunded,
                    statement[u].credited)'
  <2>1. payments[u].refunded \in Nat /\ statement[u].credited \in Nat
    BY DEF Inv, TypeOK, GatewayTypeOK, PaymentRow, Entry
  <2>2. AtMost(Refunding(u)', Asked',
               payments[u].refunded + (IF u = t THEN a ELSE 0),
               statement[u].credited)
    BY <1>1, <2>1, PendingGoes DEF RefundsInv, Inv
  <2> QED
    BY <1>1, <1>3, <2>2 DEF gatewayVars
<1> QED
  BY <1>4, <1>5 DEF RefundsInv

LEMMA RefundsVoid ==
  ASSUME Inv, TypeOK', RefundsInv, NEW w \in Workers, VoidAtGateway(w)
  PROVE  RefundsInv'
<1> DEFINE t == worker[w].txn
<1>1. /\ \A v \in Workers \ {w} : worker'[v] = worker[v]
      /\ worker[w].pc = "gateway_void"
      /\ worker'[w].pc = "mark_voided"
  BY OthersStay DEF StepOf, WorkerStep, Inv, TypeOK, Job, VoidAtGateway, Advance
<1>2. t \in Txns
  BY <1>1 DEF Inv, JobsOK, JobOK, ReversalJobOK, VoidPcs
<1>3. /\ transactions[t].status # "none"
      /\ transactions' = [transactions EXCEPT ![t].status = "voided",
                                              ![t].amount = 0]
      /\ Credit(t, transactions[t].amount)
      /\ UNCHANGED <<accounts, payments>>
  BY DEF VoidAtGateway, GatewayVoid, Voidable, tables
<1>4. /\ \A u \in Txns : transactions'[u].token = transactions[u].token
      /\ \A u \in Txns :
           transactions'[u].status # "none" => transactions[u].status # "none"
      /\ accounts' = accounts
  BY <1>2, <1>3 DEF Inv, TypeOK, GatewayTypeOK, Transaction
<1>5. TokensKnown'
  BY <1>4 DEF TokensKnown, RefundsInv
<1>6. \A u \in Txns : statement[u].credited <= statement'[u].credited
  BY <1>2, <1>3 DEF Credit, Inv, TypeOK, GatewayTypeOK, Transaction, Entry
<1> QED
  BY <1>1, <1>3, <1>5, <1>6, RefundsKept DEF Inv

\* A step at neither of these calls.
LEMMA RefundsElsewhere ==
  ASSUME Inv, TypeOK', RefundsInv, NEW w \in Workers,
         \/ PayGatewayError(w) \/ PayRecord(w) \/ PayCount(w) \/ PayAudit(w)
         \/ RefundRefused(w) \/ RefundAudit(w)
         \/ VoidRefused(w) \/ VoidRecord(w) \/ VoidAudit(w)
         \/ ReplaceRecord(w) \/ StorageFault(w)
  PROVE  RefundsInv'
<1>1. \A v \in Workers \ {w} : worker'[v] = worker[v]
  BY OthersStay DEF StepOf, WorkerStep, Inv
<1>2. UNCHANGED gatewayVars
  BY DEF PayGatewayError, PayRecord, PayCount, PayAudit, RefundRefused,
         RefundAudit, VoidRefused, VoidRecord, VoidAudit, ReplaceRecord,
         StorageFault
<1>3. worker'[w].pc \in {"idle", "count_use", "audit_payment", "audit_void"}
  <2> USE DEF Inv, TypeOK, Job
  <2>1. CASE PayRecord(w) \/ PayCount(w) \/ VoidRecord(w)
    BY <2>1 DEF PayRecord, PayCount, VoidRecord, Advance
  <2>2. CASE Finish(w)
    BY <2>2 DEF Finish, Idle
  <2> QED
    BY <2>1, <2>2 DEF PayGatewayError, PayAudit, RefundRefused, RefundAudit,
                      VoidRefused, VoidAudit, ReplaceRecord, StorageFault
<1>4. \A t \in Txns : payments'[t].refunded = payments[t].refunded
  <2>1. CASE PayRecord(w)
    BY <2>1 DEF PayRecord, InsertOrIgnore, RowOf, NoRow, Inv, TypeOK
  <2>2. CASE VoidRecord(w)
    BY <2>2 DEF VoidRecord, Inv, TypeOK, PaymentRow
  <2>3. CASE UNCHANGED payments
    BY <2>3
  <2> QED
    BY <2>1, <2>2, <2>3
       DEF PayGatewayError, PayCount, PayAudit, RefundRefused, RefundAudit,
           VoidRefused, VoidAudit, ReplaceRecord, StorageFault, tables
<1>5. /\ TokensKnown'
      /\ \A t \in Txns : statement[t].credited <= statement'[t].credited
  BY <1>2 DEF gatewayVars, TokensKnown, RefundsInv, Inv, TypeOK,
              GatewayTypeOK, Entry
<1> QED
  BY <1>1, <1>3, <1>4, <1>5, RefundsKept DEF Inv

LEMMA RefundsRestart ==
  ASSUME TypeOK, RefundsInv, Restart
  PROVE  RefundsInv'
<1>1. /\ \A t \in Txns : transactions'[t].status = "none"
      /\ \A v \in Workers : worker'[v].pc = "idle"
      /\ UNCHANGED <<payments, statement>>
  BY DEF Restart, NoTransaction, Idle, tables
<1>2. TokensKnown' /\ RefundJobs'
  BY <1>1 DEF TokensKnown, RefundJobs
<1>3. ASSUME NEW t \in Txns
      PROVE  AtMost(Refunding(t), Asked, payments[t].refunded,
                    statement[t].credited)'
  <2>1. /\ Refunding(t)' = {}
        /\ payments[t].refunded \in Nat /\ statement[t].credited \in Nat
        /\ payments[t].refunded <= statement[t].credited
    BY <1>1 DEF Refunding, At, TypeOK, GatewayTypeOK, PaymentRow, Entry,
                RefundsInv, AtMost
  <2> QED
    BY <1>1, <2>1, NothingPending
<1> QED
  BY <1>2, <1>3 DEF RefundsInv

LEMMA RefundsStep ==
  ASSUME Inv, Inv', RefundsInv, [Next]_vars
  PROVE  RefundsInv'
<1>1. TypeOK /\ TypeOK'
  BY DEF Inv
<1>2. CASE Restart
  BY <1>1, <1>2, RefundsRestart
<1>3. ASSUME NEW w \in Workers, StepOf(w) PROVE RefundsInv'
  BY <1>1, <1>3, RefundsBegin, RefundsAuthorize, RefundsAtGateway,
     RefundsAfterBooking, RefundsVoid, RefundsElsewhere DEF StepOf, WorkerStep
<1>4. CASE UNCHANGED vars
  BY <1>4 DEF vars, RefundsInv, TokensKnown, RefundJobs, Refunding, At, Asked
<1> QED
  BY <1>2, <1>3, <1>4, Steps

(***************************************************************************)
(* The books never run ahead of the money, whatever fails and however many *)
(* handlers refund the same payment.                                       *)
(***************************************************************************)
THEOREM RefundsNeverLead == Spec => []RefundsNeverAhead
<1>1. Inv /\ Inv' /\ RefundsInv /\ [Next]_vars => RefundsInv'
  BY RefundsStep
<1>2. RefundsInv => RefundsNeverAhead
  BY DEF RefundsInv, RefundsNeverAhead, AtMost
<1> QED
  BY RefundsInit, <1>1, <1>2, Invariance, PTL DEF Spec

-----------------------------------------------------------------------------
(***************************************************************************)
(* The rows of the payments table only grow.                               *)
(***************************************************************************)
\* What may happen to a row.
RowKept(t) ==
  /\ payments'[t].refunded >= payments[t].refunded
  /\ payments[t].voided => payments'[t].voided
  /\ Recorded(t) => /\ Recorded(t)'
                    /\ payments'[t].merchant = payments[t].merchant
                    /\ payments'[t].customer = payments[t].customer
                    /\ payments'[t].amount = payments[t].amount

LEMMA RowsGrow ==
  ASSUME Inv, [Next]_vars, NEW t \in Txns
  PROVE  RowKept(t)
<1>1. payments[t] \in PaymentRow /\ (Recorded(t) <=> payments[t].amount > 0)
  BY DEF Inv, TypeOK, RowsOK, Recorded, NoRow
<1>2. CASE payments'[t] = payments[t]
  BY <1>1, <1>2 DEF RowKept, Recorded, PaymentRow
<1>3. ASSUME NEW w \in Workers, PayRecord(w) PROVE RowKept(t)
  <2>1. CASE payments'[t] = payments[t]
    BY <1>2, <2>1
  <2>2. CASE payments'[t] # payments[t]
    <3>1. /\ payments[worker[w].txn] = NoRow
          /\ payments' = [payments EXCEPT ![worker[w].txn] = RowOf(worker[w])]
      BY <1>3, <2>2 DEF PayRecord, InsertOrIgnore
    <3>2. t = worker[w].txn /\ payments'[t] = RowOf(worker[w])
      BY <2>2, <3>1 DEF Inv, TypeOK
    <3>3. payments'[t].refunded = 0 /\ ~payments[t].voided
      BY <3>1, <3>2 DEF RowOf, NoRow
    <3> QED
      BY <3>1, <3>2, <3>3 DEF RowKept, Recorded, NoRow
  <2> QED
    BY <2>1, <2>2
<1>4. ASSUME NEW w \in Workers, RefundRecord(w) PROVE RowKept(t)
  <2>1. payments' = [payments EXCEPT ![worker[w].txn].refunded =
                       @ + worker[w].amount]
    BY <1>4 DEF RefundRecord
  <2>2. CASE t = worker[w].txn
    <3>1. payments'[t] = [payments[t] EXCEPT !.refunded = @ + worker[w].amount]
      BY <2>1, <2>2 DEF Inv, TypeOK
    <3>2. worker[w].amount \in Nat
      BY DEF Inv, TypeOK, Job
    <3>3. /\ payments'[t].merchant = payments[t].merchant
          /\ payments'[t].customer = payments[t].customer
          /\ payments'[t].amount = payments[t].amount
          /\ payments'[t].refunded >= payments[t].refunded
          /\ payments'[t].voided = payments[t].voided
      BY <1>1, <3>1, <3>2 DEF PaymentRow
    <3> QED
      BY <1>1, <3>3 DEF RowKept, Recorded, NoRow
  <2>3. CASE t # worker[w].txn
    BY <1>2, <2>1, <2>3 DEF Inv, TypeOK
  <2> QED
    BY <2>2, <2>3
<1>8. ASSUME NEW w \in Workers, VoidRecord(w) PROVE RowKept(t)
  <2>1. payments' = [payments EXCEPT ![worker[w].txn].voided = TRUE]
    BY <1>8 DEF VoidRecord
  <2>2. CASE t = worker[w].txn
    <3>1. payments'[t] = [payments[t] EXCEPT !.voided = TRUE]
      BY <2>1, <2>2 DEF Inv, TypeOK
    <3>3. /\ payments'[t].merchant = payments[t].merchant
          /\ payments'[t].customer = payments[t].customer
          /\ payments'[t].amount = payments[t].amount
          /\ payments'[t].refunded >= payments[t].refunded
          /\ payments'[t].voided
      BY <1>1, <3>1 DEF PaymentRow
    <3> QED
      BY <1>1, <3>3 DEF RowKept, Recorded, NoRow
  <2>3. CASE t # worker[w].txn
    BY <1>2, <2>1, <2>3 DEF Inv, TypeOK
  <2> QED
    BY <2>2, <2>3
<1>5. CASE UNCHANGED payments
  BY <1>2, <1>5
<1>6. ASSUME NEW w \in Workers, StepOf(w) PROVE RowKept(t)
  <2>1. CASE \E u \in Txns : PayAuthorize(w, u)
    BY <1>5, <2>1 DEF PayAuthorize, tables
  <2>2. CASE ~WorkerStep(w)
    BY <1>5, <1>6, <2>2, Starts DEF StepOf, tables, Inv
  <2>3. CASE \/ PayGatewayError(w) \/ PayCount(w) \/ PayAudit(w)
             \/ RefundAtGateway(w) \/ RefundRefused(w) \/ RefundAudit(w)
             \/ VoidAtGateway(w) \/ VoidRefused(w) \/ VoidAudit(w)
             \/ ReplaceRecord(w) \/ StorageFault(w)
    BY <1>5, <2>3
       DEF PayGatewayError, PayCount, PayAudit, RefundAtGateway, RefundRefused,
           RefundAudit, VoidAtGateway, VoidRefused, VoidAudit, ReplaceRecord,
           StorageFault, tables
  <2> QED
    BY <1>3, <1>4, <1>6, <1>8, <2>1, <2>2, <2>3 DEF WorkerStep
<1>7. CASE Restart
  BY <1>5, <1>7 DEF Restart, tables
<1> QED
  BY <1>5, <1>6, <1>7, Steps DEF vars

(***************************************************************************)
(* A retry never rewrites a row: record_payment ignores a transaction that *)
(* has one, and refund and void only add to it.                            *)
(***************************************************************************)
THEOREM RowsStay == Spec => RowsNeverRewritten
<1>1. Inv /\ [Next]_vars =>
        [\A t \in Txns :
           Recorded(t) =>
             /\ payments'[t].merchant = payments[t].merchant
             /\ payments'[t].customer = payments[t].customer
             /\ payments'[t].amount = payments[t].amount
             /\ payments'[t].refunded >= payments[t].refunded
             /\ payments[t].voided => payments'[t].voided]_vars
  BY RowsGrow DEF RowKept
<1> QED
  BY <1>1, Invariance, PTL DEF Spec, RowsNeverRewritten

-----------------------------------------------------------------------------
(***************************************************************************)
(* The audit log: what a handler logs, it has put into the tables before.  *)
(***************************************************************************)
\* What an audit row claims, and what a handler about to write one, or to
\* count a payment, has already put into the table.
Earned(row) ==
  /\ row.event = "payment" => Recorded(row.txn)
  /\ row.event = "refund" => payments[row.txn].refunded > 0
  /\ row.event = "void" => payments[row.txn].voided

DoneBefore(job) ==
  /\ job.pc = "count_use" => Recorded(job.txn)
  /\ job.pc = "audit_payment" /\ job.approved => Recorded(job.txn)
  /\ job.pc = "audit_refund" => payments[job.txn].refunded > 0
  /\ job.pc = "audit_void" => payments[job.txn].voided

EarnedInv ==
  /\ \A row \in audit : Earned(row)
  /\ \A w \in Workers : DoneBefore(worker[w])

LEMMA EarnedInit == Init => EarnedInv
BY DEF Init, EarnedInv, DoneBefore, Idle

\* Rows only grow, so what was claimed stays true.
LEMMA EarnedKept ==
  ASSUME Inv, TypeOK', EarnedInv, \A t \in Txns : RowKept(t), NEW w \in Workers,
         \A v \in Workers \ {w} : worker'[v] = worker[v],
         DoneBefore(worker[w])',
         \A row \in audit' \ audit : Earned(row)'
  PROVE  EarnedInv'
<1>1. \A t \in Txns :
        /\ Recorded(t) => payments'[t] # NoRow
        /\ payments[t].refunded > 0 => payments'[t].refunded > 0
        /\ payments[t].voided => payments'[t].voided
  <2> TAKE t \in Txns
  <2>1. RowKept(t)
    OBVIOUS
  <2>2. /\ payments[t].refunded \in Nat
        /\ payments'[t].refunded >= payments[t].refunded
    BY <2>1 DEF Inv, TypeOK, PaymentRow, RowKept
  <2>3. Recorded(t) => payments'[t] # NoRow
    BY <2>1 DEF RowKept, Recorded
  <2>4. payments[t].refunded > 0 => payments'[t].refunded > 0
    <3> HIDE DEF RowKept
    <3>1. ASSUME NEW a \in Nat, NEW b, b >= a, a > 0, b \in Int PROVE b > 0
      BY <3>1
    <3>2. payments'[t].refunded \in Int
      BY DEF TypeOK, PaymentRow
    <3> QED
      BY <2>2, <3>1, <3>2
  <2> QED
    BY <2>1, <2>3, <2>4 DEF RowKept
<1>2. ASSUME NEW row \in audit PROVE Earned(row)'
  <2>1. Earned(row) /\ row.txn \in Txns
    BY DEF EarnedInv, Inv, TypeOK, AuditRow
  <2> QED
    BY <1>1, <2>1 DEF Earned, Recorded
<1>3. ASSUME NEW v \in Workers, v # w PROVE DoneBefore(worker[v])'
  <2>1. worker'[v] = worker[v] /\ DoneBefore(worker[v])
    BY <1>3 DEF EarnedInv
  <2>2. CASE worker[v].txn \in Txns
    BY <1>1, <2>1, <2>2 DEF DoneBefore, Recorded
  <2>3. CASE worker[v].txn \notin Txns
    BY <2>1, <2>3, TxnKnown DEF DoneBefore, PayPcs, RefundPcs, VoidPcs
  <2> QED
    BY <2>2, <2>3
<1> QED
  BY <1>2, <1>3 DEF EarnedInv

\* The calls that write a row, and the count that follows one.
LEMMA EarnedRows ==
  ASSUME Inv, RefundJobs, EarnedInv, NEW w \in Workers,
         PayRecord(w) \/ PayCount(w) \/ RefundRecord(w) \/ VoidRecord(w)
  PROVE  DoneBefore(worker[w])' /\ UNCHANGED audit
<1> USE DEF Inv
<1>0. UNCHANGED audit
  BY DEF PayRecord, PayCount, RefundRecord, VoidRecord
<1>1. CASE PayRecord(w)
  <2>1. worker[w].pc = "record_payment" /\ Advance(w, "count_use")
    BY <1>1 DEF PayRecord
  <2>2. worker'[w].pc = "count_use" /\ worker'[w].txn = worker[w].txn
    BY <2>1, GoesOn
  <2>3. worker[w].txn \in Txns /\ worker[w].charged > 0
    BY <2>1, TxnKnown DEF PayPcs
  <2>4. RowOf(worker[w]) # NoRow
    BY <2>3 DEF RowOf, NoRow
  <2>5. payments'[worker[w].txn] # NoRow
    BY <1>1, <2>3, <2>4 DEF PayRecord, InsertOrIgnore, TypeOK
  <2> QED
    BY <1>0, <2>2, <2>5 DEF DoneBefore, Recorded
<1>2. CASE PayCount(w)
  <2>1. /\ worker[w].pc = "count_use" /\ Advance(w, "audit_payment")
        /\ UNCHANGED payments
    BY <1>2 DEF PayCount
  <2>2. worker'[w].pc = "audit_payment" /\ worker'[w].txn = worker[w].txn
    BY <2>1, GoesOn
  <2> QED
    BY <1>0, <2>1, <2>2 DEF DoneBefore, EarnedInv, Recorded
<1>3. CASE RefundRecord(w)
  <2>1. worker[w].pc = "record_refund" /\ Advance(w, "audit_refund")
    BY <1>3 DEF RefundRecord
  <2>2. worker'[w].pc = "audit_refund" /\ worker'[w].txn = worker[w].txn
    BY <2>1, GoesOn
  <2>3. /\ worker[w].txn \in Txns
        /\ worker[w].amount > 0 /\ worker[w].amount \in Nat
    BY <2>1, TxnKnown DEF RefundPcs, RefundJobs, TypeOK, Job
  <2>4. payments'[worker[w].txn] =
          [payments[worker[w].txn] EXCEPT !.refunded = @ + worker[w].amount]
    BY <1>3, <2>3 DEF RefundRecord, TypeOK
  <2>5. payments'[worker[w].txn].refunded > 0
    BY <2>3, <2>4 DEF TypeOK, PaymentRow
  <2> QED
    BY <1>0, <2>2, <2>5 DEF DoneBefore
<1>4. CASE VoidRecord(w)
  <2>1. worker[w].pc = "mark_voided" /\ Advance(w, "audit_void")
    BY <1>4 DEF VoidRecord
  <2>2. worker'[w].pc = "audit_void" /\ worker'[w].txn = worker[w].txn
    BY <2>1, GoesOn
  <2>3. worker[w].txn \in Txns
    BY <2>1, TxnKnown DEF VoidPcs
  <2>4. payments'[worker[w].txn].voided
    BY <1>4, <2>3 DEF VoidRecord, TypeOK, PaymentRow
  <2> QED
    BY <1>0, <2>2, <2>4 DEF DoneBefore
<1> QED
  BY <1>1, <1>2, <1>3, <1>4

\* The calls that write to the audit log.
LEMMA EarnedLogged ==
  ASSUME Inv, EarnedInv, NEW w \in Workers,
         PayAudit(w) \/ RefundAudit(w) \/ VoidAudit(w)
  PROVE  DoneBefore(worker[w])' /\ \A row \in audit' \ audit : Earned(row)'
<1>1. worker'[w] = Idle /\ UNCHANGED payments
  BY Ends DEF Inv, PayAudit, RefundAudit, VoidAudit
<1>2. DoneBefore(worker[w])'
  BY <1>1 DEF DoneBefore, Idle
<1>3. ASSUME NEW row \in audit' \ audit PROVE Earned(row)
  <2>1. DoneBefore(worker[w])
    BY DEF EarnedInv
  <2>2. CASE PayAudit(w)
    BY <2>1, <2>2 DEF PayAudit, Log, DoneBefore, Earned
  <2>3. CASE RefundAudit(w)
    BY <2>1, <2>3 DEF RefundAudit, Log, DoneBefore, Earned
  <2>4. CASE VoidAudit(w)
    BY <2>1, <2>4 DEF VoidAudit, Log, DoneBefore, Earned
  <2> QED
    BY <2>2, <2>3, <2>4
<1> QED
  BY <1>1, <1>2, <1>3 DEF Earned, Recorded

\* Any other step of a handler.
LEMMA EarnedElsewhere ==
  ASSUME Inv, NEW w \in Workers, StepOf(w),
         ~(PayRecord(w) \/ PayCount(w) \/ RefundRecord(w) \/ VoidRecord(w)),
         ~(PayAudit(w) \/ RefundAudit(w) \/ VoidAudit(w))
  PROVE  DoneBefore(worker[w])' /\ UNCHANGED audit
<1> USE DEF Inv
<1>1. ASSUME NEW t \in Txns, PayAuthorize(w, t)
      PROVE  DoneBefore(worker[w])' /\ UNCHANGED audit
  BY <1>1, Authorized DEF DoneBefore
<1>2. CASE ~WorkerStep(w)
  <2>1. /\ worker'[w].pc \in {"authorize", "gateway_refund", "gateway_void",
                              "update_payment_token"}
        /\ UNCHANGED audit
    BY <1>2, Starts DEF StepOf, tables
  <2> QED
    BY <2>1 DEF DoneBefore
<1>3. CASE RefundAtGateway(w) \/ VoidAtGateway(w)
  <2>1. /\ Advance(w, "record_refund") \/ Advance(w, "mark_voided")
        /\ UNCHANGED audit
    BY <1>3 DEF RefundAtGateway, VoidAtGateway, tables
  <2>2. worker'[w].pc \in {"record_refund", "mark_voided"}
    BY <2>1, GoesOn
  <2> QED
    BY <2>1, <2>2 DEF DoneBefore
<1>4. CASE \/ PayGatewayError(w) \/ RefundRefused(w) \/ VoidRefused(w)
           \/ ReplaceRecord(w) \/ StorageFault(w)
  <2>1. Finish(w) /\ UNCHANGED audit
    BY <1>4 DEF PayGatewayError, RefundRefused, VoidRefused, ReplaceRecord,
                StorageFault, tables
  <2> QED
    BY <2>1, Ends DEF DoneBefore, Idle
<1> QED
  BY <1>1, <1>2, <1>3, <1>4 DEF WorkerStep

LEMMA EarnedStep ==
  ASSUME Inv, TypeOK', RefundsInv, EarnedInv, [Next]_vars
  PROVE  EarnedInv'
<1>1. \A t \in Txns : RowKept(t)
  BY RowsGrow
<1>2. ASSUME NEW w \in Workers, StepOf(w) PROVE EarnedInv'
  <2>1. \A v \in Workers \ {w} : worker'[v] = worker[v]
    BY <1>2, OthersStay DEF Inv
  <2>2. DoneBefore(worker[w])' /\ \A row \in audit' \ audit : Earned(row)'
    BY <1>2, EarnedRows, EarnedLogged, EarnedElsewhere DEF RefundsInv
  <2> QED
    BY <1>1, <2>1, <2>2, EarnedKept
<1>3. CASE Restart
  <2>1. /\ \A v \in Workers : worker'[v] = Idle
        /\ UNCHANGED <<audit, payments>>
    BY <1>3 DEF Restart, tables
  <2> QED
    BY <2>1 DEF EarnedInv, Earned, Recorded, DoneBefore, Idle
<1>4. CASE UNCHANGED vars
  BY <1>4 DEF vars, EarnedInv, Earned, Recorded, DoneBefore
<1> QED
  BY <1>2, <1>3, <1>4, Steps

(***************************************************************************)
(* The audit log never claims an effect the tables do not show, whichever  *)
(* call of whichever handler fails.                                        *)
(***************************************************************************)
THEOREM AuditEarned == Spec => []AuditBacked
<1>1. Inv /\ Inv' /\ RefundsInv /\ [Next]_vars => RefundsInv'
  BY RefundsStep
<1>2. Inv /\ Inv' /\ RefundsInv /\ EarnedInv /\ [Next]_vars => EarnedInv'
  BY EarnedStep DEF Inv
<1>3. EarnedInv => AuditBacked
  BY DEF EarnedInv, Earned, AuditBacked
<1> QED
  BY RefundsInit, EarnedInit, <1>1, <1>2, <1>3, Invariance, PTL DEF Spec

-----------------------------------------------------------------------------
(***************************************************************************)
(* What each step does to the rows and at the acquirer, field by field.    *)
(***************************************************************************)
Due(pcs, t) == \E w \in Workers : At(w, pcs, t)

LEMMA DueStays ==
  ASSUME NEW w \in Workers, \A v \in Workers \ {w} : worker'[v] = worker[v],
         NEW pcs, NEW t, Due(pcs, t), At(w, pcs, t) => At(w, pcs, t)'
  PROVE  Due(pcs, t)'
<1>1. PICK v \in Workers : At(v, pcs, t)
  BY DEF Due
<1>2. CASE v = w
  BY <1>1, <1>2 DEF Due
<1>3. CASE v # w
  BY <1>1, <1>3 DEF Due, At
<1> QED
  BY <1>2, <1>3

Started == {"idle", "authorize", "gateway_refund", "gateway_void",
            "update_payment_token"}

Eventless(w) ==
  \/ \E c \in Customers, m \in Merchants, k \in Keys, a \in Amounts :
       PayBegin(w, c, m, k, a)
  \/ \E t \in Txns, m \in Merchants :
       \/ \E a \in Amounts \cup {None} : RefundBegin(w, t, m, a)
       \/ VoidBegin(w, t, m)
  \/ \E c \in Customers, token \in Tokens : ReplaceBegin(w, c, token)
  \/ PayGatewayError(w) \/ RefundRefused(w) \/ VoidRefused(w)
  \/ ReplaceRecord(w)

LEMMA EventlessStep ==
  ASSUME TypeOK, NEW w \in Workers, Eventless(w)
  PROVE  /\ worker[w].pc \in Started /\ worker'[w].pc \in Started
         /\ UNCHANGED <<transactions, statement, payments, audit, mishap>>
<1>1. CASE \/ PayGatewayError(w) \/ RefundRefused(w) \/ VoidRefused(w)
           \/ ReplaceRecord(w)
  <2>1. /\ Finish(w) /\ worker[w].pc \in Started
        /\ UNCHANGED <<transactions, statement, payments, audit, mishap>>
    BY <1>1 DEF PayGatewayError, RefundRefused, VoidRefused, ReplaceRecord,
                Started, gatewayVars, tables
  <2> QED
    BY <2>1, Ends DEF Started, Idle
<1> QED
  BY <1>1, Starts DEF Eventless, Started, tables

\* The acquirer has a transaction only for a charge.
OnlyCharges ==
  \A t \in Txns : ~Charged(t) => transactions[t] = NoTransaction

\* The answer is an old one or a decline, or the charge is new.
LEMMA AuthorizeStep ==
  ASSUME Inv, OnlyCharges, NEW w \in Workers, NEW t \in Txns,
         PayAuthorize(w, t)
  PROVE  /\ worker[w].pc = "authorize"
         /\ \/ worker'[w].pc = "record_payment"
            \/ worker'[w].pc = "audit_payment" /\ ~worker'[w].approved
         /\ UNCHANGED <<payments, audit, mishap>>
         /\ \A u \in Txns :
              /\ transactions'[u].refunded = transactions[u].refunded
              /\ transactions'[u].status = "voided" <=>
                   transactions[u].status = "voided"
         /\ \/ UNCHANGED <<transactions, statement>>
            \/ /\ ~Charged(t) /\ Charged(t)'
               /\ worker'[w].pc = "record_payment" /\ worker'[w].txn = t
               /\ \A u \in Txns \ {t} :
                    /\ statement'[u] = statement[u]
                    /\ transactions'[u] = transactions[u]
<1>1. /\ worker[w].pc = "authorize"
      /\ \/ worker'[w].pc = "record_payment"
         \/ worker'[w].pc = "audit_payment" /\ ~worker'[w].approved
      /\ UNCHANGED <<payments, audit, mishap>>
  BY Authorized DEF Inv
<1>2. CASE UNCHANGED <<transactions, statement>>
  BY <1>1, <1>2
<1>3. CASE Approve(RequestOf(worker[w]), t)
  <2> DEFINE key == worker[w].key
             amount == worker[w].amount
             answer == [approved |-> TRUE, txn |-> t, amount |-> amount]
  <2>1. /\ statement[t] = NoEntry
        /\ transactions' = [transactions EXCEPT ![t] =
             [status |-> "approved", token |-> worker[w].token,
              amount |-> amount, captured |-> FALSE, refunded |-> 0]]
        /\ statement' = [statement EXCEPT ![t] =
             [charged |-> amount, credited |-> 0, key |-> key]]
        /\ idempotency' = [idempotency EXCEPT ![key] = answer]
    BY <1>3 DEF Approve, ChargeCard, RequestOf
  <2>2. idempotency'[key] = answer
    BY <2>1, RequestType DEF PayAuthorize, RequestOf, Request, Inv, TypeOK,
                             GatewayTypeOK
  <2>3. worker'[w] = Answered(worker[w], "record_payment", answer)
    <3>1. answer.approved
      OBVIOUS
    <3> HIDE DEF answer
    <3>2. worker' = [worker EXCEPT ![w] =
                       Answered(worker[w], "record_payment", answer)]
      BY <2>2, <3>1, AnswerTaken
    <3> QED
      BY <3>2 DEF Inv, TypeOK
  <2>4. worker'[w].pc = "record_payment" /\ worker'[w].txn = t
    BY <2>3 DEF Answered, Inv, TypeOK, Job
  <2>5. /\ transactions'[t].status = "approved"
        /\ transactions'[t].refunded = 0
    BY <2>1 DEF Inv, TypeOK, GatewayTypeOK
  <2>6. \A u \in Txns : u # t => /\ statement'[u] = statement[u]
                                 /\ transactions'[u] = transactions[u]
    BY <2>1 DEF Inv, TypeOK, GatewayTypeOK
  <2>7. ~Charged(t) /\ Charged(t)'
    <3>1. amount \in Nat \ {0}
      BY <1>1, GatewayAssumption DEF Inv, JobsOK, JobOK, PayJobOK, PayPcs
    <3> QED
      BY <2>1, <3>1 DEF Charged, NoEntry, Inv, TypeOK, GatewayTypeOK
  <2>8. transactions[t].status = "none" /\ transactions[t].refunded = 0
    BY <2>7 DEF OnlyCharges, NoTransaction
  <2> QED
    BY <1>1, <2>4, <2>5, <2>6, <2>7, <2>8
<1> QED
  BY <1>2, <1>3 DEF PayAuthorize, Authorize, AnswerFromCache, Decline,
                    gatewayVars

\* A call at the acquirer: what it adds to the refunds, and what it voids.
LEMMA RefundGatewayStep ==
  ASSUME Inv, RefundJobs, NEW w \in Workers, RefundAtGateway(w)
  PROVE  /\ worker[w].pc = "gateway_refund" /\ worker'[w].pc = "record_refund"
         /\ worker'[w].txn = worker[w].txn
         /\ worker'[w].amount = worker[w].amount
         /\ worker[w].txn \in Txns /\ worker[w].amount \in Nat \ {0}
         /\ \A u \in Txns :
              /\ transactions'[u].status = transactions[u].status
              /\ transactions'[u].refunded = transactions[u].refunded +
                   (IF u = worker[w].txn THEN worker[w].amount ELSE 0)
              /\ statement'[u].charged = statement[u].charged
              /\ u # worker[w].txn => transactions'[u] = transactions[u]
         /\ transactions[worker[w].txn].status = "approved"
         /\ UNCHANGED <<payments, audit, mishap>>
<1> USE DEF Inv
<1> DEFINE t == worker[w].txn
           a == worker[w].amount
<1>1. /\ worker[w].pc = "gateway_refund" /\ worker'[w].pc = "record_refund"
      /\ worker'[w].txn = t /\ worker'[w].amount = a
  BY GoesOn DEF RefundAtGateway
<1>2. t \in Txns /\ a \in Nat \ {0}
  BY <1>1, TxnKnown DEF RefundPcs, RefundJobs, TypeOK, Job
<1>3. /\ transactions' = [transactions EXCEPT ![t].refunded = @ + a]
      /\ transactions[t].status = "approved"
      /\ Credit(t, a)
      /\ UNCHANGED <<payments, audit, mishap>>
  BY <1>2 DEF RefundAtGateway, GatewayRefund, Refundable, OrAll, tables
<1>4. \A u \in Txns :
        /\ transactions'[u].status = transactions[u].status
        /\ transactions'[u].refunded =
             transactions[u].refunded + (IF u = t THEN a ELSE 0)
        /\ u # t => transactions'[u] = transactions[u]
  BY <1>2, <1>3 DEF TypeOK, GatewayTypeOK, Transaction
<1>5. \A u \in Txns : statement'[u].charged = statement[u].charged
  BY <1>2, <1>3 DEF Credit, TypeOK, GatewayTypeOK, Entry
<1> QED
  BY <1>1, <1>2, <1>3, <1>4, <1>5

LEMMA VoidGatewayStep ==
  ASSUME Inv, NEW w \in Workers, VoidAtGateway(w)
  PROVE  /\ worker[w].pc = "gateway_void" /\ worker'[w].pc = "mark_voided"
         /\ worker'[w].txn = worker[w].txn /\ worker[w].txn \in Txns
         /\ \A u \in Txns :
              /\ transactions'[u].status = IF u = worker[w].txn THEN "voided"
                                           ELSE transactions[u].status
              /\ transactions'[u].refunded = transactions[u].refunded
              /\ statement'[u].charged = statement[u].charged
              /\ u # worker[w].txn => transactions'[u] = transactions[u]
         /\ transactions[worker[w].txn].status # "none"
         /\ UNCHANGED <<payments, audit, mishap>>
<1> USE DEF Inv
<1> DEFINE t == worker[w].txn
<1>1. /\ worker[w].pc = "gateway_void" /\ worker'[w].pc = "mark_voided"
      /\ worker'[w].txn = t
  BY GoesOn DEF VoidAtGateway
<1>2. t \in Txns
  BY <1>1, TxnKnown DEF VoidPcs
<1>3. /\ transactions' = [transactions EXCEPT ![t].status = "voided",
                                              ![t].amount = 0]
      /\ transactions[t].status # "none"
      /\ Credit(t, transactions[t].amount)
      /\ UNCHANGED <<payments, audit, mishap>>
  BY DEF VoidAtGateway, GatewayVoid, Voidable, tables
<1>4. \A u \in Txns :
        /\ transactions'[u].status = IF u = t THEN "voided"
                                     ELSE transactions[u].status
        /\ transactions'[u].refunded = transactions[u].refunded
        /\ u # t => transactions'[u] = transactions[u]
  BY <1>2, <1>3 DEF TypeOK, GatewayTypeOK, Transaction
<1>5. \A u \in Txns : statement'[u].charged = statement[u].charged
  BY <1>2, <1>3 DEF Credit, TypeOK, GatewayTypeOK, Entry
<1> QED
  BY <1>1, <1>2, <1>3, <1>4, <1>5

\* The calls that write the payments table.
LEMMA PayRecordStep ==
  ASSUME Inv, NEW w \in Workers, PayRecord(w)
  PROVE  /\ worker[w].pc = "record_payment" /\ worker'[w].pc = "count_use"
         /\ worker'[w].txn = worker[w].txn
         /\ worker'[w].approved = worker[w].approved /\ worker[w].approved
         /\ worker[w].txn \in Txns /\ payments'[worker[w].txn] # NoRow
         /\ \A u \in Txns :
              /\ payments'[u].refunded = payments[u].refunded
              /\ payments'[u].voided = payments[u].voided
              /\ u # worker[w].txn => payments'[u] = payments[u]
         /\ UNCHANGED <<transactions, statement, audit, mishap>>
<1> USE DEF Inv
<1>1. /\ worker[w].pc = "record_payment" /\ worker'[w].pc = "count_use"
      /\ worker'[w].txn = worker[w].txn
      /\ worker'[w].approved = worker[w].approved
      /\ UNCHANGED <<transactions, statement, audit, mishap>>
  BY GoesOn DEF PayRecord, gatewayVars
<1>2. /\ worker[w].txn \in Txns /\ worker[w].approved
      /\ RowOf(worker[w]) # NoRow
  BY <1>1, TxnKnown DEF PayPcs, RowOf, NoRow
<1>3. CASE payments[worker[w].txn] = NoRow
  <2>1. payments' = [payments EXCEPT ![worker[w].txn] = RowOf(worker[w])]
    BY <1>3 DEF PayRecord, InsertOrIgnore
  <2>2. /\ payments'[worker[w].txn] = RowOf(worker[w])
        /\ \A u \in Txns : u # worker[w].txn => payments'[u] = payments[u]
    BY <1>2, <2>1 DEF TypeOK
  <2>3. /\ payments'[worker[w].txn].refunded = 0
        /\ payments'[worker[w].txn].voided = FALSE
    BY <2>2 DEF RowOf
  <2>4. /\ payments[worker[w].txn].refunded = 0
        /\ payments[worker[w].txn].voided = FALSE
    BY <1>3 DEF NoRow
  <2> QED
    BY <1>1, <1>2, <2>2, <2>3, <2>4
<1>4. CASE payments[worker[w].txn] # NoRow
  BY <1>1, <1>2, <1>4 DEF PayRecord, InsertOrIgnore
<1> QED
  BY <1>3, <1>4

LEMMA RefundRecordStep ==
  ASSUME Inv, RefundJobs, NEW w \in Workers, RefundRecord(w)
  PROVE  /\ worker[w].pc = "record_refund" /\ worker'[w].pc = "audit_refund"
         /\ worker'[w].txn = worker[w].txn
         /\ worker[w].txn \in Txns /\ worker[w].amount \in Nat \ {0}
         /\ \A u \in Txns :
              /\ payments'[u].refunded = payments[u].refunded +
                   (IF u = worker[w].txn THEN worker[w].amount ELSE 0)
              /\ payments'[u].voided = payments[u].voided
              /\ payments'[u].amount = payments[u].amount
              /\ payments'[u] # NoRow => Recorded(u)
         /\ UNCHANGED <<transactions, statement, audit, mishap>>
<1> USE DEF Inv
<1> DEFINE t == worker[w].txn
           a == worker[w].amount
<1>1. /\ worker[w].pc = "record_refund" /\ worker'[w].pc = "audit_refund"
      /\ worker'[w].txn = t
      /\ UNCHANGED <<transactions, statement, audit, mishap>>
  BY GoesOn DEF RefundRecord, gatewayVars
<1>2. t \in Txns /\ a \in Nat \ {0} /\ Recorded(t)
  BY <1>1, TxnKnown DEF RefundPcs, RefundJobs, TypeOK, Job, JobsOK, JobOK,
                        ReversalJobOK, Recorded, NoRow
<1>3. payments' = [payments EXCEPT ![t].refunded = @ + a]
  BY DEF RefundRecord
<1>4. /\ payments'[t] = [payments[t] EXCEPT !.refunded = @ + a]
      /\ \A u \in Txns : u # t => payments'[u] = payments[u]
  BY <1>2, <1>3 DEF TypeOK
<1>5. /\ payments'[t].refunded = payments[t].refunded + a
      /\ payments'[t].voided = payments[t].voided
      /\ payments'[t].amount = payments[t].amount
  BY <1>2, <1>4 DEF TypeOK, PaymentRow
<1>6. ASSUME NEW u \in Txns
      PROVE  /\ payments'[u].refunded =
                  payments[u].refunded + (IF u = t THEN a ELSE 0)
             /\ payments'[u].voided = payments[u].voided
             /\ payments'[u].amount = payments[u].amount
             /\ payments'[u] # NoRow => Recorded(u)
  <2>1. CASE u = t
    BY <1>2, <1>5, <2>1
  <2>2. CASE u # t
    BY <1>4, <2>2 DEF Recorded, TypeOK, PaymentRow
  <2> QED
    BY <2>1, <2>2
<1> QED
  BY <1>1, <1>2, <1>6

LEMMA VoidRecordStep ==
  ASSUME Inv, NEW w \in Workers, VoidRecord(w)
  PROVE  /\ worker[w].pc = "mark_voided" /\ worker'[w].pc = "audit_void"
         /\ worker'[w].txn = worker[w].txn /\ worker[w].txn \in Txns
         /\ \A u \in Txns :
              /\ payments'[u].refunded = payments[u].refunded
              /\ payments'[u].voided <=>
                   payments[u].voided \/ u = worker[w].txn
              /\ payments'[u].amount = payments[u].amount
              /\ payments'[u] # NoRow => Recorded(u)
         /\ UNCHANGED <<transactions, statement, audit, mishap>>
<1> USE DEF Inv
<1> DEFINE t == worker[w].txn
<1>1. /\ worker[w].pc = "mark_voided" /\ worker'[w].pc = "audit_void"
      /\ worker'[w].txn = t
      /\ UNCHANGED <<transactions, statement, audit, mishap>>
  BY GoesOn DEF VoidRecord, gatewayVars
<1>2. t \in Txns /\ Recorded(t)
  BY <1>1, TxnKnown DEF VoidPcs, JobsOK, JobOK, ReversalJobOK, Recorded, NoRow
<1>3. payments' = [payments EXCEPT ![t].voided = TRUE]
  BY DEF VoidRecord
<1>4. /\ payments'[t] = [payments[t] EXCEPT !.voided = TRUE]
      /\ \A u \in Txns : u # t => payments'[u] = payments[u]
  BY <1>2, <1>3 DEF TypeOK
<1>5. /\ payments'[t].refunded = payments[t].refunded
      /\ payments'[t].voided
      /\ payments'[t].amount = payments[t].amount
  BY <1>2, <1>4 DEF TypeOK, PaymentRow
<1> QED
  BY <1>1, <1>2, <1>4, <1>5 DEF Recorded

LEMMA PayCountStep ==
  ASSUME Inv, NEW w \in Workers, PayCount(w)
  PROVE  /\ worker[w].pc = "count_use" /\ worker'[w].pc = "audit_payment"
         /\ worker'[w].txn = worker[w].txn
         /\ worker'[w].approved = worker[w].approved
         /\ UNCHANGED <<transactions, statement, payments, audit, mishap>>
BY GoesOn DEF Inv, PayCount, gatewayVars

InLog(event, t) == [event |-> event, txn |-> t] \in audit

\* A handler that writes its audit row and ends.
LEMMA LogStep ==
  ASSUME Inv, NEW w \in Workers, PayAudit(w) \/ RefundAudit(w) \/ VoidAudit(w)
  PROVE  /\ worker'[w].pc = "idle"
         /\ audit \subseteq audit'
         /\ \/ /\ worker[w].pc = "audit_payment"
               /\ worker[w].approved =>
                    [event |-> "payment", txn |-> worker[w].txn] \in audit'
            \/ /\ worker[w].pc = "audit_refund"
               /\ [event |-> "refund", txn |-> worker[w].txn] \in audit'
            \/ /\ worker[w].pc = "audit_void"
               /\ [event |-> "void", txn |-> worker[w].txn] \in audit'
         /\ UNCHANGED <<transactions, statement, payments, mishap>>
<1>1. /\ worker'[w].pc = "idle"
      /\ UNCHANGED <<transactions, statement, payments, mishap>>
  BY Ends DEF Inv, PayAudit, RefundAudit, VoidAudit, gatewayVars, Idle
<1>2. CASE PayAudit(w)
  BY <1>1, <1>2 DEF PayAudit, Log, InLog
<1>3. CASE RefundAudit(w)
  BY <1>1, <1>3 DEF RefundAudit, Log, InLog
<1>4. CASE VoidAudit(w)
  BY <1>1, <1>4 DEF VoidAudit, Log, InLog
<1> QED
  BY <1>2, <1>3, <1>4

-----------------------------------------------------------------------------
(***************************************************************************)
(* As long as nothing failed, what the acquirer did and the tables do not  *)
(* show yet is the next call of some handler: of every charge              *)
(* (ChargesBooked), of every void (VoidsBooked), and of the refunds,       *)
(* amount for amount (RefundsBooked).                                      *)
(***************************************************************************)
ChargesBooked ==
  \A t \in Txns : Charged(t) => Recorded(t) \/ Due({"record_payment"}, t)

VoidsBooked ==
  /\ \A t \in Txns :
       payments[t].voided => transactions[t].status = "voided"
  /\ \A t \in Txns :
       transactions[t].status = "voided" =>
         payments[t].voided \/ Due({"mark_voided"}, t)
  /\ \A w \in Workers :
       worker[w].pc = "mark_voided" =>
         transactions[worker[w].txn].status = "voided"

RefundsBooked ==
  \A t \in Txns :
    /\ AtMost(Refunding(t), Asked, payments[t].refunded,
              transactions[t].refunded)
    /\ AtLeast(Refunding(t), Asked, payments[t].refunded,
               transactions[t].refunded)

BooksInv == ~mishap => ChargesBooked /\ VoidsBooked /\ RefundsBooked

LEMMA BooksInit == Init => BooksInv
<1> SUFFICES ASSUME Init PROVE ChargesBooked /\ VoidsBooked /\ RefundsBooked
  BY DEF BooksInv
<1>1. ChargesBooked /\ VoidsBooked
  BY DEF Init, ChargesBooked, VoidsBooked, Charged, NoEntry, NoRow, Idle,
         NoTransaction
<1>2. ASSUME NEW t \in Txns
      PROVE  /\ Refunding(t) = {}
             /\ payments[t].refunded = 0 /\ transactions[t].refunded = 0
  BY DEF Init, Refunding, At, Idle, NoRow, NoTransaction
<1> QED
  BY <1>1, <1>2, NothingPending DEF RefundsBooked

\* The steps that can tell: nobody else puts a mishap behind the service.
BooksSteps(w) ==
  \/ Eventless(w)
  \/ \E t \in Txns : PayAuthorize(w, t)
  \/ PayRecord(w) \/ PayCount(w) \/ PayAudit(w)
  \/ RefundAtGateway(w) \/ RefundRecord(w) \/ RefundAudit(w)
  \/ VoidAtGateway(w) \/ VoidRecord(w) \/ VoidAudit(w)

LEMMA BooksStepOf ==
  ASSUME NEW w \in Workers, StepOf(w), ~mishap'
  PROVE  BooksSteps(w)
<1>1. ~StorageFault(w)
  BY DEF StorageFault
<1> QED
  BY <1>1 DEF StepOf, WorkerStep, BooksSteps, Eventless

LEMMA OnlyChargesStep ==
  ASSUME Inv, RefundJobs, OnlyCharges, [Next]_vars
  PROVE  OnlyCharges'
<1>1. CASE Restart
  BY <1>1 DEF Restart, OnlyCharges
<1>2. CASE UNCHANGED <<transactions, statement>>
  BY <1>2 DEF OnlyCharges, Charged
<1>3. ASSUME NEW w \in Workers, RefundAtGateway(w) \/ VoidAtGateway(w)
      PROVE  OnlyCharges'
  <2> SUFFICES ASSUME NEW t \in Txns, ~Charged(t)'
               PROVE  transactions'[t] = NoTransaction
    BY DEF OnlyCharges
  <2>1. transactions[t] = NoTransaction
    BY <1>3, RefundGatewayStep, VoidGatewayStep DEF OnlyCharges, Charged
  <2>2. t # worker[w].txn
    BY <1>3, <2>1, RefundGatewayStep, VoidGatewayStep DEF NoTransaction
  <2> QED
    BY <1>3, <2>1, <2>2, RefundGatewayStep, VoidGatewayStep
<1>4. ASSUME NEW w \in Workers, NEW t \in Txns, PayAuthorize(w, t)
      PROVE  OnlyCharges'
  BY <1>2, <1>4, AuthorizeStep DEF OnlyCharges, Charged
<1>5. ASSUME NEW w \in Workers, StorageFault(w) PROVE OnlyCharges'
  BY <1>2, <1>5 DEF StorageFault, gatewayVars
<1>6. ASSUME NEW w \in Workers, StepOf(w), BooksSteps(w) PROVE OnlyCharges'
  BY <1>2, <1>3, <1>4, <1>6, EventlessStep, PayRecordStep, PayCountStep,
     LogStep, RefundRecordStep, VoidRecordStep DEF BooksSteps, Inv
<1>7. ASSUME NEW w \in Workers, StepOf(w) PROVE OnlyCharges'
  BY <1>5, <1>6, <1>7 DEF StepOf, WorkerStep, BooksSteps, Eventless
<1> QED
  BY <1>1, <1>2, <1>7, Steps DEF vars

LEMMA ChargesBookedStep ==
  ASSUME Inv, RefundJobs, OnlyCharges, ChargesBooked, NEW w \in Workers,
         StepOf(w), BooksSteps(w)
  PROVE  ChargesBooked'
<1> SUFFICES ASSUME NEW t \in Txns, Charged(t)'
             PROVE  Recorded(t)' \/ Due({"record_payment"}, t)'
  BY DEF ChargesBooked
<1>1. \A v \in Workers \ {w} : worker'[v] = worker[v]
  BY OthersStay DEF Inv
<1>2. Recorded(t) => Recorded(t)'
  BY RowsGrow, Steps DEF RowKept
<1>3. ASSUME Charged(t), worker[w].pc # "record_payment"
      PROVE  Recorded(t)' \/ Due({"record_payment"}, t)'
  BY <1>1, <1>2, <1>3, DueStays DEF ChargesBooked, At
<1>4. CASE Eventless(w)
  BY <1>3, <1>4, EventlessStep DEF Charged, Started, Inv
<1>5. ASSUME NEW u \in Txns, PayAuthorize(w, u)
      PROVE  Recorded(t)' \/ Due({"record_payment"}, t)'
  <2>1. CASE Charged(t)
    BY <1>3, <1>5, <2>1, AuthorizeStep
  <2>2. CASE ~Charged(t)
    <3>1. At(w, {"record_payment"}, t)'
      BY <1>5, <2>2, AuthorizeStep DEF Charged, At
    <3> QED
      BY <3>1 DEF Due
  <2> QED
    BY <2>1, <2>2
<1>6. CASE PayRecord(w)
  <2>1. Charged(t)
    BY <1>6, PayRecordStep DEF Charged
  <2>2. CASE worker[w].txn = t
    BY <1>6, <2>2, PayRecordStep DEF Recorded
  <2>3. CASE worker[w].txn # t
    BY <1>1, <1>2, <2>1, <2>3, DueStays DEF ChargesBooked, At
  <2> QED
    BY <2>2, <2>3
<1>7. CASE PayCount(w)
  BY <1>3, <1>7, PayCountStep DEF Charged
<1>8. CASE PayAudit(w) \/ RefundAudit(w) \/ VoidAudit(w)
  BY <1>3, <1>8, LogStep DEF Charged
<1>9. CASE RefundAtGateway(w)
  BY <1>3, <1>9, RefundGatewayStep DEF Charged
<1>10. CASE VoidAtGateway(w)
  BY <1>3, <1>10, VoidGatewayStep DEF Charged
<1>11. CASE RefundRecord(w)
  BY <1>3, <1>11, RefundRecordStep DEF Charged
<1>12. CASE VoidRecord(w)
  BY <1>3, <1>12, VoidRecordStep DEF Charged
<1> QED
  BY <1>4, <1>5, <1>6, <1>7, <1>8, <1>9, <1>10, <1>11, <1>12 DEF BooksSteps

\* A step that neither voids at the acquirer nor marks a row.
LEMMA VoidsKept ==
  ASSUME Inv, VoidsBooked, NEW w \in Workers,
         \A v \in Workers \ {w} : worker'[v] = worker[v],
         worker[w].pc # "mark_voided", worker'[w].pc # "mark_voided",
         \A t \in Txns :
           /\ payments'[t].voided = payments[t].voided
           /\ transactions'[t].status = "voided" <=>
                transactions[t].status = "voided"
  PROVE  VoidsBooked'
<1>1. ASSUME NEW t \in Txns
      PROVE  /\ payments'[t].voided => transactions'[t].status = "voided"
             /\ transactions'[t].status = "voided" =>
                  payments'[t].voided \/ Due({"mark_voided"}, t)'
  <2>1. ~At(w, {"mark_voided"}, t)
    BY DEF At
  <2> QED
    BY <2>1, DueStays DEF VoidsBooked
<1>2. ASSUME NEW v \in Workers, worker'[v].pc = "mark_voided"
      PROVE  transactions'[worker'[v].txn].status = "voided"
  <2>1. worker'[v] = worker[v] /\ worker[v].txn \in Txns
    BY <1>2, TxnKnown DEF VoidPcs
  <2> QED
    BY <1>2, <2>1 DEF VoidsBooked
<1> QED
  BY <1>1, <1>2 DEF VoidsBooked

LEMMA VoidsBookedStep ==
  ASSUME Inv, RefundJobs, OnlyCharges, VoidsBooked, NEW w \in Workers,
         StepOf(w), BooksSteps(w)
  PROVE  VoidsBooked'
<1>1. \A v \in Workers \ {w} : worker'[v] = worker[v]
  BY OthersStay DEF Inv
<1>2. CASE Eventless(w)
  BY <1>1, <1>2, EventlessStep, VoidsKept DEF Started, Inv
<1>3. ASSUME NEW u \in Txns, PayAuthorize(w, u) PROVE VoidsBooked'
  BY <1>1, <1>3, AuthorizeStep, VoidsKept
<1>4. CASE PayRecord(w)
  BY <1>1, <1>4, PayRecordStep, VoidsKept
<1>5. CASE PayCount(w)
  BY <1>1, <1>5, PayCountStep, VoidsKept
<1>6. CASE PayAudit(w) \/ RefundAudit(w) \/ VoidAudit(w)
  BY <1>1, <1>6, LogStep, VoidsKept
<1>7. CASE RefundAtGateway(w)
  BY <1>1, <1>7, RefundGatewayStep, VoidsKept
<1>8. CASE RefundRecord(w)
  BY <1>1, <1>8, RefundRecordStep, VoidsKept
<1>9. CASE VoidAtGateway(w)
  <2> DEFINE t == worker[w].txn
  <2>1. /\ worker'[w].pc = "mark_voided" /\ worker'[w].txn = t
        /\ worker[w].pc = "gateway_void"
        /\ \A u \in Txns : transactions'[u].status =
             IF u = t THEN "voided" ELSE transactions[u].status
        /\ UNCHANGED payments
    BY <1>9, VoidGatewayStep
  <2>2. ASSUME NEW u \in Txns, transactions'[u].status = "voided"
        PROVE  payments'[u].voided \/ Due({"mark_voided"}, u)'
    <3>1. CASE u = t
      BY <2>1, <3>1 DEF Due, At
    <3>2. CASE u # t
      BY <1>1, <2>1, <2>2, <3>2, DueStays DEF VoidsBooked, At
    <3> QED
      BY <3>1, <3>2
  <2>3. ASSUME NEW v \in Workers, worker'[v].pc = "mark_voided"
        PROVE  transactions'[worker'[v].txn].status = "voided"
    <3>1. CASE v = w
      BY <1>9, <2>1, <3>1, VoidGatewayStep
    <3>2. CASE v # w
      BY <1>1, <2>1, <2>3, <3>2, TxnKnown DEF VoidsBooked, VoidPcs
    <3> QED
      BY <3>1, <3>2
  <2> QED
    BY <2>1, <2>2, <2>3 DEF VoidsBooked
<1>10. CASE VoidRecord(w)
  <2> DEFINE t == worker[w].txn
  <2>1. /\ worker[w].pc = "mark_voided" /\ worker'[w].pc = "audit_void"
        /\ \A u \in Txns : payments'[u].voided <=> payments[u].voided \/ u = t
        /\ UNCHANGED transactions
    BY <1>10, VoidRecordStep
  <2>2. ASSUME NEW u \in Txns
        PROVE  /\ payments'[u].voided => transactions'[u].status = "voided"
               /\ transactions'[u].status = "voided" =>
                    payments'[u].voided \/ Due({"mark_voided"}, u)'
    <3>1. CASE u = t
      BY <2>1, <3>1 DEF VoidsBooked
    <3>2. CASE u # t
      BY <1>1, <2>1, <3>2, DueStays DEF VoidsBooked, At
    <3> QED
      BY <3>1, <3>2
  <2>3. ASSUME NEW v \in Workers, worker'[v].pc = "mark_voided"
        PROVE  transactions'[worker'[v].txn].status = "voided"
    BY <1>1, <2>1, <2>3 DEF VoidsBooked
  <2> QED
    BY <2>2, <2>3 DEF VoidsBooked
<1> QED
  BY <1>2, <1>3, <1>4, <1>5, <1>6, <1>7, <1>8, <1>9, <1>10 DEF BooksSteps

\* A step that neither refunds at the acquirer nor books a refund.
LEMMA RefundsBookedKept ==
  ASSUME Inv, RefundsBooked, NEW w \in Workers,
         \A v \in Workers \ {w} : worker'[v] = worker[v],
         worker[w].pc # "record_refund", worker'[w].pc # "record_refund",
         \A t \in Txns :
           /\ payments'[t].refunded = payments[t].refunded
           /\ transactions'[t].refunded = transactions[t].refunded
  PROVE  RefundsBooked'
BY PendingStays DEF RefundsBooked, Inv

LEMMA RefundsBookedStep ==
  ASSUME Inv, TypeOK', RefundJobs, OnlyCharges, RefundsBooked,
         NEW w \in Workers, StepOf(w), BooksSteps(w)
  PROVE  RefundsBooked'
<1>1. \A v \in Workers \ {w} : worker'[v] = worker[v]
  BY OthersStay DEF Inv
<1>2. CASE Eventless(w)
  BY <1>1, <1>2, EventlessStep, RefundsBookedKept DEF Started, Inv
<1>4. CASE PayRecord(w)
  BY <1>1, <1>4, PayRecordStep, RefundsBookedKept
<1>5. CASE PayCount(w)
  BY <1>1, <1>5, PayCountStep, RefundsBookedKept
<1>6. CASE PayAudit(w) \/ RefundAudit(w) \/ VoidAudit(w)
  BY <1>1, <1>6, LogStep, RefundsBookedKept
<1>9. CASE VoidAtGateway(w)
  BY <1>1, <1>9, VoidGatewayStep, RefundsBookedKept
<1>10. CASE VoidRecord(w)
  BY <1>1, <1>10, VoidRecordStep, RefundsBookedKept
<1>0. \A t \in Txns : /\ payments[t].refunded \in Nat
                      /\ transactions[t].refunded \in Nat
  BY DEF Inv, TypeOK, GatewayTypeOK, PaymentRow, Transaction
<1>7. CASE RefundAtGateway(w)
  <2> DEFINE t == worker[w].txn
             a == worker[w].amount
  <2>1. ASSUME NEW u \in Txns
        PROVE  LET top == transactions[u].refunded + (IF u = t THEN a ELSE 0)
               IN  /\ AtMost(Refunding(u)', Asked', payments[u].refunded, top)
                   /\ AtLeast(Refunding(u)', Asked', payments[u].refunded, top)
    BY <1>0, <1>1, <1>7, RefundGatewayStep, PendingComes DEF RefundsBooked, Inv
  <2> QED
    BY <1>7, <2>1, RefundGatewayStep DEF RefundsBooked
<1>8. CASE RefundRecord(w)
  <2> DEFINE t == worker[w].txn
             a == worker[w].amount
  <2>1. ASSUME NEW u \in Txns
        PROVE  LET low == payments[u].refunded + (IF u = t THEN a ELSE 0)
                   top == transactions[u].refunded
               IN  /\ AtMost(Refunding(u)', Asked', low, top)
                   /\ AtLeast(Refunding(u)', Asked', low, top)
    BY <1>0, <1>1, <1>8, RefundRecordStep, PendingGoes DEF RefundsBooked, Inv
  <2> QED
    BY <1>8, <2>1, RefundRecordStep DEF RefundsBooked
<1>3. ASSUME NEW u \in Txns, PayAuthorize(w, u) PROVE RefundsBooked'
  BY <1>1, <1>3, AuthorizeStep, RefundsBookedKept
<1> QED
  BY <1>2, <1>3, <1>4, <1>5, <1>6, <1>7, <1>8, <1>9, <1>10 DEF BooksSteps

LEMMA BooksStep ==
  ASSUME Inv, Inv', RefundsInv, OnlyCharges, BooksInv, [Next]_vars
  PROVE  BooksInv'
<1> SUFFICES ASSUME ~mishap'
             PROVE  ChargesBooked' /\ VoidsBooked' /\ RefundsBooked'
  BY DEF BooksInv
<1>1. RefundJobs /\ TypeOK'
  BY DEF RefundsInv, Inv
<1>2. CASE UNCHANGED vars
  BY <1>2 DEF vars, BooksInv, ChargesBooked, Charged, Recorded, Due, At,
              VoidsBooked, RefundsBooked, Refunding, Asked
<1>3. ~Restart
  BY DEF Restart
<1>4. ASSUME NEW w \in Workers, StepOf(w)
      PROVE  ChargesBooked' /\ VoidsBooked' /\ RefundsBooked'
  <2>1. BooksSteps(w)
    BY <1>4, BooksStepOf
  <2>2. ~mishap
    BY <1>4, <2>1, EventlessStep, AuthorizeStep, PayRecordStep, PayCountStep,
       LogStep, RefundGatewayStep, RefundRecordStep, VoidGatewayStep,
       VoidRecordStep, <1>1 DEF BooksSteps, Inv
  <2> QED
    BY <1>1, <1>4, <2>1, <2>2, ChargesBookedStep, VoidsBookedStep,
       RefundsBookedStep DEF BooksInv
<1> QED
  BY <1>2, <1>3, <1>4, Steps

LEMMA BooksAgree ==
  ASSUME Inv, BooksInv
  PROVE  RecordsAgree
<1> SUFFICES ASSUME Quiet, ~mishap, NEW t \in Txns
             PROVE  /\ Recorded(t) <=> Charged(t)
                    /\ payments[t].refunded = transactions[t].refunded
                    /\ payments[t].voided <=> transactions[t].status = "voided"
  BY DEF RecordsAgree
<1>1. /\ Refunding(t) = {}
      /\ ~Due({"record_payment"}, t) /\ ~Due({"mark_voided"}, t)
  BY DEF Quiet, Refunding, Due, At
<1>2. Recorded(t) <=> Charged(t)
  BY <1>1 DEF BooksInv, ChargesBooked, Inv, RowsAreCharges
<1>3. payments[t].voided <=> transactions[t].status = "voided"
  BY <1>1 DEF BooksInv, VoidsBooked
<1>4. payments[t].refunded \in Nat /\ transactions[t].refunded \in Nat
  BY DEF Inv, TypeOK, GatewayTypeOK, PaymentRow, Transaction
<1>5. /\ payments[t].refunded <= transactions[t].refunded
      /\ transactions[t].refunded <= payments[t].refunded
  BY <1>1, <1>4, NothingPending DEF BooksInv, RefundsBooked
<1> QED
  BY <1>2, <1>3, <1>4, <1>5

LEMMA OnlyChargesInit == Init => OnlyCharges
BY DEF Init, OnlyCharges

(***************************************************************************)
(* As long as nothing failed, the service's rows and the acquirer's        *)
(* transactions tell the same story whenever no handler is in progress,    *)
(* however many of them worked on the same payment.                        *)
(***************************************************************************)
THEOREM RecordsStayTogether == Spec => []RecordsAgree
<1>1. Inv /\ Inv' /\ RefundsInv /\ [Next]_vars => RefundsInv'
  BY RefundsStep
<1>2. Inv /\ RefundsInv /\ OnlyCharges /\ [Next]_vars => OnlyCharges'
  BY OnlyChargesStep DEF RefundsInv
<1>3. Inv /\ Inv' /\ RefundsInv /\ OnlyCharges /\ BooksInv /\ [Next]_vars =>
        BooksInv'
  BY BooksStep
<1>4. Inv /\ BooksInv => RecordsAgree
  BY BooksAgree
<1> QED
  BY RefundsInit, OnlyChargesInit, BooksInit, <1>1, <1>2, <1>3, <1>4,
     Invariance, PTL DEF Spec

-----------------------------------------------------------------------------
(***************************************************************************)
(* The same of the audit log: every effect in the tables is logged, or a   *)
(* handler in progress is about to log it.                                 *)
(***************************************************************************)
\* A payment is logged by the handler that recorded it, or recorded it again.
Logging(w, t) == At(w, {"count_use", "audit_payment"}, t) /\ worker[w].approved

LoggedAt(t) ==
  /\ Recorded(t) => \/ InLog("payment", t)
                    \/ \E w \in Workers : Logging(w, t)
  /\ payments[t].refunded > 0 =>
       InLog("refund", t) \/ Due({"audit_refund"}, t)
  /\ payments[t].voided =>
       InLog("void", t) \/ Due({"audit_void"}, t)

LoggedInv == ~mishap => \A t \in Txns : LoggedAt(t)

LEMMA LoggedInit == Init => LoggedInv
BY DEF Init, LoggedInv, LoggedAt, Recorded, NoRow

\* What is due stays due, unless it is this handler that makes good on it.
LEMMA LoggedKept ==
  ASSUME Inv, ~mishap, LoggedInv, NEW w \in Workers,
         \A v \in Workers \ {w} : worker'[v] = worker[v],
         audit \subseteq audit', NEW t \in Txns,
         Recorded(t)' => Recorded(t) \/ Logging(w, t)',
         payments'[t].refunded > 0 =>
           payments[t].refunded > 0 \/ At(w, {"audit_refund"}, t)',
         payments'[t].voided =>
           payments[t].voided \/ At(w, {"audit_void"}, t)',
         Logging(w, t) => Logging(w, t)' \/ InLog("payment", t)',
         At(w, {"audit_refund"}, t) =>
           At(w, {"audit_refund"}, t)' \/ InLog("refund", t)',
         At(w, {"audit_void"}, t) =>
           At(w, {"audit_void"}, t)' \/ InLog("void", t)'
  PROVE  LoggedAt(t)'
<1>1. \A event : InLog(event, t) => InLog(event, t)'
  BY DEF InLog
<1>2. ASSUME Recorded(t)'
      PROVE  InLog("payment", t)' \/ \E v \in Workers : Logging(v, t)'
  <2>1. CASE Logging(w, t)' \/ InLog("payment", t)
    BY <1>1, <2>1
  <2>2. CASE ~Logging(w, t)' /\ ~InLog("payment", t)
    <3>1. PICK v \in Workers : Logging(v, t)
      BY <1>2, <2>2 DEF LoggedInv, LoggedAt
    <3>2. CASE v = w
      BY <3>1, <3>2
    <3>3. CASE v # w
      BY <3>1, <3>3 DEF Logging, At
    <3> QED
      BY <3>2, <3>3
  <2> QED
    BY <2>1, <2>2
<1>3. ASSUME payments'[t].refunded > 0
      PROVE  InLog("refund", t)' \/ Due({"audit_refund"}, t)'
  <2>1. CASE At(w, {"audit_refund"}, t)' \/ InLog("refund", t)
    BY <1>1, <2>1 DEF Due
  <2>2. CASE ~At(w, {"audit_refund"}, t)' /\ ~InLog("refund", t)
    BY <1>3, <2>2, DueStays DEF LoggedInv, LoggedAt
  <2> QED
    BY <2>1, <2>2
<1>4. ASSUME payments'[t].voided
      PROVE  InLog("void", t)' \/ Due({"audit_void"}, t)'
  <2>1. CASE At(w, {"audit_void"}, t)' \/ InLog("void", t)
    BY <1>1, <2>1 DEF Due
  <2>2. CASE ~At(w, {"audit_void"}, t)' /\ ~InLog("void", t)
    BY <1>4, <2>2, DueStays DEF LoggedInv, LoggedAt
  <2> QED
    BY <2>1, <2>2
<1> QED
  BY <1>2, <1>3, <1>4 DEF LoggedAt

LEMMA LoggedStepOf ==
  ASSUME Inv, RefundJobs, OnlyCharges, ~mishap, LoggedInv, NEW w \in Workers,
         StepOf(w), BooksSteps(w), NEW t \in Txns
  PROVE  LoggedAt(t)'
<1>1. \A v \in Workers \ {w} : worker'[v] = worker[v]
  BY OthersStay DEF Inv
<1>2. ASSUME worker[w].pc \in Started, UNCHANGED <<payments, audit>>
      PROVE  LoggedAt(t)'
  <2>1. /\ ~Logging(w, t)
        /\ ~At(w, {"audit_refund"}, t)
        /\ ~At(w, {"audit_void"}, t)
    BY <1>2 DEF Logging, At, Started
  <2> QED
    BY <1>1, <1>2, <2>1, LoggedKept DEF Recorded
<1>3. CASE Eventless(w)
  BY <1>2, <1>3, EventlessStep DEF Inv
<1>4. ASSUME NEW u \in Txns, PayAuthorize(w, u) PROVE LoggedAt(t)'
  BY <1>2, <1>4, AuthorizeStep DEF Started
<1>5. CASE RefundAtGateway(w) \/ VoidAtGateway(w)
  BY <1>2, <1>5, RefundGatewayStep, VoidGatewayStep DEF Started
<1>6. CASE PayRecord(w)
  <2>1. /\ ~Logging(w, t)
        /\ ~At(w, {"audit_refund"}, t)
        /\ ~At(w, {"audit_void"}, t)
    BY <1>6, PayRecordStep DEF Logging, At
  <2>2. t = worker[w].txn => Logging(w, t)'
    BY <1>6, PayRecordStep DEF Logging, At
  <2>3. /\ payments'[t].refunded = payments[t].refunded
        /\ payments'[t].voided = payments[t].voided
        /\ t # worker[w].txn => payments'[t] = payments[t]
        /\ UNCHANGED audit
    BY <1>6, PayRecordStep
  <2>4. Recorded(t)' => Recorded(t) \/ Logging(w, t)'
    BY <2>2, <2>3 DEF Recorded
  <2> QED
    BY <1>1, <2>1, <2>3, <2>4, LoggedKept
<1>7. CASE PayCount(w)
  <2>1. /\ Logging(w, t) => Logging(w, t)'
        /\ ~At(w, {"audit_refund"}, t)
        /\ ~At(w, {"audit_void"}, t)
        /\ UNCHANGED <<payments, audit>>
    BY <1>7, PayCountStep DEF Logging, At
  <2> QED
    BY <1>1, <2>1, LoggedKept DEF Recorded
<1>8. CASE PayAudit(w) \/ RefundAudit(w) \/ VoidAudit(w)
  <2>1. /\ Logging(w, t) => InLog("payment", t)'
        /\ At(w, {"audit_refund"}, t) => InLog("refund", t)'
        /\ At(w, {"audit_void"}, t) => InLog("void", t)'
        /\ audit \subseteq audit' /\ UNCHANGED payments
    BY <1>8, LogStep DEF Logging, At, InLog
  <2> QED
    BY <1>1, <2>1, LoggedKept DEF Recorded
<1>9. CASE RefundRecord(w)
  <2>1. /\ ~Logging(w, t)
        /\ ~At(w, {"audit_refund"}, t)
        /\ ~At(w, {"audit_void"}, t)
    BY <1>9, RefundRecordStep DEF Logging, At
  <2>2. t = worker[w].txn => At(w, {"audit_refund"}, t)'
    BY <1>9, RefundRecordStep DEF At
  <2>3. /\ Recorded(t)' => Recorded(t)
        /\ payments'[t].voided = payments[t].voided
        /\ payments'[t].refunded = payments[t].refunded +
             (IF t = worker[w].txn THEN worker[w].amount ELSE 0)
        /\ UNCHANGED audit
    BY <1>9, RefundRecordStep DEF Recorded
  <2>4. payments'[t].refunded > 0 =>
          payments[t].refunded > 0 \/ At(w, {"audit_refund"}, t)'
    BY <2>2, <2>3 DEF Inv, TypeOK, PaymentRow
  <2> QED
    BY <1>1, <2>1, <2>3, <2>4, LoggedKept
<1>10. CASE VoidRecord(w)
  <2>1. /\ ~Logging(w, t)
        /\ ~At(w, {"audit_refund"}, t)
        /\ ~At(w, {"audit_void"}, t)
    BY <1>10, VoidRecordStep DEF Logging, At
  <2>2. t = worker[w].txn => At(w, {"audit_void"}, t)'
    BY <1>10, VoidRecordStep DEF At
  <2>3. /\ Recorded(t)' => Recorded(t)
        /\ payments'[t].refunded = payments[t].refunded
        /\ payments'[t].voided => payments[t].voided \/ t = worker[w].txn
        /\ UNCHANGED audit
    BY <1>10, VoidRecordStep DEF Recorded
  <2> QED
    BY <1>1, <2>1, <2>2, <2>3, LoggedKept
<1> QED
  BY <1>3, <1>4, <1>5, <1>6, <1>7, <1>8, <1>9, <1>10 DEF BooksSteps

LEMMA LoggedStep ==
  ASSUME Inv, RefundsInv, OnlyCharges, LoggedInv, [Next]_vars
  PROVE  LoggedInv'
<1>1. CASE UNCHANGED vars
  <2>1. UNCHANGED <<payments, audit, worker, mishap>>
    BY <1>1 DEF vars
  <2>2. ASSUME NEW t \in Txns, LoggedAt(t) PROVE LoggedAt(t)'
    <3>1. \A w \in Workers : Logging(w, t) => Logging(w, t)'
      BY <2>1 DEF Logging, At
    <3>2. \A pcs : Due(pcs, t) => Due(pcs, t)'
      BY <2>1 DEF Due, At
    <3> QED
      BY <2>1, <2>2, <3>1, <3>2 DEF LoggedAt, Recorded, InLog
  <2> QED
    BY <2>1, <2>2 DEF LoggedInv
<1>2. CASE Restart
  BY <1>2 DEF Restart, LoggedInv
<1>3. ASSUME NEW w \in Workers, StepOf(w), ~mishap' PROVE LoggedInv'
  <2>1. BooksSteps(w)
    BY <1>3, BooksStepOf
  <2>2. ~mishap
    BY <1>3, <2>1, EventlessStep, AuthorizeStep, PayRecordStep, PayCountStep,
       LogStep, RefundGatewayStep, RefundRecordStep, VoidGatewayStep,
       VoidRecordStep DEF BooksSteps, Inv, RefundsInv
  <2>3. RefundJobs
    BY DEF RefundsInv
  <2> QED
    BY <1>3, <2>1, <2>2, <2>3, LoggedStepOf DEF LoggedInv
<1> QED
  BY <1>1, <1>2, <1>3, Steps DEF LoggedInv

(***************************************************************************)
(* As long as nothing failed, every effect has its audit row once the      *)
(* handlers in progress are done.                                          *)
(***************************************************************************)
THEOREM AuditKeepsUp == Spec => []AuditComplete
<1>1. Inv /\ Inv' /\ RefundsInv /\ [Next]_vars => RefundsInv'
  BY RefundsStep
<1>2. Inv /\ RefundsInv /\ OnlyCharges /\ [Next]_vars => OnlyCharges'
  BY OnlyChargesStep DEF RefundsInv
<1>3. Inv /\ RefundsInv /\ OnlyCharges /\ LoggedInv /\ [Next]_vars =>
        LoggedInv'
  BY LoggedStep
<1>4. LoggedInv => AuditComplete
  BY DEF LoggedInv, LoggedAt, AuditComplete, Quiet, Logging, Due, At, InLog
<1> QED
  BY RefundsInit, OnlyChargesInit, LoggedInit, <1>1, <1>2, <1>3, <1>4,
     Invariance, PTL DEF Spec

-----------------------------------------------------------------------------
(***************************************************************************)
(* The low-value allowance. A charge made under the exemption is counted   *)
(* by the handler that made it, two calls later; charging names the        *)
(* handlers whose charge is not counted yet. Another handler may count the *)
(* same charge a second time, after a retry, so the counters may show more *)
(* than was charged, never less.                                           *)
(***************************************************************************)
\* No handler is cut off between a charge and its count.
HandlersFinish == Faults \cap {"storage", "restart"} = {}

\* A customer whose code is a secret is always strongly authenticated.
AllowJobs ==
  \A w \in Workers : worker[w].pc \in PayPcs =>
    /\ worker[w].sca.strong <=> worker[w].customer \in SecretHint
    /\ worker[w].sca.lowValue => ~worker[w].sca.strong

\* The handlers that have yet to count an exempt payment of a customer.
Uncounted(c) ==
  {w \in Workers : /\ worker[w].pc \in {"record_payment", "count_use"}
                   /\ worker[w].customer = c
                   /\ worker[w].sca.lowValue}

Ones == [w \in Workers |-> 1]

AllowedFor(c, charging) ==
  /\ AtLeast(charging, Asked, usage[c].minor, exempt[c].minor)
  /\ AtLeast(charging, Ones, usage[c].count, exempt[c].count)

AllowAt(c) ==
  /\ c \in SecretHint => exempt[c] = NoUsage
  /\ c \notin SecretHint =>
       \E charging \in SUBSET Uncounted(c) : AllowedFor(c, charging)

AllowInv == AllowJobs /\ \A c \in Customers : AllowAt(c)

LEMMA AllowInit == Init => AllowInv
<1> SUFFICES ASSUME Init PROVE AllowInv
  OBVIOUS
<1>1. AllowJobs
  BY DEF Init, AllowJobs, Idle, PayPcs
<1>2. ASSUME NEW c \in Customers PROVE AllowAt(c)
  <2>1. exempt[c] = NoUsage /\ usage[c] = NoUsage
    BY DEF Init
  <2>2. AllowedFor(c, {})
    BY <2>1, NothingPending DEF AllowedFor, NoUsage
  <2>3. {} \in SUBSET Uncounted(c)
    OBVIOUS
  <2> QED
    BY <2>1, <2>2, <2>3 DEF AllowAt
<1> QED
  BY <1>1, <1>2 DEF AllowInv

LEMMA ScaStrong ==
  ASSUME NEW c, NEW amount
  PROVE  /\ ScaOf(c, amount).strong <=> c \in SecretHint
         /\ ScaOf(c, amount).lowValue => ~ScaOf(c, amount).strong
         /\ ScaOf(c, amount).lowValue => WithinLowValueLimits(usage[c], amount)
<1> DEFINE factors == FactorCategories(TRUE, c \in SecretHint)
<1>1. /\ c \in SecretHint => factors = Categories
      /\ c \notin SecretHint => factors # Categories
  <2>1. CASE c \in SecretHint
    BY <2>1 DEF FactorCategories, Categories
  <2>2. CASE c \notin SecretHint
    <3>1. "knowledge" \notin factors
      BY <2>2 DEF FactorCategories
    <3> QED
      BY <2>2, <3>1 DEF Categories
  <2> QED
    BY <2>1, <2>2
<1>2. /\ ScaOf(c, amount).strong = (factors = Categories)
      /\ ScaOf(c, amount).lowValue =>
           factors # Categories /\ WithinLowValueLimits(usage[c], amount)
  <2> HIDE DEF factors
  <2>1. \A cats, use :
          /\ Assess(cats, use, amount).strong = (cats = Categories)
          /\ Assess(cats, use, amount).lowValue =>
               cats # Categories /\ WithinLowValueLimits(use, amount)
    BY DEF Assess
  <2> QED
    BY <2>1 DEF ScaOf, factors
<1> HIDE DEF factors
<1> QED
  BY <1>1, <1>2

\* A handler's verdict and its customer stay what they were at the start.
LEMMA AllowJobsStep ==
  ASSUME Inv, AllowJobs, NEW w \in Workers, StepOf(w)
  PROVE  AllowJobs'
<1> USE DEF Inv
<1>1. \A v \in Workers \ {w} : worker'[v] = worker[v]
  BY OthersStay
<1>2. worker'[w].pc \in PayPcs =>
        \/ /\ worker[w].pc \in PayPcs
           /\ worker'[w].sca = worker[w].sca
           /\ worker'[w].customer = worker[w].customer
        \/ \E c \in Customers, a \in Amounts :
             worker'[w].sca = ScaOf(c, a) /\ worker'[w].customer = c
  <2>1. ASSUME NEW c \in Customers, NEW m \in Merchants, NEW k \in Keys,
               NEW a \in Amounts, PayBegin(w, c, m, k, a)
        PROVE  <1>2
    <3>1. worker'[w].sca = ScaOf(c, a) /\ worker'[w].customer = c
      BY <2>1 DEF PayBegin, TypeOK, Idle
    <3> QED
      BY <3>1
  <2>2. ASSUME NEW t \in Txns, PayAuthorize(w, t) PROVE <1>2
    <3>1. /\ worker[w].pc = "authorize"
          /\ worker'[w].sca = worker[w].sca
          /\ worker'[w].customer = worker[w].customer
      BY <2>2 DEF PayAuthorize, TypeOK, Job
    <3> QED
      BY <3>1 DEF PayPcs
  <2>3. CASE PayRecord(w) \/ PayCount(w)
    <3>1. /\ worker[w].pc \in PayPcs
          /\ Advance(w, "count_use") \/ Advance(w, "audit_payment")
      BY <2>3 DEF PayRecord, PayCount, PayPcs
    <3> QED
      BY <3>1, GoesOn
  <2>4. CASE \/ RefundAtGateway(w) \/ RefundRecord(w)
             \/ VoidAtGateway(w) \/ VoidRecord(w)
    <3>1. worker'[w].pc \in {"record_refund", "audit_refund", "mark_voided",
                             "audit_void"}
      BY <2>4, GoesOn DEF RefundAtGateway, RefundRecord, VoidAtGateway,
                          VoidRecord
    <3> QED
      BY <3>1 DEF PayPcs
  <2>5. CASE Finish(w)
    BY <2>5, Ends DEF Idle, PayPcs
  <2>6. CASE \/ \E t \in Txns, m \in Merchants :
                  \/ \E a \in Amounts \cup {None} : RefundBegin(w, t, m, a)
                  \/ VoidBegin(w, t, m)
             \/ \E c \in Customers, token \in Tokens :
                  ReplaceBegin(w, c, token)
    <3>1. worker'[w].pc \in {"gateway_refund", "gateway_void",
                             "update_payment_token"}
      BY <2>6 DEF RefundBegin, VoidBegin, ReplaceBegin, JobOn, Idle, TypeOK
    <3> QED
      BY <3>1 DEF PayPcs
  <2> QED
    BY <2>1, <2>2, <2>3, <2>4, <2>5, <2>6
       DEF StepOf, WorkerStep, PayGatewayError, PayAudit, RefundRefused,
           RefundAudit, VoidRefused, VoidAudit, ReplaceRecord, StorageFault
<1> QED
  BY <1>1, <1>2, ScaStrong DEF AllowJobs

\* Nothing is charged under the exemption, and nothing is counted.
LEMMA AllowKept ==
  ASSUME NEW w \in Workers,
         \A v \in Workers \ {w} : worker'[v] = worker[v],
         NEW c \in Customers, AllowAt(c),
         usage'[c] = usage[c], exempt'[c] = exempt[c],
         w \in Uncounted(c) =>
           w \in Uncounted(c)' /\ worker'[w].amount = worker[w].amount
  PROVE  AllowAt(c)'
<1>1. CASE c \in SecretHint
  BY <1>1 DEF AllowAt
<1>2. CASE c \notin SecretHint
  <2>1. PICK charging \in SUBSET Uncounted(c) : AllowedFor(c, charging)
    BY <1>2 DEF AllowAt
  <2>2. charging \in SUBSET Uncounted(c)'
    BY <2>1 DEF Uncounted
  <2>3. /\ \A v \in charging : Asked'[v] = Asked[v]
        /\ \A v \in charging : Ones'[v] = Ones[v]
    BY <2>1 DEF Uncounted, Asked, Ones
  <2>4. AllowedFor(c, charging)'
    BY <2>1, <2>3, SameSizes DEF AllowedFor
  <2> QED
    BY <1>2, <2>2, <2>4 DEF AllowAt
<1> QED
  BY <1>1, <1>2

LEMMA UncountedSized ==
  ASSUME Inv, NEW c \in Customers, NEW charging \in SUBSET Uncounted(c)
  PROVE  Sized(charging, Asked) /\ Sized(charging, Ones)
<1>1. \A v \in charging : worker[v].amount \in Nat \ {0}
  BY GatewayAssumption DEF Inv, JobsOK, JobOK, PayJobOK, PayPcs, Uncounted
<1> QED
  BY <1>1 DEF Sized, Asked, Ones, Uncounted

\* A new exempt charge, which its handler has yet to count.
LEMMA AllowCharge ==
  ASSUME Inv, AllowJobs, NEW w \in Workers,
         \A v \in Workers \ {w} : worker'[v] = worker[v],
         NEW c \in Customers, c \notin SecretHint, AllowAt(c),
         worker[w].pc = "authorize",
         worker'[w].pc = "record_payment",
         worker'[w].customer = c, worker'[w].sca.lowValue,
         worker'[w].amount = worker[w].amount,
         usage' = usage, exempt'[c] = AddUse(exempt[c], worker[w].amount)
  PROVE  AllowAt(c)'
<1>1. PICK charging \in SUBSET Uncounted(c) : AllowedFor(c, charging)
  BY DEF AllowAt
<1> DEFINE more == charging \cup {w}
<1>2. w \notin charging
  BY DEF Uncounted
<1>3. more \in SUBSET Uncounted(c)'
  BY <1>1 DEF Uncounted
<1>4. /\ \A v \in more : Asked'[v] = Asked[v]
      /\ \A v \in more : Ones'[v] = Ones[v]
      /\ Asked[w] = worker[w].amount /\ Ones[w] = 1
  BY <1>1 DEF Uncounted, Asked, Ones
<1>5. worker[w].amount \in Nat \ {0}
  BY GatewayAssumption DEF Inv, JobsOK, JobOK, PayJobOK, PayPcs
<1>6. Sized(more, Asked) /\ Sized(more, Ones)
  BY <1>4, <1>5, UncountedSized DEF Sized
<1>7. /\ usage[c].minor \in Nat /\ usage[c].count \in Nat
      /\ exempt[c].minor \in Nat /\ exempt[c].count \in Nat
  BY DEF Inv, TypeOK, Usage
<1>8. /\ AtLeast(more, Asked, usage[c].minor, exempt[c].minor + Asked[w])
      /\ AtLeast(more, Ones, usage[c].count, exempt[c].count + Ones[w])
  BY <1>1, <1>2, <1>6, <1>7, OneMore DEF AllowedFor
<1>9. /\ AtLeast(more, Asked', usage[c].minor, exempt[c].minor + Asked[w])
      /\ AtLeast(more, Ones', usage[c].count, exempt[c].count + Ones[w])
  BY <1>4, <1>8, SameSizes
<1>10. /\ exempt'[c].minor = exempt[c].minor + Asked[w]
       /\ exempt'[c].count = exempt[c].count + Ones[w]
  BY <1>4 DEF AddUse
<1>11. AllowedFor(c, more)'
  BY <1>9, <1>10 DEF AllowedFor
<1> QED
  BY <1>3, <1>11 DEF AllowAt

\* A payment is counted, also one that an earlier handler had charged.
LEMMA AllowCount ==
  ASSUME Inv, NEW w \in Workers,
         \A v \in Workers \ {w} : worker'[v] = worker[v],
         NEW c \in Customers, c \notin SecretHint, AllowAt(c),
         w \in Uncounted(c), w \notin Uncounted(c)',
         exempt' = exempt, usage'[c] = AddUse(usage[c], worker[w].amount)
  PROVE  AllowAt(c)'
<1>1. PICK charging \in SUBSET Uncounted(c) : AllowedFor(c, charging)
  BY DEF AllowAt
<1> DEFINE less == charging \ {w}
<1>3. less \in SUBSET Uncounted(c)'
  BY <1>1 DEF Uncounted
<1>4. /\ \A v \in less : Asked'[v] = Asked[v]
      /\ \A v \in less : Ones'[v] = Ones[v]
      /\ Asked[w] = worker[w].amount /\ Ones[w] = 1
  BY <1>1 DEF Uncounted, Asked, Ones
<1>6. /\ Sized(charging, Asked) /\ Sized(charging, Ones)
      /\ worker[w].amount \in Nat
  BY UncountedSized DEF Inv, TypeOK, Job
<1>7. /\ usage[c].minor \in Nat /\ usage[c].count \in Nat
      /\ exempt[c].minor \in Nat /\ exempt[c].count \in Nat
  BY DEF Inv, TypeOK, Usage
<1>8. /\ AtLeast(less, Asked, usage[c].minor + Asked[w], exempt[c].minor)
      /\ AtLeast(less, Ones, usage[c].count + Ones[w], exempt[c].count)
  <2>1. CASE w \in charging
    BY <1>1, <1>6, <1>7, <2>1, OneLess DEF AllowedFor
  <2>2. CASE w \notin charging
    <3>1. less = charging
      BY <2>2
    <3>2. /\ usage[c].minor + Asked[w] \in Nat
          /\ usage[c].count + Ones[w] \in Nat
          /\ usage[c].minor <= usage[c].minor + Asked[w]
          /\ usage[c].count <= usage[c].count + Ones[w]
      BY <1>4, <1>6, <1>7
    <3> HIDE DEF less
    <3> QED
      BY <1>1, <1>7, <3>1, <3>2, CountedBeyond DEF AllowedFor
  <2> QED
    BY <2>1, <2>2
<1>9. /\ AtLeast(less, Asked', usage[c].minor + Asked[w], exempt[c].minor)
      /\ AtLeast(less, Ones', usage[c].count + Ones[w], exempt[c].count)
  BY <1>4, <1>8, SameSizes
<1>10. /\ usage'[c].minor = usage[c].minor + Asked[w]
       /\ usage'[c].count = usage[c].count + Ones[w]
  BY <1>4 DEF AddUse
<1>11. AllowedFor(c, less)'
  BY <1>9, <1>10 DEF AllowedFor
<1> QED
  BY <1>3, <1>11 DEF AllowAt

\* A charge is made only for a payment that may proceed.
LEMMA ChargeMayProceed ==
  ASSUME Inv, NEW w \in Workers, NEW t \in Txns, PayAuthorize(w, t),
         idempotency[worker[w].key] = None,
         idempotency'[worker[w].key].approved
  PROVE  MayProceed(worker[w].sca)
<1> USE DEF Inv
<1> DEFINE key == worker[w].key
<1>1. key \in Keys
  BY DEF PayAuthorize, JobsOK, JobOK, PayJobOK, PayPcs
<1>2. ~AnswerFromCache(RequestOf(worker[w]))
  BY DEF AnswerFromCache, RequestOf
<1>3. ASSUME Decline(RequestOf(worker[w])) PROVE FALSE
  <2>1. idempotency' = [idempotency EXCEPT ![key] =
          [approved |-> FALSE, txn |-> None, amount |-> worker[w].amount]]
    BY <1>3 DEF Decline, RequestOf
  <2>2. ~idempotency'[key].approved
    BY <1>1, <2>1 DEF TypeOK, GatewayTypeOK
  <2> QED
    BY <2>2
<1> QED
  BY <1>2, <1>3 DEF PayAuthorize, Authorize, Approve, Approves, RequestOf

\* What an authorisation adds to the history.
LEMMA AllowAuthorize ==
  ASSUME Inv, AllowInv, NEW w \in Workers, NEW t \in Txns, PayAuthorize(w, t),
         NEW c \in Customers
  PROVE  AllowAt(c)'
<1> USE DEF Inv
<1>1. \A v \in Workers \ {w} : worker'[v] = worker[v]
  BY OthersStay DEF StepOf, WorkerStep
<1>2. /\ worker[w].pc = "authorize" /\ w \notin Uncounted(c)
      /\ worker'[w].sca = worker[w].sca
      /\ worker'[w].customer = worker[w].customer
      /\ worker'[w].amount = worker[w].amount
      /\ UNCHANGED usage
  BY DEF PayAuthorize, TypeOK, Job, Uncounted, tables
<1> DEFINE key == worker[w].key
           own == worker[w].customer
<1>3. key \in Keys /\ own \in Customers
  BY <1>2 DEF JobsOK, JobOK, PayJobOK, PayPcs
<1>4. CASE exempt' = exempt
  BY <1>1, <1>2, <1>4, AllowKept DEF AllowInv
<1>5. CASE exempt' # exempt
  <2>1. /\ idempotency[key] = None /\ idempotency'[key].approved
        /\ exempt' = [exempt EXCEPT ![own] =
             IF worker[w].sca.strong THEN NoUsage
             ELSE AddUse(@, worker[w].amount)]
    BY <1>5 DEF PayAuthorize, ExemptAfter
  <2>2. worker'[w].pc = "record_payment"
    BY <2>1 DEF PayAuthorize, TypeOK, Job
  <2>3. MayProceed(worker[w].sca)
    BY <2>1, ChargeMayProceed
  <2>4. CASE c = own /\ worker[w].sca.strong
    <3>1. exempt'[c] = NoUsage /\ c \in SecretHint
      BY <1>2, <1>3, <2>1, <2>4 DEF TypeOK, AllowInv, AllowJobs, PayPcs
    <3> QED
      BY <3>1 DEF AllowAt
  <2>5. CASE c = own /\ ~worker[w].sca.strong
    <3>1. /\ exempt'[c] = AddUse(exempt[c], worker[w].amount)
          /\ c \notin SecretHint /\ worker[w].sca.lowValue
      BY <1>2, <1>3, <2>1, <2>3, <2>5 DEF TypeOK, AllowInv, AllowJobs, PayPcs,
                                          MayProceed
    <3> QED
      BY <1>1, <1>2, <2>2, <2>5, <3>1, AllowCharge DEF AllowInv
  <2>6. CASE c # own
    <3>1. exempt'[c] = exempt[c]
      BY <2>1, <2>6 DEF TypeOK
    <3> QED
      BY <1>1, <1>2, <3>1, AllowKept DEF AllowInv
  <2> QED
    BY <2>4, <2>5, <2>6
<1> QED
  BY <1>4, <1>5

LEMMA AllowPayCount ==
  ASSUME Inv, AllowInv, NEW w \in Workers, PayCount(w), NEW c \in Customers
  PROVE  AllowAt(c)'
<1> USE DEF Inv
<1> DEFINE own == worker[w].customer
<1>1. /\ \A v \in Workers \ {w} : worker'[v] = worker[v]
      /\ worker[w].pc = "count_use" /\ worker'[w].pc = "audit_payment"
      /\ UNCHANGED exempt
  BY OthersStay, PayCountStep DEF StepOf, WorkerStep, PayCount
<1>2. w \notin Uncounted(c)'
  BY <1>1 DEF Uncounted
<1>3. own \in Customers
  BY <1>1 DEF JobsOK, JobOK, PayJobOK, PayPcs
<1>4. usage' = [usage EXCEPT ![own] =
        IF worker[w].sca.strong THEN NoUsage
        ELSE IF worker[w].sca.lowValue THEN AddUse(@, worker[w].amount)
        ELSE @]
  BY DEF PayCount, UsageAfter
<1>5. /\ worker[w].sca.strong <=> own \in SecretHint
      /\ worker[w].sca.lowValue => ~worker[w].sca.strong
  BY <1>1 DEF AllowInv, AllowJobs, PayPcs
<1>6. CASE c = own /\ c \notin SecretHint /\ worker[w].sca.lowValue
  <2>1. usage'[c] = AddUse(usage[c], worker[w].amount)
    BY <1>4, <1>5, <1>6 DEF TypeOK
  <2>2. w \in Uncounted(c)
    BY <1>1, <1>6 DEF Uncounted
  <2> QED
    BY <1>1, <1>2, <1>6, <2>1, <2>2, AllowCount DEF AllowInv
<1>7. CASE c = own /\ c \notin SecretHint /\ ~worker[w].sca.lowValue
  <2>1. usage'[c] = usage[c]
    BY <1>4, <1>5, <1>7 DEF TypeOK
  <2>2. w \notin Uncounted(c)
    BY <1>7 DEF Uncounted
  <2> QED
    BY <1>1, <2>1, <2>2, AllowKept DEF AllowInv
<1>8. CASE c \in SecretHint
  BY <1>1, <1>8 DEF AllowAt, AllowInv
<1>9. CASE c # own
  <2>1. usage'[c] = usage[c] /\ w \notin Uncounted(c)
    BY <1>4, <1>9 DEF TypeOK, Uncounted
  <2> QED
    BY <1>1, <2>1, AllowKept DEF AllowInv
<1> QED
  BY <1>6, <1>7, <1>8, <1>9

LEMMA AllowElsewhere ==
  ASSUME Inv, AllowInv, NEW w \in Workers, StepOf(w), HandlersFinish,
         ~PayCount(w), \A t \in Txns : ~PayAuthorize(w, t),
         NEW c \in Customers
  PROVE  AllowAt(c)'
<1> USE DEF Inv
<1>1. /\ \A v \in Workers \ {w} : worker'[v] = worker[v]
      /\ ~StorageFault(w)
  BY OthersStay DEF StorageFault, HandlersFinish
<1>2. CASE PayRecord(w)
  <2>1. /\ worker[w].pc = "record_payment" /\ Advance(w, "count_use")
        /\ UNCHANGED <<usage, exempt>>
    BY <1>2 DEF PayRecord
  <2>2. w \in Uncounted(c) =>
          w \in Uncounted(c)' /\ worker'[w].amount = worker[w].amount
    BY <2>1, GoesOn DEF Uncounted
  <2> QED
    BY <1>1, <2>1, <2>2, AllowKept DEF AllowInv
<1>3. CASE ~PayRecord(w)
  <2>1. UNCHANGED <<usage, exempt>>
    BY <1>1, <1>3
       DEF StepOf, WorkerStep, PayBegin, RefundBegin, VoidBegin, ReplaceBegin,
           PayGatewayError, PayAudit, RefundAtGateway, RefundRefused,
           RefundRecord, RefundAudit, VoidAtGateway, VoidRefused, VoidRecord,
           VoidAudit, ReplaceRecord, tables
  <2>2. w \notin Uncounted(c)
    BY <1>1, <1>3
       DEF StepOf, WorkerStep, PayBegin, RefundBegin, VoidBegin, ReplaceBegin,
           PayGatewayError, PayAudit, RefundAtGateway, RefundRefused,
           RefundRecord, RefundAudit, VoidAtGateway, VoidRefused, VoidRecord,
           VoidAudit, ReplaceRecord, Uncounted
  <2> QED
    BY <1>1, <2>1, <2>2, AllowKept DEF AllowInv
<1> QED
  BY <1>2, <1>3

LEMMA AllowStep ==
  ASSUME Inv, AllowInv, HandlersFinish, [Next]_vars
  PROVE  AllowInv'
<1>1. CASE UNCHANGED vars
  <2>1. UNCHANGED <<worker, usage, exempt>>
    BY <1>1 DEF vars
  <2>2. ASSUME NEW c \in Customers PROVE AllowAt(c)'
    <3>1. Uncounted(c)' = Uncounted(c) /\ Asked' = Asked
      BY <2>1 DEF Uncounted, Asked
    <3> QED
      BY <2>1, <3>1 DEF AllowInv, AllowAt, AllowedFor, Ones
  <2> QED
    BY <2>1, <2>2 DEF AllowInv, AllowJobs
<1>2. ~Restart
  BY DEF Restart, HandlersFinish
<1>3. ASSUME NEW w \in Workers, StepOf(w) PROVE AllowInv'
  <2>1. AllowJobs'
    BY <1>3, AllowJobsStep DEF AllowInv
  <2>2. ASSUME NEW c \in Customers PROVE AllowAt(c)'
    BY <1>3, AllowAuthorize, AllowPayCount, AllowElsewhere
  <2> QED
    BY <2>1, <2>2 DEF AllowInv
<1> QED
  BY <1>1, <1>2, <1>3, Steps

LEMMA AllowCounted ==
  ASSUME Inv, AllowInv
  PROVE  AllowanceNeverUndercounted
<1> SUFFICES ASSUME NEW c \in Customers, ~Counting(c)
             PROVE  /\ exempt[c].minor <= usage[c].minor
                    /\ exempt[c].count <= usage[c].count
  BY DEF AllowanceNeverUndercounted
<1>1. /\ usage[c].minor \in Nat /\ usage[c].count \in Nat
      /\ exempt[c].minor \in Nat /\ exempt[c].count \in Nat
  BY DEF Inv, TypeOK, Usage
<1>2. CASE c \in SecretHint
  BY <1>1, <1>2 DEF AllowInv, AllowAt, NoUsage
<1>3. CASE c \notin SecretHint
  <2>1. Uncounted(c) = {}
    BY DEF Uncounted, Counting
  <2>2. AllowedFor(c, {})
    BY <1>3, <2>1 DEF AllowInv, AllowAt
  <2> QED
    BY <1>1, <2>2, NothingPending DEF AllowedFor
<1> QED
  BY <1>2, <1>3

(***************************************************************************)
(* Unless handlers are cut off, the counters never show less than the      *)
(* exempt charges that were made, except while the handler that made one   *)
(* has yet to count it; for any number of handlers of the same customer.   *)
(***************************************************************************)
THEOREM AllowanceIsCounted ==
  ASSUME HandlersFinish
  PROVE  Spec => []AllowanceNeverUndercounted
<1>1. Inv /\ AllowInv /\ [Next]_vars => AllowInv'
  BY AllowStep
<1>2. Inv /\ AllowInv => AllowanceNeverUndercounted
  BY AllowCounted
<1> QED
  BY AllowInit, <1>1, <1>2, Invariance, PTL DEF Spec

-----------------------------------------------------------------------------
(***************************************************************************)
(* One handler at a time, as the program is shipped. A cardholder is never *)
(* credited more than the charge, with a storage that does not fail; the   *)
(* charges under the low-value exemption stay within its limits, and the   *)
(* service implements CardLedger, when no handler is cut off. For two      *)
(* handlers TLC refutes each of the three.                                 *)
(***************************************************************************)
OneAtATime == \A v, w \in Workers : v = w
Serial == OneAtATime /\ "storage" \notin Faults

(***************************************************************************)
(* The acquirer's account of a transaction against the cardholder's and    *)
(* the service's.  Unbooked: the refund at the acquirer has yet to reach   *)
(* the payments table.                                                     *)
(***************************************************************************)
Unbooked(t) ==
  \E w \in Workers : worker[w].pc = "record_refund" /\ worker[w].txn = t

ApprovedOK(t) ==
  transactions[t].status = "approved" =>
    /\ transactions[t].token \in accounts
    /\ transactions[t].amount = statement[t].charged
    /\ transactions[t].refunded = statement[t].credited
    /\ transactions[t].refunded <= transactions[t].amount
    /\ ~Unbooked(t) => transactions[t].refunded = payments[t].refunded

VoidedOK(t) ==
  transactions[t].status = "voided" => transactions[t].amount = 0

\* What the handler in progress may rely on, nobody else being at work.
ReversingOK(job) ==
  /\ job.pc = "gateway_refund" => job.amount > 0
  /\ job.pc = "gateway_void" => payments[job.txn].refunded = 0
  /\ job.pc = "record_refund" /\ transactions[job.txn].status = "approved" =>
       transactions[job.txn].refunded = payments[job.txn].refunded + job.amount

SerialInv ==
  /\ \A t \in Txns : ApprovedOK(t) /\ VoidedOK(t)
  /\ \A w \in Workers : ReversingOK(worker[w])
  /\ NoOverCredit

-----------------------------------------------------------------------------
LEMMA SerialInit == Init => SerialInv
BY DEF Init, SerialInv, ApprovedOK, VoidedOK, ReversingOK, NoOverCredit,
       NoTransaction, NoEntry, Idle

\* A step that leaves the acquirer and the payments table alone.
LEMMA SerialLocal ==
  ASSUME OneAtATime, SerialInv, NEW w \in Workers,
         UNCHANGED <<gatewayVars, payments>>,
         worker[w].pc # "record_refund",
         worker'[w].pc # "record_refund",
         ReversingOK(worker'[w])
  PROVE  SerialInv'
<1>1. \A v \in Workers : v = w
  BY DEF OneAtATime
<1>2. \A t \in Txns : ~Unbooked(t) /\ ~Unbooked(t)'
  BY <1>1 DEF Unbooked
<1>3. \A t \in Txns : ApprovedOK(t)' /\ VoidedOK(t)'
  BY <1>2 DEF gatewayVars, SerialInv, ApprovedOK, VoidedOK
<1>4. \A v \in Workers : ReversingOK(worker[v])'
  BY <1>1 DEF gatewayVars, ReversingOK
<1>5. NoOverCredit'
  BY DEF gatewayVars, SerialInv, NoOverCredit
<1> QED
  BY <1>3, <1>4, <1>5 DEF SerialInv

LEMMA SerialBegin ==
  ASSUME OneAtATime, TypeOK, SerialInv, NEW w \in Workers,
         \/ \E c \in Customers, m \in Merchants, k \in Keys, a \in Amounts :
              PayBegin(w, c, m, k, a)
         \/ \E t \in Txns, m \in Merchants :
              \/ \E a \in Amounts \cup {None} : RefundBegin(w, t, m, a)
              \/ VoidBegin(w, t, m)
  PROVE  SerialInv'
<1>1. worker[w].pc = "idle" /\ UNCHANGED <<gatewayVars, payments>>
  BY DEF PayBegin, RefundBegin, VoidBegin, tables
<1>2. worker'[w].pc # "record_refund" /\ ReversingOK(worker'[w])
  <2>1. ASSUME NEW c \in Customers, NEW m \in Merchants, NEW k \in Keys,
               NEW a \in Amounts, PayBegin(w, c, m, k, a)
        PROVE  <1>2
    <3>1. worker'[w].pc = "authorize"
      BY <2>1 DEF PayBegin, Idle, TypeOK
    <3> QED
      BY <3>1 DEF ReversingOK
  <2>2. ASSUME NEW t \in Txns, NEW m \in Merchants,
               NEW a \in Amounts \cup {None}, RefundBegin(w, t, m, a)
        PROVE  <1>2
    <3>1. worker'[w].pc = "gateway_refund" /\ worker'[w].amount > 0
      BY <2>2 DEF RefundBegin, JobOn, Idle, TypeOK
    <3> QED
      BY <3>1 DEF ReversingOK
  <2>3. ASSUME NEW t \in Txns, NEW m \in Merchants, VoidBegin(w, t, m)
        PROVE  <1>2
    <3>1. worker'[w].pc = "gateway_void" /\ worker'[w].txn = t
      BY <2>3 DEF VoidBegin, JobOn, Idle, TypeOK
    <3> QED
      BY <2>3, <3>1 DEF VoidBegin, MayVoid, ReversingOK
  <2> QED
    BY <2>1, <2>2, <2>3
<1> QED
  BY <1>1, <1>2, SerialLocal

\* A handler that ends, or goes on with the acquirer and the rows untouched.
LEMMA SerialQuiet ==
  ASSUME OneAtATime, TypeOK, SerialInv, NEW w \in Workers,
         \/ /\ AnswerFromCache(RequestOf(worker[w]))
            /\ \E t \in Txns : PayAuthorize(w, t)
         \/ PayGatewayError(w) \/ PayCount(w) \/ PayAudit(w)
         \/ RefundRefused(w) \/ RefundAudit(w)
         \/ VoidRefused(w) \/ VoidAudit(w)
         \/ ReplaceRecord(w)
  PROVE  SerialInv'
<1>1. worker[w].pc # "record_refund" /\ UNCHANGED <<gatewayVars, payments>>
  BY DEF PayAuthorize, AnswerFromCache, PayGatewayError, PayCount, PayAudit,
         RefundRefused, RefundAudit, VoidRefused, VoidAudit, ReplaceRecord,
         tables
<1>2. worker'[w].pc \in {"idle", "record_payment", "audit_payment"}
  BY DEF PayAuthorize, PayGatewayError, PayCount, PayAudit, RefundRefused,
         RefundAudit, VoidRefused, VoidAudit, ReplaceRecord, Finish, Advance,
         Idle, TypeOK, Job
<1> QED
  BY <1>1, <1>2, SerialLocal DEF ReversingOK

-----------------------------------------------------------------------------
(***************************************************************************)
(* The steps at the acquirer.                                              *)
(***************************************************************************)
LEMMA SerialDecline ==
  ASSUME OneAtATime, TypeOK, SerialInv, NEW w \in Workers, NEW t \in Txns,
         PayAuthorize(w, t), Decline(RequestOf(worker[w]))
  PROVE  SerialInv'
<1>1. /\ UNCHANGED <<accounts, transactions, statement, payments>>
      /\ \A v \in Workers : v = w
      /\ worker[w].pc = "authorize"
  BY DEF PayAuthorize, Decline, tables, OneAtATime
<1>2. worker'[w].pc \in {"record_payment", "audit_payment"}
  BY DEF PayAuthorize, TypeOK, Job
<1>3. \A u \in Txns : ~Unbooked(u) /\ ~Unbooked(u)'
  BY <1>1, <1>2 DEF Unbooked
<1>4. \A u \in Txns : ApprovedOK(u)' /\ VoidedOK(u)'
  BY <1>1, <1>3 DEF SerialInv, ApprovedOK, VoidedOK
<1>5. \A v \in Workers : ReversingOK(worker[v])'
  BY <1>1, <1>2 DEF ReversingOK
<1> QED
  BY <1>1, <1>4, <1>5 DEF SerialInv, NoOverCredit

LEMMA SerialApprove ==
  ASSUME OneAtATime, Inv, SerialInv, NEW w \in Workers, NEW t \in Txns,
         PayAuthorize(w, t), Approve(RequestOf(worker[w]), t)
  PROVE  SerialInv'
<1> DEFINE token == worker[w].token
           amount == worker[w].amount
<1>1. /\ transactions' = [transactions EXCEPT ![t] =
                            [status |-> "approved", token |-> token,
                             amount |-> amount, captured |-> FALSE,
                             refunded |-> 0]]
      /\ statement' = [statement EXCEPT ![t] =
                         [charged |-> amount, credited |-> 0,
                          key |-> worker[w].key]]
      /\ statement[t] = NoEntry
      /\ token \in accounts
      /\ UNCHANGED <<accounts, payments>>
  BY DEF PayAuthorize, Approve, Approves, ChargeCard, RequestOf, tables
<1>2. amount \in Nat
  BY DEF PayAuthorize, Inv, TypeOK, Job
<1>3. /\ \A v \in Workers : v = w
      /\ worker[w].pc = "authorize"
      /\ worker'[w].pc \in {"record_payment", "audit_payment"}
  BY DEF PayAuthorize, Inv, TypeOK, Job, OneAtATime
<1>4. payments[t].refunded = 0
  BY <1>1 DEF Inv, RowsAreCharges, Recorded, Charged, NoEntry, NoRow
<1>5. \A u \in Txns : ~Unbooked(u) /\ ~Unbooked(u)'
  BY <1>3 DEF Unbooked
<1>6. ASSUME NEW u \in Txns PROVE ApprovedOK(u)' /\ VoidedOK(u)'
  <2>1. CASE u = t
    BY <1>1, <1>2, <1>4, <2>1
       DEF Inv, TypeOK, GatewayTypeOK, ApprovedOK, VoidedOK
  <2>2. CASE u # t
    <3>1. transactions'[u] = transactions[u] /\ statement'[u] = statement[u]
      BY <1>1, <2>2 DEF Inv, TypeOK, GatewayTypeOK
    <3> QED
      BY <1>1, <1>5, <3>1 DEF SerialInv, ApprovedOK, VoidedOK
  <2> QED
    BY <2>1, <2>2
<1>7. \A v \in Workers : ReversingOK(worker[v])'
  BY <1>3 DEF ReversingOK
<1>8. NoOverCredit'
  BY <1>1, <1>2 DEF SerialInv, NoOverCredit, Inv, TypeOK, GatewayTypeOK
<1> QED
  BY <1>6, <1>7, <1>8 DEF SerialInv

LEMMA SerialRefund ==
  ASSUME OneAtATime, Inv, SerialInv, NEW w \in Workers, RefundAtGateway(w)
  PROVE  SerialInv'
<1>1. PICK t \in Txns, amount \in Nat \ {0} :
        /\ \A v \in Workers : v = w
        /\ worker[w].pc = "gateway_refund"
        /\ worker[w].txn = t /\ worker[w].amount = amount
        /\ worker'[w].pc = "record_refund"
        /\ worker'[w].txn = t /\ worker'[w].amount = amount
  BY DEF OneAtATime, RefundAtGateway, Advance, Inv, TypeOK, Job, JobsOK, JobOK,
         ReversalJobOK, RefundPcs, SerialInv, ReversingOK
<1>2. /\ transactions[t].status = "approved"
      /\ amount <= transactions[t].amount - transactions[t].refunded
      /\ transactions' = [transactions EXCEPT ![t].refunded = @ + amount]
      /\ Credit(t, amount)
      /\ UNCHANGED <<accounts, payments>>
  BY <1>1 DEF RefundAtGateway, GatewayRefund, Refundable, OrAll, tables
<1>3. ApprovedOK(t) /\ ~Unbooked(t)
  BY <1>1 DEF SerialInv, Unbooked
<1>4. statement' = [statement EXCEPT ![t].credited = @ + amount]
  BY <1>2, <1>3 DEF ApprovedOK, Credit
<1>5. /\ transactions[t] \in Transaction /\ statement[t] \in Entry
      /\ transactions'[t] = [transactions[t] EXCEPT !.refunded = @ + amount]
      /\ statement'[t] = [statement[t] EXCEPT !.credited = @ + amount]
      /\ \A u \in Txns \ {t} : /\ transactions'[u] = transactions[u]
                               /\ statement'[u] = statement[u]
  BY <1>1, <1>2, <1>4 DEF Inv, TypeOK, GatewayTypeOK
<1>6. /\ transactions'[t].status = "approved"
      /\ transactions'[t].token = transactions[t].token
      /\ transactions'[t].amount = transactions[t].amount
      /\ transactions'[t].refunded = transactions[t].refunded + amount
      /\ statement'[t].charged = statement[t].charged
      /\ statement'[t].credited = statement[t].credited + amount
  BY <1>2, <1>5 DEF Transaction, Entry
<1>7. /\ transactions[t].refunded \in Nat /\ transactions[t].amount \in Nat
      /\ payments[t].refunded \in Nat
  BY <1>1, <1>5 DEF Transaction, Inv, TypeOK, PaymentRow
<1>8. Unbooked(t)'
  BY <1>1 DEF Unbooked
<1>9. ASSUME NEW u \in Txns PROVE ApprovedOK(u)' /\ VoidedOK(u)'
  <2>1. CASE u = t
    BY <1>1, <1>2, <1>3, <1>6, <1>7, <1>8, <2>1 DEF ApprovedOK, VoidedOK
  <2>2. CASE u # t
    <3>1. ~Unbooked(u)
      BY <1>1 DEF Unbooked
    <3> QED
      BY <1>2, <1>5, <2>2, <3>1 DEF SerialInv, ApprovedOK, VoidedOK
  <2> QED
    BY <2>1, <2>2
<1>10. transactions'[t].refunded = payments'[t].refunded + amount
  BY <1>1, <1>2, <1>3, <1>6, <1>7 DEF ApprovedOK
<1>11. \A v \in Workers : ReversingOK(worker[v])'
  BY <1>1, <1>10 DEF ReversingOK
<1>12. NoOverCredit'
  <2>1. statement'[t].credited <= statement'[t].charged
    BY <1>1, <1>2, <1>3, <1>6, <1>7 DEF ApprovedOK
  <2> QED
    BY <1>5, <2>1 DEF SerialInv, NoOverCredit
<1> QED
  BY <1>9, <1>11, <1>12 DEF SerialInv

LEMMA SerialVoid ==
  ASSUME OneAtATime, Inv, SerialInv, NEW w \in Workers, VoidAtGateway(w)
  PROVE  SerialInv'
<1>1. PICK t \in Txns :
        /\ \A v \in Workers : v = w
        /\ worker[w].pc = "gateway_void"
        /\ worker[w].txn = t
        /\ worker'[w].pc = "mark_voided"
        /\ payments[t].refunded = 0
  BY DEF OneAtATime, VoidAtGateway, Advance, Inv, TypeOK, Job, JobsOK, JobOK,
         ReversalJobOK, VoidPcs, SerialInv, ReversingOK
<1>2. /\ transactions[t].status # "none"
      /\ transactions' = [transactions EXCEPT ![t].status = "voided",
                                              ![t].amount = 0]
      /\ Credit(t, transactions[t].amount)
      /\ UNCHANGED <<accounts, payments>>
  BY <1>1 DEF VoidAtGateway, GatewayVoid, Voidable, tables
<1>3. ApprovedOK(t) /\ VoidedOK(t) /\ ~Unbooked(t)
  BY <1>1 DEF SerialInv, Unbooked
<1>4. transactions[t] \in Transaction /\ statement[t] \in Entry
  BY DEF Inv, TypeOK, GatewayTypeOK
<1>5. /\ transactions'[t].status = "voided"
      /\ transactions'[t].amount = 0
      /\ \A u \in Txns \ {t} : /\ transactions'[u] = transactions[u]
                               /\ statement'[u] = statement[u]
  BY <1>2, <1>4 DEF Credit, Transaction, Inv, TypeOK, GatewayTypeOK
<1>6. statement'[t].credited <= statement'[t].charged
  <2>1. CASE transactions[t].status = "approved"
    <3>1. /\ statement[t].credited = 0
          /\ transactions[t].amount = statement[t].charged
          /\ transactions[t].token \in accounts
      BY <1>1, <1>3, <2>1 DEF ApprovedOK
    <3>2. statement'[t] = [statement[t] EXCEPT !.credited =
                             @ + transactions[t].amount]
      BY <1>2, <3>1 DEF Credit, Inv, TypeOK, GatewayTypeOK
    <3>3. /\ statement'[t].charged = statement[t].charged
          /\ statement'[t].credited = 0 + statement[t].charged
      BY <1>4, <3>1, <3>2 DEF Entry
    <3> QED
      BY <1>4, <3>3 DEF Entry
  <2>2. CASE transactions[t].status = "voided"
    <3>1. transactions[t].amount = 0
      BY <1>3, <2>2 DEF VoidedOK
    <3>2. \/ statement'[t] = statement[t]
          \/ statement'[t] = [statement[t] EXCEPT !.credited = @ + 0]
      BY <1>2, <3>1 DEF Credit, Inv, TypeOK, GatewayTypeOK
    <3>3. /\ statement'[t].charged = statement[t].charged
          /\ statement'[t].credited = statement[t].credited
      BY <1>4, <3>2 DEF Entry
    <3> QED
      BY <3>3 DEF SerialInv, NoOverCredit
  <2> QED
    BY <1>2, <1>4, <2>1, <2>2 DEF Transaction
<1>7. ASSUME NEW u \in Txns PROVE ApprovedOK(u)' /\ VoidedOK(u)'
  <2>1. CASE u = t
    BY <1>5, <2>1 DEF ApprovedOK, VoidedOK
  <2>2. CASE u # t
    <3>1. ~Unbooked(u)
      BY <1>1 DEF Unbooked
    <3>2. transactions'[u] = transactions[u] /\ statement'[u] = statement[u]
      BY <1>5, <2>2
    <3> QED
      BY <1>2, <3>1, <3>2 DEF SerialInv, ApprovedOK, VoidedOK
  <2> QED
    BY <2>1, <2>2
<1>8. \A v \in Workers : ReversingOK(worker[v])'
  BY <1>1 DEF ReversingOK
<1>9. NoOverCredit'
  BY <1>5, <1>6 DEF SerialInv, NoOverCredit
<1> QED
  BY <1>7, <1>8, <1>9 DEF SerialInv

LEMMA SerialReplace ==
  ASSUME OneAtATime, Inv, SerialInv, NEW w \in Workers, NEW c \in Customers,
         NEW token \in Tokens, ReplaceBegin(w, c, token)
  PROVE  SerialInv'
<1>1. /\ \A v \in Workers : v = w
      /\ worker[w].pc = "idle"
      /\ worker'[w].pc = "update_payment_token"
      /\ accounts \subseteq accounts'
      /\ UNCHANGED <<transactions, statement, payments>>
  BY DEF OneAtATime, ReplaceBegin, Tokenize, Idle, tables, Inv, TypeOK
<1>2. \A t \in Txns : ~Unbooked(t) /\ ~Unbooked(t)'
  BY <1>1 DEF Unbooked
<1>3. \A t \in Txns : ApprovedOK(t)' /\ VoidedOK(t)'
  BY <1>1, <1>2 DEF SerialInv, ApprovedOK, VoidedOK
<1>4. \A v \in Workers : ReversingOK(worker[v])'
  BY <1>1 DEF ReversingOK
<1> QED
  BY <1>1, <1>3, <1>4 DEF SerialInv, NoOverCredit

LEMMA SerialRestart ==
  ASSUME SerialInv, Restart
  PROVE  SerialInv'
<1>1. /\ \A t \in Txns : transactions'[t].status = "none"
      /\ \A v \in Workers : worker'[v].pc = "idle"
      /\ UNCHANGED statement
  BY DEF Restart, NoTransaction, Idle
<1> QED
  BY <1>1 DEF SerialInv, ApprovedOK, VoidedOK, ReversingOK, NoOverCredit

-----------------------------------------------------------------------------
(***************************************************************************)
(* The steps that write the payments table.                                *)
(***************************************************************************)
LEMMA SerialPayRecord ==
  ASSUME OneAtATime, Inv, SerialInv, NEW w \in Workers, PayRecord(w)
  PROVE  SerialInv'
<1>1. /\ \A v \in Workers : v = w
      /\ worker[w].pc = "record_payment"
      /\ worker'[w].pc = "count_use"
      /\ UNCHANGED gatewayVars
  BY DEF OneAtATime, PayRecord, Advance, Inv, TypeOK, Job
<1>2. \A t \in Txns : payments'[t].refunded = payments[t].refunded
  BY DEF PayRecord, InsertOrIgnore, RowOf, NoRow, Inv, TypeOK
<1>3. \A t \in Txns : ~Unbooked(t) /\ ~Unbooked(t)'
  BY <1>1 DEF Unbooked
<1>4. \A t \in Txns : ApprovedOK(t)' /\ VoidedOK(t)'
  BY <1>1, <1>2, <1>3 DEF gatewayVars, SerialInv, ApprovedOK, VoidedOK
<1>5. \A v \in Workers : ReversingOK(worker[v])'
  BY <1>1 DEF ReversingOK
<1> QED
  BY <1>1, <1>4, <1>5 DEF gatewayVars, SerialInv, NoOverCredit

LEMMA SerialRefundRecord ==
  ASSUME OneAtATime, Inv, SerialInv, NEW w \in Workers, RefundRecord(w)
  PROVE  SerialInv'
<1>1. PICK t \in Txns, amount \in Nat :
        /\ \A v \in Workers : v = w
        /\ worker[w].pc = "record_refund"
        /\ worker[w].txn = t /\ worker[w].amount = amount
        /\ worker'[w].pc = "audit_refund"
        /\ transactions[t].status = "approved" =>
             transactions[t].refunded = payments[t].refunded + amount
        /\ UNCHANGED gatewayVars
  BY DEF OneAtATime, RefundRecord, Advance, Inv, TypeOK, Job, JobsOK, JobOK,
         ReversalJobOK, RefundPcs, SerialInv, ReversingOK
<1>2. /\ payments'[t].refunded = payments[t].refunded + amount
      /\ \A u \in Txns \ {t} : payments'[u] = payments[u]
  BY <1>1 DEF RefundRecord, Inv, TypeOK, PaymentRow
<1>3. \A u \in Txns : ~Unbooked(u)' /\ (u # t => ~Unbooked(u))
  BY <1>1 DEF Unbooked
<1>4. \A u \in Txns : ApprovedOK(u)' /\ VoidedOK(u)'
  BY <1>1, <1>2, <1>3 DEF gatewayVars, SerialInv, ApprovedOK, VoidedOK
<1>5. \A v \in Workers : ReversingOK(worker[v])'
  BY <1>1 DEF ReversingOK
<1> QED
  BY <1>1, <1>4, <1>5 DEF gatewayVars, SerialInv, NoOverCredit

LEMMA SerialVoidRecord ==
  ASSUME OneAtATime, Inv, SerialInv, NEW w \in Workers, VoidRecord(w)
  PROVE  SerialInv'
<1>1. /\ \A v \in Workers : v = w
      /\ worker[w].pc = "mark_voided"
      /\ worker'[w].pc = "audit_void"
      /\ UNCHANGED gatewayVars
  BY DEF OneAtATime, VoidRecord, Advance, Inv, TypeOK, Job
<1>2. \A t \in Txns : payments'[t].refunded = payments[t].refunded
  BY DEF VoidRecord, Inv, TypeOK, PaymentRow
<1>3. \A t \in Txns : ~Unbooked(t) /\ ~Unbooked(t)'
  BY <1>1 DEF Unbooked
<1>4. \A t \in Txns : ApprovedOK(t)' /\ VoidedOK(t)'
  BY <1>1, <1>2, <1>3 DEF gatewayVars, SerialInv, ApprovedOK, VoidedOK
<1>5. \A v \in Workers : ReversingOK(worker[v])'
  BY <1>1 DEF ReversingOK
<1> QED
  BY <1>1, <1>4, <1>5 DEF gatewayVars, SerialInv, NoOverCredit

-----------------------------------------------------------------------------
LEMMA SerialWorker ==
  ASSUME Serial, Inv, SerialInv, NEW w \in Workers, WorkerStep(w)
  PROVE  SerialInv'
<1> USE DEF Serial
<1>1. TypeOK
  BY DEF Inv
<1>2. ASSUME NEW t \in Txns, PayAuthorize(w, t) PROVE SerialInv'
  BY <1>1, <1>2, SerialQuiet, SerialDecline, SerialApprove
     DEF PayAuthorize, Authorize
<1>3. CASE \/ PayGatewayError(w) \/ PayCount(w) \/ PayAudit(w)
           \/ RefundRefused(w) \/ RefundAudit(w)
           \/ VoidRefused(w) \/ VoidAudit(w)
           \/ ReplaceRecord(w)
  BY <1>1, <1>3, SerialQuiet
<1>4. CASE PayRecord(w)
  BY <1>4, SerialPayRecord
<1>5. CASE RefundAtGateway(w)
  BY <1>5, SerialRefund
<1>6. CASE RefundRecord(w)
  BY <1>6, SerialRefundRecord
<1>7. CASE VoidAtGateway(w)
  BY <1>7, SerialVoid
<1>8. CASE VoidRecord(w)
  BY <1>8, SerialVoidRecord
<1>9. ~StorageFault(w)
  BY DEF StorageFault
<1> QED
  BY <1>2, <1>3, <1>4, <1>5, <1>6, <1>7, <1>8, <1>9 DEF WorkerStep

LEMMA SerialStep == Serial /\ Inv /\ SerialInv /\ [Next]_vars => SerialInv'
<1> SUFFICES ASSUME Serial, Inv, SerialInv, [Next]_vars PROVE SerialInv'
  OBVIOUS
<1>1. OneAtATime /\ TypeOK
  BY DEF Serial, Inv
<1>2. CASE Next
  <2>1. CASE Restart
    BY <2>1, SerialRestart
  <2>2. ASSUME NEW w \in Workers, WorkerStep(w) PROVE SerialInv'
    BY <2>2, SerialWorker
  <2>3. ASSUME NEW w \in Workers, NEW c \in Customers, NEW token \in Tokens,
               ReplaceBegin(w, c, token)
        PROVE  SerialInv'
    BY <1>1, <2>3, SerialReplace
  <2> QED
    BY <1>1, <1>2, <2>1, <2>2, <2>3, SerialBegin DEF Next
<1>3. CASE UNCHANGED vars
  BY <1>3 DEF vars, SerialInv, ApprovedOK, VoidedOK, Unbooked, ReversingOK,
              NoOverCredit
<1> QED
  BY <1>2, <1>3

(***************************************************************************)
(* One handler at a time and with a storage that does not fail, refund and *)
(* void never give back more than was charged, whatever is refunded in     *)
(* parts, retried, or cut short by a restart of the process.               *)
(***************************************************************************)
THEOREM NeverOverCredited ==
  ASSUME Serial
  PROVE  Spec => []NoOverCredit
<1>1. Inv /\ SerialInv /\ [Next]_vars => SerialInv'
  BY SerialStep
<1>2. SerialInv => NoOverCredit
  BY DEF SerialInv
<1> QED
  BY SerialInit, <1>1, <1>2, Invariance, PTL DEF Spec

-----------------------------------------------------------------------------
(***************************************************************************)
(* The low-value exemption. With one handler at a time, the counters a     *)
(* verdict was made from are still the same when the charge is made.       *)
(***************************************************************************)
\* The verdict a handler carries is the one the counters give now.
LimitJobs ==
  \A w \in Workers :
    worker[w].pc = "authorize" /\ worker[w].sca.lowValue =>
      WithinLowValueLimits(usage[worker[w].customer], worker[w].amount)

LimitInv == LimitJobs /\ LowValueWithinLimits

LEMMA LimitInit == Init => LimitInv
<1> SUFFICES ASSUME Init PROVE LimitInv
  OBVIOUS
<1>1. LimitJobs
  BY DEF Init, Idle, LimitJobs
<1>2. LowValueWithinLimits
  BY ScaAssumption DEF Init, NoUsage, LowValueWithinLimits
<1> QED
  BY <1>1, <1>2 DEF LimitInv

\* Where the verdict is made, nothing is left to count, so that it holds of
\* the exempt charges themselves.
LEMMA LimitAuthorize ==
  ASSUME OneAtATime, Inv, AllowInv, LimitInv, NEW w \in Workers,
         NEW t \in Txns, PayAuthorize(w, t)
  PROVE  LowValueWithinLimits'
<1> USE DEF Inv
<1>1. \A v \in Workers : v = w
  BY DEF OneAtATime
<1>2. worker[w].pc = "authorize"
  BY DEF PayAuthorize
<1> DEFINE own == worker[w].customer
           a == worker[w].amount
           key == worker[w].key
<1>3. own \in Customers /\ a \in Nat
  BY <1>2 DEF JobsOK, JobOK, PayJobOK, PayPcs, TypeOK, Job
<1>4. CASE exempt' = exempt
  BY <1>4 DEF LimitInv, LowValueWithinLimits
<1>5. CASE exempt' # exempt
  <2>1. /\ idempotency[key] = None /\ idempotency'[key].approved
        /\ exempt' = [exempt EXCEPT ![own] =
             IF worker[w].sca.strong THEN NoUsage ELSE AddUse(@, a)]
    BY <1>5 DEF PayAuthorize, ExemptAfter
  <2>2. MayProceed(worker[w].sca)
    BY <1>2, <2>1, ChargeMayProceed
  <2>3. ~Counting(own)
    BY <1>1, <1>2 DEF Counting
  <2>4. /\ exempt[own].minor <= usage[own].minor
        /\ exempt[own].count <= usage[own].count
    BY <1>3, <2>3, AllowCounted DEF AllowanceNeverUndercounted
  <2>5. /\ exempt[own].minor \in Nat /\ exempt[own].count \in Nat
        /\ usage[own].minor \in Nat /\ usage[own].count \in Nat
    BY <1>3 DEF TypeOK, Usage
  <2>6. CASE worker[w].sca.strong
    <3>1. exempt'[own] = NoUsage
      BY <1>3, <2>1, <2>6 DEF TypeOK
    <3>2. /\ exempt'[own].minor <= LowValueCumulativeMax
          /\ exempt'[own].count <= LowValueMaxCount
      BY <3>1, ScaAssumption DEF NoUsage
    <3> QED
      BY <2>1, <3>2 DEF LimitInv, LowValueWithinLimits, TypeOK
  <2>7. CASE ~worker[w].sca.strong
    <3>1. exempt'[own] = [minor |-> exempt[own].minor + a,
                          count |-> exempt[own].count + 1]
      BY <1>3, <2>1, <2>7 DEF TypeOK, AddUse
    <3>2. /\ usage[own].minor + a <= LowValueCumulativeMax
          /\ usage[own].count + 1 <= LowValueMaxCount
      BY <1>2, <2>2, <2>7
         DEF LimitInv, LimitJobs, MayProceed, WithinLowValueLimits
    <3>3. /\ exempt'[own].minor <= LowValueCumulativeMax
          /\ exempt'[own].count <= LowValueMaxCount
      BY <1>3, <2>4, <2>5, <3>1, <3>2, ScaAssumption
    <3> QED
      BY <2>1, <3>3 DEF LimitInv, LowValueWithinLimits, TypeOK
  <2> QED
    BY <2>6, <2>7
<1> QED
  BY <1>4, <1>5

LEMMA LimitStep ==
  ASSUME OneAtATime, Inv, AllowInv, LimitInv, [Next]_vars,
         "restart" \notin Faults
  PROVE  LimitInv'
<1>1. CASE UNCHANGED vars
  BY <1>1 DEF vars, LimitInv, LimitJobs, LowValueWithinLimits
<1>2. ~Restart
  BY DEF Restart
<1>3. ASSUME NEW w \in Workers, StepOf(w) PROVE LimitInv'
  <2>1. \A v \in Workers : v = w
    BY DEF OneAtATime
  <2>2. LimitJobs'
    <3>1. CASE \E c \in Customers, m \in Merchants, k \in Keys, a \in Amounts :
                 PayBegin(w, c, m, k, a)
      <4>1. PICK c \in Customers, m \in Merchants, k \in Keys, a \in Amounts :
              PayBegin(w, c, m, k, a)
        BY <3>1
      <4>2. /\ worker'[w].customer = c /\ worker'[w].amount = a
            /\ worker'[w].sca = ScaOf(c, a) /\ UNCHANGED usage
        BY <4>1 DEF PayBegin, Idle, Inv, TypeOK, tables
      <4> QED
        BY <2>1, <4>2, ScaStrong DEF LimitJobs
    <3>2. CASE ~\E c \in Customers, m \in Merchants, k \in Keys, a \in Amounts :
                  PayBegin(w, c, m, k, a)
      <4>1. worker'[w].pc # "authorize"
        <5>1. CASE \/ \E t \in Txns, m \in Merchants :
                      \/ \E a \in Amounts \cup {None} : RefundBegin(w, t, m, a)
                      \/ VoidBegin(w, t, m)
                   \/ \E c \in Customers, token \in Tokens :
                        ReplaceBegin(w, c, token)
          BY <5>1 DEF RefundBegin, VoidBegin, ReplaceBegin, JobOn, Idle, Inv,
                      TypeOK
        <5>2. CASE \E t \in Txns : PayAuthorize(w, t)
          BY <5>2 DEF PayAuthorize, Inv, TypeOK, Job
        <5>3. CASE \/ PayGatewayError(w) \/ PayAudit(w) \/ RefundRefused(w)
                   \/ RefundAudit(w) \/ VoidRefused(w) \/ VoidAudit(w)
                   \/ ReplaceRecord(w) \/ StorageFault(w)
          <6>1. Finish(w)
            BY <5>3 DEF PayGatewayError, PayAudit, RefundRefused, RefundAudit,
                        VoidRefused, VoidAudit, ReplaceRecord, StorageFault
          <6> QED
            BY <6>1 DEF Finish, Idle, Inv, TypeOK
        <5>4. CASE \/ PayRecord(w) \/ PayCount(w) \/ RefundAtGateway(w)
                   \/ RefundRecord(w) \/ VoidAtGateway(w) \/ VoidRecord(w)
          <6>1. \E pc \in Pcs \ {"authorize"} : Advance(w, pc)
            BY <5>4 DEF PayRecord, PayCount, RefundAtGateway, RefundRecord,
                        VoidAtGateway, VoidRecord, Pcs, PayPcs, RefundPcs,
                        VoidPcs
          <6> QED
            BY <6>1 DEF Advance, Inv, TypeOK, Job
        <5> QED
          BY <1>3, <3>2, <5>1, <5>2, <5>3, <5>4 DEF StepOf, WorkerStep
      <4> QED
        BY <2>1, <4>1 DEF LimitJobs
    <3> QED
      BY <3>1, <3>2
  <2>3. LowValueWithinLimits'
    <3>1. CASE \E t \in Txns : PayAuthorize(w, t)
      BY <3>1, LimitAuthorize
    <3>2. CASE ~\E t \in Txns : PayAuthorize(w, t)
      <4>1. UNCHANGED exempt
        BY <1>3, <3>2
           DEF StepOf, WorkerStep, PayBegin, RefundBegin, VoidBegin,
               ReplaceBegin, PayGatewayError, PayRecord, PayCount, PayAudit,
               RefundAtGateway, RefundRefused, RefundRecord, RefundAudit,
               VoidAtGateway, VoidRefused, VoidRecord, VoidAudit,
               ReplaceRecord, StorageFault
      <4> QED
        BY <4>1 DEF LimitInv, LowValueWithinLimits
    <3> QED
      BY <3>1, <3>2
  <2> QED
    BY <2>2, <2>3 DEF LimitInv
<1> QED
  BY <1>1, <1>2, <1>3, Steps

(***************************************************************************)
(* One handler at a time and none cut off, the charges made without strong *)
(* authentication stay within the exemption's limits: nothing is charged   *)
(* between the reading of a counter and the charge it allows.  TLC refutes *)
(* this for two handlers.                                                  *)
(***************************************************************************)
THEOREM LowValueStaysWithinLimits ==
  ASSUME OneAtATime, HandlersFinish
  PROVE  Spec => []LowValueWithinLimits
<1>1. Inv /\ AllowInv /\ [Next]_vars => AllowInv'
  BY AllowStep
<1>2. Inv /\ AllowInv /\ LimitInv /\ [Next]_vars => LimitInv'
  BY LimitStep DEF HandlersFinish
<1>3. LimitInv => LowValueWithinLimits
  BY DEF LimitInv
<1> QED
  BY AllowInit, LimitInit, <1>1, <1>2, <1>3, Invariance, PTL DEF Spec

-----------------------------------------------------------------------------
(***************************************************************************)
(* The service implements CardLedger.  An entry and a line of the books,   *)
(* as the service keeps them; CardLedger's actions, field by field.        *)
(***************************************************************************)
EntryOf(t) ==
  [charged |-> statement[t].charged, credited |-> statement[t].credited,
   key |-> statement[t].key, card |-> transactions[t].token]
Returned(t) ==
  IF payments[t].voided THEN payments[t].amount ELSE payments[t].refunded
BooksOf(t) == [taken |-> payments[t].amount, returned |-> Returned(t)]

LEMMA MapCharge ==
  ASSUME NEW t \in Txns, NEW token \in Tokens, NEW amount \in Amounts,
         NEW key \in Keys,
         EntryOf(t) = CL!NoCharge, \A u \in Txns : EntryOf(u).key # key,
         balance[token] >= amount,
         balance' = [balance EXCEPT ![token] = @ - amount],
         EntryOf(t)' = [charged |-> amount, credited |-> 0, key |-> key,
                        card |-> token],
         \A u \in Txns \ {t} : EntryOf(u)' = EntryOf(u),
         UNCHANGED payments
  PROVE  CL!LedgerNext
<1>1. CL!Charge(t, token, amount, key)
  BY DEF CL!Charge, EntryOf
<1> QED
  BY <1>1 DEF CL!LedgerNext

LEMMA MapGiveBack ==
  ASSUME NEW t \in Txns, NEW amount \in Nat \ {0},
         statement[t] \in Entry,
         statement[t].credited + amount <= statement[t].charged,
         balance' = [balance EXCEPT ![transactions[t].token] = @ + amount],
         transactions'[t].token = transactions[t].token,
         statement'[t].charged = statement[t].charged,
         statement'[t].key = statement[t].key,
         statement'[t].credited = statement[t].credited + amount,
         \A u \in Txns \ {t} : EntryOf(u)' = EntryOf(u),
         UNCHANGED payments
  PROVE  CL!LedgerNext
<1> DEFINE ledger == [u \in Txns |-> EntryOf(u)]
<1>1. ledger' = [ledger EXCEPT ![t].credited = @ + amount]
  <2>1. EntryOf(t)' = [EntryOf(t) EXCEPT !.credited =
                         statement[t].credited + amount]
    BY DEF EntryOf
  <2>2. ledger[t].credited = statement[t].credited
    BY DEF EntryOf
  <2> QED
    BY <2>1, <2>2
<1>2. CL!GiveBack(t, amount)
  BY <1>1 DEF CL!GiveBack, EntryOf
<1>3. amount \in 1..statement[t].charged
  BY DEF Entry
<1> QED
  BY <1>2, <1>3 DEF CL!LedgerNext

LEMMA MapBookCharge ==
  ASSUME NEW t \in Txns,
         EntryOf(t) # CL!NoCharge, payments[t].amount = 0,
         payments'[t].amount = statement[t].charged,
         Returned(t)' = Returned(t),
         \A u \in Txns \ {t} : BooksOf(u)' = BooksOf(u),
         UNCHANGED <<balance, statement, transactions>>
  PROVE  CL!LedgerNext
<1> DEFINE books == [u \in Txns |-> BooksOf(u)]
<1>1. books' = [books EXCEPT ![t].taken = statement[t].charged]
  <2>1. BooksOf(t)' = [BooksOf(t) EXCEPT !.taken = statement[t].charged]
    BY DEF BooksOf
  <2> QED
    BY <2>1
<1>2. CL!BookCharge(t)
  BY <1>1 DEF CL!BookCharge, EntryOf, BooksOf, Returned
<1> QED
  BY <1>2 DEF CL!LedgerNext

LEMMA MapBookReturn ==
  ASSUME NEW t \in Txns,
         payments[t].amount = statement[t].charged,
         Returned(t) < statement[t].credited,
         payments'[t].amount = payments[t].amount,
         Returned(t)' = statement[t].credited,
         \A u \in Txns \ {t} : BooksOf(u)' = BooksOf(u),
         UNCHANGED <<balance, statement, transactions>>
  PROVE  CL!LedgerNext
<1> DEFINE books == [u \in Txns |-> BooksOf(u)]
<1>1. books' = [books EXCEPT ![t].returned = statement[t].credited]
  <2>1. BooksOf(t)' = [BooksOf(t) EXCEPT !.returned = statement[t].credited]
    BY DEF BooksOf
  <2> QED
    BY <2>1
<1>2. CL!BookReturn(t)
  BY <1>1 DEF CL!BookReturn, EntryOf, BooksOf, Returned
<1> QED
  BY <1>2 DEF CL!LedgerNext

LEMMA MapStutter ==
  ASSUME UNCHANGED <<balance, statement, transactions, payments>>
  PROVE  UNCHANGED CL!ledgerVars
BY DEF CL!ledgerVars

LEMMA MapInit == Init => CL!LedgerInit
BY GatewayAssumption
   DEF Init, CL!LedgerInit, CL!NoCharge, NoEntry, NoTransaction, NoRow

-----------------------------------------------------------------------------
(***************************************************************************)
(* What the mapping needs beyond the invariants so far.                    *)
(***************************************************************************)
NoStrayEntries == \A t \in Txns : ~Charged(t) => statement[t] = NoEntry

\* Opening an account changes no card's funds.
NewAccounts == \A token \in Tokens \ accounts : balance[token] = StartBalance

MappedJob(job) ==
  /\ job.pc = "gateway_void" => ~payments[job.txn].voided
  /\ job.pc = "record_refund" => transactions[job.txn].status = "approved"
  /\ job.pc = "mark_voided" =>
       /\ ~payments[job.txn].voided
       /\ payments[job.txn].refunded = 0
       /\ statement[job.txn].credited = statement[job.txn].charged

RefineInv ==
  /\ NoStrayEntries
  /\ NewAccounts
  /\ \A w \in Workers : MappedJob(worker[w])
  /\ ~mishap

ServiceInv ==
  /\ Inv /\ SerialInv /\ RefundsInv /\ OnlyCharges /\ BooksInv
  /\ RefineInv

Refines == RefineInv' /\ [CL!LedgerNext]_CL!ledgerVars

LEMMA RefineInit == Init => RefineInv
BY DEF Init, RefineInv, NoStrayEntries, NewAccounts, MappedJob, Idle

\* A step that CardLedger does not see.
LEMMA RefineQuiet ==
  ASSUME OneAtATime, RefineInv, NEW w \in Workers,
         UNCHANGED <<balance, transactions, statement, payments, mishap>>,
         accounts \subseteq accounts', MappedJob(worker'[w])
  PROVE  Refines
<1>1. NoStrayEntries' /\ NewAccounts'
  BY DEF RefineInv, NoStrayEntries, NewAccounts, Charged
<1>2. \A v \in Workers : MappedJob(worker[v])'
  BY DEF OneAtATime, MappedJob
<1>3. RefineInv'
  BY <1>1, <1>2 DEF RefineInv
<1> QED
  BY <1>3, MapStutter DEF Refines

LEMMA RefineEventless ==
  ASSUME OneAtATime, ServiceInv, NEW w \in Workers, Eventless(w)
  PROVE  Refines
<1>1. /\ worker'[w].pc \in Started
      /\ UNCHANGED <<transactions, statement, payments, mishap>>
  BY EventlessStep DEF ServiceInv, Inv
<1>2. CASE \E c \in Customers, token \in Tokens : ReplaceBegin(w, c, token)
  <2>1. PICK c \in Customers, token \in Tokens : ReplaceBegin(w, c, token)
    BY <1>2
  <2>2. /\ worker'[w].pc = "update_payment_token"
        /\ token \notin accounts /\ accounts' = accounts \cup {token}
        /\ balance' = [balance EXCEPT ![token] = StartBalance]
    BY <2>1 DEF ReplaceBegin, Tokenize, Idle, ServiceInv, Inv, TypeOK
  <2>3. balance' = balance
    BY <2>2 DEF ServiceInv, RefineInv, NewAccounts, Inv, TypeOK, GatewayTypeOK
  <2>4. MappedJob(worker'[w])
    BY <2>2 DEF MappedJob
  <2> QED
    BY <1>1, <2>2, <2>3, <2>4, RefineQuiet DEF ServiceInv
<1>3. CASE \E t \in Txns, m \in Merchants : VoidBegin(w, t, m)
  <2>1. PICK t \in Txns, m \in Merchants : VoidBegin(w, t, m)
    BY <1>3
  <2>2. /\ worker'[w].pc = "gateway_void" /\ worker'[w].txn = t
        /\ ~payments[t].voided /\ UNCHANGED <<balance, accounts>>
    BY <2>1 DEF VoidBegin, MayVoid, JobOn, Idle, ServiceInv, Inv, TypeOK,
                gatewayVars
  <2>3. MappedJob(worker'[w])
    BY <2>2 DEF MappedJob
  <2> QED
    BY <1>1, <2>2, <2>3, RefineQuiet DEF ServiceInv
<1>4. CASE \/ \E c \in Customers, m \in Merchants, k \in Keys, a \in Amounts :
                PayBegin(w, c, m, k, a)
           \/ \E t \in Txns, m \in Merchants, a \in Amounts \cup {None} :
                RefundBegin(w, t, m, a)
           \/ PayGatewayError(w) \/ RefundRefused(w) \/ VoidRefused(w)
           \/ ReplaceRecord(w)
  <2>1. UNCHANGED <<balance, accounts>>
    BY <1>4 DEF PayBegin, RefundBegin, PayGatewayError, RefundRefused,
                VoidRefused, ReplaceRecord, gatewayVars
  <2>2. worker'[w].pc \in {"idle", "authorize", "gateway_refund"}
    <3>1. CASE \/ PayGatewayError(w) \/ RefundRefused(w) \/ VoidRefused(w)
               \/ ReplaceRecord(w)
      <4>1. Finish(w)
        BY <3>1 DEF PayGatewayError, RefundRefused, VoidRefused, ReplaceRecord
      <4> QED
        BY <4>1, Ends DEF Idle, ServiceInv, Inv
    <3> QED
      BY <1>4, <3>1 DEF PayBegin, RefundBegin, JobOn, Idle, ServiceInv, Inv,
                        TypeOK
  <2>3. MappedJob(worker'[w])
    BY <2>2 DEF MappedJob
  <2> QED
    BY <1>1, <2>1, <2>3, RefineQuiet DEF ServiceInv
<1> QED
  BY <1>2, <1>3, <1>4 DEF Eventless

LEMMA RefineLog ==
  ASSUME OneAtATime, ServiceInv, NEW w \in Workers,
         PayCount(w) \/ PayAudit(w) \/ RefundAudit(w) \/ VoidAudit(w)
  PROVE  Refines
<1>1. /\ worker'[w].pc \in {"idle", "audit_payment"}
      /\ UNCHANGED <<transactions, statement, payments, mishap>>
  BY PayCountStep, LogStep DEF ServiceInv
<1>2. UNCHANGED <<balance, accounts>>
  BY DEF PayCount, PayAudit, RefundAudit, VoidAudit, gatewayVars
<1>3. MappedJob(worker'[w])
  BY <1>1 DEF MappedJob
<1> QED
  BY <1>1, <1>2, <1>3, RefineQuiet DEF ServiceInv

\* An approval is a charge of the card's, under a key that paid for nothing.
LEMMA RefineAuthorize ==
  ASSUME OneAtATime, ServiceInv, NEW w \in Workers, NEW t \in Txns,
         PayAuthorize(w, t), "restart" \notin Faults
  PROVE  Refines
<1> USE DEF ServiceInv
<1> DEFINE token == worker[w].token
           amount == worker[w].amount
           key == worker[w].key
<1>1. /\ worker'[w].pc \in {"record_payment", "audit_payment"}
      /\ UNCHANGED <<payments, mishap>>
  BY AuthorizeStep
<1>2. MappedJob(worker'[w])
  BY <1>1 DEF MappedJob
<1>3. CASE \/ AnswerFromCache(RequestOf(worker[w]))
           \/ Decline(RequestOf(worker[w]))
  <2>1. UNCHANGED <<balance, transactions, statement, accounts>>
    BY <1>3 DEF AnswerFromCache, Decline, gatewayVars
  <2> QED
    BY <1>1, <1>2, <2>1, RefineQuiet
<1>4. CASE Approve(RequestOf(worker[w]), t)
  <2>1. /\ idempotency[key] = None /\ balance[token] >= amount
        /\ token \in accounts
        /\ statement[t] = NoEntry
        /\ balance' = [balance EXCEPT ![token] = @ - amount]
        /\ transactions' = [transactions EXCEPT ![t] =
                              [status |-> "approved", token |-> token,
                               amount |-> amount, captured |-> FALSE,
                               refunded |-> 0]]
        /\ statement' = [statement EXCEPT ![t] =
                           [charged |-> amount, credited |-> 0, key |-> key]]
        /\ UNCHANGED accounts
    BY <1>4 DEF Approve, Approves, ChargeCard, RequestOf
  <2>2. /\ token \in Tokens /\ amount \in Amounts /\ key \in Keys
        /\ amount \in Nat \ {0}
    BY GatewayAssumption DEF PayAuthorize, Inv, JobsOK, JobOK, PayJobOK, PayPcs
  <2>3. /\ transactions'[t].token = token
        /\ statement'[t] = [charged |-> amount, credited |-> 0, key |-> key]
        /\ \A u \in Txns \ {t} : /\ transactions'[u] = transactions[u]
                                 /\ statement'[u] = statement[u]
    BY <2>1 DEF Inv, TypeOK, GatewayTypeOK
  <2>4. EntryOf(t) = CL!NoCharge
    <3>1. transactions[t] = NoTransaction
      BY <2>1 DEF OnlyCharges, Charged, NoEntry
    <3> QED
      BY <2>1, <3>1 DEF EntryOf, NoEntry, NoTransaction, CL!NoCharge
  <2>5. ASSUME NEW u \in Txns PROVE statement[u].key # key
    <3>1. CASE Charged(u)
      BY <2>1, <3>1 DEF Inv, ChargesCached, ApprovedIn
    <3>2. CASE ~Charged(u)
      BY <2>2, <3>2, GatewayAssumption DEF RefineInv, NoStrayEntries, NoEntry
    <3> QED
      BY <3>1, <3>2
  <2>6. CL!LedgerNext
    <3>1. EntryOf(t)' = [charged |-> amount, credited |-> 0, key |-> key,
                         card |-> token]
      BY <2>3 DEF EntryOf
    <3>2. \A u \in Txns \ {t} : EntryOf(u)' = EntryOf(u)
      BY <2>3 DEF EntryOf
    <3>3. \A u \in Txns : EntryOf(u).key # key
      BY <2>5 DEF EntryOf
    <3> HIDE DEF token, amount, key
    <3> QED
      BY <1>1, <2>1, <2>2, <2>4, <3>1, <3>2, <3>3, MapCharge
  <2>7. RefineInv'
    <3>1. NoStrayEntries'
      BY <2>2, <2>3 DEF RefineInv, NoStrayEntries, Charged
    <3>2. NewAccounts'
      BY <2>1 DEF RefineInv, NewAccounts, Inv, TypeOK, GatewayTypeOK
    <3>3. \A v \in Workers : MappedJob(worker[v])'
      BY <1>1, <1>2 DEF OneAtATime, MappedJob
    <3> QED
      BY <1>1, <3>1, <3>2, <3>3 DEF RefineInv
  <2> QED
    BY <2>6, <2>7 DEF Refines
<1> QED
  BY <1>3, <1>4 DEF PayAuthorize, Authorize

LEMMA RefineRefund ==
  ASSUME OneAtATime, ServiceInv, NEW w \in Workers, RefundAtGateway(w)
  PROVE  Refines
<1> USE DEF ServiceInv
<1> DEFINE t == worker[w].txn
           amount == worker[w].amount
<1>1. /\ worker[w].pc = "gateway_refund" /\ worker'[w].pc = "record_refund"
      /\ worker'[w].txn = t /\ t \in Txns /\ amount \in Nat \ {0}
      /\ transactions[t].status = "approved"
      /\ transactions'[t].status = transactions[t].status
      /\ UNCHANGED <<payments, mishap>>
  BY RefundGatewayStep DEF RefundsInv
<1>2. /\ amount <= transactions[t].amount - transactions[t].refunded
      /\ transactions' = [transactions EXCEPT ![t].refunded = @ + amount]
      /\ Credit(t, amount)
      /\ UNCHANGED accounts
  BY <1>1 DEF RefundAtGateway, GatewayRefund, Refundable, OrAll
<1>3. ApprovedOK(t) /\ Charged(t)
  BY <1>1 DEF SerialInv, OnlyCharges, NoTransaction
<1>4. /\ balance' = [balance EXCEPT ![transactions[t].token] = @ + amount]
      /\ statement' = [statement EXCEPT ![t].credited = @ + amount]
      /\ transactions[t].token \in accounts
  BY <1>1, <1>2, <1>3 DEF ApprovedOK, Credit
<1>5. /\ transactions[t] \in Transaction /\ statement[t] \in Entry
      /\ transactions'[t] = [transactions[t] EXCEPT !.refunded = @ + amount]
      /\ statement'[t] = [statement[t] EXCEPT !.credited = @ + amount]
      /\ \A u \in Txns \ {t} : /\ transactions'[u] = transactions[u]
                               /\ statement'[u] = statement[u]
  BY <1>1, <1>2, <1>4 DEF Inv, TypeOK, GatewayTypeOK
<1>6. CL!LedgerNext
  <2>1. statement[t].credited + amount <= statement[t].charged
    BY <1>1, <1>2, <1>3, <1>5 DEF ApprovedOK, Transaction, Entry
  <2>2. /\ transactions'[t].token = transactions[t].token
        /\ statement'[t].charged = statement[t].charged
        /\ statement'[t].key = statement[t].key
        /\ statement'[t].credited = statement[t].credited + amount
    BY <1>5 DEF Transaction, Entry
  <2>3. \A u \in Txns \ {t} : EntryOf(u)' = EntryOf(u)
    BY <1>5 DEF EntryOf
  <2> HIDE DEF t, amount
  <2> QED
    BY <1>1, <1>4, <1>5, <2>1, <2>2, <2>3, MapGiveBack
<1>7. RefineInv'
  <2>1. NoStrayEntries'
    BY <1>3, <1>5 DEF RefineInv, NoStrayEntries, Charged, Entry
  <2>2. NewAccounts'
    BY <1>2, <1>4 DEF RefineInv, NewAccounts, Inv, TypeOK, GatewayTypeOK
  <2>3. \A v \in Workers : MappedJob(worker[v])'
    BY <1>1 DEF OneAtATime, MappedJob
  <2> QED
    BY <1>1, <2>1, <2>2, <2>3 DEF RefineInv
<1> QED
  BY <1>6, <1>7 DEF Refines

\* A void gives the whole charge back.
LEMMA RefineVoid ==
  ASSUME OneAtATime, ServiceInv, NEW w \in Workers, VoidAtGateway(w)
  PROVE  Refines
<1> USE DEF ServiceInv
<1> DEFINE t == worker[w].txn
           amount == transactions[t].amount
<1>1. /\ worker[w].pc = "gateway_void" /\ worker'[w].pc = "mark_voided"
      /\ worker'[w].txn = t /\ t \in Txns
      /\ transactions[t].status # "none"
      /\ UNCHANGED <<payments, mishap>>
  BY VoidGatewayStep
<1>2. /\ transactions' = [transactions EXCEPT ![t].status = "voided",
                                              ![t].amount = 0]
      /\ Credit(t, amount)
      /\ UNCHANGED accounts
  BY DEF VoidAtGateway, GatewayVoid
<1>3. ~payments[t].voided /\ payments[t].refunded = 0
  BY <1>1 DEF RefineInv, MappedJob, SerialInv, ReversingOK
<1>4. transactions[t].status = "approved"
  <2>1. ~Due({"mark_voided"}, t)
    BY <1>1 DEF OneAtATime, Due, At
  <2>2. transactions[t].status # "voided"
    BY <1>1, <1>3, <2>1 DEF RefineInv, BooksInv, VoidsBooked
  <2> QED
    BY <1>1, <2>2 DEF Inv, TypeOK, GatewayTypeOK, Transaction
<1>5. /\ transactions[t] \in Transaction /\ statement[t] \in Entry
      /\ Charged(t) /\ ~Unbooked(t)
  BY <1>1, <1>4 DEF Inv, TypeOK, GatewayTypeOK, OnlyCharges, NoTransaction,
                    OneAtATime, Unbooked
<1>6. /\ amount = statement[t].charged
      /\ statement[t].credited = 0
      /\ transactions[t].token \in accounts
  BY <1>1, <1>3, <1>4, <1>5 DEF SerialInv, ApprovedOK
<1>7. /\ balance' = [balance EXCEPT ![transactions[t].token] = @ + amount]
      /\ statement' = [statement EXCEPT ![t].credited = @ + amount]
  BY <1>2, <1>6 DEF Credit
<1>8. /\ statement'[t] = [statement[t] EXCEPT !.credited = @ + amount]
      /\ transactions'[t].token = transactions[t].token
      /\ \A u \in Txns \ {t} : /\ transactions'[u] = transactions[u]
                               /\ statement'[u] = statement[u]
  BY <1>1, <1>2, <1>5, <1>7 DEF Inv, TypeOK, GatewayTypeOK, Transaction
<1>9. /\ statement'[t].charged = statement[t].charged
      /\ statement'[t].key = statement[t].key
      /\ statement'[t].credited = statement[t].credited + amount
  BY <1>5, <1>8 DEF Entry
<1>10. /\ amount \in Nat \ {0}
       /\ statement[t].credited + amount = statement[t].charged
  BY <1>5, <1>6 DEF Charged, Entry
<1>11. CL!LedgerNext
  <2>1. \A u \in Txns \ {t} : EntryOf(u)' = EntryOf(u)
    BY <1>8 DEF EntryOf
  <2>2. statement[t].credited + amount <= statement[t].charged
    BY <1>5, <1>10 DEF Entry
  <2> HIDE DEF t, amount
  <2> QED
    BY <1>1, <1>5, <1>7, <1>8, <1>9, <1>10, <2>1, <2>2, MapGiveBack
<1>12. RefineInv'
  <2>1. NoStrayEntries'
    BY <1>5, <1>8, <1>9 DEF RefineInv, NoStrayEntries, Charged
  <2>2. NewAccounts'
    BY <1>2, <1>6, <1>7 DEF RefineInv, NewAccounts, Inv, TypeOK, GatewayTypeOK
  <2>3. \A v \in Workers : MappedJob(worker[v])'
    BY <1>1, <1>3, <1>9, <1>10 DEF OneAtATime, MappedJob
  <2> QED
    BY <1>1, <2>1, <2>2, <2>3 DEF RefineInv
<1> QED
  BY <1>11, <1>12 DEF Refines

\* The first record of a charge is CardLedger's; a repeated one is ignored.
LEMMA RefinePayRecord ==
  ASSUME OneAtATime, ServiceInv, NEW w \in Workers, PayRecord(w)
  PROVE  Refines
<1> USE DEF ServiceInv
<1>1. PICK t \in Txns :
      /\ worker[w].txn = t /\ worker'[w].pc = "count_use"
      /\ UNCHANGED <<balance, accounts, transactions, statement, mishap>>
  BY PayRecordStep DEF PayRecord, gatewayVars
<1>2. MappedJob(worker'[w])
  BY <1>1 DEF MappedJob
<1>3. CASE payments[t] # NoRow
  <2>1. UNCHANGED payments
    BY <1>1, <1>3 DEF PayRecord, InsertOrIgnore
  <2> QED
    BY <1>1, <1>2, <2>1, RefineQuiet
<1>4. CASE payments[t] = NoRow
  <2>1. payments' = [payments EXCEPT ![t] = RowOf(worker[w])]
    BY <1>1, <1>4 DEF PayRecord, InsertOrIgnore
  <2>2. /\ payments'[t].amount = worker[w].charged
        /\ payments'[t].refunded = 0 /\ payments'[t].voided = FALSE
        /\ \A u \in Txns \ {t} : payments'[u] = payments[u]
    BY <1>1, <2>1 DEF RowOf, Inv, TypeOK
  <2>3. worker[w].charged = statement[t].charged /\ statement[t].charged > 0
    BY <1>1 DEF PayRecord, Inv, JobsOK, JobOK, PayJobOK, PayPcs
  <2>4. EntryOf(t) # CL!NoCharge
    BY <2>3 DEF EntryOf, CL!NoCharge
  <2>5. CL!LedgerNext
    <3>1. Returned(t) = 0 /\ payments[t].amount = 0
      BY <1>4 DEF Returned, NoRow
    <3>2. Returned(t)' = 0 /\ payments'[t].amount = statement[t].charged
      BY <2>2, <2>3 DEF Returned
    <3>3. \A u \in Txns \ {t} : BooksOf(u)' = BooksOf(u)
      BY <2>2 DEF BooksOf, Returned
    <3> QED
      BY <1>1, <2>4, <3>1, <3>2, <3>3, MapBookCharge
  <2>6. RefineInv'
    <3>1. NoStrayEntries' /\ NewAccounts'
      BY <1>1 DEF RefineInv, NoStrayEntries, NewAccounts, Charged
    <3>2. \A v \in Workers : MappedJob(worker[v])'
      BY <1>1 DEF OneAtATime, MappedJob
    <3> QED
      BY <1>1, <3>1, <3>2 DEF RefineInv
  <2> QED
    BY <2>5, <2>6 DEF Refines
<1> QED
  BY <1>3, <1>4

\* A reversal is recorded after the acquirer gave the money back.
LEMMA RefineReversal ==
  ASSUME OneAtATime, ServiceInv, NEW w \in Workers,
         RefundRecord(w) \/ VoidRecord(w)
  PROVE  Refines
<1> USE DEF ServiceInv
<1>1. PICK t \in Txns :
      /\ worker[w].txn = t /\ worker'[w].pc \in {"audit_refund", "audit_void"}
      /\ UNCHANGED <<transactions, statement, mishap>>
      /\ \A u \in Txns : payments'[u].amount = payments[u].amount
      /\ UNCHANGED <<balance, accounts>>
  BY RefundRecordStep, VoidRecordStep
     DEF RefundsInv, RefundRecord, VoidRecord, gatewayVars
<1>2. payments[t].amount = statement[t].charged /\ statement[t].charged > 0
  <2>1. payments[t].amount > 0
    BY <1>1 DEF RefundRecord, VoidRecord, Inv, JobsOK, JobOK, ReversalJobOK,
           RefundPcs, VoidPcs
  <2>2. Recorded(t)
    BY <2>1 DEF Recorded, NoRow
  <2> QED
    BY <1>1, <2>1, <2>2 DEF Inv, RowsAreCharges
<1>3. /\ payments[t].refunded \in Nat /\ worker[w].amount \in Nat
      /\ transactions[t].refunded \in Nat /\ statement[t].credited \in Nat
  BY <1>1 DEF Inv, TypeOK, GatewayTypeOK, PaymentRow, Job, Transaction, Entry
<1>4. /\ Returned(t) < statement[t].credited
      /\ Returned(t)' = statement[t].credited
  <2>1. CASE RefundRecord(w)
    <3>1. /\ worker[w].pc = "record_refund" /\ worker[w].amount > 0
          /\ payments'[t].refunded = payments[t].refunded + worker[w].amount
          /\ payments'[t].voided = payments[t].voided
      BY <1>1, <2>1, RefundRecordStep DEF RefundsInv
    <3>2. transactions[t].status = "approved"
      BY <1>1, <3>1 DEF RefineInv, MappedJob
    <3>3. /\ statement[t].credited = transactions[t].refunded
          /\ transactions[t].refunded = payments[t].refunded + worker[w].amount
      BY <1>1, <3>1, <3>2 DEF SerialInv, ApprovedOK, ReversingOK
    <3>4. ~payments[t].voided
      BY <1>1, <3>2 DEF RefineInv, BooksInv, VoidsBooked
    <3> QED
      BY <1>3, <3>1, <3>3, <3>4 DEF Returned
  <2>2. CASE VoidRecord(w)
    <3>1. /\ worker[w].pc = "mark_voided" /\ payments'[t].voided
      BY <1>1, <2>2, VoidRecordStep
    <3>2. /\ ~payments[t].voided /\ payments[t].refunded = 0
          /\ statement[t].credited = statement[t].charged
      BY <1>1, <3>1 DEF RefineInv, MappedJob
    <3> QED
      BY <1>1, <1>2, <3>1, <3>2 DEF Returned
  <2> QED
    BY <2>1, <2>2
<1>5. \A u \in Txns \ {t} : BooksOf(u)' = BooksOf(u)
  <2>1. \A u \in Txns \ {t} : payments'[u] = payments[u]
    BY <1>1 DEF RefundRecord, VoidRecord, Inv, TypeOK
  <2> QED
    BY <2>1 DEF BooksOf, Returned
<1>6. CL!LedgerNext
  BY <1>1, <1>2, <1>4, <1>5, MapBookReturn
<1>7. RefineInv'
  <2>1. NoStrayEntries' /\ NewAccounts'
    BY <1>1 DEF RefineInv, NoStrayEntries, NewAccounts, Charged
  <2>2. \A v \in Workers : MappedJob(worker[v])'
    BY <1>1 DEF OneAtATime, MappedJob
  <2> QED
    BY <1>1, <2>1, <2>2 DEF RefineInv
<1> QED
  BY <1>6, <1>7 DEF Refines

-----------------------------------------------------------------------------
LEMMA RefineStep ==
  ASSUME OneAtATime, HandlersFinish, ServiceInv, [Next]_vars
  PROVE  Refines
<1>1. CASE UNCHANGED vars
  <2>1. UNCHANGED <<balance, transactions, statement, payments>>
    BY <1>1 DEF vars
  <2>2. RefineInv'
    BY <1>1 DEF vars, ServiceInv, RefineInv, NoStrayEntries, NewAccounts,
                MappedJob, Charged
  <2> QED
    BY <2>1, <2>2, MapStutter DEF Refines
<1>2. ~Restart
  BY DEF Restart, HandlersFinish
<1>3. ASSUME NEW w \in Workers, StepOf(w) PROVE Refines
  <2>1. ~StorageFault(w) /\ "restart" \notin Faults
    BY DEF StorageFault, HandlersFinish
  <2>2. BooksSteps(w)
    BY <1>3, <2>1 DEF StepOf, WorkerStep, BooksSteps, Eventless
  <2> QED
    BY <2>1, <2>2, RefineEventless, RefineLog, RefineAuthorize, RefineRefund,
       RefineVoid, RefinePayRecord, RefineReversal DEF BooksSteps
<1> QED
  BY <1>1, <1>2, <1>3, Steps

(***************************************************************************)
(* One handler at a time and none cut off, the payment service implements  *)
(* CardLedger: a key pays for one charge, the money goes back to the card  *)
(* it came from and no more than came from it, and the merchant's books    *)
(* follow the acquirer, a charge before its refunds, and never run ahead.  *)
(***************************************************************************)
THEOREM LedgerIsImplemented ==
  ASSUME OneAtATime, HandlersFinish
  PROVE  Spec => ImplementsCardLedger
<1>1. Serial
  BY DEF Serial, HandlersFinish
<1>2. Inv /\ SerialInv /\ [Next]_vars => SerialInv'
  BY <1>1, SerialStep
<1>3. Inv /\ Inv' /\ RefundsInv /\ [Next]_vars => RefundsInv'
  BY RefundsStep
<1>4. Inv /\ RefundsInv /\ OnlyCharges /\ [Next]_vars => OnlyCharges'
  BY OnlyChargesStep DEF RefundsInv
<1>5. Inv /\ Inv' /\ RefundsInv /\ OnlyCharges /\ BooksInv /\ [Next]_vars =>
        BooksInv'
  BY BooksStep
<1>6. /\ Inv /\ SerialInv /\ RefundsInv /\ OnlyCharges /\ BooksInv
      /\ RefineInv
      /\ [Next]_vars
      => RefineInv' /\ [CL!LedgerNext]_CL!ledgerVars
  BY RefineStep DEF ServiceInv, Refines
<1> QED
  BY MapInit, SerialInit, RefundsInit, OnlyChargesInit, BooksInit, RefineInit,
     <1>2, <1>3, <1>4, <1>5, <1>6, Invariance, PTL
     DEF Spec, ImplementsCardLedger, CL!LedgerSpec
=============================================================================
