--------------------------- MODULE TerminalProofs ---------------------------
(***************************************************************************)
(* Theorems about the tills over the unreliable network, for any number of *)
(* tills, sales, workers, customers and keys, and any trouble.             *)
(*                                                                         *)
(* The invariant relates what is on the screens, what is under way and     *)
(* what the acquirer remembers through keys and sales: whatever is lost,   *)
(* late or repeated, a key belongs to one sale, and a sale keeps its key   *)
(* unless the settings are opened.  A key has one answer, so the sale has. *)
(***************************************************************************)
EXTENDS Terminal, PaymentsProofs

(***************************************************************************)
(* What is under way: the calls on the wire and at a worker.  HangUp only  *)
(* changes who waits for one.                                              *)
(***************************************************************************)
Sent(call) == call \in wire \/ \E w \in Workers : serving[w] = call

SaleOf(call) == [merchant |-> call.merchant, sale |-> call.sale]

Like(call, other) ==
  /\ call.merchant = other.merchant /\ call.sale = other.sale
  /\ call.key = other.key /\ call.customer = other.customer
  /\ call.amount = other.amount

(***************************************************************************)
(* A worker does what the call it serves asks for, and what it was told is *)
(* what the acquirer remembers.                                            *)
(***************************************************************************)
ServesCall(w) ==
  LET job == worker[w] call == serving[w] IN
  /\ call = None => job.pc = "idle"
  /\ call # None =>
       /\ job.pc \in PayPcs
       /\ job.key = call.key /\ job.customer = call.customer
       /\ job.amount = call.amount
       /\ job.pc # "authorize" =>
            /\ idempotency[job.key] # None
            /\ idempotency[job.key].approved = job.approved
            /\ idempotency[job.key].txn = job.txn
       /\ job.pc \in {"count_use", "audit_payment"} /\ job.approved =>
            Recorded(job.txn)

\* The acquirer's memory and the cardholder's statement name the same charges.
CacheInv ==
  /\ \A k \in Keys : ApprovedIn(idempotency, k) =>
       /\ idempotency[k].txn \in Txns /\ Charged(idempotency[k].txn)
       /\ statement[idempotency[k].txn].key = k
  /\ \A t \in Txns : Charged(t) =>
       /\ statement[t].key \in Keys
       /\ ApprovedIn(idempotency, statement[t].key)
       /\ idempotency[statement[t].key].txn = t
       /\ sold[t] \in Sale

(***************************************************************************)
(* Keys and sales.  A key belongs to one sale, and a sale for which the    *)
(* settings were not opened has one key.                                   *)
(***************************************************************************)
Uses(k, s) ==
  \/ \E m \in Merchants : till[m].key = k /\ SaleAt(m) = s
  \/ \E call \in Call : Sent(call) /\ call.key = k /\ SaleOf(call) = s
  \/ \E t \in Txns : Charged(t) /\ statement[t].key = k /\ sold[t] = s

KeyInv ==
  /\ \A k \in Keys, s \in Sale : Uses(k, s) =>
       k \in spentKeys /\ s.sale <= till[s.merchant].sale
  /\ \A k \in Keys, s, r \in Sale : Uses(k, s) /\ Uses(k, r) => s = r
  /\ \A k, l \in Keys, s \in Sale :
       Uses(k, s) /\ Uses(l, s) /\ ~Left(s) => k = l

(***************************************************************************)
(* A till waits for one call, made with what is on its screen.             *)
(***************************************************************************)
Awaited(m, call) == call.live /\ call.merchant = m
ServedFor(w, m) == serving[w] # None /\ Awaited(m, serving[w])

LiveInv ==
  \A m \in Merchants :
    /\ \A call \in Call : Sent(call) /\ Awaited(m, call) =>
         /\ till[m].phase = "busy"
         /\ till[m].key = call.key /\ till[m].sale = call.sale
    /\ \A call, other \in wire : Awaited(m, call) /\ Awaited(m, other) =>
         call = other
    /\ \A call \in wire, w \in Workers : ~(Awaited(m, call) /\ ServedFor(w, m))
    /\ \A v, w \in Workers : ServedFor(v, m) /\ ServedFor(w, m) => v = w

(***************************************************************************)
(* A sale that was not edited is asked for in one way, and is charged that *)
(* way.                                                                    *)
(***************************************************************************)
Asks(s, c, a) ==
  \/ \E m \in Merchants : /\ SaleAt(m) = s
                          /\ till[m].customer = c /\ till[m].amount = a
  \/ \E call \in Call : /\ Sent(call) /\ SaleOf(call) = s
                        /\ call.customer = c /\ call.amount = a

Begun(s) ==
  \/ \E call \in Call : Sent(call) /\ SaleOf(call) = s
  \/ \E t \in Txns : Charged(t) /\ sold[t] = s

FormInv ==
  /\ \A s \in Sale, c, d \in Customers, a, b \in Nat :
       Asks(s, c, a) /\ Asks(s, d, b) /\ ~Edited(s) => c = d /\ a = b
  /\ \A t \in Txns, c \in Customers, a \in Nat :
       Charged(t) /\ Asks(sold[t], c, a) /\ ~Edited(sold[t]) =>
         /\ statement[t].charged = a
         /\ Recorded(t) => payments[t].customer = c
  /\ \A m \in Merchants :
       Begun(SaleAt(m)) \/ till[m].phase # "ready" => till[m].customer # None

(***************************************************************************)
(* A result stays true: what was approved stays on the books, and a key    *)
(* that was declined is declined for good.                                 *)
(***************************************************************************)
Declined(k) == idempotency[k] # None /\ ~idempotency[k].approved

ResultInv ==
  \A m \in Merchants : till[m].phase = "result" =>
    /\ till[m].approved => \E t \in ChargedFor(m) : Recorded(t)
    /\ ~till[m].approved => Declined(till[m].key)

TillInv ==
  /\ Inv /\ TerminalTypeOK
  /\ \A w \in Workers : ServesCall(w)
  /\ CacheInv /\ KeyInv /\ LiveInv /\ FormInv /\ ResultInv

-----------------------------------------------------------------------------
USE GatewayAssumption, ScaAssumption, PaymentsAssumption, TerminalAssumption

(***************************************************************************)
(* Types, and the choices the model makes.                                 *)
(***************************************************************************)
LEMMA NewKeyIsNew ==
  ASSUME Keys \ spentKeys # {}
  PROVE  NewKey \in Keys /\ NewKey \notin spentKeys
BY DEF NewKey

LEMMA NewTxnIsOne == NewTxn \in Txns
BY DEF NewTxn

LEMMA IdleWorkerIsIdle ==
  ASSUME \E w \in Workers : worker[w].pc = "idle"
  PROVE  IdleWorker \in Workers /\ worker[IdleWorker].pc = "idle"
BY DEF IdleWorker

LEMMA FirstKeysDiffer ==
  /\ FirstKeys \in [Merchants -> Keys]
  /\ \A m, n \in Merchants : FirstKeys[m] = FirstKeys[n] => m = n
BY DEF FirstKeys

LEMMA HangUpFields ==
  ASSUME NEW call \in Call, NEW m \in Merchants
  PROVE  /\ HangUp(call, m) \in Call
         /\ Like(HangUp(call, m), call)
         /\ HangUp(call, m).live <=> call.live /\ call.merchant # m
         /\ call.merchant # m => HangUp(call, m) = call
BY DEF HangUp, Call, Like

LEMMA NewCallFields ==
  ASSUME NEW m \in Merchants, NEW c \in Customers, NEW k \in Keys,
         NEW a \in Amounts, NEW s \in 1..MaxSales,
         NEW call, call = [merchant |-> m, customer |-> c, key |-> k,
                           amount |-> a, sale |-> s, live |-> TRUE]
  PROVE  call \in Call
BY DEF Call

LEMMA SaleType ==
  ASSUME TerminalTypeOK
  PROVE  /\ \A m \in Merchants : SaleAt(m) \in Sale
         /\ \A m, n \in Merchants : SaleAt(m) = SaleAt(n) => m = n
         /\ \A call \in Call : SaleOf(call) \in Sale
         /\ \A m \in Merchants, call \in Call :
              SaleOf(call) = SaleAt(m) <=>
                call.merchant = m /\ call.sale = till[m].sale
BY DEF TerminalTypeOK, Till, SaleAt, SaleOf, Sale, Call

(***************************************************************************)
(* Every step of a till or a worker is one of the payment service, or      *)
(* leaves it alone.                                                        *)
(***************************************************************************)
LEMMA TerminalSteps ==
  ASSUME TerminalTypeOK, [TerminalNext]_allVars
  PROVE  [Next]_vars
<1>1. CASE UNCHANGED vars
  BY <1>1
<1>2. ASSUME NEW call \in wire, Take(call) PROVE Next
  <2>1. /\ call.customer \in Customers /\ call.merchant \in Merchants
        /\ call.key \in Keys /\ call.amount \in Amounts
    BY DEF TerminalTypeOK, Call
  <2>2. IdleWorker \in Workers
    BY <1>2, IdleWorkerIsIdle DEF Take
  <2> QED
    BY <1>2, <2>1, <2>2 DEF Take, Next
<1>3. ASSUME NEW w \in Workers,
             Serve(w) \/ AnswerArrives(w) \/ ErrorArrives(w) \/ NothingArrives(w)
      PROVE  Next
  <2>1. WorkerStep(w)
    BY <1>3, NewTxnIsOne DEF Serve, AnswerArrives, ErrorArrives, NothingArrives,
                             WorkerStep
  <2> QED
    BY <2>1 DEF Next
<1>4. CASE \/ \E m \in Merchants :
                \/ \E c \in Customers, a \in Amounts : Press(m, c, a)
                \/ Timeout(m) \/ OpenSettings(m) \/ Again(m)
           \/ LoseRequest
           \/ UNCHANGED allVars
  BY <1>1, <1>4 DEF Press, Timeout, OpenSettings, Again, LoseRequest, allVars
<1> QED
  BY <1>2, <1>3, <1>4 DEF TerminalNext

-----------------------------------------------------------------------------
(***************************************************************************)
(* Typing.                                                                 *)
(***************************************************************************)
LEMMA FreshScreenType ==
  ASSUME NEW key \in Keys, NEW sale \in 1..MaxSales
  PROVE  FreshScreen(key, sale) \in Till
BY DEF FreshScreen, Till

LEMMA TillInit == TerminalInit => TillInv
<1> SUFFICES ASSUME TerminalInit PROVE TillInv
  OBVIOUS
<1>1. Inv
  BY InitInv DEF TerminalInit
<1>2. \A m \in Merchants : /\ FreshScreen(FirstKeys[m], 1) \in Till
                           /\ FirstKeys[m] \in Keys
  BY FreshScreenType, FirstKeysDiffer
<1>3. TerminalTypeOK
  BY <1>1, <1>2 DEF TerminalInit, TerminalTypeOK, Inv
<1>4. /\ \A t \in Txns : ~Charged(t)
      /\ \A call \in Call : ~Sent(call)
      /\ \A m \in Merchants, w \in Workers : ~ServedFor(w, m)
      /\ wire = {}
  BY DEF TerminalInit, Init, Charged, NoEntry, Sent, ServedFor
<1>5. \A w \in Workers : ServesCall(w)
  BY DEF TerminalInit, Init, Idle, ServesCall
<1>6. CacheInv
  BY <1>4 DEF TerminalInit, Init, CacheInv, ApprovedIn
<1>7. \A m \in Merchants :
        /\ till[m].key = FirstKeys[m] /\ SaleAt(m) = [merchant |-> m, sale |-> 1]
        /\ till[m].phase = "ready" /\ till[m].customer = None
        /\ till[m].sale = 1
  BY DEF TerminalInit, FreshScreen, SaleAt
<1>8. KeyInv
  <2>1. ASSUME NEW k \in Keys, NEW s \in Sale, Uses(k, s)
        PROVE  /\ k = FirstKeys[s.merchant] /\ s.sale = 1
               /\ s = [merchant |-> s.merchant, sale |-> 1]
               /\ s.merchant \in Merchants
    BY <1>4, <1>7, <2>1 DEF Uses
  <2>2. \A k \in Keys, s \in Sale : Uses(k, s) =>
          k \in spentKeys /\ s.sale <= till[s.merchant].sale
    BY <1>7, <2>1 DEF TerminalInit
  <2>3. \A k \in Keys, s, r \in Sale : Uses(k, s) /\ Uses(k, r) => s = r
    BY <2>1, FirstKeysDiffer
  <2>4. \A k, l \in Keys, s \in Sale : Uses(k, s) /\ Uses(l, s) => k = l
    BY <2>1
  <2> QED
    BY <2>2, <2>3, <2>4 DEF KeyInv
<1>9. LiveInv /\ FormInv /\ ResultInv
  BY <1>4, <1>7 DEF LiveInv, FormInv, ResultInv, Asks, Begun
<1> QED
  BY <1>1, <1>3, <1>5, <1>6, <1>8, <1>9 DEF TillInv

\* Giving up the calls of one till leaves no new ones.
LEMMA AbandonType ==
  ASSUME TerminalTypeOK, NEW m \in Merchants, Abandon(m)
  PROVE  wire' \subseteq Call /\ serving' \in [Workers -> Call \cup {None}]
<1>1. \A call \in wire : HangUp(call, m) \in Call
  BY HangUpFields DEF TerminalTypeOK
<1>2. \A w \in Workers : serving[w] # None => HangUp(serving[w], m) \in Call
  BY HangUpFields DEF TerminalTypeOK
<1> QED
  BY <1>1, <1>2 DEF Abandon, TerminalTypeOK

LEMMA TouchType ==
  ASSUME TerminalTypeOK, NEW m \in Merchants,
         NEW how \in {"edit", "settings"}, Touch(how, m)
  PROVE  touched' \subseteq {"edit", "settings"} \X Sale
BY SaleType DEF TerminalTypeOK, Touch

LEMMA PressType ==
  ASSUME TerminalTypeOK, NEW m \in Merchants, NEW c \in Customers,
         NEW a \in Amounts, Press(m, c, a)
  PROVE  /\ till' \in [Merchants -> Till]
         /\ wire' \subseteq Call
         /\ touched' \subseteq {"edit", "settings"} \X Sale
<1>1. till' \in [Merchants -> Till]
  <2> DEFINE form == [till[m] EXCEPT !.phase = "busy", !.customer = c,
                                     !.amount = a]
  <2>1. form \in Till
    <3>1. till[m] \in Till /\ a \in Nat
      BY DEF TerminalTypeOK
    <3> QED
      BY <3>1 DEF Till
  <2>2. till' = [till EXCEPT ![m] = form]
    BY DEF Press, TerminalTypeOK
  <2> HIDE DEF form
  <2> QED
    BY <2>1, <2>2 DEF TerminalTypeOK
<1>2. wire' \subseteq Call
  BY NewCallFields DEF Press, TerminalTypeOK, Till
<1>3. touched' \subseteq {"edit", "settings"} \X Sale
  BY TouchType DEF Press, TerminalTypeOK
<1> QED
  BY <1>1, <1>2, <1>3

LEMMA ScreenType ==
  ASSUME TerminalTypeOK, NEW m \in Merchants,
         Timeout(m) \/ OpenSettings(m) \/ Again(m)
  PROVE  /\ till' \in [Merchants -> Till]
         /\ wire' \subseteq Call
         /\ serving' \in [Workers -> Call \cup {None}]
         /\ spentKeys' \subseteq Keys
         /\ touched' \subseteq {"edit", "settings"} \X Sale
         /\ UNCHANGED sold
<1>1. CASE Timeout(m)
  <2> DEFINE form == [till[m] EXCEPT !.phase = "ready"]
  <2>1. form \in Till
    BY DEF TerminalTypeOK, Till
  <2>2. till' = [till EXCEPT ![m] = form]
    BY <1>1 DEF Timeout, TerminalTypeOK
  <2> HIDE DEF form
  <2> QED
    BY <1>1, <2>1, <2>2, AbandonType DEF Timeout, TerminalTypeOK
<1>2. CASE OpenSettings(m)
  <2> DEFINE form == [till[m] EXCEPT !.phase = "ready", !.key = NewKey]
  <2>1. form \in Till
    <3>1. till[m] \in Till /\ NewKey \in Keys
      BY <1>2, NewKeyIsNew DEF OpenSettings, TerminalTypeOK
    <3> QED
      BY <3>1 DEF Till
  <2>2. till' = [till EXCEPT ![m] = form]
    BY <1>2 DEF OpenSettings, TerminalTypeOK
  <2>3. touched' \subseteq {"edit", "settings"} \X Sale
    BY <1>2, TouchType DEF OpenSettings
  <2> HIDE DEF form
  <2> QED
    BY <1>2, <2>1, <2>2, <2>3, AbandonType, NewKeyIsNew
       DEF OpenSettings, TerminalTypeOK
<1>3. CASE Again(m)
  <2>1. FreshScreen(NewKey, till[m].sale + 1) \in Till
    BY <1>3, NewKeyIsNew, FreshScreenType DEF Again, TerminalTypeOK, Till
  <2> QED
    BY <1>3, <2>1, NewKeyIsNew DEF Again, TerminalTypeOK
<1> QED
  BY <1>1, <1>2, <1>3

-----------------------------------------------------------------------------
(***************************************************************************)
(* What the actions of a till change.                                      *)
(***************************************************************************)
LEMMA PressFields ==
  ASSUME TerminalTypeOK, NEW m \in Merchants, NEW c \in Customers,
         NEW a \in Amounts, Press(m, c, a)
  PROVE  /\ till[m].phase = "ready" /\ till'[m].phase = "busy"
         /\ till'[m].customer = c /\ till'[m].amount = a
         /\ till'[m].key = till[m].key /\ till'[m].sale = till[m].sale
         /\ \A n \in Merchants \ {m} : till'[n] = till[n]
<1>1. till[m] \in Till
  BY DEF TerminalTypeOK
<1>2. till'[m] = [till[m] EXCEPT !.phase = "busy", !.customer = c, !.amount = a]
  BY DEF Press, TerminalTypeOK
<1>3. /\ till'[m].phase = "busy" /\ till'[m].customer = c /\ till'[m].amount = a
      /\ till'[m].key = till[m].key /\ till'[m].sale = till[m].sale
  BY <1>1, <1>2 DEF Till
<1>4. till[m].phase = "ready" /\ \A n \in Merchants \ {m} : till'[n] = till[n]
  BY DEF Press, TerminalTypeOK
<1> QED
  BY <1>3, <1>4

LEMMA TimeoutFields ==
  ASSUME TerminalTypeOK, NEW m \in Merchants, Timeout(m)
  PROVE  /\ till[m].phase = "busy" /\ till'[m].phase = "ready"
         /\ till'[m].customer = till[m].customer
         /\ till'[m].amount = till[m].amount
         /\ till'[m].key = till[m].key /\ till'[m].sale = till[m].sale
         /\ \A n \in Merchants \ {m} : till'[n] = till[n]
<1>1. till'[m] = [till[m] EXCEPT !.phase = "ready"] /\ till[m] \in Till
  BY DEF Timeout, TerminalTypeOK
<1>2. till[m].phase = "busy" /\ \A n \in Merchants \ {m} : till'[n] = till[n]
  BY DEF Timeout, TerminalTypeOK
<1> QED
  BY <1>1, <1>2 DEF Till

LEMMA SettingsFields ==
  ASSUME TerminalTypeOK, NEW m \in Merchants, OpenSettings(m)
  PROVE  /\ till[m].phase # "result" /\ till'[m].phase = "ready"
         /\ till'[m].customer = till[m].customer
         /\ till'[m].amount = till[m].amount
         /\ till'[m].key = NewKey /\ till'[m].sale = till[m].sale
         /\ Left(SaleAt(m))'
         /\ \A n \in Merchants \ {m} : till'[n] = till[n]
<1>1. /\ till'[m] = [till[m] EXCEPT !.phase = "ready", !.key = NewKey]
      /\ till[m] \in Till
  BY DEF OpenSettings, TerminalTypeOK
<1>2. /\ till'[m].phase = "ready" /\ till'[m].key = NewKey
      /\ till'[m].customer = till[m].customer
      /\ till'[m].amount = till[m].amount /\ till'[m].sale = till[m].sale
  BY <1>1 DEF Till
<1>3. /\ till[m].phase # "result"
      /\ \A n \in Merchants \ {m} : till'[n] = till[n]
  BY DEF OpenSettings, TerminalTypeOK
<1>4. <<"settings", SaleAt(m)>> \in touched'
  BY DEF OpenSettings, Touch
<1> QED
  BY <1>2, <1>3, <1>4 DEF Left, SaleAt

LEMMA AgainFields ==
  ASSUME TerminalTypeOK, NEW m \in Merchants, Again(m)
  PROVE  /\ till[m].phase = "result" /\ till'[m].phase = "ready"
         /\ till'[m].customer = None
         /\ till'[m].key = NewKey /\ till'[m].sale = till[m].sale + 1
         /\ \A n \in Merchants \ {m} : till'[n] = till[n]
BY DEF Again, TerminalTypeOK, FreshScreen

(***************************************************************************)
(* What an abandoned call keeps, and what it does not: no till waits for   *)
(* it any more.                                                            *)
(***************************************************************************)
NoNewCalls ==
  \A call \in Call : Sent(call)' =>
    \E other \in Call : Sent(other) /\ Like(call, other)

\* A call some till waits for is where it was.
AwaitedStay ==
  /\ \A call \in wire' : call.live => call \in wire
  /\ \A w \in Workers : serving'[w] # None /\ serving'[w].live =>
       serving'[w] = serving[w]

LEMMA Abandoned ==
  ASSUME TerminalTypeOK, NEW m \in Merchants, Abandon(m)
  PROVE  /\ NoNewCalls /\ AwaitedStay
         /\ \A call \in Call : Sent(call)' => ~Awaited(m, call)
         /\ \A w \in Workers :
              IF serving[w] = None THEN serving'[w] = None
              ELSE serving'[w] \in Call /\ Like(serving'[w], serving[w])
<1>1. ASSUME NEW call \in wire'
      PROVE  \E other \in wire :
               /\ other \in Call /\ call = HangUp(other, m)
               /\ Like(call, other) /\ ~Awaited(m, call)
               /\ call.live => call = other
  <2>1. PICK other \in wire : call = HangUp(other, m)
    BY DEF Abandon
  <2>2. other \in Call
    BY DEF TerminalTypeOK
  <2> QED
    BY <2>1, <2>2, HangUpFields DEF Like, Awaited
<1>2. ASSUME NEW w \in Workers, serving[w] # None
      PROVE  /\ serving[w] \in Call /\ serving'[w] \in Call
             /\ Like(serving'[w], serving[w]) /\ ~Awaited(m, serving'[w])
             /\ serving'[w].live => serving'[w] = serving[w]
  <2>1. serving'[w] = HangUp(serving[w], m) /\ serving[w] \in Call
    BY <1>2 DEF Abandon, TerminalTypeOK
  <2> QED
    BY <2>1, HangUpFields DEF Like, Awaited
<1>3. ASSUME NEW w \in Workers, serving[w] = None
      PROVE  serving'[w] = None
  BY <1>3 DEF Abandon
<1>4. NoNewCalls
  BY <1>1, <1>2, <1>3 DEF NoNewCalls, Sent
<1>5. AwaitedStay
  BY <1>1, <1>2, <1>3 DEF AwaitedStay
<1>6. \A call \in Call : Sent(call)' => ~Awaited(m, call)
  BY <1>1, <1>2, <1>3 DEF Sent
<1> QED
  BY <1>2, <1>3, <1>4, <1>5, <1>6

\* A call that is kept, lost, taken or answered is not a new one.
LEMMA CallsMoved ==
  ASSUME \A call \in Call : Sent(call)' => Sent(call)
  PROVE  NoNewCalls
BY DEF NoNewCalls, Like

-----------------------------------------------------------------------------
(***************************************************************************)
(* What a worker's calls change.                                           *)
(***************************************************************************)
\* The answer to a request is in the cache: an old one, a decline, or an
\* approval, which is a new charge under the request's key.
LEMMA AuthorizeEffect ==
  ASSUME Inv, NEW w \in Workers, NEW t \in Txns, PayAuthorize(w, t),
         NEW key, key = worker[w].key
  PROVE  /\ key \in Keys /\ idempotency'[key] # None
         /\ \A k \in Keys : idempotency[k] # None \/ k # key =>
              idempotency'[k] = idempotency[k]
         /\ worker'[w].pc = IF idempotency'[key].approved
                            THEN "record_payment" ELSE "audit_payment"
         /\ worker'[w].key = key /\ worker'[w].customer = worker[w].customer
         /\ worker'[w].amount = worker[w].amount
         /\ worker'[w].approved = idempotency'[key].approved
         /\ worker'[w].txn = idempotency'[key].txn
         /\ UNCHANGED payments
         /\ \/ /\ UNCHANGED statement
               /\ idempotency[key] = None => ~idempotency'[key].approved
            \/ /\ idempotency[key] = None /\ ~Charged(t)
               /\ idempotency'[key].approved /\ idempotency'[key].txn = t
               /\ Charged(t)' /\ statement'[t].key = key
               /\ statement'[t].charged = worker[w].amount
               /\ \A u \in Txns \ {t} : statement'[u] = statement[u]
<1>1. /\ worker[w] \in Job /\ key \in Keys /\ worker[w].amount \in Amounts
      /\ worker[w].amount \in Nat \ {0} /\ worker[w].pc = "authorize"
  BY RequestType DEF PayAuthorize, RequestOf, Request
<1> DEFINE answer == idempotency'[key]
           pc == IF answer.approved THEN "record_payment" ELSE "audit_payment"
<1>2. worker' = [worker EXCEPT ![w] = Answered(worker[w], pc, answer)]
  BY AnswerTaken
<1>3. /\ worker'[w].pc = pc
      /\ worker'[w].key = key /\ worker'[w].customer = worker[w].customer
      /\ worker'[w].amount = worker[w].amount
      /\ worker'[w].approved = answer.approved
      /\ worker'[w].txn = answer.txn
  <2> HIDE DEF answer, pc
  <2>1. worker'[w] = Answered(worker[w], pc, answer)
    BY <1>2 DEF Inv, TypeOK
  <2> QED
    BY <1>1, <2>1 DEF Answered, Job
<1>4. UNCHANGED payments
  BY DEF PayAuthorize, tables
<1>5. CASE AnswerFromCache(RequestOf(worker[w]))
  BY <1>1, <1>3, <1>4, <1>5 DEF AnswerFromCache, RequestOf, gatewayVars
<1>6. CASE Decline(RequestOf(worker[w]))
  <2> DEFINE new == [approved |-> FALSE, txn |-> None,
                     amount |-> worker[w].amount]
  <2>1. /\ idempotency' = [idempotency EXCEPT ![key] = new]
        /\ idempotency[key] = None /\ UNCHANGED statement
    BY <1>6 DEF Decline, RequestOf
  <2>2. new \in Answer /\ ~new.approved
    BY <1>1 DEF Answer
  <2> HIDE DEF new
  <2>3. idempotency'[key] # None /\ ~idempotency'[key].approved
    BY <1>1, <2>1, <2>2 DEF Inv, TypeOK, GatewayTypeOK
  <2>4. \A k \in Keys : k # key => idempotency'[k] = idempotency[k]
    BY <2>1 DEF Inv, TypeOK, GatewayTypeOK
  <2> QED
    BY <1>1, <1>3, <1>4, <2>1, <2>3, <2>4
<1>7. CASE Approve(RequestOf(worker[w]), t)
  <2> DEFINE new == [approved |-> TRUE, txn |-> t, amount |-> worker[w].amount]
  <2>1. /\ idempotency' = [idempotency EXCEPT ![key] = new]
        /\ statement' = [statement EXCEPT ![t] =
             [charged |-> worker[w].amount, credited |-> 0, key |-> key]]
        /\ statement[t] = NoEntry /\ idempotency[key] = None
    BY <1>7 DEF Approve, ChargeCard, RequestOf
  <2>2. new \in Answer /\ new.approved /\ new.txn = t
    BY <1>1 DEF Answer
  <2> HIDE DEF new
  <2>3. /\ idempotency'[key] # None /\ idempotency'[key].approved
        /\ idempotency'[key].txn = t
    BY <1>1, <2>1, <2>2 DEF Inv, TypeOK, GatewayTypeOK
  <2>4. \A k \in Keys : k # key => idempotency'[k] = idempotency[k]
    BY <2>1 DEF Inv, TypeOK, GatewayTypeOK
  <2>5. /\ statement'[t].key = key
        /\ statement'[t].charged = worker[w].amount
        /\ \A u \in Txns \ {t} : statement'[u] = statement[u]
    BY <2>1 DEF Inv, TypeOK, GatewayTypeOK
  <2>6. ~Charged(t) /\ Charged(t)'
    BY <1>1, <2>1, <2>5 DEF Charged, NoEntry
  <2> QED
    BY <1>1, <1>3, <1>4, <2>1, <2>3, <2>4, <2>5, <2>6
<1> QED
  BY <1>5, <1>6, <1>7 DEF PayAuthorize, Authorize

LEMMA RecordEffect ==
  ASSUME Inv, NEW w \in Workers, PayRecord(w),
         NEW t, t = worker[w].txn
  PROVE  /\ t \in Txns /\ worker[w].approved
         /\ Recorded(t)'
         /\ \A u \in Txns : Recorded(u) \/ u # t => payments'[u] = payments[u]
         /\ ~Recorded(t) => payments'[t].customer = worker[w].customer
<1>1. t \in Txns /\ worker[w].approved /\ worker[w].charged > 0
  BY TxnKnown DEF PayRecord, PayPcs
<1>2. CASE payments[t] = NoRow
  <2>1. payments' = [payments EXCEPT ![t] = RowOf(worker[w])]
    BY <1>2 DEF PayRecord, InsertOrIgnore
  <2>2. payments'[t] = RowOf(worker[w])
    BY <1>1, <2>1 DEF Inv, TypeOK
  <2>3. payments'[t].customer = worker[w].customer /\ payments'[t] # NoRow
    BY <1>1, <2>2 DEF RowOf, NoRow
  <2>4. \A u \in Txns : u # t => payments'[u] = payments[u]
    BY <2>1 DEF Inv, TypeOK
  <2> QED
    BY <1>1, <1>2, <2>3, <2>4 DEF Recorded
<1>3. CASE payments[t] # NoRow
  BY <1>1, <1>3 DEF PayRecord, InsertOrIgnore, Recorded
<1> QED
  BY <1>2, <1>3

LEMMA AdvanceFields ==
  ASSUME Inv, NEW w \in Workers, NEW pc, Advance(w, pc)
  PROVE  /\ worker'[w].pc = pc /\ worker'[w].key = worker[w].key
         /\ worker'[w].customer = worker[w].customer
         /\ worker'[w].amount = worker[w].amount
         /\ worker'[w].approved = worker[w].approved
         /\ worker'[w].txn = worker[w].txn
BY DEF Advance, Inv, TypeOK, Job

Ending(w) == AnswerArrives(w) \/ ErrorArrives(w) \/ NothingArrives(w)

LEMMA EndingEffect ==
  ASSUME Inv, NEW w \in Workers, Ending(w)
  PROVE  /\ worker[w].pc # "idle" /\ worker'[w].pc = "idle"
         /\ UNCHANGED <<idempotency, statement, payments, wire, spentKeys, sold,
                        touched>>
         /\ HungUp(w)
<1>1. /\ worker[w].pc # "idle" /\ Finish(w) /\ HungUp(w)
      /\ UNCHANGED <<idempotency, statement, payments>>
  BY DEF Ending, AnswerArrives, ErrorArrives, NothingArrives, PayAudit,
         PayGatewayError, StorageFault, RepositoryPcs, gatewayVars, tables
<1>2. UNCHANGED <<wire, spentKeys, sold, touched>>
  BY DEF Ending, AnswerArrives, ErrorArrives, NothingArrives
<1> QED
  BY <1>1, <1>2, Ends DEF Inv, Idle

(***************************************************************************)
(* The actions, as the proofs below take them apart.                       *)
(***************************************************************************)
Pressing(m) == \E c \in Customers, a \in Amounts : Press(m, c, a)

ServeStep(w) ==
  /\ UNCHANGED <<till, wire, serving, spentKeys, touched>>
  /\ \/ PayAuthorize(w, NewTxn) /\ Serve(w)
     \/ PayRecord(w) /\ UNCHANGED sold
     \/ PayCount(w) /\ UNCHANGED sold

LEMMA Cases ==
  ASSUME [TerminalNext]_allVars
  PROVE  \/ \E m \in Merchants :
              Pressing(m) \/ Timeout(m) \/ OpenSettings(m) \/ Again(m)
         \/ LoseRequest \/ \E call \in wire : Take(call)
         \/ \E w \in Workers : ServeStep(w) \/ Ending(w)
         \/ UNCHANGED allVars
<1>1. ASSUME NEW w \in Workers, Serve(w) PROVE ServeStep(w)
  BY <1>1 DEF Serve, ServeStep
<1> QED
  BY <1>1 DEF TerminalNext, Pressing, Ending

-----------------------------------------------------------------------------
(***************************************************************************)
(* What every step keeps: answers, charges and rows.                       *)
(***************************************************************************)
LEMMA ServedCall ==
  ASSUME TillInv, NEW w \in Workers, worker[w].pc # "idle"
  PROVE  /\ serving[w] \in Call /\ serving[w] # None /\ Sent(serving[w])
         /\ worker[w].key = serving[w].key
         /\ worker[w].customer = serving[w].customer
         /\ worker[w].amount = serving[w].amount
BY DEF TillInv, ServesCall, TerminalTypeOK, Sent

LEMMA IdleServesNone ==
  ASSUME TillInv, NEW w \in Workers, worker[w].pc = "idle"
  PROVE  serving[w] = None
BY DEF TillInv, ServesCall, PayPcs

\* A new charge is noted for the sale its call was made for.
LEMMA AuthorizeSold ==
  ASSUME TillInv, NEW w \in Workers, ServeStep(w),
         NEW t \in Txns, t = NewTxn, PayAuthorize(w, t),
         NEW key, key = worker[w].key
  PROVE  \/ /\ UNCHANGED <<statement, sold>>
            /\ idempotency[key] = None => ~idempotency'[key].approved
         \/ /\ idempotency[key] = None /\ ~Charged(t) /\ Charged(t)'
            /\ idempotency'[key].approved /\ idempotency'[key].txn = t
            /\ statement'[t].key = key
            /\ statement'[t].charged = worker[w].amount
            /\ sold'[t] = SaleOf(serving[w])
            /\ \A u \in Txns \ {t} :
                 statement'[u] = statement[u] /\ sold'[u] = sold[u]
<1>1. Serve(w) /\ Inv /\ sold \in [Txns -> Sale \cup {None}]
  BY DEF ServeStep, PayRecord, PayCount, PayAuthorize, TillInv, TerminalTypeOK
<1>2. sold' = IF statement'[t] # statement[t]
              THEN [sold EXCEPT ![t] = SaleOf(serving[w])]
              ELSE sold
  BY <1>1 DEF Serve, PayRecord, PayCount, PayAuthorize, SaleOf
<1>3. \/ /\ UNCHANGED statement
         /\ idempotency[key] = None => ~idempotency'[key].approved
      \/ /\ idempotency[key] = None /\ ~Charged(t)
         /\ idempotency'[key].approved /\ idempotency'[key].txn = t
         /\ Charged(t)' /\ statement'[t].key = key
         /\ statement'[t].charged = worker[w].amount
         /\ \A u \in Txns \ {t} : statement'[u] = statement[u]
  BY <1>1, AuthorizeEffect
<1>4. CASE UNCHANGED statement
  <2>1. UNCHANGED sold /\ (Charged(t)' <=> Charged(t))
    BY <1>2, <1>4 DEF Charged
  <2> QED
    BY <1>3, <1>4, <2>1
<1>5. CASE ~Charged(t) /\ Charged(t)'
  <2>1. statement'[t] # statement[t]
    BY <1>5 DEF Charged
  <2>2. /\ sold'[t] = SaleOf(serving[w])
        /\ \A u \in Txns \ {t} : sold'[u] = sold[u]
    BY <1>1, <1>2, <2>1
  <2> QED
    BY <1>3, <1>5, <2>2 DEF Charged
<1> QED
  BY <1>3, <1>4, <1>5

Kept ==
  /\ \A k \in Keys : idempotency[k] # None => idempotency'[k] = idempotency[k]
  /\ \A t \in Txns : Charged(t) =>
       /\ Charged(t)' /\ statement'[t] = statement[t] /\ sold'[t] = sold[t]
  /\ \A t \in Txns : Recorded(t) =>
       Recorded(t)' /\ payments'[t].customer = payments[t].customer

LEMMA StepKeeps ==
  ASSUME TillInv, [TerminalNext]_allVars
  PROVE  Kept
<1>1. CASE UNCHANGED <<idempotency, statement, payments, sold>>
  BY <1>1 DEF Kept, Charged, Recorded
<1>2. ASSUME NEW w \in Workers, ServeStep(w) PROVE Kept
  <2>1. CASE PayAuthorize(w, NewTxn)
    <3> PICK t \in Txns : t = NewTxn
      BY NewTxnIsOne
    <3>1. \A k \in Keys : idempotency[k] # None =>
            idempotency'[k] = idempotency[k]
      BY <2>1, AuthorizeEffect DEF TillInv
    <3>2. \A u \in Txns : Charged(u) =>
            /\ statement'[u] = statement[u] /\ sold'[u] = sold[u]
      BY <1>2, <2>1, AuthorizeSold
    <3>3. UNCHANGED payments
      BY <2>1 DEF PayAuthorize, tables
    <3> QED
      BY <3>1, <3>2, <3>3 DEF Kept, Charged, Recorded
  <2>2. CASE PayRecord(w) /\ UNCHANGED sold
    <3>1. UNCHANGED <<idempotency, statement, sold>>
      BY <2>2 DEF PayRecord, gatewayVars
    <3>2. \A t \in Txns : Recorded(t) => payments'[t] = payments[t]
      BY <2>2, RecordEffect DEF TillInv
    <3> QED
      BY <3>1, <3>2 DEF Kept, Charged, Recorded
  <2>3. CASE PayCount(w) /\ UNCHANGED sold
    BY <1>1, <2>3 DEF PayCount, gatewayVars
  <2> QED
    BY <1>2, <2>1, <2>2, <2>3 DEF ServeStep
<1>3. ASSUME NEW w \in Workers, Ending(w) PROVE Kept
  BY <1>1, <1>3, EndingEffect DEF TillInv
<1>4. ASSUME NEW call \in wire, Take(call) PROVE Kept
  BY <1>1, <1>4 DEF Take, PayBegin, gatewayVars, tables
<1>5. CASE \/ \E m \in Merchants :
                Pressing(m) \/ Timeout(m) \/ OpenSettings(m) \/ Again(m)
           \/ LoseRequest \/ UNCHANGED allVars
  <2>1. UNCHANGED vars /\ UNCHANGED sold
    BY <1>5 DEF Pressing, Press, Timeout, OpenSettings, Again, LoseRequest,
                allVars, tillVars
  <2> QED
    BY <1>1, <2>1 DEF vars
<1> QED
  BY <1>2, <1>3, <1>4, <1>5, Cases

-----------------------------------------------------------------------------
(***************************************************************************)
(* The answer on the screen, and the types of what the till and the wire   *)
(* hold.                                                                   *)
(***************************************************************************)
LEMMA EndingTill ==
  ASSUME TillInv, NEW w \in Workers, Ending(w),
         NEW call, call = serving[w], NEW m, m = call.merchant
  PROVE  /\ call \in Call /\ m \in Merchants /\ Sent(call)
         /\ till' \in [Merchants -> Till]
         /\ \/ UNCHANGED till
            \/ /\ call.live
               /\ \/ till'[m].phase = "ready"
                  \/ /\ till'[m].phase = "result"
                     /\ till'[m].approved = worker[w].approved
                     /\ worker[w].pc = "audit_payment"
               /\ till'[m].customer = till[m].customer
               /\ till'[m].amount = till[m].amount
               /\ till'[m].key = till[m].key /\ till'[m].sale = till[m].sale
               /\ \A n \in Merchants \ {m} : till'[n] = till[n]
<1>1. Inv /\ TerminalTypeOK
  BY DEF TillInv
<1>2. call \in Call /\ m \in Merchants /\ Sent(call)
  BY <1>1, EndingEffect, ServedCall DEF Call
<1>3. till[m] \in Till /\ worker[w].approved \in BOOLEAN
  BY <1>1, <1>2 DEF TerminalTypeOK, TypeOK, Job
<1>4. CASE NothingArrives(w)
  BY <1>1, <1>2, <1>4 DEF NothingArrives, TerminalTypeOK
<1>5. CASE ErrorArrives(w)
  <2> DEFINE form == [till[m] EXCEPT !.phase = "ready"]
  <2>1. till' = [till EXCEPT ![m] = form] /\ call.live
    BY <1>1, <1>2, <1>5 DEF ErrorArrives, TerminalTypeOK
  <2>2. /\ form \in Till /\ form.phase = "ready"
        /\ form.customer = till[m].customer /\ form.amount = till[m].amount
        /\ form.key = till[m].key /\ form.sale = till[m].sale
    BY <1>3 DEF Till
  <2> HIDE DEF form
  <2> QED
    BY <1>1, <1>2, <2>1, <2>2 DEF TerminalTypeOK
<1>6. CASE AnswerArrives(w)
  <2> DEFINE form == [till[m] EXCEPT !.phase = "result",
                                     !.approved = worker[w].approved]
  <2>1. /\ till' = [till EXCEPT ![m] = form] /\ call.live
        /\ worker[w].pc = "audit_payment"
    BY <1>1, <1>2, <1>6 DEF AnswerArrives, PayAudit, TerminalTypeOK
  <2>2. /\ form \in Till /\ form.phase = "result"
        /\ form.approved = worker[w].approved
        /\ form.customer = till[m].customer /\ form.amount = till[m].amount
        /\ form.key = till[m].key /\ form.sale = till[m].sale
    BY <1>3 DEF Till
  <2> HIDE DEF form
  <2> QED
    BY <1>1, <1>2, <2>1, <2>2 DEF TerminalTypeOK
<1> QED
  BY <1>4, <1>5, <1>6 DEF Ending

LEMMA TypesStep ==
  ASSUME TillInv, [TerminalNext]_allVars
  PROVE  TerminalTypeOK' /\ Inv'
<1>1. Inv' /\ TerminalTypeOK
  BY TerminalSteps, InvStep DEF TillInv
<1>2. TypeOK'
  BY <1>1 DEF Inv
<1>3. ASSUME NEW m \in Merchants, Pressing(m) PROVE TerminalTypeOK'
  BY <1>1, <1>2, <1>3, PressType DEF Pressing, Press, TerminalTypeOK
<1>4. ASSUME NEW m \in Merchants, Timeout(m) \/ OpenSettings(m) \/ Again(m)
      PROVE  TerminalTypeOK'
  BY <1>1, <1>2, <1>4, ScreenType DEF TerminalTypeOK
<1>5. CASE LoseRequest \/ UNCHANGED allVars
  BY <1>1, <1>2, <1>5 DEF LoseRequest, allVars, tillVars, TerminalTypeOK
<1>6. ASSUME NEW call \in wire, Take(call) PROVE TerminalTypeOK'
  BY <1>1, <1>2, <1>6 DEF Take, TerminalTypeOK
<1>7. ASSUME NEW w \in Workers, ServeStep(w) PROVE TerminalTypeOK'
  <2>1. sold' \in [Txns -> Sale \cup {None}]
    <3>1. CASE UNCHANGED sold
      BY <1>1, <3>1 DEF TerminalTypeOK
    <3>2. CASE PayAuthorize(w, NewTxn)
      <4>1. SaleOf(serving[w]) \in Sale
        BY <1>1, <3>2, ServedCall, SaleType DEF PayAuthorize
      <4>2. sold' = sold \/ sold' = [sold EXCEPT ![NewTxn] = SaleOf(serving[w])]
        BY <1>7, <3>2 DEF ServeStep, Serve, PayAuthorize, PayRecord, PayCount,
                          SaleOf
      <4> QED
        BY <1>1, <4>1, <4>2 DEF TerminalTypeOK
    <3> QED
      BY <1>7, <3>1, <3>2 DEF ServeStep
  <2> QED
    BY <1>1, <1>2, <1>7, <2>1 DEF ServeStep, TerminalTypeOK
<1>8. ASSUME NEW w \in Workers, Ending(w) PROVE TerminalTypeOK'
  <2>1. till' \in [Merchants -> Till]
    BY <1>8, EndingTill
  <2> QED
    BY <1>1, <1>2, <1>8, <2>1, EndingEffect DEF HungUp, TerminalTypeOK, TillInv
<1> QED
  BY <1>1, <1>3, <1>4, <1>5, <1>6, <1>7, <1>8, Cases

-----------------------------------------------------------------------------
(***************************************************************************)
(* A worker keeps doing what the call it serves asks for.                  *)
(***************************************************************************)
LEMMA ServesKept ==
  ASSUME TillInv, Kept, NEW w \in Workers, worker'[w] = worker[w],
         IF serving[w] = None THEN serving'[w] = None
         ELSE serving'[w] \in Call /\ Like(serving'[w], serving[w])
  PROVE  ServesCall(w)'
<1>1. ServesCall(w) /\ Inv /\ TerminalTypeOK
  BY DEF TillInv
<1>2. CASE serving[w] = None
  BY <1>1, <1>2 DEF ServesCall
<1>3. CASE serving[w] # None
  <2>1. /\ serving'[w] \in Call /\ serving'[w] # None
        /\ serving[w] \in Call /\ serving[w].key \in Keys
    BY <1>1, <1>3 DEF TerminalTypeOK, Call
  <2>2. /\ worker[w].key = serving'[w].key
        /\ worker[w].customer = serving'[w].customer
        /\ worker[w].amount = serving'[w].amount
        /\ worker[w].pc \in PayPcs /\ worker[w].key \in Keys
    BY <1>1, <1>3, <2>1 DEF ServesCall, Like
  <2>3. worker[w].pc # "authorize" =>
          /\ idempotency'[worker[w].key] # None
          /\ idempotency'[worker[w].key].approved = worker[w].approved
          /\ idempotency'[worker[w].key].txn = worker[w].txn
    BY <1>1, <1>3, <2>2 DEF ServesCall, Kept
  <2>4. worker[w].pc \in {"count_use", "audit_payment"} /\ worker[w].approved =>
          /\ worker[w].txn \in Txns
          /\ Recorded(worker[w].txn) /\ payments'[worker[w].txn] # NoRow
    BY <1>1, <1>3, <2>2, TxnKnown DEF ServesCall, Kept, Recorded
  <2> QED
    BY <2>1, <2>2, <2>3, <2>4 DEF ServesCall, Recorded
<1> QED
  BY <1>2, <1>3

LEMMA ServesTaken ==
  ASSUME TillInv, Kept, NEW call \in wire, Take(call)
  PROVE  \A v \in Workers : ServesCall(v)'
<1>1. TypeOK /\ TerminalTypeOK
  BY DEF TillInv, TerminalTypeOK
<1> PICK w \in Workers : w = IdleWorker /\ worker[w].pc = "idle"
  BY IdleWorkerIsIdle DEF Take
<1>2. call \in Call /\ call # None
  BY <1>1 DEF TerminalTypeOK
<1>3. /\ worker' = [worker EXCEPT ![w] =
             [Idle EXCEPT !.pc = "authorize", !.customer = call.customer,
                !.token = card[call.customer], !.merchant = call.merchant,
                !.key = call.key, !.amount = call.amount,
                !.sca = ScaOf(call.customer, call.amount)]]
      /\ serving' = [serving EXCEPT ![w] = call]
  BY DEF Take, PayBegin
<1>4. /\ worker'[w].pc = "authorize" /\ worker'[w].customer = call.customer
      /\ worker'[w].key = call.key /\ worker'[w].amount = call.amount
      /\ serving'[w] = call
  BY <1>1, <1>3 DEF TypeOK, TerminalTypeOK, Idle
<1>5. ServesCall(w)'
  BY <1>2, <1>4 DEF ServesCall, PayPcs
<1>6. ASSUME NEW v \in Workers, v # w PROVE ServesCall(v)'
  <2>1. worker'[v] = worker[v] /\ serving'[v] = serving[v]
    BY <1>1, <1>3, <1>6 DEF TypeOK, TerminalTypeOK
  <2>2. serving[v] # None => serving[v] \in Call
    BY <1>1 DEF TerminalTypeOK
  <2> QED
    BY <2>1, <2>2, ServesKept DEF Like
<1> QED
  BY <1>5, <1>6

LEMMA ServesServed ==
  ASSUME TillInv, Kept, NEW w \in Workers, ServeStep(w)
  PROVE  ServesCall(w)'
<1>1. Inv /\ ServesCall(w) /\ UNCHANGED serving
  BY DEF TillInv, ServeStep
<1>2. /\ serving[w] # None /\ worker[w].key = serving[w].key
      /\ worker[w].customer = serving[w].customer
      /\ worker[w].amount = serving[w].amount
  <2>1. worker[w].pc # "idle"
    BY DEF ServeStep, PayAuthorize, PayRecord, PayCount
  <2> QED
    BY <2>1, ServedCall
<1>3. CASE PayAuthorize(w, NewTxn)
  <2> PICK t \in Txns : t = NewTxn
    BY NewTxnIsOne
  <2> PICK key : key = worker[w].key
    OBVIOUS
  <2>1. /\ idempotency'[key] # None
        /\ worker'[w].pc = IF idempotency'[key].approved
                           THEN "record_payment" ELSE "audit_payment"
        /\ worker'[w].key = key /\ worker'[w].customer = worker[w].customer
        /\ worker'[w].amount = worker[w].amount
        /\ worker'[w].approved = idempotency'[key].approved
        /\ worker'[w].txn = idempotency'[key].txn
    BY <1>1, <1>3, AuthorizeEffect
  <2> QED
    BY <1>1, <1>2, <2>1 DEF ServesCall, PayPcs
<1>4. CASE PayRecord(w) \/ PayCount(w)
  <2>1. /\ worker'[w].pc = IF worker[w].pc = "record_payment" THEN "count_use"
                           ELSE "audit_payment"
        /\ worker'[w].key = worker[w].key
        /\ worker'[w].customer = worker[w].customer
        /\ worker'[w].amount = worker[w].amount
        /\ worker'[w].approved = worker[w].approved
        /\ worker'[w].txn = worker[w].txn
    BY <1>1, <1>4, AdvanceFields DEF PayRecord, PayCount
  <2>2. /\ worker[w].pc \in {"record_payment", "count_use"}
        /\ UNCHANGED idempotency
    BY <1>4 DEF PayRecord, PayCount, gatewayVars
  <2>3. payments'[worker[w].txn] # NoRow
    <3>1. CASE PayRecord(w)
      BY <1>1, <3>1, RecordEffect DEF Recorded
    <3>2. CASE PayCount(w)
      BY <1>1, <1>2, <3>2, TxnKnown DEF PayCount, ServesCall, Recorded
    <3> QED
      BY <1>4, <3>1, <3>2
  <2> QED
    BY <1>1, <1>2, <2>1, <2>2, <2>3 DEF ServesCall, PayPcs, Recorded
<1> QED
  BY <1>3, <1>4 DEF ServeStep

LEMMA ServesStep ==
  ASSUME TillInv, [TerminalNext]_allVars
  PROVE  \A v \in Workers : ServesCall(v)'
<1>1. Kept /\ Inv /\ TypeOK /\ TerminalTypeOK
  BY StepKeeps DEF TillInv, TerminalTypeOK
<1>2. ASSUME NEW w \in Workers, serving[w] # None
      PROVE  serving[w] \in Call /\ Like(serving[w], serving[w])
  BY <1>1, <1>2 DEF TerminalTypeOK, Like
<1>3. CASE UNCHANGED <<worker, serving>>
  BY <1>1, <1>2, <1>3, ServesKept
<1>4. ASSUME NEW m \in Merchants, Timeout(m) \/ OpenSettings(m)
      PROVE  \A v \in Workers : ServesCall(v)'
  BY <1>1, <1>4, Abandoned, ServesKept DEF Timeout, OpenSettings, vars
<1>5. ASSUME NEW call \in wire, Take(call)
      PROVE  \A v \in Workers : ServesCall(v)'
  BY <1>1, <1>5, ServesTaken
<1>6. ASSUME NEW w \in Workers, ServeStep(w)
      PROVE  \A v \in Workers : ServesCall(v)'
  <2>1. StepOf(w)
    BY <1>6, NewTxnIsOne DEF ServeStep, StepOf, WorkerStep
  <2>2. \A v \in Workers \ {w} : worker'[v] = worker[v]
    BY <1>1, <2>1, OthersStay
  <2> QED
    BY <1>1, <1>2, <1>6, <2>2, ServesKept, ServesServed DEF ServeStep
<1>7. ASSUME NEW w \in Workers, Ending(w)
      PROVE  \A v \in Workers : ServesCall(v)'
  <2>1. Finish(w) /\ HungUp(w) /\ worker'[w].pc = "idle"
    BY <1>1, <1>7, EndingEffect DEF Ending, AnswerArrives, ErrorArrives,
       NothingArrives, PayAudit, PayGatewayError, StorageFault
  <2>2. serving'[w] = None
    BY <1>1, <2>1 DEF HungUp, TerminalTypeOK
  <2>3. \A v \in Workers \ {w} :
          worker'[v] = worker[v] /\ serving'[v] = serving[v]
    BY <1>1, <2>1 DEF Finish, HungUp, TypeOK, TerminalTypeOK
  <2>4. ServesCall(w)'
    BY <2>1, <2>2 DEF ServesCall
  <2> QED
    BY <1>1, <1>2, <2>3, <2>4, ServesKept
<1>8. CASE \/ \E m \in Merchants : Pressing(m) \/ Again(m)
           \/ LoseRequest \/ UNCHANGED allVars
  <2>1. UNCHANGED vars /\ UNCHANGED serving
    BY <1>8 DEF Pressing, Press, Again, LoseRequest, allVars, tillVars
  <2> QED
    BY <1>3, <2>1 DEF vars
<1> QED
  BY <1>4, <1>5, <1>6, <1>7, <1>8, Cases

-----------------------------------------------------------------------------
(***************************************************************************)
(* The acquirer's memory and the statement keep naming the same charges.   *)
(***************************************************************************)
LEMMA CacheStep ==
  ASSUME TillInv, [TerminalNext]_allVars
  PROVE  CacheInv'
<1>1. Kept /\ Inv /\ CacheInv /\ TerminalTypeOK
  BY StepKeeps DEF TillInv
<1>2. CASE UNCHANGED <<idempotency, statement, sold>>
  BY <1>1, <1>2 DEF CacheInv, ApprovedIn, Charged
<1>3. ASSUME NEW w \in Workers, ServeStep(w), PayAuthorize(w, NewTxn)
      PROVE  CacheInv'
  <2> PICK t \in Txns : t = NewTxn
    BY NewTxnIsOne
  <2> PICK key : key = worker[w].key
    OBVIOUS
  <2>1. /\ key \in Keys
        /\ \A k \in Keys : idempotency[k] # None \/ k # key =>
             idempotency'[k] = idempotency[k]
    BY <1>1, <1>3, AuthorizeEffect
  <2>2. SaleOf(serving[w]) \in Sale
    BY <1>1, <1>3, ServedCall, SaleType DEF PayAuthorize
  <2>3. ASSUME NEW k \in Keys, ApprovedIn(idempotency, k)
        PROVE  /\ ApprovedIn(idempotency', k)
               /\ idempotency'[k].txn = idempotency[k].txn
               /\ idempotency'[k].txn \in Txns
               /\ statement'[idempotency'[k].txn].charged > 0
               /\ statement'[idempotency'[k].txn].key = k
    BY <1>1, <2>3 DEF CacheInv, ApprovedIn, Kept, Charged
  <2>4. ASSUME NEW u \in Txns, Charged(u)
        PROVE  /\ statement'[u].key \in Keys
               /\ ApprovedIn(idempotency', statement'[u].key)
               /\ idempotency'[statement'[u].key].txn = u
               /\ sold'[u] \in Sale
    BY <1>1, <2>4 DEF CacheInv, ApprovedIn, Kept
  <2>5. CASE /\ UNCHANGED <<statement, sold>>
             /\ idempotency[key] = None => ~idempotency'[key].approved
    <3>1. \A k \in Keys : ApprovedIn(idempotency', k) =>
            ApprovedIn(idempotency, k)
      BY <2>1, <2>5 DEF ApprovedIn
    <3> QED
      BY <2>3, <2>4, <2>5, <3>1 DEF CacheInv, Charged
  <2>6. CASE /\ idempotency[key] = None /\ ~Charged(t) /\ Charged(t)'
             /\ idempotency'[key].approved /\ idempotency'[key].txn = t
             /\ statement'[t].key = key
             /\ sold'[t] = SaleOf(serving[w])
             /\ \A u \in Txns \ {t} :
                  statement'[u] = statement[u] /\ sold'[u] = sold[u]
    <3>1. idempotency'[key] # None
      BY <1>1, <1>3, AuthorizeEffect
    <3>2. \A k \in Keys : k # key /\ ApprovedIn(idempotency', k) =>
            ApprovedIn(idempotency, k)
      BY <2>1 DEF ApprovedIn
    <3>3. \A u \in Txns : u # t /\ statement'[u].charged > 0 => Charged(u)
      BY <2>6 DEF Charged
    <3>4. statement'[t].charged > 0
      BY <2>6 DEF Charged
    <3>5. \A k \in Keys : ApprovedIn(idempotency', k) =>
            /\ idempotency'[k].txn \in Txns
            /\ statement'[idempotency'[k].txn].charged > 0
            /\ statement'[idempotency'[k].txn].key = k
      BY <2>3, <2>6, <3>2, <3>4
    <3>6. \A u \in Txns : statement'[u].charged > 0 =>
            /\ statement'[u].key \in Keys
            /\ ApprovedIn(idempotency', statement'[u].key)
            /\ idempotency'[statement'[u].key].txn = u
            /\ sold'[u] \in Sale
      <4>1. ApprovedIn(idempotency', key)
        BY <2>6, <3>1 DEF ApprovedIn
      <4> QED
        BY <2>1, <2>2, <2>4, <2>6, <3>3, <4>1
    <3> QED
      BY <3>5, <3>6 DEF CacheInv, Charged, ApprovedIn
  <2> QED
    BY <1>3, <2>5, <2>6, AuthorizeSold
<1>4. ASSUME NEW w \in Workers, ServeStep(w), ~PayAuthorize(w, NewTxn)
      PROVE  CacheInv'
  BY <1>2, <1>4 DEF ServeStep, PayRecord, PayCount, gatewayVars
<1>5. ASSUME NEW w \in Workers, Ending(w) PROVE CacheInv'
  BY <1>1, <1>2, <1>5, EndingEffect
<1>6. ASSUME NEW call \in wire, Take(call) PROVE CacheInv'
  BY <1>2, <1>6 DEF Take, PayBegin, gatewayVars
<1>7. CASE \/ \E m \in Merchants :
                Pressing(m) \/ Timeout(m) \/ OpenSettings(m) \/ Again(m)
           \/ LoseRequest \/ UNCHANGED allVars
  <2>1. UNCHANGED vars /\ UNCHANGED sold
    BY <1>7 DEF Pressing, Press, Timeout, OpenSettings, Again, LoseRequest,
                allVars, tillVars
  <2> QED
    BY <1>2, <2>1 DEF vars
<1> QED
  BY <1>3, <1>4, <1>5, <1>6, <1>7, Cases

-----------------------------------------------------------------------------
(***************************************************************************)
(* Keys and sales.                                                         *)
(***************************************************************************)
\* A new charge is made for a call under way, under its key.
NewChargesOfCalls ==
  \A t \in Txns : Charged(t)' /\ ~Charged(t) =>
    \E call \in Call :
      /\ Sent(call) /\ statement'[t].key = call.key
      /\ sold'[t] = SaleOf(call) /\ statement'[t].charged = call.amount

LEMMA ChargesStep ==
  ASSUME TillInv, [TerminalNext]_allVars
  PROVE  NewChargesOfCalls
<1>1. CASE UNCHANGED statement
  BY <1>1 DEF NewChargesOfCalls, Charged
<1>2. ASSUME NEW w \in Workers, ServeStep(w), PayAuthorize(w, NewTxn)
      PROVE  NewChargesOfCalls
  <2> PICK t \in Txns : t = NewTxn
    BY NewTxnIsOne
  <2> PICK key : key = worker[w].key
    OBVIOUS
  <2>1. /\ serving[w] \in Call /\ Sent(serving[w])
        /\ worker[w].key = serving[w].key
        /\ worker[w].amount = serving[w].amount
    BY <1>2, ServedCall DEF PayAuthorize
  <2>2. CASE /\ Charged(t)' /\ statement'[t].key = key
             /\ statement'[t].charged = worker[w].amount
             /\ sold'[t] = SaleOf(serving[w])
             /\ \A u \in Txns \ {t} : statement'[u] = statement[u]
    <3>1. \A u \in Txns : Charged(u)' /\ ~Charged(u) => u = t
      BY <2>2 DEF Charged
    <3> QED
      BY <2>1, <2>2, <3>1 DEF NewChargesOfCalls
  <2> QED
    BY <1>1, <1>2, <2>2, AuthorizeSold
<1>3. ASSUME NEW w \in Workers, ServeStep(w), ~PayAuthorize(w, NewTxn)
      PROVE  NewChargesOfCalls
  BY <1>1, <1>3 DEF ServeStep, PayRecord, PayCount, gatewayVars
<1>4. ASSUME NEW w \in Workers, Ending(w) PROVE NewChargesOfCalls
  BY <1>1, <1>4, EndingEffect DEF TillInv
<1>5. ASSUME NEW call \in wire, Take(call) PROVE NewChargesOfCalls
  BY <1>1, <1>5 DEF Take, PayBegin, gatewayVars
<1>6. CASE \/ \E m \in Merchants :
                Pressing(m) \/ Timeout(m) \/ OpenSettings(m) \/ Again(m)
           \/ LoseRequest \/ UNCHANGED allVars
  <2>1. UNCHANGED vars
    BY <1>6 DEF Pressing, Press, Timeout, OpenSettings, Again, LoseRequest,
                allVars
  <2> QED
    BY <1>1, <2>1 DEF vars
<1> QED
  BY <1>2, <1>3, <1>4, <1>5, <1>6, Cases

\* A step that brings no call under another key or sale adds at most what
\* the screens show.
LEMMA UsesKnown ==
  ASSUME TillInv, Kept, NewChargesOfCalls, NEW k \in Keys, NEW s \in Sale,
         \A call \in Call : Sent(call)' => Uses(call.key, SaleOf(call)),
         Uses(k, s)'
  PROVE  \/ Uses(k, s)
         \/ \E m \in Merchants : till'[m].key = k /\ SaleAt(m)' = s
<1>1. ASSUME NEW call \in Call, Sent(call)', call.key = k, SaleOf(call) = s
      PROVE  Uses(k, s)
  BY <1>1
<1>2. ASSUME NEW t \in Txns, Charged(t)', statement'[t].key = k, sold'[t] = s
      PROVE  Uses(k, s)
  <2>1. CASE Charged(t)
    BY <1>2, <2>1 DEF Kept, Uses
  <2>2. CASE ~Charged(t)
    BY <1>2, <2>2 DEF NewChargesOfCalls, Uses
  <2> QED
    BY <2>1, <2>2
<1>3. \/ \E m \in Merchants : till'[m].key = k /\ SaleAt(m)' = s
      \/ \E call \in Call : Sent(call)' /\ call.key = k /\ SaleOf(call) = s
      \/ \E t \in Txns : Charged(t)' /\ statement'[t].key = k /\ sold'[t] = s
  BY DEF Uses, SaleOf
<1> QED
  BY <1>1, <1>2, <1>3

LEMMA OldCallsUse ==
  ASSUME NoNewCalls, NEW call \in Call, Sent(call)'
  PROVE  Uses(call.key, SaleOf(call))
<1>1. PICK other \in Call : Sent(other) /\ Like(call, other)
  BY DEF NoNewCalls
<1>2. other.key = call.key /\ SaleOf(other) = SaleOf(call)
  BY <1>1 DEF Like, SaleOf
<1> QED
  BY <1>1, <1>2 DEF Uses

LEMMA KeysStay ==
  ASSUME KeyInv, \A k \in Keys, s \in Sale : Uses(k, s)' => Uses(k, s),
         spentKeys \subseteq spentKeys', touched \subseteq touched',
         \A m \in Merchants : till'[m].sale = till[m].sale
  PROVE  KeyInv'
<1>1. \A s \in Sale : s.merchant \in Merchants /\ (Left(s) => Left(s)')
  BY DEF Sale, Left
<1> QED
  BY <1>1 DEF KeyInv

LEMMA KeysNew ==
  ASSUME KeyInv, TerminalTypeOK, NEW n \in Keys, NEW r \in Sale, n \notin spentKeys,
         \A k \in Keys, s \in Sale :
           Uses(k, s)' => Uses(k, s) \/ (k = n /\ s = r),
         spentKeys' = spentKeys \cup {n}, touched \subseteq touched',
         \A m \in Merchants :
           till'[m].sale \in Int /\ till[m].sale <= till'[m].sale,
         r.sale <= till'[r.merchant].sale,
         Left(r)' \/ \A k \in Keys : ~Uses(k, r)
  PROVE  KeyInv'
<1>1. \A s \in Sale : /\ s.merchant \in Merchants /\ s.sale \in Int
                      /\ Left(s) => Left(s)'
  BY DEF Sale, Left
<1>2. \A s \in Sale : ~Uses(n, s)
  BY DEF KeyInv
<1>3. \A m \in Merchants : till[m].sale \in Int
  BY DEF TerminalTypeOK, Till
<1>4. \A k \in Keys, s \in Sale : Uses(k, s)' =>
        k \in spentKeys' /\ s.sale <= till'[s.merchant].sale
  <2> SUFFICES ASSUME NEW k \in Keys, NEW s \in Sale, Uses(k, s)'
               PROVE  k \in spentKeys' /\ s.sale <= till'[s.merchant].sale
    OBVIOUS
  <2>1. CASE Uses(k, s)
    <3>1. k \in spentKeys /\ s.sale <= till[s.merchant].sale
      BY <2>1 DEF KeyInv
    <3> QED
      BY <1>1, <1>3, <3>1
  <2>2. CASE k = n /\ s = r
    BY <2>2
  <2> QED
    BY <2>1, <2>2
<1>5. \A k \in Keys, s, q \in Sale : Uses(k, s)' /\ Uses(k, q)' => s = q
  BY <1>2 DEF KeyInv
<1>6. \A k, l \in Keys, s \in Sale :
        Uses(k, s)' /\ Uses(l, s)' /\ ~Left(s)' => k = l
  BY <1>1 DEF KeyInv
<1> QED
  BY <1>4, <1>5, <1>6 DEF KeyInv

\* The network and the service lose, move and answer calls; only Press adds
\* one, and a call given up is still the same request.
LEMMA CallsStep ==
  ASSUME TillInv,
         \/ \E m \in Merchants : Timeout(m) \/ OpenSettings(m) \/ Again(m)
         \/ LoseRequest \/ \E call \in wire : Take(call)
         \/ \E w \in Workers : ServeStep(w) \/ Ending(w)
         \/ UNCHANGED allVars
  PROVE  NoNewCalls
<1>1. TerminalTypeOK /\ Inv
  BY DEF TillInv
<1>2. CASE wire' \subseteq wire /\ UNCHANGED serving
  BY <1>2, CallsMoved DEF Sent
<1>3. ASSUME NEW call \in wire, Take(call) PROVE NoNewCalls
  <2>1. wire' = wire \ {call} /\ serving' = [serving EXCEPT ![IdleWorker] = call]
    BY <1>3 DEF Take
  <2> QED
    BY <1>1, <2>1, CallsMoved DEF Sent, TerminalTypeOK
<1>4. ASSUME NEW w \in Workers, Ending(w) PROVE NoNewCalls
  <2>1. UNCHANGED wire /\ serving' = [serving EXCEPT ![w] = None]
    BY <1>1, <1>4, EndingEffect DEF HungUp
  <2> QED
    BY <1>1, <2>1, CallsMoved DEF Sent, TerminalTypeOK
<1>5. ASSUME NEW m \in Merchants, Timeout(m) \/ OpenSettings(m)
      PROVE  NoNewCalls
  BY <1>1, <1>5, Abandoned DEF Timeout, OpenSettings
<1>6. CASE \/ \E m \in Merchants : Again(m)
           \/ LoseRequest \/ \E w \in Workers : ServeStep(w)
           \/ UNCHANGED allVars
  BY <1>2, <1>6 DEF Again, LoseRequest, ServeStep, allVars, tillVars
<1> QED
  BY <1>3, <1>4, <1>5, <1>6

LEMMA PressedCalls ==
  ASSUME TillInv, NEW m \in Merchants, NEW c \in Customers, NEW a \in Amounts,
         Press(m, c, a)
  PROVE  \A call \in Call : Sent(call)' =>
           \/ Sent(call)
           \/ /\ call.merchant = m /\ call.key = till[m].key
              /\ SaleOf(call) = SaleAt(m) /\ call.customer = c /\ call.amount = a
BY DEF Press, Sent, SaleOf, SaleAt

\* A step that keeps the keys and the sales on the screens.
LEMMA KeysOfScreens ==
  ASSUME TillInv, Kept, NewChargesOfCalls,
         \A call \in Call : Sent(call)' => Uses(call.key, SaleOf(call)),
         spentKeys \subseteq spentKeys', touched \subseteq touched',
         \A m \in Merchants :
           till'[m].key = till[m].key /\ till'[m].sale = till[m].sale
  PROVE  KeyInv'
<1>1. ASSUME NEW k \in Keys, NEW s \in Sale, Uses(k, s)' PROVE Uses(k, s)
  <2>1. CASE \E m \in Merchants : till'[m].key = k /\ SaleAt(m)' = s
    BY <2>1 DEF Uses, SaleAt
  <2> QED
    BY <1>1, <2>1, UsesKnown
<1> QED
  BY <1>1, KeysStay DEF TillInv

LEMMA KeysStep ==
  ASSUME TillInv, [TerminalNext]_allVars
  PROVE  KeyInv'
<1>1. Kept /\ NewChargesOfCalls /\ TerminalTypeOK /\ TerminalTypeOK' /\ KeyInv
  BY StepKeeps, ChargesStep, TypesStep DEF TillInv
<1>2. ASSUME NoNewCalls, spentKeys \subseteq spentKeys',
             touched \subseteq touched',
             \A m \in Merchants :
               till'[m].key = till[m].key /\ till'[m].sale = till[m].sale
      PROVE  KeyInv'
  BY <1>1, <1>2, OldCallsUse, KeysOfScreens
<1>3. ASSUME NEW m \in Merchants, Pressing(m) PROVE KeyInv'
  <2>1. PICK c \in Customers, a \in Amounts : Press(m, c, a)
    BY <1>3 DEF Pressing
  <2>2. \A call \in Call : Sent(call)' => Uses(call.key, SaleOf(call))
    <3> SUFFICES ASSUME NEW call \in Call, Sent(call)'
                 PROVE  Uses(call.key, SaleOf(call))
      OBVIOUS
    <3>1. CASE Sent(call)
      BY <3>1 DEF Uses
    <3>2. CASE call.key = till[m].key /\ SaleOf(call) = SaleAt(m)
      BY <3>2 DEF Uses
    <3> QED
      BY <2>1, <3>1, <3>2, PressedCalls
  <2>3. \A n \in Merchants :
          till'[n].key = till[n].key /\ till'[n].sale = till[n].sale
    BY <1>1, <2>1, PressFields
  <2>4. spentKeys \subseteq spentKeys' /\ touched \subseteq touched'
    BY <2>1 DEF Press, Touch
  <2> QED
    BY <1>1, <2>2, <2>3, <2>4, KeysOfScreens
<1>4. ASSUME NEW m \in Merchants, Timeout(m) PROVE KeyInv'
  <2>1. \A n \in Merchants :
          till'[n].key = till[n].key /\ till'[n].sale = till[n].sale
    BY <1>1, <1>4, TimeoutFields
  <2> QED
    BY <1>2, <1>4, <2>1, CallsStep DEF Timeout
<1>5. ASSUME NEW m \in Merchants, OpenSettings(m) PROVE KeyInv'
  <2> PICK n : n = NewKey
    OBVIOUS
  <2> PICK r \in Sale : r = SaleAt(m)
    BY <1>1, SaleType
  <2>1. n \in Keys /\ n \notin spentKeys /\ spentKeys' = spentKeys \cup {n}
    BY <1>5, NewKeyIsNew DEF OpenSettings
  <2>2. touched \subseteq touched' /\ Left(r)'
    BY <1>1, <1>5, SettingsFields DEF OpenSettings, Touch, SaleAt, Left
  <2>3. /\ till'[m].key = n
        /\ \A o \in Merchants : till'[o].sale = till[o].sale
        /\ \A o \in Merchants \ {m} : till'[o] = till[o]
    BY <1>1, <1>5, SettingsFields
  <2>4. ASSUME NEW k \in Keys, NEW s \in Sale, Uses(k, s)'
        PROVE  Uses(k, s) \/ (k = n /\ s = r)
    <3>1. ASSUME NEW o \in Merchants, till'[o].key = k, SaleAt(o)' = s
          PROVE  Uses(k, s) \/ (k = n /\ s = r)
      BY <2>3, <3>1 DEF Uses, SaleAt
    <3> QED
      BY <1>1, <1>5, <2>4, <3>1, CallsStep, OldCallsUse, UsesKnown
  <2>5. /\ \A o \in Merchants : till'[o].sale \in Int /\ till[o].sale <= till'[o].sale
        /\ r.sale <= till'[r.merchant].sale
    BY <1>1, <2>3 DEF TerminalTypeOK, Till, SaleAt
  <2> QED
    BY <1>1, <2>1, <2>2, <2>4, <2>5, KeysNew
<1>6. ASSUME NEW m \in Merchants, Again(m) PROVE KeyInv'
  <2> PICK n : n = NewKey
    OBVIOUS
  <2> DEFINE r == [merchant |-> m, sale |-> till[m].sale + 1]
  <2>1. n \in Keys /\ n \notin spentKeys /\ spentKeys' = spentKeys \cup {n}
    BY <1>6, NewKeyIsNew DEF Again
  <2>2. UNCHANGED touched /\ r \in Sale
    BY <1>1, <1>6 DEF Again, Sale, TerminalTypeOK, Till
  <2>3. /\ till'[m].key = n /\ till'[m].sale = till[m].sale + 1
        /\ \A o \in Merchants \ {m} : till'[o] = till[o]
    BY <1>1, <1>6, AgainFields
  <2>4. ASSUME NEW k \in Keys, NEW s \in Sale, Uses(k, s)'
        PROVE  Uses(k, s) \/ (k = n /\ s = r)
    <3>1. ASSUME NEW o \in Merchants, till'[o].key = k, SaleAt(o)' = s
          PROVE  Uses(k, s) \/ (k = n /\ s = r)
      BY <2>3, <3>1 DEF Uses, SaleAt
    <3> QED
      BY <1>1, <1>6, <2>4, <3>1, CallsStep, OldCallsUse, UsesKnown
  <2>5. /\ \A o \in Merchants : till[o].sale \in Int
        /\ \A o \in Merchants : till'[o].sale \in Int /\ till[o].sale <= till'[o].sale
        /\ r.sale <= till'[r.merchant].sale
    BY <1>1, <2>3 DEF TerminalTypeOK, Till
  <2>6. \A k \in Keys : ~Uses(k, r)
    <3>1. ~(r.sale <= till[r.merchant].sale)
      BY <2>5
    <3> QED
      BY <1>1, <2>2, <3>1 DEF KeyInv
  <2>7. PICK q \in Sale : q = r
    BY <2>2
  <2> QED
    BY <1>1, <2>1, <2>2, <2>4, <2>5, <2>6, <2>7, KeysNew
<1>7. ASSUME NEW w \in Workers, Ending(w) PROVE KeyInv'
  <2>1. \A n \in Merchants :
          till'[n].key = till[n].key /\ till'[n].sale = till[n].sale
    BY <1>7, EndingTill
  <2> QED
    BY <1>2, <1>7, <2>1, CallsStep, EndingEffect DEF TillInv
<1>8. CASE \/ LoseRequest \/ \E call \in wire : Take(call)
           \/ \E w \in Workers : ServeStep(w)
           \/ UNCHANGED allVars
  <2>1. UNCHANGED <<till, spentKeys, touched>>
    BY <1>8 DEF LoseRequest, Take, ServeStep, allVars, tillVars
  <2> QED
    BY <1>2, <1>8, <2>1, CallsStep
<1> QED
  BY <1>3, <1>4, <1>5, <1>6, <1>7, <1>8, Cases

-----------------------------------------------------------------------------
(***************************************************************************)
(* A till waits for one call.                                              *)
(***************************************************************************)
LEMMA AwaitedKept ==
  ASSUME LiveInv, TerminalTypeOK, AwaitedStay,
         \A m \in Merchants, call \in Call :
           Sent(call)' /\ Sent(call) /\ Awaited(m, call) =>
             /\ till'[m].phase = till[m].phase
             /\ till'[m].key = till[m].key /\ till'[m].sale = till[m].sale
  PROVE  LiveInv'
<1>1. ASSUME NEW call \in Call, Sent(call)', call.live PROVE Sent(call)
  BY <1>1 DEF Sent, AwaitedStay, TerminalTypeOK, Call
<1>2. ASSUME NEW w \in Workers, NEW m \in Merchants, ServedFor(w, m)'
      PROVE  ServedFor(w, m) /\ serving'[w] = serving[w]
  BY <1>2 DEF ServedFor, Awaited, AwaitedStay
<1>3. ASSUME NEW m \in Merchants, NEW call \in wire', Awaited(m, call)
      PROVE  call \in wire
  BY <1>3 DEF Awaited, AwaitedStay
<1>4. \A m \in Merchants, call \in Call : Sent(call)' /\ Awaited(m, call) =>
        /\ till'[m].phase = "busy"
        /\ till'[m].key = call.key /\ till'[m].sale = call.sale
  <2> SUFFICES ASSUME NEW m \in Merchants, NEW call \in Call, Sent(call)',
                      Awaited(m, call)
               PROVE  /\ till'[m].phase = "busy" /\ till'[m].key = call.key
                      /\ till'[m].sale = call.sale
    OBVIOUS
  <2>1. Sent(call)
    BY <1>1 DEF Awaited
  <2>2. /\ till[m].phase = "busy" /\ till[m].key = call.key
        /\ till[m].sale = call.sale
    BY <2>1 DEF LiveInv
  <2> QED
    BY <2>1, <2>2
<1>5. \A m \in Merchants : \A call, other \in wire' :
        Awaited(m, call) /\ Awaited(m, other) => call = other
  BY <1>3 DEF LiveInv
<1>6. \A m \in Merchants : \A call \in wire', w \in Workers :
        ~(Awaited(m, call) /\ ServedFor(w, m)')
  BY <1>2, <1>3 DEF LiveInv
<1>7. \A m \in Merchants : \A v, w \in Workers :
        ServedFor(v, m)' /\ ServedFor(w, m)' => v = w
  BY <1>2 DEF LiveInv
<1> QED
  BY <1>4, <1>5, <1>6, <1>7 DEF LiveInv, Awaited

LEMMA AwaitedPressed ==
  ASSUME TillInv, NEW m \in Merchants, NEW c \in Customers, NEW a \in Amounts,
         Press(m, c, a)
  PROVE  LiveInv'
<1>1. TerminalTypeOK /\ LiveInv
  BY DEF TillInv
<1>2. /\ till[m].phase = "ready" /\ till'[m].phase = "busy"
      /\ till'[m].key = till[m].key /\ till'[m].sale = till[m].sale
      /\ \A n \in Merchants \ {m} : till'[n] = till[n]
  BY <1>1, PressFields
<1> DEFINE new == [merchant |-> m, customer |-> c, key |-> till[m].key,
                   amount |-> a, sale |-> till[m].sale, live |-> TRUE]
<1>3. /\ wire' = wire \cup {new} /\ UNCHANGED serving
      /\ new.merchant = m /\ new.key = till[m].key /\ new.sale = till[m].sale
  BY DEF Press
<1> HIDE DEF new
<1>4. \A call \in Call : ~(Sent(call) /\ Awaited(m, call))
  BY <1>1, <1>2 DEF LiveInv
<1>5. /\ \A call \in wire : ~Awaited(m, call)
      /\ \A w \in Workers : ~ServedFor(w, m)
  BY <1>1, <1>4 DEF Sent, ServedFor, TerminalTypeOK
<1>6. ASSUME NEW n \in Merchants
      PROVE  /\ \A call \in Call : Sent(call)' /\ Awaited(n, call) =>
                  /\ till'[n].phase = "busy"
                  /\ till'[n].key = call.key /\ till'[n].sale = call.sale
             /\ \A call, other \in wire' :
                  Awaited(n, call) /\ Awaited(n, other) => call = other
             /\ \A call \in wire', w \in Workers :
                  ~(Awaited(n, call) /\ ServedFor(w, n))
             /\ \A v, w \in Workers :
                  ServedFor(v, n) /\ ServedFor(w, n) => v = w
  <2>1. CASE n = m
    <3>1. \A call \in wire' : Awaited(m, call) => call = new
      BY <1>3, <1>5
    <3>2. \A call \in Call : Sent(call)' /\ Awaited(m, call) => call = new
      BY <1>3, <1>4, <3>1 DEF Sent
    <3> QED
      BY <1>2, <1>3, <1>5, <2>1, <3>1, <3>2
  <2>2. CASE n # m
    <3>1. \A call \in wire' : Awaited(n, call) => call \in wire
      BY <1>3, <2>2 DEF Awaited
    <3>2. \A call \in Call : Sent(call)' /\ Awaited(n, call) => Sent(call)
      BY <1>3, <3>1 DEF Sent
    <3> QED
      BY <1>1, <1>2, <2>2, <3>1, <3>2 DEF LiveInv
  <2> QED
    BY <2>1, <2>2
<1> QED
  BY <1>3, <1>6 DEF LiveInv, Awaited, ServedFor

LEMMA AwaitedTaken ==
  ASSUME TillInv, NEW call \in wire, Take(call)
  PROVE  LiveInv'
<1>1. TerminalTypeOK /\ LiveInv
  BY DEF TillInv
<1> PICK w \in Workers : w = IdleWorker /\ worker[w].pc = "idle"
  BY IdleWorkerIsIdle DEF Take
<1>2. serving[w] = None
  BY IdleServesNone
<1>3. /\ wire' = wire \ {call} /\ serving' = [serving EXCEPT ![w] = call]
      /\ UNCHANGED till
  BY DEF Take
<1>4. /\ serving'[w] = call
      /\ \A v \in Workers \ {w} : serving'[v] = serving[v]
      /\ call \in Call
  BY <1>1, <1>3 DEF TerminalTypeOK
<1>5. \A other \in Call : Sent(other)' => Sent(other)
  BY <1>3, <1>4 DEF Sent
<1>6. \A m \in Merchants, v \in Workers : ServedFor(v, m)' =>
        (v = w /\ Awaited(m, call)) \/ (v # w /\ ServedFor(v, m))
  BY <1>4 DEF ServedFor, Awaited
<1>7. ASSUME NEW m \in Merchants
      PROVE  /\ \A other \in Call : Sent(other)' /\ Awaited(m, other) =>
                  /\ till[m].phase = "busy"
                  /\ till[m].key = other.key /\ till[m].sale = other.sale
             /\ \A one, other \in wire' :
                  Awaited(m, one) /\ Awaited(m, other) => one = other
             /\ \A other \in wire', v \in Workers :
                  ~(Awaited(m, other) /\ ServedFor(v, m)')
             /\ \A u, v \in Workers :
                  ServedFor(u, m)' /\ ServedFor(v, m)' => u = v
  <2>1. \A other \in Call : Sent(other)' /\ Awaited(m, other) =>
          /\ till[m].phase = "busy"
          /\ till[m].key = other.key /\ till[m].sale = other.sale
    BY <1>1, <1>5 DEF LiveInv
  <2>2. \A one, other \in wire' :
          Awaited(m, one) /\ Awaited(m, other) => one = other
    BY <1>1, <1>3 DEF LiveInv
  <2>3. \A other \in wire', v \in Workers :
          ~(Awaited(m, other) /\ ServedFor(v, m)')
    BY <1>1, <1>3, <1>6 DEF LiveInv
  <2>4. \A u, v \in Workers : ServedFor(u, m)' /\ ServedFor(v, m)' => u = v
    BY <1>1, <1>6 DEF LiveInv
  <2> QED
    BY <2>1, <2>2, <2>3, <2>4
<1> QED
  BY <1>3, <1>7 DEF LiveInv, Awaited

LEMMA LiveStep ==
  ASSUME TillInv, [TerminalNext]_allVars
  PROVE  LiveInv'
<1>1. TerminalTypeOK /\ LiveInv /\ Inv
  BY DEF TillInv
<1>2. CASE wire' \subseteq wire /\ UNCHANGED <<serving, till>>
  BY <1>1, <1>2, AwaitedKept DEF AwaitedStay
<1>3. ASSUME NEW m \in Merchants, Timeout(m) \/ OpenSettings(m) PROVE LiveInv'
  <2>1. Abandon(m) /\ \A n \in Merchants \ {m} : till'[n] = till[n]
    BY <1>1, <1>3, TimeoutFields, SettingsFields DEF Timeout, OpenSettings
  <2>2. AwaitedStay /\ \A call \in Call : Sent(call)' => ~Awaited(m, call)
    BY <1>1, <2>1, Abandoned
  <2> QED
    BY <1>1, <2>1, <2>2, AwaitedKept
<1>4. ASSUME NEW m \in Merchants, Again(m) PROVE LiveInv'
  <2>1. AwaitedStay
    BY <1>4 DEF Again, AwaitedStay
  <2>2. /\ till[m].phase = "result"
        /\ \A n \in Merchants \ {m} : till'[n] = till[n]
    BY <1>1, <1>4, AgainFields
  <2>3. \A call \in Call : Sent(call) => ~Awaited(m, call)
    BY <1>1, <2>2 DEF LiveInv
  <2> QED
    BY <1>1, <2>1, <2>2, <2>3, AwaitedKept
<1>5. ASSUME NEW w \in Workers, Ending(w) PROVE LiveInv'
  <2> PICK call : call = serving[w]
    OBVIOUS
  <2> PICK m : m = call.merchant
    OBVIOUS
  <2>1. call \in Call /\ m \in Merchants /\ call # None
    BY <1>5, EndingTill
  <2>2. UNCHANGED wire /\ serving' = [serving EXCEPT ![w] = None]
    BY <1>1, <1>5, EndingEffect DEF HungUp
  <2>3. AwaitedStay
    BY <1>1, <2>2 DEF AwaitedStay, TerminalTypeOK
  <2>4. CASE UNCHANGED till
    BY <1>1, <2>3, <2>4, AwaitedKept
  <2>5. CASE call.live /\ \A n \in Merchants \ {m} : till'[n] = till[n]
    <3>1. ServedFor(w, m)
      BY <2>1, <2>5 DEF ServedFor, Awaited
    <3>2. ASSUME NEW other \in Call, Sent(other)', Awaited(m, other)
          PROVE  FALSE
      <4>1. CASE other \in wire
        BY <1>1, <2>1, <3>1, <3>2, <4>1 DEF LiveInv
      <4>2. ASSUME NEW v \in Workers, v # w, serving[v] = other PROVE FALSE
        <5>1. ServedFor(v, m)
          BY <3>2, <4>2 DEF ServedFor
        <5> QED
          BY <1>1, <2>1, <3>1, <4>2, <5>1 DEF LiveInv
      <4> QED
        BY <1>1, <2>2, <3>2, <4>1, <4>2 DEF Sent, TerminalTypeOK
    <3> QED
      BY <1>1, <2>3, <2>5, <3>2, AwaitedKept
  <2> QED
    BY <1>5, <2>4, <2>5, EndingTill
<1>6. ASSUME NEW m \in Merchants, Pressing(m) PROVE LiveInv'
  BY <1>6, AwaitedPressed DEF Pressing
<1>7. ASSUME NEW call \in wire, Take(call) PROVE LiveInv'
  BY <1>7, AwaitedTaken
<1>8. CASE LoseRequest \/ (\E w \in Workers : ServeStep(w)) \/ UNCHANGED allVars
  BY <1>2, <1>8 DEF LoseRequest, ServeStep, allVars, tillVars
<1> QED
  BY <1>3, <1>4, <1>5, <1>6, <1>7, <1>8, Cases

-----------------------------------------------------------------------------
(***************************************************************************)
(* A sale that was not edited is asked for, charged and recorded one way.  *)
(***************************************************************************)
NewRowsOfCalls ==
  \A t \in Txns : Recorded(t)' /\ ~Recorded(t) =>
    /\ Charged(t)
    /\ \E call \in Call : /\ Sent(call) /\ SaleOf(call) = sold[t]
                          /\ payments'[t].customer = call.customer

\* An approved call and the charge in the cache under its key are one sale's.
LEMMA ServedCharge ==
  ASSUME TillInv, NEW w \in Workers, worker[w].pc \in PayPcs \ {"authorize"},
         worker[w].approved
  PROVE  /\ worker[w].txn \in Txns /\ Charged(worker[w].txn)
         /\ sold[worker[w].txn] = SaleOf(serving[w])
<1> PICK t : t = worker[w].txn
  OBVIOUS
<1> PICK key : key = worker[w].key
  OBVIOUS
<1>1. /\ serving[w] \in Call /\ Sent(serving[w]) /\ serving[w] # None
      /\ key = serving[w].key
  BY ServedCall DEF PayPcs
<1>2. key \in Keys /\ SaleOf(serving[w]) \in Sale
  BY <1>1, SaleType DEF TillInv, Call
<1>3. /\ idempotency[key] # None /\ idempotency[key].approved
      /\ idempotency[key].txn = t
  BY <1>1 DEF TillInv, ServesCall
<1>4. t \in Txns /\ Charged(t) /\ statement[t].key = key
  BY <1>2, <1>3 DEF TillInv, CacheInv, ApprovedIn
<1>5. sold[t] \in Sale
  BY <1>4 DEF TillInv, CacheInv
<1>6. Uses(key, sold[t]) /\ Uses(key, SaleOf(serving[w]))
  BY <1>1, <1>4 DEF Uses
<1> QED
  BY <1>2, <1>4, <1>5, <1>6 DEF TillInv, KeyInv

LEMMA RowsStep ==
  ASSUME TillInv, [TerminalNext]_allVars
  PROVE  NewRowsOfCalls
<1>1. CASE UNCHANGED payments
  BY <1>1 DEF NewRowsOfCalls, Recorded
<1>2. ASSUME NEW w \in Workers, PayRecord(w) PROVE NewRowsOfCalls
  <2> PICK t : t = worker[w].txn
    OBVIOUS
  <2>1. worker[w].pc = "record_payment"
    BY <1>2 DEF PayRecord
  <2>2. /\ worker[w].approved
        /\ \A u \in Txns : Recorded(u) \/ u # t => payments'[u] = payments[u]
        /\ ~Recorded(t) => payments'[t].customer = worker[w].customer
    BY <1>2, RecordEffect DEF TillInv
  <2>3. t \in Txns /\ Charged(t) /\ sold[t] = SaleOf(serving[w])
    BY <2>1, <2>2, ServedCharge DEF PayPcs
  <2>4. /\ serving[w] \in Call /\ Sent(serving[w])
        /\ worker[w].customer = serving[w].customer
    BY <2>1, ServedCall
  <2>5. \A u \in Txns : Recorded(u)' /\ ~Recorded(u) => u = t
    BY <2>2 DEF Recorded
  <2> QED
    BY <2>2, <2>3, <2>4, <2>5 DEF NewRowsOfCalls
<1>3. ASSUME NEW w \in Workers, ServeStep(w) PROVE NewRowsOfCalls
  BY <1>1, <1>2, <1>3 DEF ServeStep, PayAuthorize, PayCount, tables
<1>4. ASSUME NEW w \in Workers, Ending(w) PROVE NewRowsOfCalls
  BY <1>1, <1>4, EndingEffect DEF TillInv
<1>5. ASSUME NEW call \in wire, Take(call) PROVE NewRowsOfCalls
  BY <1>1, <1>5 DEF Take, PayBegin, tables
<1>6. CASE \/ \E m \in Merchants :
                Pressing(m) \/ Timeout(m) \/ OpenSettings(m) \/ Again(m)
           \/ LoseRequest \/ UNCHANGED allVars
  <2>1. UNCHANGED vars
    BY <1>6 DEF Pressing, Press, Timeout, OpenSettings, Again, LoseRequest,
                allVars
  <2> QED
    BY <1>1, <2>1 DEF vars
<1> QED
  BY <1>3, <1>4, <1>5, <1>6, Cases

\* What is on the screen stays, or a blank screen begins a sale.
FormStays(m) ==
  /\ till'[m].customer = till[m].customer /\ till'[m].amount = till[m].amount
  /\ till'[m].sale = till[m].sale
  /\ till'[m].phase = "ready" \/ till[m].customer # None

FormBlank(m) ==
  /\ till'[m].customer = None /\ till'[m].phase = "ready"
  /\ \A call \in Call : Sent(call) => SaleOf(call) # SaleAt(m)'
  /\ \A t \in Txns : Charged(t) => sold[t] # SaleAt(m)'

LEMMA FormKept ==
  ASSUME TillInv, Kept, NewChargesOfCalls, NewRowsOfCalls, NoNewCalls,
         touched \subseteq touched',
         \A m \in Merchants : FormStays(m) \/ FormBlank(m)
  PROVE  FormInv'
<1>1. FormInv /\ TerminalTypeOK /\ RowsAreCharges
  BY DEF TillInv, Inv
<1>2. \A call \in Call : Sent(call)' =>
        \E other \in Call : /\ Sent(other) /\ SaleOf(other) = SaleOf(call)
                            /\ other.customer = call.customer
                            /\ other.amount = call.amount
  BY DEF NoNewCalls, Like, SaleOf
<1>3. None \notin Customers
  OBVIOUS
<1>4. ASSUME NEW s, NEW c \in Customers, NEW a, Asks(s, c, a)'
      PROVE  Asks(s, c, a)
  <2>1. ASSUME NEW m \in Merchants, SaleAt(m)' = s, till'[m].customer = c,
               till'[m].amount = a
        PROVE  Asks(s, c, a)
    <3>1. FormStays(m)
      BY <1>3, <2>1 DEF FormBlank
    <3> QED
      BY <2>1, <3>1 DEF FormStays, Asks, SaleAt
  <2>2. ASSUME NEW call \in Call, Sent(call)', SaleOf(call) = s,
               call.customer = c, call.amount = a
        PROVE  Asks(s, c, a)
    BY <1>2, <2>2 DEF Asks
  <2> QED
    BY <1>4, <2>1, <2>2 DEF Asks, SaleOf
<1>5. ASSUME NEW s, Begun(s)'
      PROVE  \/ \E call \in Call : Sent(call) /\ SaleOf(call) = s
             \/ \E t \in Txns : Charged(t) /\ sold[t] = s
  <2>1. ASSUME NEW t \in Txns, Charged(t)', sold'[t] = s
        PROVE  \/ \E call \in Call : Sent(call) /\ SaleOf(call) = s
               \/ \E u \in Txns : Charged(u) /\ sold[u] = s
    BY <2>1 DEF Kept, NewChargesOfCalls
  <2>2. ASSUME NEW call \in Call, Sent(call)', SaleOf(call) = s
        PROVE  \E other \in Call : Sent(other) /\ SaleOf(other) = s
    BY <1>2, <2>2
  <2>3. \/ \E call \in Call : Sent(call)' /\ SaleOf(call) = s
        \/ \E t \in Txns : Charged(t)' /\ sold'[t] = s
    BY <1>5 DEF Begun, SaleOf
  <2> QED
    BY <2>1, <2>2, <2>3
<1>6. \A s : Edited(s) => Edited(s)'
  BY DEF Edited
<1>7. \A s \in Sale, c, d \in Customers, a, b \in Nat :
        Asks(s, c, a)' /\ Asks(s, d, b)' /\ ~Edited(s)' => c = d /\ a = b
  BY <1>1, <1>4, <1>6 DEF FormInv
<1>8. ASSUME NEW t \in Txns, NEW c \in Customers, NEW a \in Nat,
             NEW s, s = sold'[t],
             Charged(t)', Asks(s, c, a)', ~Edited(s)'
      PROVE  /\ statement'[t].charged = a
             /\ Recorded(t)' => payments'[t].customer = c
  <2>1. Asks(s, c, a) /\ ~Edited(s)
    BY <1>4, <1>6, <1>8
  <2>2. ASSUME NEW call \in Call, Sent(call), SaleOf(call) = s
        PROVE  call.customer = c /\ call.amount = a
    <3>1. /\ s \in Sale /\ call.customer \in Customers /\ call.amount \in Nat
      BY <1>1, <2>2, SaleType DEF Call
    <3>2. Asks(s, call.customer, call.amount)
      BY <2>2 DEF Asks
    <3> QED
      BY <1>1, <2>1, <3>1, <3>2 DEF FormInv
  <2>3. CASE Charged(t)
    <3>1. sold[t] = s /\ statement'[t] = statement[t]
      BY <1>8, <2>3 DEF Kept
    <3>2. statement[t].charged = a /\ (Recorded(t) => payments[t].customer = c)
      BY <1>1, <2>1, <2>3, <3>1 DEF FormInv
    <3>3. Recorded(t) => payments'[t].customer = c
      BY <3>2 DEF Kept
    <3>4. Recorded(t)' /\ ~Recorded(t) => payments'[t].customer = c
      BY <2>2, <3>1 DEF NewRowsOfCalls
    <3> QED
      BY <3>1, <3>2, <3>3, <3>4
  <2>4. CASE ~Charged(t)
    <3>1. ~Recorded(t)'
      BY <1>1, <2>4 DEF NewRowsOfCalls, RowsAreCharges
    <3> QED
      BY <1>8, <2>2, <2>4, <3>1 DEF NewChargesOfCalls
  <2> QED
    BY <2>3, <2>4
<1>9. ASSUME NEW m \in Merchants, NEW s, s = SaleAt(m)',
             Begun(s)' \/ till'[m].phase # "ready"
      PROVE  till'[m].customer # None
  <2>1. CASE till'[m].phase # "ready"
    BY <2>1 DEF FormStays, FormBlank
  <2>2. CASE Begun(s)'
    <3>1. \/ \E call \in Call : Sent(call) /\ SaleOf(call) = s
          \/ \E t \in Txns : Charged(t) /\ sold[t] = s
      BY <1>5, <2>2
    <3>2. FormStays(m)
      BY <1>9, <3>1 DEF FormBlank
    <3>3. SaleAt(m) = s
      BY <1>9, <3>2 DEF FormStays, SaleAt
    <3> QED
      BY <1>1, <3>1, <3>2, <3>3 DEF FormInv, FormStays, Begun
  <2> QED
    BY <1>9, <2>1, <2>2
<1> QED
  BY <1>7, <1>8, <1>9 DEF FormInv

LEMMA FormPressed ==
  ASSUME TillInv, NEW m \in Merchants, NEW c \in Customers, NEW a \in Amounts,
         Press(m, c, a)
  PROVE  FormInv'
<1>1. FormInv /\ TerminalTypeOK /\ a \in Nat /\ None \notin Customers
  BY DEF TillInv
<1>2. UNCHANGED <<statement, payments, sold>>
  BY DEF Press, vars
<1>3. /\ till'[m].phase = "busy" /\ till'[m].customer = c /\ till'[m].amount = a
      /\ till'[m].sale = till[m].sale
      /\ \A n \in Merchants \ {m} : till'[n] = till[n]
  BY <1>1, PressFields
<1> PICK r \in Sale : r = SaleAt(m)
  BY <1>1, SaleType
<1>4. \A n \in Merchants : SaleAt(n)' = SaleAt(n) /\ (SaleAt(n) = r <=> n = m)
  BY <1>1, <1>3, SaleType DEF SaleAt
<1>5. \A call \in Call : Sent(call)' =>
        \/ Sent(call)
        \/ SaleOf(call) = r /\ call.customer = c /\ call.amount = a
  BY PressedCalls
<1>6. ASSUME NEW s, NEW d \in Customers, NEW b, Asks(s, d, b)'
      PROVE  \/ s = r /\ d = c /\ b = a
             \/ /\ Asks(s, d, b)
                /\ s # r \/ \E call \in Call : Sent(call) /\ SaleOf(call) = r
  <2>1. ASSUME NEW n \in Merchants, SaleAt(n)' = s, till'[n].customer = d,
               till'[n].amount = b
        PROVE  (s = r /\ d = c /\ b = a) \/ (Asks(s, d, b) /\ s # r)
    <3>1. CASE n = m
      BY <1>3, <1>4, <2>1, <3>1
    <3>2. CASE n # m
      BY <1>3, <1>4, <2>1, <3>2 DEF Asks
    <3> QED
      BY <3>1, <3>2
  <2>2. ASSUME NEW call \in Call, Sent(call)', SaleOf(call) = s,
               call.customer = d, call.amount = b
        PROVE  \/ s = r /\ d = c /\ b = a
               \/ /\ Asks(s, d, b)
                  /\ s # r \/ \E other \in Call : Sent(other) /\ SaleOf(other) = r
    BY <1>5, <2>2 DEF Asks
  <2>3. \/ \E n \in Merchants : /\ SaleAt(n)' = s /\ till'[n].customer = d
                                /\ till'[n].amount = b
        \/ \E call \in Call : /\ Sent(call)' /\ SaleOf(call) = s
                              /\ call.customer = d /\ call.amount = b
    BY <1>6 DEF Asks, SaleOf
  <2> QED
    BY <2>1, <2>2, <2>3
<1>7. \A s : Edited(s) => Edited(s)'
  BY DEF Edited, Press, Touch
\* The form was blank, as it was, or is edited now.
<1>8. ~Begun(r) \/ Asks(r, c, a) \/ Edited(r)'
  <2>1. CASE till[m].customer = None
    BY <1>1, <2>1 DEF FormInv
  <2>2. CASE till[m].customer = c /\ till[m].amount = a
    BY <2>2 DEF Asks
  <2>3. CASE Touch("edit", m)
    BY <2>3 DEF Touch, Edited
  <2> QED
    BY <2>1, <2>2, <2>3 DEF Press, SameForm
<1>10. \A s \in Sale, d, e \in Customers, b, f \in Nat :
         Asks(s, d, b)' /\ Asks(s, e, f)' /\ ~Edited(s)' => d = e /\ b = f
  <2> SUFFICES ASSUME NEW s \in Sale, NEW d \in Customers, NEW e \in Customers,
                      NEW b \in Nat, NEW f \in Nat,
                      Asks(s, d, b)', Asks(s, e, f)', ~Edited(s)'
               PROVE  d = e /\ b = f
    OBVIOUS
  <2>1. ~Edited(s)
    BY <1>7
  <2>2. CASE Asks(s, d, b) /\ Asks(s, e, f)
    BY <1>1, <2>1, <2>2 DEF FormInv
  <2>3. CASE s = r
    <3>1. CASE ~Begun(r)
      BY <1>6, <2>3, <3>1 DEF Begun
    <3>2. CASE Asks(r, c, a)
      BY <1>6, <2>2, <2>3, <3>2
    <3> QED
      BY <1>8, <2>3, <3>1, <3>2
  <2> QED
    BY <1>6, <2>2, <2>3
<1>9. ASSUME NEW t \in Txns, NEW d \in Customers, NEW b \in Nat,
             NEW s, s = sold'[t], Charged(t)', Asks(s, d, b)', ~Edited(s)'
      PROVE  /\ statement'[t].charged = b
             /\ Recorded(t)' => payments'[t].customer = d
  <2>1. ~Edited(s) /\ Charged(t) /\ sold[t] = s
    BY <1>2, <1>7, <1>9 DEF Charged
  <2>2. CASE Asks(s, d, b)
    <3>1. statement[t].charged = b /\ (Recorded(t) => payments[t].customer = d)
      BY <1>1, <2>1, <2>2 DEF FormInv
    <3> QED
      BY <1>2, <3>1 DEF Recorded
  <2>3. CASE s = r /\ d = c /\ b = a
    <3>1. Begun(s)
      BY <2>1 DEF Begun
    <3> QED
      BY <1>8, <1>9, <2>2, <2>3, <3>1
  <2> QED
    BY <1>6, <1>9, <2>2, <2>3
<1>11. ASSUME NEW n \in Merchants, NEW s, s = SaleAt(n)',
              Begun(s)' \/ till'[n].phase # "ready"
       PROVE  till'[n].customer # None
  <2>1. CASE n = m
    BY <1>1, <1>3, <2>1
  <2>2. CASE n # m
    <3>1. s # r /\ SaleAt(n) = s /\ till'[n] = till[n]
      BY <1>3, <1>4, <1>11, <2>2
    <3>2. ASSUME NEW call \in Call, Sent(call)', SaleOf(call) = s
          PROVE  Begun(s)
      BY <1>5, <3>1, <3>2 DEF Begun
    <3>3. ASSUME NEW t \in Txns, Charged(t)', sold'[t] = s
          PROVE  Begun(s)
      BY <1>2, <3>3 DEF Begun, Charged
    <3>4. Begun(s)' =>
            \/ \E call \in Call : Sent(call)' /\ SaleOf(call) = s
            \/ \E t \in Txns : Charged(t)' /\ sold'[t] = s
      BY DEF Begun, SaleOf
    <3>5. Begun(s)' => Begun(s)
      BY <3>2, <3>3, <3>4
    <3> QED
      BY <1>1, <1>11, <3>1, <3>5 DEF FormInv
  <2> QED
    BY <2>1, <2>2
<1> QED
  BY <1>9, <1>10, <1>11 DEF FormInv

LEMMA FormStep ==
  ASSUME TillInv, [TerminalNext]_allVars
  PROVE  FormInv'
<1>1. Kept /\ NewChargesOfCalls /\ NewRowsOfCalls /\ TerminalTypeOK /\ FormInv
  BY StepKeeps, ChargesStep, RowsStep DEF TillInv
<1>2. ASSUME NEW m \in Merchants, till'[m] = till[m]
      PROVE  FormStays(m)
  BY <1>1, <1>2 DEF FormInv, FormStays
<1>3. CASE UNCHANGED <<till, touched>> /\ NoNewCalls
  BY <1>1, <1>2, <1>3, FormKept
<1>4. ASSUME NEW m \in Merchants, Timeout(m) \/ OpenSettings(m) PROVE FormInv'
  <2>1. FormStays(m) /\ \A n \in Merchants \ {m} : till'[n] = till[n]
    BY <1>1, <1>4, TimeoutFields, SettingsFields DEF FormStays
  <2>2. touched \subseteq touched'
    BY <1>4 DEF Timeout, OpenSettings, Touch
  <2> QED
    BY <1>1, <1>2, <1>4, <2>1, <2>2, CallsStep, FormKept
<1>5. ASSUME NEW m \in Merchants, Again(m) PROVE FormInv'
  <2>1. /\ till'[m].customer = None /\ till'[m].phase = "ready"
        /\ till'[m].sale = till[m].sale + 1
        /\ \A n \in Merchants \ {m} : till'[n] = till[n]
    BY <1>1, <1>5, AgainFields
  <2>2. ~(till'[m].sale <= till[m].sale)
    BY <1>1, <2>1 DEF TerminalTypeOK, Till
  <2>3. \A k \in Keys, s \in Sale : Uses(k, s) => s # SaleAt(m)'
    BY <2>2 DEF TillInv, KeyInv, SaleAt
  <2>4. ASSUME NEW call \in Call, Sent(call) PROVE SaleOf(call) # SaleAt(m)'
    <3>1. Uses(call.key, SaleOf(call)) /\ call.key \in Keys
      BY <2>4 DEF Uses, Call
    <3> QED
      BY <1>1, <2>3, <3>1, SaleType
  <2>5. ASSUME NEW t \in Txns, Charged(t) PROVE sold[t] # SaleAt(m)'
    <3>1. Uses(statement[t].key, sold[t])
      BY <2>5 DEF Uses
    <3>2. statement[t].key \in Keys /\ sold[t] \in Sale
      BY <2>5 DEF TillInv, CacheInv
    <3> QED
      BY <2>3, <3>1, <3>2
  <2>6. FormBlank(m)
    BY <2>1, <2>4, <2>5 DEF FormBlank
  <2> QED
    BY <1>1, <1>2, <1>5, <2>1, <2>6, CallsStep, FormKept DEF Again
<1>6. ASSUME NEW w \in Workers, Ending(w) PROVE FormInv'
  <2> PICK call : call = serving[w]
    OBVIOUS
  <2> PICK m : m = call.merchant
    OBVIOUS
  <2>1. call \in Call /\ m \in Merchants /\ Sent(call)
    BY <1>6, EndingTill
  <2>2. UNCHANGED touched /\ NoNewCalls
    BY <1>6, EndingEffect, CallsStep DEF TillInv
  <2>3. CASE UNCHANGED till
    BY <1>3, <2>2, <2>3
  <2>4. CASE /\ call.live
             /\ till'[m].customer = till[m].customer
             /\ till'[m].amount = till[m].amount
             /\ till'[m].sale = till[m].sale
             /\ \A n \in Merchants \ {m} : till'[n] = till[n]
    <3>1. till[m].phase = "busy"
      BY <2>1, <2>4 DEF TillInv, LiveInv, Awaited
    <3>2. FormStays(m)
      BY <1>1, <2>1, <2>4, <3>1 DEF FormInv, FormStays
    <3> QED
      BY <1>1, <1>2, <2>2, <2>4, <3>2, FormKept
  <2> QED
    BY <1>6, <2>3, <2>4, EndingTill
<1>7. ASSUME NEW m \in Merchants, Pressing(m) PROVE FormInv'
  BY <1>7, FormPressed DEF Pressing
<1>8. CASE \/ LoseRequest \/ \E call \in wire : Take(call)
           \/ \E w \in Workers : ServeStep(w)
           \/ UNCHANGED allVars
  <2>1. UNCHANGED <<till, touched>>
    BY <1>8 DEF LoseRequest, Take, ServeStep, allVars, tillVars
  <2> QED
    BY <1>3, <1>8, <2>1, CallsStep
<1> QED
  BY <1>4, <1>5, <1>6, <1>7, <1>8, Cases

-----------------------------------------------------------------------------
(***************************************************************************)
(* A result on the screen was true when it was shown, and stays true.      *)
(***************************************************************************)
ResultOK(m) ==
  /\ till[m].approved => \E t \in ChargedFor(m) : Recorded(t)
  /\ ~till[m].approved => Declined(till[m].key)

LEMMA ResultKept ==
  ASSUME TillInv, Kept, NEW m \in Merchants, till'[m] = till[m], ResultOK(m)
  PROVE  ResultOK(m)'
<1>1. till[m].key \in Keys
  BY DEF TillInv, TerminalTypeOK, Till
<1>2. ASSUME NEW t \in Txns, t \in ChargedFor(m), Recorded(t)
      PROVE  t \in ChargedFor(m)' /\ Recorded(t)'
  BY <1>2 DEF ChargedFor, Kept, SaleAt
<1>3. till[m].approved => \E t \in ChargedFor(m)' : Recorded(t)'
  BY <1>2 DEF ResultOK, ChargedFor
<1>4. ~till[m].approved => Declined(till[m].key)'
  BY <1>1 DEF ResultOK, Declined, Kept
<1> QED
  BY <1>3, <1>4 DEF ResultOK, Declined

LEMMA ResultShown ==
  ASSUME TillInv, NEW w \in Workers, Ending(w),
         NEW call, call = serving[w], NEW m, m = call.merchant,
         call.live, worker[w].pc = "audit_payment",
         till'[m].approved = worker[w].approved,
         till'[m].key = till[m].key, till'[m].sale = till[m].sale
  PROVE  ResultOK(m)'
<1> PICK t : t = worker[w].txn
  OBVIOUS
<1>1. call \in Call /\ m \in Merchants /\ Sent(call) /\ call # None
  BY EndingTill
<1>2. till[m].key = call.key /\ SaleAt(m)' = SaleOf(call)
  BY <1>1 DEF TillInv, LiveInv, Awaited, SaleAt, SaleOf
<1>3. UNCHANGED <<idempotency, statement, payments, sold>>
  BY EndingEffect DEF TillInv
<1>4. worker[w].key = call.key /\ worker[w].approved \in BOOLEAN
  BY ServedCall DEF TillInv, TerminalTypeOK, TypeOK, Job
<1>5. CASE worker[w].approved
  <2>1. t \in Txns /\ Charged(t) /\ sold[t] = SaleOf(call)
    BY <1>5, ServedCharge DEF PayPcs
  <2>2. Recorded(t)
    BY <1>1, <1>5 DEF TillInv, ServesCall
  <2>3. t \in ChargedFor(m)' /\ Recorded(t)'
    BY <1>2, <1>3, <2>1, <2>2 DEF ChargedFor, Charged, Recorded
  <2> QED
    BY <1>5, <2>3 DEF ResultOK
<1>6. CASE ~worker[w].approved
  <2>1. Declined(call.key)
    BY <1>1, <1>4, <1>6 DEF TillInv, ServesCall, Declined
  <2> QED
    BY <1>2, <1>3, <1>6, <2>1 DEF ResultOK, Declined
<1> QED
  BY <1>4, <1>5, <1>6

LEMMA ResultStep ==
  ASSUME TillInv, [TerminalNext]_allVars
  PROVE  ResultInv'
<1>1. Kept /\ TerminalTypeOK /\ ResultInv
  BY StepKeeps DEF TillInv
<1>2. ASSUME NEW n \in Merchants, till'[n] = till[n], till'[n].phase = "result"
      PROVE  ResultOK(n)'
  BY <1>1, <1>2, ResultKept DEF ResultInv, ResultOK
<1>3. ASSUME NEW n \in Merchants, till'[n].phase = "result"
      PROVE  ResultOK(n)'
  <2>1. ASSUME NEW m \in Merchants,
               Pressing(m) \/ Timeout(m) \/ OpenSettings(m) \/ Again(m)
        PROVE  n # m /\ till'[n] = till[n]
    BY <1>1, <1>3, <2>1, PressFields, TimeoutFields, SettingsFields, AgainFields
       DEF Pressing
  <2>2. ASSUME NEW w \in Workers, Ending(w) PROVE ResultOK(n)'
    <3> PICK call : call = serving[w]
      OBVIOUS
    <3> PICK m : m = call.merchant
      OBVIOUS
    <3>1. CASE till'[n] = till[n]
      BY <1>2, <1>3, <3>1
    <3>2. CASE n = m /\ till'[n] # till[n]
      BY <1>3, <2>2, <3>2, EndingTill, ResultShown
    <3> QED
      BY <2>2, <3>1, <3>2, EndingTill
  <2>3. CASE \/ LoseRequest \/ \E call \in wire : Take(call)
             \/ \E w \in Workers : ServeStep(w)
             \/ UNCHANGED allVars
    BY <1>2, <1>3, <2>3 DEF LoseRequest, Take, ServeStep, allVars, tillVars
  <2> QED
    BY <1>2, <1>3, <2>1, <2>2, <2>3, Cases
<1> QED
  BY <1>3 DEF ResultInv, ResultOK

LEMMA TillStep == TillInv /\ [TerminalNext]_allVars => TillInv'
<1> SUFFICES ASSUME TillInv, [TerminalNext]_allVars PROVE TillInv'
  OBVIOUS
<1>1. Inv' /\ TerminalTypeOK'
  BY TypesStep
<1>2. \A w \in Workers : ServesCall(w)'
  BY ServesStep
<1>3. CacheInv' /\ KeyInv' /\ LiveInv' /\ FormInv' /\ ResultInv'
  BY CacheStep, KeysStep, LiveStep, FormStep, ResultStep
<1> QED
  BY <1>1, <1>2, <1>3 DEF TillInv

THEOREM TillInvariance == TerminalSpec => []TillInv
BY TillInit, TillStep, PTL DEF TerminalSpec

-----------------------------------------------------------------------------
(***************************************************************************)
(* What the invariant says of the till and the cardholder.                 *)
(***************************************************************************)
\* One sale, one key, one answer, one charge.
LEMMA OneKeyOneCharge ==
  ASSUME TillInv, NEW t \in Txns, NEW k \in Keys, Charged(t),
         Uses(k, sold[t]), ~Left(sold[t])
  PROVE  ApprovedIn(idempotency, k) /\ idempotency[k].txn = t
<1>1. /\ statement[t].key \in Keys
      /\ ApprovedIn(idempotency, statement[t].key)
      /\ idempotency[statement[t].key].txn = t
      /\ sold[t] \in Sale
  BY DEF TillInv, CacheInv
<1>2. Uses(statement[t].key, sold[t])
  BY DEF Uses
<1>3. statement[t].key = k
  BY <1>1, <1>2 DEF TillInv, KeyInv
<1> QED
  BY <1>1, <1>3

LEMMA ChargesOfOneSale ==
  ASSUME TillInv, NEW t \in Txns, NEW u \in Txns, Charged(t), Charged(u),
         sold[t] = sold[u], ~Left(sold[t])
  PROVE  t = u
<1>1. statement[u].key \in Keys /\ Uses(statement[u].key, sold[t])
  BY DEF TillInv, CacheInv, Uses
<1>2. Uses(statement[u].key, sold[u]) /\ ~Left(sold[u])
  BY <1>1
<1> QED
  BY <1>1, <1>2, OneKeyOneCharge

(***************************************************************************)
(* "A dropped response followed by a retry cannot charge the customer      *)
(* twice" (PayScreen.kt), however many tills, retries, lost messages and   *)
(* failures: a sale for which the settings were not opened is charged at   *)
(* most once.                                                              *)
(***************************************************************************)
THEOREM SalesChargeOnce == TerminalSpec => []OneChargePerSaleKept
<1>1. TillInv => OneChargePerSaleKept
  BY ChargesOfOneSale DEF OneChargePerSaleKept
<1> QED
  BY <1>1, TillInvariance, PTL

LEMMA TruthfulResult == TillInv => ResultTellsTruth
<1> SUFFICES ASSUME TillInv, NEW m \in Merchants, till[m].phase = "result"
             PROVE  /\ till[m].approved => \E t \in ChargedFor(m) : Recorded(t)
                    /\ ~Left(SaleAt(m)) =>
                         /\ till[m].approved <=> ChargedFor(m) # {}
                         /\ \A t \in ChargedFor(m) : Recorded(t)
  BY DEF ResultTellsTruth
<1>1. /\ till[m].approved => \E t \in ChargedFor(m) : Recorded(t)
      /\ ~till[m].approved => Declined(till[m].key)
      /\ till[m].key \in Keys /\ till[m].approved \in BOOLEAN
  BY DEF TillInv, ResultInv, TerminalTypeOK, Till
<1>2. ASSUME ~Left(SaleAt(m)), NEW t \in ChargedFor(m)
      PROVE  till[m].approved /\ Recorded(t)
  <2>1. t \in Txns /\ Charged(t) /\ sold[t] = SaleAt(m)
    BY DEF ChargedFor
  <2>2. Uses(till[m].key, sold[t])
    BY <2>1 DEF Uses
  <2>3. ApprovedIn(idempotency, till[m].key)
    BY <1>1, <1>2, <2>1, <2>2, OneKeyOneCharge
  <2>4. till[m].approved
    BY <1>1, <2>3 DEF ApprovedIn, Declined
  <2>5. PICK u \in ChargedFor(m) : Recorded(u)
    BY <1>1, <2>4
  <2>6. t = u
    BY <1>2, <2>1, <2>5, ChargesOfOneSale DEF ChargedFor
  <2> QED
    BY <2>4, <2>5, <2>6
<1> QED
  BY <1>1, <1>2

(***************************************************************************)
(* The result on the screen is what happened to the card: an approved sale *)
(* was charged and has its row; a declined one, if the settings were not   *)
(* opened, was not charged, by this request or an earlier one.             *)
(***************************************************************************)
THEOREM ResultsAreTrue == TerminalSpec => []ResultTellsTruth
BY TruthfulResult, TillInvariance, PTL

LEMMA MatchingResult == TillInv => ResultMatchesAttempt
<1> SUFFICES ASSUME TillInv, NEW m \in Merchants, till[m].phase = "result",
                    till[m].approved, ~Edited(SaleAt(m))
             PROVE  \E t \in ChargedFor(m) :
                      /\ payments[t].customer = till[m].customer
                      /\ statement[t].charged = till[m].amount
  BY DEF ResultMatchesAttempt
<1>1. PICK t \in ChargedFor(m) : Recorded(t)
  BY DEF TillInv, ResultInv
<1>2. t \in Txns /\ Charged(t) /\ sold[t] = SaleAt(m)
  BY DEF ChargedFor
<1>3. till[m].customer \in Customers /\ till[m].amount \in Nat
  BY DEF TillInv, TerminalTypeOK, Till, FormInv
<1>4. Asks(sold[t], till[m].customer, till[m].amount)
  BY <1>2 DEF Asks
<1> QED
  BY <1>1, <1>2, <1>3, <1>4 DEF TillInv, FormInv

(***************************************************************************)
(* An approved sale whose form was not edited was charged to the customer  *)
(* and for the amount on the screen: no answer belongs to another attempt. *)
(***************************************************************************)
THEOREM ResultsMatchTheForm == TerminalSpec => []ResultMatchesAttempt
BY MatchingResult, TillInvariance, PTL

(***************************************************************************)
(* For the payment service, tills and network are a client like any other  *)
(* (PayScreen.kt against main.py): whatever is lost, late or pressed       *)
(* twice, what its handlers keep, they keep here.                          *)
(***************************************************************************)
THEOREM TillsUseTheService == TerminalSpec => Spec
<1>1. TerminalInit => Init
  BY DEF TerminalInit
<1>2. TillInv => TerminalTypeOK
  BY DEF TillInv
<1>3. TillInv /\ [TerminalNext]_allVars => [Next]_vars
  BY <1>2, TerminalSteps
<1> QED
  BY <1>1, <1>3, TillInvariance, PTL DEF TerminalSpec, Spec

=============================================================================
