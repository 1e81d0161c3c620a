------------------------------ MODULE Terminal ------------------------------
(***************************************************************************)
(* The merchant's till (PayScreen.kt) over an unreliable network, composed *)
(* with the payment service.  A till sends one request at a time; the      *)
(* request, the answer, or both may be lost or late, the call times out,   *)
(* and the cashier presses the button again under the same key.            *)
(*                                                                         *)
(* A sale is what the cashier is collecting for: it begins with the blank  *)
(* screen and ends when a result is shown.                                 *)
(***************************************************************************)
EXTENDS Payments, FiniteSets

CONSTANTS
  MaxSales,      \* bound: sales made at one till
  MaxTouched,    \* bound: edits and visits of the settings
  Trouble        \* what may disturb a sale: a subset of TroubleKinds

\* The cashier edits the form between two tries, or opens the settings; the
\* service answers later than the till waits (60 s).
TroubleKinds == {"edit", "settings", "late"}

VARIABLES
  till,          \* the state of each PayScreen
  wire,          \* requests sent and not yet taken by a worker
  serving,       \* the request each worker answers
  spentKeys,     \* keys handed out: a new UUID is none of them
  sold,          \* history: the till and the sale of each charge
  touched        \* history: the sales that were edited, or left for the settings

tillVars == <<till, wire, serving, spentKeys, sold, touched>>
allVars == <<vars, tillVars>>

Till ==
  [phase : {"ready", "busy", "result"}, key : Keys, sale : 1..MaxSales,
   customer : Customers \cup {None}, amount : Nat, approved : BOOLEAN]

\* live: the till still waits for the answer to this request.
Call ==
  [merchant : Merchants, customer : Customers, key : Keys, amount : Amounts,
   sale : 1..MaxSales, live : BOOLEAN]
Sale == [merchant : Merchants, sale : 1..MaxSales]
SaleAt(m) == [merchant |-> m, sale |-> till[m].sale]

ASSUME TerminalAssumption ==
  /\ MaxSales \in Nat \ {0}
  /\ MaxTouched \in Nat
  /\ Trouble \subseteq TroubleKinds
  /\ Txns # {}
  /\ None \notin Call
  /\ \E key \in [Merchants -> Keys] :
       \A m, n \in Merchants : key[m] = key[n] => m = n

FreshScreen(key, sale) ==
  [phase |-> "ready", key |-> key, sale |-> sale, customer |-> None,
   amount |-> 0, approved |-> FALSE]

(***************************************************************************)
(* New identifiers are random and idle workers do the same, so which one   *)
(* is taken makes no difference.                                           *)
(***************************************************************************)
NewKey == CHOOSE key \in Keys : key \notin spentKeys

NewTxn ==
  IF \E t \in Txns : ~Charged(t)
  THEN CHOOSE t \in Txns : ~Charged(t)
  ELSE CHOOSE t \in Txns : TRUE

IdleWorker == CHOOSE w \in Workers : worker[w].pc = "idle"

FirstKeys ==
  CHOOSE key \in [Merchants -> Keys] :
    \A m, n \in Merchants : key[m] = key[n] => m = n

TerminalInit ==
  /\ Init
  /\ till = [m \in Merchants |-> FreshScreen(FirstKeys[m], 1)]
  /\ spentKeys = {FirstKeys[m] : m \in Merchants}
  /\ wire = {}
  /\ serving = [w \in Workers |-> None]
  /\ sold = [t \in Txns |-> None]
  /\ touched = {}

-----------------------------------------------------------------------------
(***************************************************************************)
(* The screen.  The key is remembered with the screen: it survives errors, *)
(* is replaced by "again" after a result, and is lost when the screen      *)
(* leaves the composition for the settings screen.                         *)
(***************************************************************************)
\* A slip: a new key for every press of the button.
PressWithNewKey(m, c, amount) ==
  /\ till[m].phase = "ready"
  /\ till[m].customer \in {None, c}
  /\ Keys \ spentKeys # {}
  /\ till' = [till EXCEPT ![m].phase = "busy", ![m].customer = c,
                          ![m].amount = amount, ![m].key = NewKey]
  /\ spentKeys' = spentKeys \cup {NewKey}
  /\ wire' = wire \cup
       {[merchant |-> m, customer |-> c, key |-> NewKey,
         amount |-> amount, sale |-> till[m].sale, live |-> TRUE]}
  /\ UNCHANGED <<vars, serving, sold, touched>>

Left(sale) == <<"settings", sale>> \in touched
Edited(sale) == <<"edit", sale>> \in touched

\* The form is blank, as it was, or edited since the last try.
SameForm(m, c, amount) ==
  \/ till[m].customer = None
  \/ till[m].customer = c /\ till[m].amount = amount

Touch(how, m) ==
  /\ Cardinality(touched) < MaxTouched
  /\ touched' = touched \cup {<<how, SaleAt(m)>>}

Press(m, c, amount) ==
  /\ till[m].phase = "ready"
  /\ \/ SameForm(m, c, amount) /\ UNCHANGED touched
     \/ /\ "edit" \in Trouble
        /\ ~SameForm(m, c, amount)
        /\ Touch("edit", m)
  /\ till' = [till EXCEPT ![m].phase = "busy", ![m].customer = c,
                          ![m].amount = amount]
  /\ wire' = wire \cup
       {[merchant |-> m, customer |-> c, key |-> till[m].key,
         amount |-> amount, sale |-> till[m].sale, live |-> TRUE]}
  /\ UNCHANGED <<vars, serving, spentKeys, sold>>

HangUp(call, m) == [call EXCEPT !.live = @ /\ call.merchant # m]

Abandon(m) ==
  /\ wire' = {HangUp(call, m) : call \in wire}
  /\ serving' = [w \in Workers |->
                   IF serving[w] = None THEN None ELSE HangUp(serving[w], m)]

Underway(m) ==
  \/ \E call \in wire : call.live /\ call.merchant = m
  \/ \E w \in Workers : /\ serving[w] # None
                       /\ serving[w].live
                       /\ serving[w].merchant = m

Timeout(m) ==
  /\ till[m].phase = "busy"
  /\ Underway(m) => "late" \in Trouble
  /\ till' = [till EXCEPT ![m].phase = "ready"]
  /\ Abandon(m)
  /\ UNCHANGED <<vars, spentKeys, sold, touched>>

\* The sale is still to be paid: the cashier enters it again.
OpenSettings(m) ==
  /\ "settings" \in Trouble
  /\ till[m].phase # "result"
  /\ Keys \ spentKeys # {}
  /\ till' = [till EXCEPT ![m].phase = "ready", ![m].key = NewKey]
  /\ spentKeys' = spentKeys \cup {NewKey}
  /\ Abandon(m)
  /\ Touch("settings", m)
  /\ UNCHANGED <<vars, sold>>

\* A slip: the next sale under the key of the last one.
AgainKeepingKey(m) ==
  /\ till[m].phase = "result"
  /\ till[m].sale < MaxSales
  /\ till' = [till EXCEPT ![m] = FreshScreen(till[m].key, till[m].sale + 1)]
  /\ UNCHANGED <<vars, wire, serving, spentKeys, sold, touched>>

Again(m) ==
  /\ till[m].phase = "result"
  /\ till[m].sale < MaxSales
  /\ Keys \ spentKeys # {}
  /\ till' = [till EXCEPT ![m] = FreshScreen(NewKey, till[m].sale + 1)]
  /\ spentKeys' = spentKeys \cup {NewKey}
  /\ UNCHANGED <<vars, wire, serving, sold, touched>>

-----------------------------------------------------------------------------
(***************************************************************************)
(* The network and the server.                                             *)
(***************************************************************************)
LoseRequest ==
  /\ \E call \in wire : wire' = wire \ {call}
  /\ UNCHANGED <<vars, till, serving, spentKeys, sold, touched>>

Take(call) ==
  /\ \E w \in Workers : worker[w].pc = "idle"
  /\ PayBegin(IdleWorker, call.customer, call.merchant, call.key, call.amount)
  /\ wire' = wire \ {call}
  /\ serving' = [serving EXCEPT ![IdleWorker] = call]
  /\ UNCHANGED <<till, spentKeys, sold, touched>>

Serve(w) ==
  /\ \/ /\ PayAuthorize(w, NewTxn)
        /\ sold' = IF statement'[NewTxn] # statement[NewTxn]
                   THEN [sold EXCEPT ![NewTxn] =
                           [merchant |-> serving[w].merchant,
                            sale |-> serving[w].sale]]
                   ELSE sold
     \/ /\ PayRecord(w) \/ PayCount(w)
        /\ UNCHANGED sold
  /\ UNCHANGED <<till, wire, serving, spentKeys, touched>>

HungUp(w) == serving' = [serving EXCEPT ![w] = None]

\* The answer reaches the till that still waits for it ...
AnswerArrives(w) ==
  /\ PayAudit(w)
  /\ serving[w].live
  /\ till' = [till EXCEPT ![serving[w].merchant].phase = "result",
                          ![serving[w].merchant].approved = worker[w].approved]
  /\ HungUp(w)
  /\ UNCHANGED <<wire, spentKeys, sold, touched>>

\* ... or an error does, and the form is back with its key ...
ErrorArrives(w) ==
  /\ PayGatewayError(w) \/ StorageFault(w)
  /\ serving[w].live
  /\ till' = [till EXCEPT ![serving[w].merchant].phase = "ready"]
  /\ HungUp(w)
  /\ UNCHANGED <<wire, spentKeys, sold, touched>>

\* ... or nothing: the answer is lost, or nobody waits for it.
NothingArrives(w) ==
  /\ PayAudit(w) \/ PayGatewayError(w) \/ StorageFault(w)
  /\ HungUp(w)
  /\ UNCHANGED <<till, wire, spentKeys, sold, touched>>

TerminalNext ==
  \/ \E m \in Merchants :
       \/ \E c \in Customers, a \in Amounts : Press(m, c, a)
       \/ Timeout(m) \/ OpenSettings(m) \/ Again(m)
  \/ LoseRequest
  \/ \E call \in wire : Take(call)
  \/ \E w \in Workers :
       \/ Serve(w) \/ AnswerArrives(w) \/ ErrorArrives(w) \/ NothingArrives(w)

TerminalSpec == TerminalInit /\ [][TerminalNext]_allVars

(***************************************************************************)
(* Fairness.  The server's loop runs what it took (WF).  The till gives up *)
(* a call that was lost, and the cashier tries again as long as no result  *)
(* is shown (WF).  The network may lose any message, but not every one     *)
(* forever: a request the till waits for is taken, and its answer arrives, *)
(* if that is possible again and again (SF).                               *)
(***************************************************************************)
TakeLive(m) ==
  \E call \in wire : call.live /\ call.merchant = m /\ Take(call)
AnswerLive(m) ==
  \E w \in Workers :
    serving[w] # None /\ serving[w].merchant = m /\ AnswerArrives(w)

Fairness ==
  /\ \A w \in Workers : WF_allVars(Serve(w)) /\ WF_allVars(NothingArrives(w))
  /\ \A m \in Merchants :
       /\ WF_allVars(\E c \in Customers, a \in Amounts : Press(m, c, a))
       /\ WF_allVars(Timeout(m))
       /\ SF_allVars(TakeLive(m))
       /\ SF_allVars(AnswerLive(m))

FairTerminalSpec == TerminalSpec /\ Fairness

-----------------------------------------------------------------------------
TerminalTypeOK ==
  /\ TypeOK
  /\ till \in [Merchants -> Till]
  /\ wire \subseteq Call
  /\ serving \in [Workers -> Call \cup {None}]
  /\ spentKeys \subseteq Keys
  /\ sold \in [Txns -> Sale \cup {None}]
  /\ touched \subseteq {"edit", "settings"} \X Sale

ChargedFor(m) == {t \in Txns : Charged(t) /\ sold[t] = SaleAt(m)}

(***************************************************************************)
(* "A dropped response followed by a retry cannot charge the customer      *)
(* twice" (PayScreen.kt): one sale, at most one charge, however many       *)
(* requests and answers are lost, late, or handled at the same time.       *)
(***************************************************************************)
OneChargePerSale ==
  \A t, u \in Txns : Charged(t) /\ Charged(u) /\ sold[t] = sold[u] => t = u

(***************************************************************************)
(* The same for every sale during which nobody opened the settings, even   *)
(* when the cashier edits the form between two tries.                      *)
(***************************************************************************)
OneChargePerSaleKept ==
  \A t, u \in Txns :
    Charged(t) /\ Charged(u) /\ sold[t] = sold[u] /\ ~Left(sold[t]) => t = u

(***************************************************************************)
(* The result on the screen is what happened to the customer's card.  Even *)
(* when the form was edited or the settings were opened, an approved sale  *)
(* was charged and has its row.  Without the settings, a declined one was  *)
(* not charged, neither by this request nor by an earlier one whose answer *)
(* was lost, and a storage that failed on the way has been made good.      *)
(***************************************************************************)
ResultTellsTruth ==
  \A m \in Merchants :
    till[m].phase = "result" =>
      /\ till[m].approved => \E t \in ChargedFor(m) : Recorded(t)
      /\ ~Left(SaleAt(m)) =>
           /\ till[m].approved <=> ChargedFor(m) # {}
           /\ \A t \in ChargedFor(m) : Recorded(t)

(***************************************************************************)
(* An approved sale was charged to the customer whose palm was presented,  *)
(* for the amount on the screen, unless the form was edited between two    *)
(* tries: the key is "generated once per attempt" (PayScreen.kt), so an    *)
(* answer cannot belong to another attempt.                                *)
(***************************************************************************)
ResultMatchesAttempt ==
  \A m \in Merchants :
    till[m].phase = "result" /\ till[m].approved /\ ~Edited(SaleAt(m)) =>
      \E t \in ChargedFor(m) :
        /\ payments[t].customer = till[m].customer
        /\ statement[t].charged = till[m].amount

(***************************************************************************)
(* However often answers came too late or failed, and whatever the cashier *)
(* did to the form: once no more of them do, every request of a till ends  *)
(* in a result.  The service never refuses the retry of a request it       *)
(* already handled, and no earlier trouble leaves a till stuck.            *)
(***************************************************************************)
Disturbance ==
  \/ \E m \in Merchants : Underway(m) /\ Timeout(m)
  \/ \E w \in Workers : PayGatewayError(w) \/ StorageFault(w)

SaleEnds ==
  <>[][~Disturbance]_allVars =>
    \A m \in Merchants : till[m].phase = "busy" ~> till[m].phase = "result"
=============================================================================
