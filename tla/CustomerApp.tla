---------------------------- MODULE CustomerApp ----------------------------
(***************************************************************************)
(* One customer's phone (CustomerViewModel.kt and its screens) over an     *)
(* unreliable network, composed with the account service.                  *)
(*                                                                         *)
(* The ViewModel holds the set-up and the account screen's state; it is    *)
(* gone when the app is killed.  The credential is in the encrypted store, *)
(* whose changes reach the disk a little later (apply).  A call may be     *)
(* lost, may be given up by the phone and served all the same, or may lose *)
(* its answer; two given-up calls that are alike count as one.  Samples    *)
(* are checked without any state of the server's: see Scan.                *)
(***************************************************************************)
EXTENDS Accounts, FiniteSets

CONSTANTS
  RequiredSamples,
  MaxTaps,       \* bound: presses of "Scan" before the first is answered
  MaxLate,       \* bound: given-up calls that are still under way
  Trouble        \* what may go wrong: a subset of TroubleKinds

\* Calls that fail or come late; the app killed, before a write is flushed too;
\* the account read again while an operation or another reading is under way.
TroubleKinds == {"timeout", "kill", "unflushed", "overtaking"}

VARIABLES
  phone,
  store,         \* the customer whose credential the store holds
  disk,          \* what of it has reached the disk
  wire,          \* calls sent and not yet taken by a worker
  serving,       \* the call each worker answers
  agreed,        \* history: customers enrolled after the box was ticked
  lost           \* history: customers whose enrollment was not answered

phoneVars == <<phone, store, disk, wire, serving, agreed, lost>>
appVars == <<vars, phoneVars>>

(***************************************************************************)
(* outdated is history: since the status on the screen was read, a call    *)
(* the phone had given up was served, or reading it again failed.          *)
(***************************************************************************)
Phone ==
  [screen : {"setup", "account"},
   step : {"CONSENT", "SCAN", "DETAILS", "DONE"},
   consentGiven : BOOLEAN, samples : Nat, capturing : Nat, checking : Nat,
   setupBusy : BOOLEAN,
   shown : Statuses \cup {None}, due : BOOLEAN, loading : BOOLEAN,
   busy : BOOLEAN, outdated : BOOLEAN]

\* live: the phone still waits for the answer; read: the answer of a reading.
Call ==
  [op : {"enroll", "customer", "withdraw", "restore", "card", "erase"},
   customer : Customers \cup {None}, consented : BOOLEAN, samples : Nat,
   read : Statuses \cup {None}, live : BOOLEAN]

ASSUME CustomerAppAssumption ==
  /\ RequiredSamples \in Nat \ {0}
  /\ MaxTaps \in Nat /\ MaxLate \in Nat
  /\ Trouble \subseteq TroubleKinds
  /\ None \notin Call \cup Statuses

\* The app opens on the account if the store holds a credential.
Opened(credentialOf) ==
  [screen |-> IF credentialOf = None THEN "setup" ELSE "account",
   step |-> "CONSENT", consentGiven |-> FALSE, samples |-> 0,
   capturing |-> 0, checking |-> 0, setupBusy |-> FALSE,
   shown |-> None, due |-> credentialOf # None, loading |-> TRUE,
   busy |-> FALSE, outdated |-> FALSE]

AppInit ==
  /\ Init
  /\ phone = Opened(None)
  /\ store = None
  /\ disk = None
  /\ wire = {}
  /\ serving = [w \in Workers |-> None]
  /\ agreed = {}
  /\ lost = {}

UnchangedServer == UNCHANGED <<vars, serving, agreed, lost>>
Local == UnchangedServer /\ UNCHANGED <<store, disk, wire>>

-----------------------------------------------------------------------------
(***************************************************************************)
(* Set-up.                                                                 *)
(***************************************************************************)
SetConsent ==
  /\ phone.screen = "setup" /\ phone.step = "CONSENT"
  /\ phone' = [phone EXCEPT !.consentGiven = ~@]
  /\ Local

AdvanceToScan ==
  /\ phone.screen = "setup" /\ phone.step = "CONSENT"
  /\ phone.consentGiven
  /\ phone' = [phone EXCEPT !.step = "SCAN"]
  /\ Local

\* The camera works while the button is still enabled.
Scan ==
  /\ phone.screen = "setup" /\ phone.step = "SCAN"
  /\ ~phone.setupBusy
  /\ phone.samples < RequiredSamples
  /\ phone.capturing + phone.checking < MaxTaps
  /\ phone' = [phone EXCEPT !.capturing = @ + 1]
  /\ Local

CameraFails ==
  /\ phone.capturing > 0
  /\ phone' = [phone EXCEPT !.capturing = @ - 1]
  /\ Local

SubmitSample ==
  /\ phone.capturing > 0
  /\ phone' = [phone EXCEPT !.capturing = @ - 1, !.checking = @ + 1,
                            !.setupBusy = TRUE]
  /\ Local

\* The answer of capture_check: usable, not usable, or an error.
SampleKept ==
  /\ phone.checking > 0
  /\ phone' = [phone EXCEPT
       !.checking = @ - 1, !.setupBusy = FALSE, !.samples = @ + 1,
       !.step = IF phone.samples + 1 >= RequiredSamples THEN "DETAILS" ELSE @]
  /\ Local

SampleDropped ==
  /\ phone.checking > 0
  /\ phone' = [phone EXCEPT !.checking = @ - 1, !.setupBusy = FALSE]
  /\ Local

ResetSamples ==
  /\ phone.screen = "setup" /\ phone.step = "SCAN"
  /\ ~phone.setupBusy
  /\ phone.samples > 0
  /\ phone' = [phone EXCEPT !.samples = 0]
  /\ Local

Sent(op) ==
  [op |-> op, customer |-> store, consented |-> phone.consentGiven,
   samples |-> phone.samples, read |-> None, live |-> TRUE]

\* A slip: the button can be pressed while an enrollment is under way.
CompleteSetupAgain ==
  /\ phone.screen = "setup" /\ phone.step \in {"DETAILS", "DONE"}
  /\ wire' = wire \cup {Sent("enroll")}
  /\ phone' = [phone EXCEPT !.setupBusy = TRUE]
  /\ UnchangedServer
  /\ UNCHANGED <<store, disk>>

\* DONE shows the details too, empty, but for the customer to fill in.
CompleteSetup ==
  /\ phone.screen = "setup" /\ phone.step \in {"DETAILS", "DONE"}
  /\ ~phone.setupBusy
  /\ wire' = wire \cup {Sent("enroll")}
  /\ phone' = [phone EXCEPT !.setupBusy = TRUE]
  /\ UnchangedServer
  /\ UNCHANGED <<store, disk>>

-----------------------------------------------------------------------------
(***************************************************************************)
(* The account screen reads the account when it is opened and after every  *)
(* operation; its buttons show when it has been read.                      *)
(***************************************************************************)
Reading == \E call \in wire : call.op = "customer" /\ call.live

Reopen ==
  /\ phone.screen = "account"
  /\ ~phone.due
  /\ phone.busy \/ Reading => "overtaking" \in Trouble
  /\ phone' = [phone EXCEPT !.due = TRUE, !.loading = TRUE]
  /\ Local

RefreshAccount ==
  /\ phone.due
  /\ IF store = None
     THEN /\ phone' = [phone EXCEPT !.due = FALSE, !.loading = FALSE,
                                    !.shown = None]
          /\ UNCHANGED wire
     ELSE /\ phone' = [phone EXCEPT !.due = FALSE, !.loading = TRUE]
          /\ wire' = wire \cup {Sent("customer")}
  /\ UnchangedServer
  /\ UNCHANGED <<store, disk>>

\* Pause is offered unless the account is paused, restore if it is.
Offered(op) ==
  CASE op = "withdraw" -> phone.shown # "suspended"
    [] op = "restore" -> phone.shown = "suspended"
    [] OTHER -> TRUE

Press(op) ==
  /\ phone.screen = "account"
  /\ ~phone.loading /\ phone.shown # None
  /\ ~phone.busy
  /\ Offered(op)
  /\ store # None
  /\ wire' = wire \cup {Sent(op)}
  /\ phone' = [phone EXCEPT !.busy = TRUE]
  /\ UnchangedServer
  /\ UNCHANGED <<store, disk>>

-----------------------------------------------------------------------------
(***************************************************************************)
(* What the phone does with an answer, and with none.                      *)
(***************************************************************************)
\* A slip: the form is emptied and the scans stay.
EnrolledKeepingScans(c) ==
  /\ store' = c
  /\ phone' = [phone EXCEPT
       !.step = "DONE", !.consentGiven = FALSE, !.setupBusy = FALSE,
       !.screen = "account", !.due = TRUE]

Enrolled(c) ==
  /\ store' = c
  /\ phone' = [phone EXCEPT
       !.step = "DONE", !.consentGiven = FALSE, !.samples = 0,
       !.setupBusy = FALSE, !.screen = "account", !.due = TRUE]

\* A slip: the account is not read again.
DoneWithoutRefresh ==
  /\ phone' = [phone EXCEPT !.busy = FALSE]
  /\ UNCHANGED store

Done ==
  /\ phone' = [phone EXCEPT !.busy = FALSE, !.due = TRUE, !.loading = TRUE]
  /\ UNCHANGED store

\* Neither does erasing reset the set-up that was made in this process.
ErasedOk ==
  /\ store' = None
  /\ phone' = [phone EXCEPT !.busy = FALSE, !.loading = FALSE,
                            !.shown = None, !.screen = "setup", !.due = FALSE]

Succeeded(call) ==
  CASE call.op = "enroll" -> Enrolled(call.customer)
    [] call.op = "erase" -> ErasedOk
    [] OTHER -> Done

\* A slip: the credential is dropped whether or not the erasure succeeded.
FailedForgetting(call) ==
  /\ store' = IF call.op = "erase" THEN None ELSE store
  /\ phone' =
       CASE call.op = "enroll" -> [phone EXCEPT !.setupBusy = FALSE]
         [] call.op = "customer" ->
              [phone EXCEPT !.loading = FALSE, !.outdated = TRUE]
         [] OTHER -> [phone EXCEPT !.busy = FALSE, !.outdated = TRUE]

\* friendly(failure) is shown; a failed operation may have been done or not.
Failed(call) ==
  /\ UNCHANGED store
  /\ phone' =
       CASE call.op = "enroll" -> [phone EXCEPT !.setupBusy = FALSE]
         [] call.op = "customer" ->
              [phone EXCEPT !.loading = FALSE, !.outdated = TRUE]
         [] OTHER -> [phone EXCEPT !.busy = FALSE, !.outdated = TRUE]

\* Nobody waits: what the call changed is not on the screen.
Unheard ==
  /\ phone' = [phone EXCEPT !.outdated = TRUE]
  /\ UNCHANGED store

Dead(call) == [call EXCEPT !.live = FALSE]
Waited(call) == IF call = None THEN FALSE ELSE call.live

Late == {call \in wire : ~call.live}

GiveUp ==
  /\ "timeout" \in Trouble
  /\ \/ \E call \in wire :
          /\ call.live
          /\ Failed(call)
          /\ Cardinality(Late) < MaxLate
          /\ wire' = (wire \ {call}) \cup {Dead(call)}
          /\ UNCHANGED serving
     \/ \E w \in Workers :
          /\ Waited(serving[w])
          /\ Failed(serving[w])
          /\ serving' = [serving EXCEPT ![w] = Dead(@)]
          /\ UNCHANGED wire
  /\ UNCHANGED <<vars, disk, agreed, lost>>

LoseRequest ==
  /\ \E call \in wire : ~call.live /\ wire' = wire \ {call}
  /\ UNCHANGED <<vars, phone, store, disk, serving, agreed, lost>>

\* apply() returns before the change is on the disk.
Flush ==
  /\ disk # store
  /\ disk' = store
  /\ UNCHANGED <<vars, phone, store, wire, serving, agreed, lost>>

Kill ==
  /\ "kill" \in Trouble
  /\ disk # store => "unflushed" \in Trouble
  /\ phone' = Opened(disk)
  /\ store' = disk
  /\ Cardinality(wire) <= MaxLate
  /\ wire' = {Dead(call) : call \in wire}
  /\ serving' = [w \in Workers |->
                   IF serving[w] = None THEN None ELSE Dead(serving[w])]
  /\ UNCHANGED <<vars, disk, agreed, lost>>

-----------------------------------------------------------------------------
(***************************************************************************)
(* The server: a call is refused, answered at once, or begins a handler of *)
(* Accounts, whose last step answers it.                                   *)
(***************************************************************************)
MayRefuse(call) ==
  \/ call.op = "enroll"
  \/ call.op = "card" /\ profile[call.customer].status # "none"
  \/ call.op # "enroll" /\ ~Authenticated(call.customer)
  \/ call.op \in {"withdraw", "restore"} /\ Erased(call.customer)

Refuse(call) ==
  /\ call.read = None
  /\ MayRefuse(call)
  /\ wire' = wire \ {call}
  /\ IF call.live THEN Failed(call) ELSE UNCHANGED <<phone, store>>
  /\ UNCHANGED <<vars, disk, serving, agreed, lost>>

\* The account is read, and what was read is on its way.
GetCustomer(call) ==
  /\ call.op = "customer" /\ call.read = None
  /\ Authenticated(call.customer)
  /\ wire' = (wire \ {call}) \cup
               {[call EXCEPT !.read = profile[call.customer].status]}
  /\ phone' = [phone EXCEPT !.outdated = @ /\ ~call.live]
  /\ UNCHANGED <<vars, store, disk, serving, agreed, lost>>

ReadingArrives(call) ==
  /\ call.read # None /\ call.live
  /\ wire' = wire \ {call}
  /\ phone' = [phone EXCEPT !.loading = FALSE, !.shown = call.read]
  /\ UNCHANGED <<vars, store, disk, serving, agreed, lost>>

Take(w, call, c) ==
  /\ wire' = wire \ {call}
  /\ serving' = [serving EXCEPT ![w] = [call EXCEPT !.customer = c]]
  /\ UNCHANGED <<phone, store, disk, lost>>

\* enroll is told that consent was given whatever the box says.
ServeEnroll(w, call) ==
  /\ call.op = "enroll"
  /\ call.samples >= RequiredSamples
  /\ \E c \in Customers :
       /\ EnrollBegin(w, c)
       /\ Take(w, call, c)
       /\ agreed' = IF call.consented THEN agreed \cup {c} ELSE agreed

ServeOwn(w, call) ==
  LET c == call.customer IN
  /\ \/ call.op = "withdraw" /\ WithdrawBegin(w, c)
     \/ call.op = "restore" /\ RestoreBegin(w, c)
     \/ call.op = "card" /\ ReplaceBegin(w, c)
     \/ call.op = "erase" /\ EraseBegin(w, c)
  /\ Take(w, call, c)
  /\ UNCHANGED agreed

HandlerStep(w) ==
  \/ CreateProfile(w) \/ AddFirstTemplate(w) \/ RecordConsent(w)
  \/ CreateCredential(w) \/ Suspend(w) \/ Grant(w)
  \/ CryptoShred(w) \/ WithdrawErased(w) \/ RevokeCredentials(w)

HandlerEnds(w) ==
  \/ EnrollAnswer(w) \/ Withdraw(w) \/ Activate(w) \/ UpdatePaymentToken(w)
  \/ AlreadyShredded(w) \/ AuditErasure(w)

Work(w) ==
  /\ HandlerStep(w)
  /\ UNCHANGED phoneVars

HungUp(w) == serving' = [serving EXCEPT ![w] = None]
LostIfEnroll(w) ==
  lost' = IF serving[w].op = "enroll" THEN lost \cup {serving[w].customer}
          ELSE lost

AnswerArrives(w) ==
  /\ HandlerEnds(w)
  /\ serving[w].live
  /\ Succeeded(serving[w])
  /\ HungUp(w)
  /\ UNCHANGED <<disk, wire, agreed, lost>>

ErrorArrives(w) ==
  /\ StorageFault(w)
  /\ serving[w].live
  /\ Failed(serving[w])
  /\ HungUp(w)
  /\ LostIfEnroll(w)
  /\ UNCHANGED <<disk, wire, agreed>>

NobodyWaits(w) ==
  /\ HandlerEnds(w) \/ StorageFault(w)
  /\ ~serving[w].live
  /\ Unheard
  /\ HungUp(w)
  /\ LostIfEnroll(w)
  /\ UNCHANGED <<disk, wire, agreed>>

AppNext ==
  \/ SetConsent \/ AdvanceToScan \/ Scan \/ CameraFails \/ SubmitSample
  \/ SampleKept \/ SampleDropped \/ ResetSamples \/ CompleteSetup
  \/ Reopen \/ RefreshAccount
  \/ \E op \in {"withdraw", "restore", "card", "erase"} : Press(op)
  \/ GiveUp \/ LoseRequest \/ Flush \/ Kill
  \/ \E call \in wire :
       \/ Refuse(call) \/ GetCustomer(call) \/ ReadingArrives(call)
       \/ \E w \in Workers : ServeEnroll(w, call) \/ ServeOwn(w, call)
  \/ \E w \in Workers :
       Work(w) \/ AnswerArrives(w) \/ ErrorArrives(w) \/ NobodyWaits(w)

AppSpec == AppInit /\ [][AppNext]_appVars

-----------------------------------------------------------------------------
AppTypeOK ==
  /\ phone \in Phone
  /\ store \in Customers \cup {None}
  /\ disk \in Customers \cup {None}
  /\ wire \subseteq Call
  /\ serving \in [Workers -> Call \cup {None}]
  /\ agreed \subseteq Customers
  /\ lost \subseteq Customers

(***************************************************************************)
(* "The credential is returned exactly once, and losing it locks this      *)
(* device out of the account" (CustomerViewModel.kt): a phone forgets or   *)
(* overwrites a credential only when its account has been erased, however  *)
(* many calls are lost and however often the app is killed.                *)
(***************************************************************************)
CredentialKept ==
  [][store # None /\ store' # store => Erased(store)]_appVars

(***************************************************************************)
(* One person, one account: every account that is not erased is the one    *)
(* the phone holds, or is being made, or its enrollment failed or lost its *)
(* answer.  (Two accounts with one palm and pay code are ambiguous at      *)
(* every till.)                                                            *)
(***************************************************************************)
InTheMaking(c) ==
  \E w \in Workers :
    serving[w] # None /\ serving[w].op = "enroll" /\ serving[w].customer = c
NoStrayAccounts ==
  \A c \in Customers : Live(c) => store = c \/ c \in lost \/ InTheMaking(c)

(***************************************************************************)
(* "Consent is given before any frame is captured" (SetupScreen.kt): no    *)
(* account exists whose owner has not ticked the box in that very set-up,  *)
(* although the phone always tells the server that consent was granted,    *)
(* and although the screen that follows an erasure does not ask for it.    *)
(***************************************************************************)
ConsentWasGiven ==
  /\ \A c \in Customers : Live(c) => c \in agreed
  /\ phone.capturing + phone.checking + phone.samples > 0 => phone.consentGiven

(***************************************************************************)
(* "Ready to pay" and "Paused" (AccountScreen.kt) are true: when nothing   *)
(* is under way or about to be read, the status on the screen is the       *)
(* account's, unless an operation failed or was served after the phone     *)
(* had given it up, or reading the account failed.                         *)
(***************************************************************************)
StatusIsTrue ==
  /\ wire = {} /\ \A w \in Workers : serving[w] = None
  /\ ~phone.due /\ ~phone.outdated
  /\ phone.screen = "account" /\ store # None /\ phone.shown # None
  => phone.shown = profile[store].status
=============================================================================
