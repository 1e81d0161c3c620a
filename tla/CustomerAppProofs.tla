------------------------- MODULE CustomerAppProofs -------------------------
(***************************************************************************)
(* Theorems about the phone over the unreliable network, for any number of *)
(* customers, workers, samples and late calls.                             *)
(*                                                                         *)
(* Every call the phone waits for has left its mark on the phone: while an *)
(* enrollment is awaited the set-up is busy at its last step and nothing   *)
(* is stored, and while an operation is awaited the account screen is busy *)
(* with the account that is stored.  So there is one call of each kind,    *)
(* and its answer finds the phone as it was when it was sent.              *)
(***************************************************************************)
EXTENDS CustomerApp, AccountsProofs

\* The button is pressed once for each scan.
OneScan == MaxTaps <= 1

\* The app is not killed before apply() has reached the disk.
Flushed == "unflushed" \notin Trouble

\* Nobody reopens the account screen while it is busy.
InOrder == "overtaking" \notin Trouble

Operations == {"withdraw", "restore", "card", "erase"}

-----------------------------------------------------------------------------
(***************************************************************************)
(* A worker does what the call it serves asks for.                         *)
(***************************************************************************)
PcsOf(op) ==
  CASE op = "enroll" -> EnrollPcs
    [] op = "withdraw" -> {"suspend", "withdraw"}
    [] op = "restore" -> {"grant", "activate"}
    [] op = "card" -> {"update_payment_token"}
    [] op = "erase" -> ErasePcs
    [] OTHER -> {}

Serves(w) ==
  /\ serving[w] = None <=> At(w, "idle")
  /\ serving[w] # None => /\ worker[w].pc \in PcsOf(serving[w].op)
                          /\ Of(w) = serving[w].customer

(***************************************************************************)
(* The set-up asks for consent before it scans; the phone holds the        *)
(* credential of an account that was made.                                 *)
(***************************************************************************)
SetupInv ==
  /\ phone.capturing + phone.checking <= 1
  /\ phone.capturing + phone.checking > 0 => phone.step = "SCAN"
  /\ phone.samples > 0 => phone.step \in {"SCAN", "DETAILS"}
  /\ phone.step \in {"SCAN", "DETAILS"} => phone.consentGiven

StoreInv ==
  /\ phone.screen = "account" <=> store # None
  /\ \A c \in Customers : c \in {store, disk} => profile[c].status # "none"

(***************************************************************************)
(* What a call leaves behind on the phone that waits for it.               *)
(***************************************************************************)
Plain(call) ==
  /\ call.op # "customer" => call.read = None
  /\ call.op = "enroll" /\ call.samples > 0 => call.consented

CallOK(call) ==
  /\ Plain(call)
  /\ call.live /\ call.op = "enroll" =>
       /\ store = None
       /\ phone.setupBusy /\ phone.step \in {"DETAILS", "DONE"}
  /\ call.live /\ call.op \in Operations =>
       /\ store = call.customer /\ store # None
       /\ phone.busy

CallInv ==
  /\ \A call \in wire : CallOK(call)
  /\ \A w \in Workers : serving[w] # None => CallOK(serving[w])

\* Two awaited calls of which there is to be only one.
Alike(call, other) ==
  /\ call.live /\ other.live
  /\ \/ call.op = "enroll" /\ other.op = "enroll"
     \/ call.op \in Operations /\ other.op \in Operations

SoleInv ==
  /\ \A call, other \in wire : Alike(call, other) => call = other
  /\ \A call \in wire, w \in Workers :
       serving[w] # None => ~Alike(call, serving[w])
  /\ \A v, w \in Workers :
       serving[v] # None /\ serving[w] # None /\ Alike(serving[v], serving[w])
         => v = w

AgreedInv ==
  /\ \A c \in Customers : Live(c) => c \in agreed
  /\ \A w \in Workers :
       serving[w] # None /\ serving[w].op = "enroll" =>
         serving[w].customer \in agreed

AppInv ==
  /\ Inv /\ AppTypeOK
  /\ \A w \in Workers : Serves(w)
  /\ SetupInv /\ StoreInv /\ CallInv /\ SoleInv /\ AgreedInv

USE CustomerAppAssumption

-----------------------------------------------------------------------------
(***************************************************************************)
(* What a call of a handler does to the profiles.                          *)
(***************************************************************************)
StatusMoves(w) ==
  \A c \in Customers :
    /\ profile'[c].status # profile[c].status => c = Of(w)
    /\ profile[c].status # "none" => profile'[c].status # "none"
    /\ Erased(c) => Erased(c)'
    /\ Live(c)' => Live(c) \/ (At(w, "create_profile") /\ c = Of(w))
    /\ At(w, "create_profile") /\ c = Of(w) => profile[c].status = "none"

LEMMA ProfileKept ==
  ASSUME NEW w \in Workers, profile' = profile,
         ~At(w, "create_profile")
  PROVE  StatusMoves(w)
BY DEF StatusMoves, Live, Erased

LEMMA HandlerMoves ==
  ASSUME Inv, NEW w \in Workers,
         HandlerStep(w) \/ HandlerEnds(w) \/ StorageFault(w)
  PROVE  StatusMoves(w)
<1>1. /\ \A c \in Customers : profile[c] \in Profile
      /\ profile \in [Customers -> Profile]
      /\ JobOK(w)
  BY DEF Inv, TypeOK, JobsOK
<1>2. CASE CreateProfile(w)
  <2>1. At(w, "create_profile") /\ Of(w) \in Customers
    BY <1>1, <1>2 DEF CreateProfile, JobOK, At, CustomerPcs, EnrollPcs
  <2>2. profile[Of(w)].status = "none"
    BY <1>1, <2>1 DEF JobOK, NoProfile
  <2>3. /\ profile'[Of(w)].status = "active"
        /\ \A c \in Customers : c # Of(w) => profile'[c] = profile[c]
    BY <1>1, <1>2, <2>1 DEF CreateProfile
  <2> QED
    BY <2>1, <2>2, <2>3 DEF StatusMoves, Live, Erased
<1>3. CASE Suspend(w) \/ Activate(w)
  <2>1. /\ ~At(w, "create_profile") /\ Of(w) \in Customers
        /\ profile[Of(w)].status # "none"
    BY <1>1, <1>3
       DEF Suspend, Activate, JobOK, At, CustomerPcs, AccountPcs
  <2>2. /\ \A c \in Customers : c # Of(w) => profile'[c] = profile[c]
        /\ Erased(Of(w)) => profile' = profile
        /\ profile'[Of(w)].status \in
             {profile[Of(w)].status, "active", "suspended"}
    <3>1. profile[Of(w)] \in Profile
      BY <1>1, <2>1
    <3>2. PICK status \in {"active", "suspended"} :
            profile' = SetProfileStatus(Of(w), status)
      BY <1>3 DEF Suspend, Activate
    <3>3. CASE Erased(Of(w))
      BY <3>2, <3>3 DEF SetProfileStatus, Erased
    <3>4. CASE ~Erased(Of(w))
      BY <1>1, <2>1, <3>1, <3>2, <3>4 DEF SetProfileStatus, Erased, Profile
    <3> QED
      BY <3>3, <3>4
  <2>3. Live(Of(w)) \/ Erased(Of(w))
    BY <1>1, <2>1 DEF Profile, Statuses, Live, Erased
  <2> QED
    BY <2>1, <2>2, <2>3 DEF StatusMoves, Live, Erased
<1>4. CASE UpdatePaymentToken(w)
  <2>1. ~At(w, "create_profile") /\ Of(w) \in Customers
    BY <1>1, <1>4
       DEF UpdatePaymentToken, JobOK, At, CustomerPcs, AccountPcs
  <2>2. \A c \in Customers : profile'[c].status = profile[c].status
    BY <1>1, <1>4, <2>1 DEF UpdatePaymentToken, Profile
  <2> QED
    BY <2>1, <2>2 DEF StatusMoves, Live, Erased
<1>5. CASE CryptoShred(w)
  <2>1. /\ ~At(w, "create_profile") /\ Of(w) \in Customers
        /\ profile[Of(w)].status # "none"
    BY <1>1, <1>5 DEF CryptoShred, JobOK, At, CustomerPcs, ErasePcs
  <2>2. /\ profile'[Of(w)].status = "shredded"
        /\ \A c \in Customers : c # Of(w) => profile'[c] = profile[c]
    BY <1>1, <1>5, <2>1 DEF CryptoShred, Tombstone
  <2> QED
    BY <2>1, <2>2 DEF StatusMoves, Live, Erased
<1>6. CASE AddFirstTemplate(w) \/ RecordConsent(w) \/ CreateCredential(w)
           \/ Grant(w) \/ WithdrawErased(w) \/ RevokeCredentials(w)
  BY <1>6, ProfileKept
     DEF AddFirstTemplate, RecordConsent, CreateCredential, Grant,
         WithdrawErased, RevokeCredentials, At
<1>7. CASE EnrollAnswer(w) \/ Withdraw(w) \/ AlreadyShredded(w)
           \/ AuditErasure(w)
  BY <1>7, ProfileKept
     DEF EnrollAnswer, Withdraw, AlreadyShredded, AuditErasure, rows, At
<1>8. CASE StorageFault(w)
  <2>1. profile' = profile
    BY <1>8 DEF StorageFault, rows
  <2>2. At(w, "create_profile") /\ Of(w) \in Customers =>
          profile[Of(w)].status = "none"
    BY <1>1 DEF JobOK, NoProfile
  <2> QED
    BY <2>1, <2>2 DEF StatusMoves, Live, Erased
<1> QED
  BY <1>2, <1>3, <1>4, <1>5, <1>6, <1>7, <1>8 DEF HandlerStep, HandlerEnds

(***************************************************************************)
(* The next call of a handler is of the same operation; its last leaves    *)
(* the worker idle.                                                        *)
(***************************************************************************)
LEMMA HandlerGoesOn ==
  ASSUME Inv, NEW w \in Workers, HandlerStep(w), NEW op,
         worker[w].pc \in PcsOf(op)
  PROVE  /\ worker'[w].pc \in PcsOf(op) /\ Of(w)' = Of(w)
         /\ \A v \in Workers : v # w => worker'[v] = worker[v]
         /\ ~At(w, "idle") /\ ~At(w, "idle")'
<1>1. worker \in [Workers -> Job] /\ worker[w] \in Job
  BY DEF Inv, TypeOK
<1> DEFINE Goes(from, to) ==
      At(w, from) /\ worker' = [worker EXCEPT ![w].pc = to]
<1>2. \/ \E p \in {<<"create_profile", "add_template">>,
                   <<"add_template", "record_consent">>,
                   <<"record_consent", "create_credential">>,
                   <<"create_credential", "answer">>,
                   <<"suspend", "withdraw">>, <<"grant", "activate">>,
                   <<"crypto_shred", "withdraw_erased">>,
                   <<"withdraw_erased", "revoke_credentials">>,
                   <<"revoke_credentials", "audit_erasure">>} :
           Goes(p[1], p[2])
  BY DEF HandlerStep, CreateProfile, AddFirstTemplate, RecordConsent,
         CreateCredential, Suspend, Grant, CryptoShred, WithdrawErased,
         RevokeCredentials, Advance
<1>3. PICK from, to : Goes(from, to) /\ <<from, to>> \in
                  {<<"create_profile", "add_template">>,
                   <<"add_template", "record_consent">>,
                   <<"record_consent", "create_credential">>,
                   <<"create_credential", "answer">>,
                   <<"suspend", "withdraw">>, <<"grant", "activate">>,
                   <<"crypto_shred", "withdraw_erased">>,
                   <<"withdraw_erased", "revoke_credentials">>,
                   <<"revoke_credentials", "audit_erasure">>}
  BY <1>2
<1>4. /\ worker[w].pc = from /\ worker'[w].pc = to /\ Of(w)' = Of(w)
      /\ \A v \in Workers : v # w => worker'[v] = worker[v]
  BY <1>1, <1>3 DEF At, Of, Job
<1>5. to \in PcsOf(op)
  BY <1>3, <1>4 DEF PcsOf, EnrollPcs, ErasePcs
<1>6. from # "idle" /\ to # "idle"
  BY <1>3
<1> QED
  BY <1>4, <1>5, <1>6 DEF At

LEMMA HandlerGone ==
  ASSUME Inv, NEW w \in Workers, HandlerEnds(w) \/ StorageFault(w)
  PROVE  /\ worker'[w] = Idle /\ ~At(w, "idle")
         /\ \A v \in Workers : v # w => worker'[v] = worker[v]
<1>1. worker \in [Workers -> Job] /\ Finish(w) /\ ~At(w, "idle")
  BY DEF Inv, TypeOK, HandlerEnds, EnrollAnswer, Withdraw, Activate,
         UpdatePaymentToken, AlreadyShredded, AuditErasure, StorageFault, At
<1> QED
  BY <1>1 DEF Finish

-----------------------------------------------------------------------------
(***************************************************************************)
(* The steps of the set-up until its details are asked for.                *)
(***************************************************************************)
ScanStep ==
  \/ SetConsent \/ AdvanceToScan \/ Scan \/ CameraFails \/ SubmitSample
  \/ SampleKept \/ SampleDropped \/ ResetSamples

SameAccount ==
  /\ phone'.screen = phone.screen /\ phone'.shown = phone.shown
  /\ phone'.due = phone.due /\ phone'.loading = phone.loading
  /\ phone'.busy = phone.busy /\ phone'.outdated = phone.outdated

SameSetup ==
  /\ phone'.step = phone.step /\ phone'.consentGiven = phone.consentGiven
  /\ phone'.samples = phone.samples
  /\ phone'.capturing = phone.capturing /\ phone'.checking = phone.checking

LEMMA PhoneFields ==
  ASSUME phone \in Phone
  PROVE  /\ phone.screen \in {"setup", "account"}
         /\ phone.step \in {"CONSENT", "SCAN", "DETAILS", "DONE"}
         /\ phone.consentGiven \in BOOLEAN /\ phone.samples \in Nat
         /\ phone.capturing \in Nat /\ phone.checking \in Nat
         /\ phone.setupBusy \in BOOLEAN
         /\ phone.shown \in Statuses \cup {None}
         /\ phone.due \in BOOLEAN /\ phone.loading \in BOOLEAN
         /\ phone.busy \in BOOLEAN /\ phone.outdated \in BOOLEAN
BY DEF Phone

LEMMA ScanSteps ==
  ASSUME OneScan, phone \in Phone, SetupInv, ScanStep
  PROVE  /\ phone' \in Phone /\ SetupInv'
         /\ phone.step \in {"CONSENT", "SCAN"}
         /\ SameAccount /\ Local
<1>0. /\ phone.capturing \in Nat /\ phone.checking \in Nat
      /\ phone.samples \in Nat /\ phone.consentGiven \in BOOLEAN
      /\ phone.step \in {"CONSENT", "SCAN", "DETAILS", "DONE"}
  BY PhoneFields
<1>1. ASSUME SetConsent \/ AdvanceToScan \/ ResetSamples
      PROVE  /\ phone' \in Phone /\ SetupInv'
             /\ phone.step \in {"CONSENT", "SCAN"}
             /\ SameAccount /\ Local
  <2>1. CASE SetConsent
    BY <1>0, <2>1 DEF SetConsent, Phone, SetupInv, SameAccount
  <2>2. CASE AdvanceToScan
    BY <1>0, <2>2 DEF AdvanceToScan, Phone, SetupInv, SameAccount
  <2>3. CASE ResetSamples
    BY <1>0, <2>3 DEF ResetSamples, Phone, SetupInv, SameAccount
  <2> QED
    BY <1>1, <2>1, <2>2, <2>3
<1>2. ASSUME NEW capturing \in Nat, NEW checking \in Nat, NEW samples \in Nat,
             NEW busy \in BOOLEAN, NEW step \in {"SCAN", "DETAILS"},
             phone' = [phone EXCEPT !.capturing = capturing,
                         !.checking = checking, !.setupBusy = busy,
                         !.samples = samples, !.step = step],
             phone.step = "SCAN", capturing + checking <= 1,
             capturing + checking = 0 \/ step = "SCAN"
      PROVE  phone' \in Phone /\ SetupInv' /\ SameAccount
  <2>1. phone' \in Phone
    BY <1>2 DEF Phone
  <2>2. /\ phone'.capturing = capturing /\ phone'.checking = checking
        /\ phone'.samples = samples /\ phone'.step = step
        /\ phone'.consentGiven = phone.consentGiven
        /\ SameAccount
    BY <1>2 DEF Phone, SameAccount
  <2> QED
    BY <1>2, <2>1, <2>2 DEF SetupInv
<1>3. CASE Scan
  <2>1. /\ phone.step = "SCAN" /\ Local
        /\ phone.capturing + phone.checking < MaxTaps
        /\ phone' = [phone EXCEPT
             !.capturing = phone.capturing + 1, !.checking = phone.checking,
             !.setupBusy = phone.setupBusy, !.samples = phone.samples,
             !.step = phone.step]
    BY <1>3 DEF Scan, Phone
  <2>2. /\ phone.capturing + 1 \in Nat
        /\ phone.capturing + 1 + phone.checking <= 1
    BY <1>0, <2>1 DEF OneScan
  <2> QED
    BY <1>0, <1>2, <2>1, <2>2, PhoneFields
<1>4. CASE CameraFails
  <2>1. /\ phone.capturing > 0 /\ Local
        /\ phone' = [phone EXCEPT
             !.capturing = phone.capturing - 1, !.checking = phone.checking,
             !.setupBusy = phone.setupBusy, !.samples = phone.samples,
             !.step = phone.step]
    BY <1>4 DEF CameraFails, Phone
  <2>2. /\ phone.step = "SCAN" /\ phone.capturing - 1 \in Nat
        /\ phone.capturing - 1 + phone.checking <= 1
    BY <1>0, <2>1 DEF SetupInv
  <2> QED
    BY <1>0, <1>2, <2>1, <2>2, PhoneFields
<1>5. CASE SubmitSample
  <2>1. /\ phone.capturing > 0 /\ Local
        /\ phone' = [phone EXCEPT
             !.capturing = phone.capturing - 1,
             !.checking = phone.checking + 1,
             !.setupBusy = TRUE, !.samples = phone.samples,
             !.step = phone.step]
    BY <1>5 DEF SubmitSample, Phone
  <2>2. /\ phone.step = "SCAN" /\ phone.capturing - 1 \in Nat
        /\ phone.checking + 1 \in Nat /\ TRUE \in BOOLEAN
        /\ phone.capturing - 1 + (phone.checking + 1) <= 1
    BY <1>0, <2>1 DEF SetupInv
  <2> QED
    BY <1>0, <1>2, <2>1, <2>2
<1>6. CASE SampleKept
  <2>1. PICK step \in {"DETAILS", phone.step} :
          /\ phone.checking > 0 /\ Local
          /\ phone' = [phone EXCEPT
               !.capturing = phone.capturing,
               !.checking = phone.checking - 1,
               !.setupBusy = FALSE, !.samples = phone.samples + 1,
               !.step = step]
    BY <1>6 DEF SampleKept, Phone
  <2>2. /\ phone.step = "SCAN" /\ phone.checking - 1 \in Nat
        /\ phone.samples + 1 \in Nat /\ FALSE \in BOOLEAN
        /\ phone.capturing + (phone.checking - 1) <= 1
        /\ phone.capturing + (phone.checking - 1) = 0
    BY <1>0, <2>1 DEF SetupInv
  <2> QED
    BY <1>0, <1>2, <2>1, <2>2
<1>7. CASE SampleDropped
  <2>1. /\ phone.checking > 0 /\ Local
        /\ phone' = [phone EXCEPT
             !.capturing = phone.capturing,
             !.checking = phone.checking - 1,
             !.setupBusy = FALSE, !.samples = phone.samples,
             !.step = phone.step]
    BY <1>7 DEF SampleDropped, Phone
  <2>2. /\ phone.step = "SCAN" /\ phone.checking - 1 \in Nat
        /\ FALSE \in BOOLEAN
        /\ phone.capturing + (phone.checking - 1) <= 1
        /\ phone.capturing + (phone.checking - 1) = 0
    BY <1>0, <2>1 DEF SetupInv
  <2> QED
    BY <1>0, <1>2, <2>1, <2>2
<1> QED
  BY <1>1, <1>3, <1>4, <1>5, <1>6, <1>7 DEF ScanStep

(***************************************************************************)
(* The other changes of the phone alone.                                   *)
(***************************************************************************)
LEMMA SetupKept ==
  ASSUME SetupInv, SameSetup
  PROVE  SetupInv'
BY DEF SetupInv, SameSetup

LEMMA FailedFields ==
  ASSUME phone \in Phone, NEW call \in Call, Failed(call)
  PROVE  /\ phone' \in Phone /\ SameSetup /\ store' = store
         /\ phone'.screen = phone.screen /\ phone'.shown = phone.shown
         /\ phone'.due = phone.due
         /\ phone'.loading = (phone.loading /\ call.op # "customer")
         /\ call.op # "enroll" => phone'.setupBusy = phone.setupBusy
         /\ call.op \notin Operations => phone'.busy = phone.busy
         /\ phone'.outdated = (phone.outdated \/ call.op # "enroll")
         /\ call.op \in Operations => phone'.busy = FALSE
<1> USE PhoneFields DEF SameSetup, Operations
<1>1. CASE call.op = "enroll"
  BY <1>1 DEF Failed, Phone
<1>2. CASE call.op = "customer"
  BY <1>2 DEF Failed, Phone
<1>3. CASE call.op \in Operations
  BY <1>3 DEF Failed, Phone
<1> QED
  BY <1>1, <1>2, <1>3 DEF Call

LEMMA UnheardFields ==
  ASSUME phone \in Phone, Unheard
  PROVE  /\ phone' \in Phone /\ SameSetup /\ store' = store
         /\ phone'.screen = phone.screen /\ phone'.shown = phone.shown
         /\ phone'.due = phone.due /\ phone'.loading = phone.loading
         /\ phone'.setupBusy = phone.setupBusy /\ phone'.busy = phone.busy
         /\ phone'.outdated
BY DEF Unheard, Phone, SameSetup

LEMMA EnrolledFields ==
  ASSUME phone \in Phone, SetupInv, phone.step \in {"DETAILS", "DONE"},
         NEW c \in Customers, Enrolled(c)
  PROVE  /\ phone' \in Phone /\ SetupInv' /\ store' = c
         /\ phone'.screen = "account" /\ phone'.shown = phone.shown
         /\ phone'.due /\ phone'.loading = phone.loading
         /\ phone'.busy = phone.busy /\ phone'.outdated = phone.outdated
<1>1. /\ phone' \in Phone /\ store' = c
      /\ phone'.screen = "account" /\ phone'.shown = phone.shown
      /\ phone'.due /\ phone'.loading = phone.loading
      /\ phone'.busy = phone.busy /\ phone'.outdated = phone.outdated
      /\ phone'.step = "DONE" /\ phone'.samples = 0
      /\ phone'.capturing = phone.capturing
      /\ phone'.checking = phone.checking
  BY DEF Enrolled, Phone
<1> QED
  BY <1>1, PhoneFields DEF SetupInv

LEMMA DoneFields ==
  ASSUME phone \in Phone, Done
  PROVE  /\ phone' \in Phone /\ SameSetup /\ store' = store
         /\ phone'.screen = phone.screen /\ phone'.shown = phone.shown
         /\ phone'.due /\ phone'.loading
         /\ phone'.setupBusy = phone.setupBusy /\ ~phone'.busy
         /\ phone'.outdated = phone.outdated
BY DEF Done, Phone, SameSetup

LEMMA ErasedFields ==
  ASSUME phone \in Phone, ErasedOk
  PROVE  /\ phone' \in Phone /\ SameSetup /\ store' = None
         /\ phone'.screen = "setup" /\ phone'.shown = None
         /\ ~phone'.due /\ ~phone'.loading
         /\ phone'.setupBusy = phone.setupBusy /\ ~phone'.busy
         /\ phone'.outdated = phone.outdated
BY DEF ErasedOk, Phone, SameSetup

LEMMA OpenedFields ==
  ASSUME phone' = Opened(disk)
  PROVE  /\ phone' \in Phone /\ SetupInv'
         /\ phone'.screen = "account" <=> disk # None
         /\ phone'.shown = None /\ phone'.loading
         /\ ~phone'.busy /\ ~phone'.outdated
         /\ phone'.due = (disk # None)
BY DEF Opened, Phone, SetupInv

-----------------------------------------------------------------------------
(***************************************************************************)
(* Calls that are answered, given up or lost.                              *)
(***************************************************************************)
Awaits(ops) ==
  \/ \E call \in wire : call.live /\ call.op \in ops
  \/ \E w \in Workers :
       serving[w] # None /\ serving[w].live /\ serving[w].op \in ops

LEMMA AwaitedEnrollment ==
  ASSUME CallInv, Awaits({"enroll"})
  PROVE  /\ store = None
         /\ phone.setupBusy /\ phone.step \in {"DETAILS", "DONE"}
BY DEF CallInv, CallOK, Awaits

LEMMA AwaitedOperation ==
  ASSUME CallInv, Awaits(Operations)
  PROVE  store # None /\ phone.busy
BY DEF CallInv, CallOK, Awaits

LEMMA SoleShrinks ==
  ASSUME SoleInv,
         \A call \in wire' :
           call.live /\ call.op # "customer" => call \in wire,
         \A w \in Workers : serving'[w] # None /\ serving'[w].live =>
           serving'[w] = serving[w]
  PROVE  SoleInv'
<1>1. \A call, other : Alike(call, other) =>
        /\ call.live /\ other.live
        /\ call.op # "customer" /\ other.op # "customer"
  BY DEF Alike, Operations
<1>2. \A call, other : Alike(call, other)' = Alike(call, other)
  BY DEF Alike
<1> QED
  BY <1>1, <1>2 DEF SoleInv

LEMMA CallsShrink ==
  ASSUME CallInv,
         \A call \in wire' : Plain(call),
         \A call \in wire' :
           call.live /\ call.op # "customer" => call \in wire,
         \A w \in Workers : serving'[w] # None => Plain(serving'[w]),
         \A w \in Workers : serving'[w] # None /\ serving'[w].live =>
           serving'[w] = serving[w],
         Awaits({"enroll"})' =>
           /\ store' = store /\ phone'.step = phone.step
           /\ phone'.setupBusy = phone.setupBusy,
         Awaits(Operations)' => store' = store /\ phone'.busy = phone.busy
  PROVE  CallInv'
<1>1. ASSUME NEW call, Plain(call),
             call.live /\ call.op # "customer" => CallOK(call),
             call.live /\ call.op = "enroll" => Awaits({"enroll"})',
             call.live /\ call.op \in Operations => Awaits(Operations)'
      PROVE  CallOK(call)'
  BY <1>1 DEF CallOK, Plain, Operations
<1>2. \A call \in wire' : CallOK(call)'
  <2> TAKE call \in wire'
  <2>1. call.live /\ call.op # "customer" => CallOK(call)
    BY DEF CallInv
  <2>2. \A ops : call.live /\ call.op \in ops => Awaits(ops)'
    BY DEF Awaits
  <2> QED
    BY <1>1, <2>1, <2>2
<1>3. ASSUME NEW w \in Workers, serving'[w] # None PROVE CallOK(serving[w])'
  <2>1. PICK call : call = serving'[w]
    OBVIOUS
  <2>2. call.live => CallOK(call)
    BY <1>3, <2>1 DEF CallInv
  <2>3. \A ops : call.live /\ call.op \in ops => Awaits(ops)'
    BY <1>3, <2>1 DEF Awaits
  <2>4. CallOK(call)'
    BY <1>1, <1>3, <2>1, <2>2, <2>3
  <2> QED
    BY <2>1, <2>4 DEF CallOK, Plain
<1> QED
  BY <1>2, <1>3 DEF CallInv

\* An awaited enrollment or operation is the only one of its kind.
LEMMA NoneLeftOnWire ==
  ASSUME SoleInv, NEW ops \in {{"enroll"}, Operations},
         NEW call \in wire, call.live, call.op \in ops,
         \A other \in wire' : other.live /\ other.op # "customer" =>
           other \in wire \ {call},
         \A w \in Workers : serving'[w] # None /\ serving'[w].live =>
           serving'[w] = serving[w]
  PROVE  ~Awaits(ops)'
<1>1. \A other : other.live /\ other.op \in ops =>
        Alike(call, other) /\ other.op # "customer"
  BY DEF Alike, Operations
<1>2. \A other \in wire' : ~(other.live /\ other.op \in ops)
  BY <1>1 DEF SoleInv
<1>3. \A w \in Workers :
        ~(serving'[w] # None /\ serving'[w].live /\ serving'[w].op \in ops)
  BY <1>1 DEF SoleInv
<1> QED
  BY <1>2, <1>3 DEF Awaits

LEMMA NoneLeftServed ==
  ASSUME SoleInv, NEW ops \in {{"enroll"}, Operations},
         NEW v \in Workers, serving[v] # None, serving[v].live,
         serving[v].op \in ops,
         \A call \in wire' : call.live /\ call.op # "customer" => call \in wire,
         serving'[v] # None => ~serving'[v].live,
         \A w \in Workers : serving'[w] # None /\ serving'[w].live =>
           serving'[w] = serving[w]
  PROVE  ~Awaits(ops)'
<1>1. \A other : other.live /\ other.op \in ops =>
        /\ Alike(other, serving[v]) /\ Alike(serving[v], other)
        /\ other.op # "customer"
  BY DEF Alike, Operations
<1>2. \A other \in wire' : ~(other.live /\ other.op \in ops)
  BY <1>1 DEF SoleInv
<1>3. \A w \in Workers :
        ~(serving'[w] # None /\ serving'[w].live /\ serving'[w].op \in ops)
  BY <1>1 DEF SoleInv
<1> QED
  BY <1>2, <1>3 DEF Awaits

(***************************************************************************)
(* No server is involved, and nothing new is asked of one but a reading.   *)
(***************************************************************************)
LEMMA QuietStep ==
  ASSUME AppInv, Inv', UNCHANGED <<vars, agreed, lost>>,
         phone' \in Phone, SetupInv',
         (phone'.screen = "account") <=> (store' # None),
         {store', disk'} \subseteq {store, disk},
         wire' \subseteq Call, \A call \in wire' : Plain(call),
         \A call \in wire' :
           call.live /\ call.op # "customer" => call \in wire,
         serving' \in [Workers -> Call \cup {None}],
         \A w \in Workers :
           \/ serving'[w] = serving[w]
           \/ serving[w] # None /\ serving'[w] = Dead(serving[w]),
         Awaits({"enroll"})' =>
           /\ store' = store /\ phone'.step = phone.step
           /\ phone'.setupBusy = phone.setupBusy,
         Awaits(Operations)' => store' = store /\ phone'.busy = phone.busy
  PROVE  AppInv'
<1> USE DEF AppInv
<1>1. AppTypeOK'
  BY DEF AppTypeOK
<1>2. \A call \in Call :
        /\ Dead(call) \in Call /\ ~Dead(call).live
        /\ Dead(call).op = call.op /\ Dead(call).customer = call.customer
        /\ Dead(call).read = call.read
        /\ Dead(call).samples = call.samples
        /\ Dead(call).consented = call.consented
  BY DEF Dead, Call
<1>3. \A w \in Workers : serving[w] \in Call \cup {None}
  BY DEF AppTypeOK
<1>4. ASSUME NEW w \in Workers
      PROVE  /\ serving'[w] = None <=> serving[w] = None
             /\ serving'[w] # None =>
                  /\ serving'[w].op = serving[w].op
                  /\ serving'[w].customer = serving[w].customer
                  /\ Plain(serving'[w])
             /\ serving'[w] # None /\ serving'[w].live =>
                  serving'[w] = serving[w]
  <2>1. CASE serving'[w] = serving[w]
    BY <2>1 DEF CallInv, CallOK
  <2>2. CASE serving[w] # None /\ serving'[w] = Dead(serving[w])
    <3>1. serving[w] \in Call /\ Plain(serving[w])
      BY <1>3, <2>2 DEF CallInv, CallOK
    <3>2. serving'[w] # None
      BY <1>2, <2>2, <3>1
    <3> QED
      BY <1>2, <2>2, <3>1, <3>2 DEF Plain
  <2> QED
    BY <2>1, <2>2
<1>5. \A w \in Workers : Serves(w)'
  BY <1>4 DEF Serves, At, Of, vars
<1>6. StoreInv'
  BY DEF StoreInv, vars, rows
<1>7. CallInv' /\ SoleInv'
  BY <1>4, CallsShrink, SoleShrinks
<1>8. AgreedInv'
  BY <1>4 DEF AgreedInv, Live, vars, rows
<1> QED
  BY <1>1, <1>5, <1>6, <1>7, <1>8

LEMMA UnderWayTypes ==
  ASSUME AppInv
  PROVE  /\ phone \in Phone /\ SetupInv /\ CallInv /\ SoleInv
         /\ (phone.screen = "account") <=> (store # None)
         /\ wire \subseteq Call /\ \A call \in wire : Plain(call)
         /\ serving \in [Workers -> Call \cup {None}]
         /\ \A w \in Workers : serving[w] # None =>
              /\ serving[w] \in Call /\ Plain(serving[w])
              /\ serving[w].op # "customer"
         /\ \A call \in Call :
              /\ Dead(call) \in Call /\ ~Dead(call).live
              /\ Plain(call) => Plain(Dead(call))
<1>1. \A call \in Call : Dead(call) \in Call /\ ~Dead(call).live
  BY DEF Dead, Call
<1>2. \A call \in Call : Plain(call) => Plain(Dead(call))
  BY DEF Dead, Call, Plain
<1> QED
  BY <1>1, <1>2
     DEF AppInv, AppTypeOK, StoreInv, CallInv, CallOK, Serves, PcsOf

LEMMA NothingMoves ==
  ASSUME UNCHANGED <<wire, serving>>, NEW ops
  PROVE  Awaits(ops)' => Awaits(ops)
BY DEF Awaits

LEMMA ScanInv ==
  ASSUME OneScan, AppInv, Inv', ScanStep
  PROVE  AppInv'
<1>1. /\ phone' \in Phone /\ SetupInv' /\ phone.step \in {"CONSENT", "SCAN"}
      /\ SameAccount /\ Local
  BY ScanSteps, UnderWayTypes
<1>2. ~Awaits({"enroll"})'
  BY <1>1, NothingMoves, AwaitedEnrollment, UnderWayTypes
     DEF Local, UnchangedServer
<1> QED
  BY <1>1, <1>2, QuietStep, UnderWayTypes
     DEF Local, UnchangedServer, SameAccount

LEMMA ReadAgainInv ==
  ASSUME AppInv, Inv', Reopen \/ RefreshAccount
  PROVE  AppInv'
<1>1. /\ phone' \in Phone /\ SameSetup
      /\ phone'.screen = phone.screen /\ phone'.setupBusy = phone.setupBusy
      /\ phone'.busy = phone.busy
  <2>1. CASE Reopen
    BY <2>1, UnderWayTypes DEF Reopen, Phone, SameSetup
  <2>2. CASE RefreshAccount /\ store = None
    <3>1. phone' = [phone EXCEPT !.due = FALSE, !.loading = FALSE,
                                 !.shown = None]
      BY <2>2 DEF RefreshAccount
    <3>2. phone \in Phone
      BY UnderWayTypes
    <3>3. phone' \in Phone
      BY <3>1, <3>2 DEF Phone
    <3> QED
      BY <3>1, <3>2, <3>3 DEF Phone, SameSetup
  <2>3. CASE RefreshAccount /\ store # None
    BY <2>3, UnderWayTypes DEF RefreshAccount, Phone, SameSetup
  <2> QED
    BY <2>1, <2>2, <2>3
<1>2. /\ UNCHANGED <<vars, agreed, lost, serving, store, disk>>
      /\ wire' \in {wire, wire \cup {Sent("customer")}}
  BY DEF Reopen, RefreshAccount, Local, UnchangedServer
<1>3. /\ Sent("customer") \in Call /\ Plain(Sent("customer"))
      /\ Sent("customer").op = "customer"
  BY PhoneFields, UnderWayTypes DEF AppInv, AppTypeOK, Sent, Call, Plain
<1>4. /\ wire' \subseteq Call /\ \A call \in wire' : Plain(call)
      /\ \A call \in wire' :
           call.live /\ call.op # "customer" => call \in wire
  BY <1>2, <1>3, UnderWayTypes
<1>5. SetupInv'
  BY <1>1, SetupKept, UnderWayTypes
<1> QED
  BY <1>1, <1>2, <1>4, <1>5, QuietStep, UnderWayTypes DEF SameSetup

\* Somebody stops waiting: an operation, a reading, or an enrollment.
LEMMA FailureInv ==
  ASSUME AppInv, Inv', UNCHANGED <<vars, agreed, lost, disk>>,
         NEW call \in Call, Failed(call),
         wire' \subseteq Call, \A other \in wire' : Plain(other),
         \A other \in wire' :
           other.live /\ other.op # "customer" => other \in wire,
         serving' \in [Workers -> Call \cup {None}],
         \A w \in Workers :
           \/ serving'[w] = serving[w]
           \/ serving[w] # None /\ serving'[w] = Dead(serving[w]),
         \A ops \in {{"enroll"}, Operations} :
           call.op \in ops => ~Awaits(ops)'
  PROVE  AppInv'
<1>1. SetupInv' /\ phone' \in Phone
  BY FailedFields, SetupKept, UnderWayTypes
<1> QED
  BY <1>1, FailedFields, QuietStep, UnderWayTypes DEF SameSetup

LEMMA GiveUpInv ==
  ASSUME AppInv, Inv', GiveUp
  PROVE  AppInv'
<1>1. UNCHANGED <<vars, agreed, lost, disk>>
  BY DEF GiveUp
<1>2. ASSUME NEW call \in wire, call.live, Failed(call),
             wire' = (wire \ {call}) \cup {Dead(call)}, serving' = serving
      PROVE  AppInv'
  <2>1. call \in Call /\ Plain(call)
    BY UnderWayTypes
  <2>2. /\ wire' \subseteq Call /\ \A other \in wire' : Plain(other)
        /\ \A other \in wire' : other.live /\ other.op # "customer" =>
             other \in wire \ {call}
    BY <1>2, <2>1, UnderWayTypes
  <2>3. \A ops \in {{"enroll"}, Operations} :
          call.op \in ops => ~Awaits(ops)'
    BY <1>2, <2>2, NoneLeftOnWire, UnderWayTypes
  <2> QED
    BY <1>1, <1>2, <2>1, <2>2, <2>3, FailureInv, UnderWayTypes
<1>3. ASSUME NEW w \in Workers, Waited(serving[w]), Failed(serving[w]),
             serving' = [serving EXCEPT ![w] = Dead(@)], wire' = wire
      PROVE  AppInv'
  <2>1. serving[w] # None /\ serving[w].live /\ serving[w] \in Call
    BY <1>3, UnderWayTypes DEF Waited
  <2>2. /\ serving'[w] = Dead(serving[w])
        /\ \A v \in Workers : v # w => serving'[v] = serving[v]
        /\ serving' \in [Workers -> Call \cup {None}]
    BY <1>3, <2>1, UnderWayTypes
  <2>3. \A ops \in {{"enroll"}, Operations} :
          serving[w].op \in ops => ~Awaits(ops)'
    BY <1>3, <2>1, <2>2, NoneLeftServed, UnderWayTypes
  <2> QED
    BY <1>1, <1>3, <2>1, <2>2, <2>3, FailureInv, UnderWayTypes
<1> QED
  BY <1>2, <1>3 DEF GiveUp

LEMMA LoseRequestInv ==
  ASSUME AppInv, Inv', LoseRequest
  PROVE  AppInv'
<1>1. /\ wire' \subseteq wire
      /\ UNCHANGED <<vars, phone, store, disk, serving, agreed, lost>>
  BY DEF LoseRequest
<1>2. \A ops : Awaits(ops)' => Awaits(ops)
  BY <1>1 DEF Awaits
<1>3. SetupInv'
  BY <1>1, UnderWayTypes DEF SetupInv
<1> QED
  BY <1>1, <1>2, <1>3, QuietStep, UnderWayTypes

LEMMA FlushInv ==
  ASSUME AppInv, Inv', Flush
  PROVE  AppInv'
<1>1. /\ disk' = store
      /\ UNCHANGED <<vars, phone, store, wire, serving, agreed, lost>>
  BY DEF Flush
<1>2. SetupInv'
  BY <1>1, UnderWayTypes DEF SetupInv
<1> QED
  BY <1>1, <1>2, QuietStep, UnderWayTypes

LEMMA KillInv ==
  ASSUME AppInv, Inv', Kill
  PROVE  AppInv'
<1>1. /\ phone' = Opened(disk) /\ store' = disk /\ disk' = disk
      /\ wire' = {Dead(call) : call \in wire}
      /\ serving' = [w \in Workers |->
                       IF serving[w] = None THEN None ELSE Dead(serving[w])]
      /\ UNCHANGED <<vars, agreed, lost>>
  BY DEF Kill
<1>2. /\ wire' \subseteq Call /\ \A call \in wire' : Plain(call) /\ ~call.live
      /\ serving' \in [Workers -> Call \cup {None}]
      /\ \A w \in Workers :
           \/ serving'[w] = serving[w] /\ serving[w] = None
           \/ serving[w] # None /\ serving'[w] = Dead(serving[w])
      /\ \A w \in Workers : serving'[w] # None => ~serving'[w].live
  BY <1>1, UnderWayTypes
<1>3. ~Awaits({"enroll"})' /\ ~Awaits(Operations)'
  BY <1>2 DEF Awaits
<1>4. /\ phone' \in Phone /\ SetupInv'
      /\ phone'.screen = "account" <=> disk # None
  BY <1>1, OpenedFields DEF AppInv, AppTypeOK
<1> QED
  BY <1>1, <1>2, <1>3, <1>4, QuietStep

LEMMA RefuseInv ==
  ASSUME AppInv, Inv', NEW call \in wire, Refuse(call)
  PROVE  AppInv'
<1>1. /\ wire' = wire \ {call}
      /\ UNCHANGED <<vars, disk, serving, agreed, lost>>
  BY DEF Refuse
<1>2. CASE call.live
  <2>1. Failed(call)
    BY <1>2 DEF Refuse
  <2>2. \A ops \in {{"enroll"}, Operations} :
          call.op \in ops => ~Awaits(ops)'
    BY <1>1, <1>2, NoneLeftOnWire, UnderWayTypes
  <2> QED
    BY <1>1, <2>1, <2>2, FailureInv, UnderWayTypes
<1>3. CASE ~call.live
  <2>1. UNCHANGED <<phone, store>>
    BY <1>3 DEF Refuse
  <2>2. \A ops : Awaits(ops)' => Awaits(ops)
    BY <1>1 DEF Awaits
  <2>3. SetupInv'
    BY <2>1, UnderWayTypes DEF SetupInv
  <2> QED
    BY <1>1, <2>1, <2>2, <2>3, QuietStep, UnderWayTypes
<1> QED
  BY <1>2, <1>3

LEMMA GetCustomerInv ==
  ASSUME AppInv, Inv', NEW call \in wire, GetCustomer(call)
  PROVE  AppInv'
<1>1. PICK read : /\ read = [call EXCEPT !.read = profile[call.customer].status]
                  /\ wire' = (wire \ {call}) \cup {read}
  BY DEF GetCustomer
<1>2. /\ call \in Call /\ call.op = "customer"
      /\ phone' = [phone EXCEPT !.outdated = @ /\ ~call.live]
      /\ UNCHANGED <<vars, store, disk, serving, agreed, lost>>
  BY UnderWayTypes DEF GetCustomer
<1>3. profile[call.customer].status \in Statuses
  BY DEF GetCustomer, Authenticated, AppInv, Inv, TypeOK, CredentialsOK, Profile
<1>4. read \in Call /\ read.op = "customer" /\ Plain(read)
  BY <1>1, <1>2, <1>3 DEF Call, Plain
<1>5. /\ phone' \in Phone /\ SameSetup /\ phone'.screen = phone.screen
      /\ phone'.setupBusy = phone.setupBusy /\ phone'.busy = phone.busy
  BY <1>2, UnderWayTypes DEF Phone, Call, SameSetup
<1>6. SetupInv'
  BY <1>5, SetupKept, UnderWayTypes
<1> QED
  BY <1>1, <1>2, <1>4, <1>5, <1>6, QuietStep, UnderWayTypes DEF SameSetup

LEMMA ReadingArrivesInv ==
  ASSUME AppInv, Inv', NEW call \in wire, ReadingArrives(call)
  PROVE  AppInv'
<1>1. /\ wire' = wire \ {call} /\ call \in Call
      /\ phone' = [phone EXCEPT !.loading = FALSE, !.shown = call.read]
      /\ UNCHANGED <<vars, store, disk, serving, agreed, lost>>
  BY UnderWayTypes DEF ReadingArrives
<1>2. /\ phone' \in Phone /\ SameSetup /\ phone'.screen = phone.screen
      /\ phone'.setupBusy = phone.setupBusy /\ phone'.busy = phone.busy
  BY <1>1, UnderWayTypes DEF Phone, Call, SameSetup
<1>3. SetupInv'
  BY <1>2, SetupKept, UnderWayTypes
<1> QED
  BY <1>1, <1>2, <1>3, QuietStep, UnderWayTypes DEF SameSetup

-----------------------------------------------------------------------------
(***************************************************************************)
(* A call is sent.                                                         *)
(***************************************************************************)
LEMMA SentCall ==
  ASSUME AppInv, NEW op \in {"enroll"} \cup Operations
  PROVE  /\ Sent(op) \in Call /\ Plain(Sent(op))
         /\ Sent(op).op = op /\ Sent(op).live /\ Sent(op).customer = store
<1>1. /\ store \in Customers \cup {None} /\ phone.consentGiven \in BOOLEAN
      /\ phone.samples \in Nat
  BY PhoneFields, UnderWayTypes DEF AppInv, AppTypeOK
<1>2. phone.samples > 0 => phone.consentGiven
  BY UnderWayTypes DEF SetupInv
<1> QED
  BY <1>1, <1>2 DEF Sent, Call, Plain, Operations

LEMMA OneMoreCall ==
  ASSUME AppInv, Inv', UNCHANGED <<vars, serving, agreed, lost, store, disk>>,
         NEW call \in Call, Plain(call), call.live, wire' = wire \cup {call},
         NEW ops \in {{"enroll"}, Operations}, call.op \in ops,
         ~Awaits(ops), CallOK(call)',
         phone' \in Phone, SameSetup, phone'.screen = phone.screen,
         call.op # "enroll" => phone'.setupBusy = phone.setupBusy,
         call.op = "enroll" => phone'.busy = phone.busy
  PROVE  AppInv'
<1> USE DEF AppInv
<1>1. AppTypeOK'
  BY DEF AppTypeOK
<1>2. SetupInv' /\ StoreInv'
  BY SetupKept DEF StoreInv, vars, rows
<1>3. /\ \A w \in Workers : Serves(w)'
      /\ AgreedInv'
  BY DEF Serves, At, Of, AgreedInv, Live, vars, rows
<1>4. SoleInv'
  <2>1. /\ \A other \in wire : ~(Alike(call, other) \/ Alike(other, call))
        /\ \A w \in Workers : serving[w] # None => ~Alike(call, serving[w])
    BY DEF Awaits, Alike, Operations
  <2> QED
    BY <2>1 DEF SoleInv, Alike
<1>5. ASSUME NEW other, CallOK(other),
             ~(other.live /\ other.op \in ops)
      PROVE  CallOK(other)'
  <2>1. CASE call.op = "enroll"
    BY <1>5, <2>1 DEF CallOK, Plain, SameSetup, Operations
  <2>2. CASE call.op \in Operations
    BY <1>5, <2>2 DEF CallOK, Plain, SameSetup, Operations
  <2> QED
    BY <2>1, <2>2
<1>6. CallInv'
  <2>1. \A other \in wire : CallOK(other)'
    BY <1>5 DEF CallInv, Awaits
  <2>2. ASSUME NEW w \in Workers, serving[w] # None PROVE CallOK(serving[w])'
    <3>1. PICK other : other = serving[w]
      OBVIOUS
    <3>2. CallOK(other)'
      BY <1>5, <2>2, <3>1 DEF CallInv, Awaits
    <3>3. serving'[w] = other
      BY <3>1
    <3> QED
      BY <3>1, <3>2, <3>3 DEF CallOK, Plain
  <2> QED
    BY <2>1, <2>2 DEF CallInv
<1> QED
  BY <1>1, <1>2, <1>3, <1>4, <1>6

LEMMA CompleteSetupInv ==
  ASSUME AppInv, Inv', CompleteSetup
  PROVE  AppInv'
<1>1. PICK call : call = Sent("enroll")
  OBVIOUS
<1>2. /\ phone.screen = "setup" /\ phone.step \in {"DETAILS", "DONE"}
      /\ ~phone.setupBusy
      /\ wire' = wire \cup {call}
      /\ phone' = [phone EXCEPT !.setupBusy = TRUE]
      /\ UNCHANGED <<vars, serving, agreed, lost, store, disk>>
  BY <1>1 DEF CompleteSetup, UnchangedServer
<1>3. /\ phone' \in Phone /\ SameSetup /\ phone'.screen = phone.screen
      /\ phone'.setupBusy /\ phone'.busy = phone.busy
  BY <1>2, UnderWayTypes DEF Phone, SameSetup
<1>4. call \in Call /\ Plain(call) /\ call.op = "enroll" /\ call.live
  BY <1>1, SentCall
<1>5. ~Awaits({"enroll"})
  BY <1>2, AwaitedEnrollment, UnderWayTypes
<1>6. store = None
  BY <1>2, UnderWayTypes
<1>7. CallOK(call)'
  BY <1>2, <1>3, <1>4, <1>6 DEF CallOK, Plain, SameSetup, Operations
<1> QED
  BY <1>2, <1>3, <1>4, <1>5, <1>7, OneMoreCall

LEMMA PressInv ==
  ASSUME AppInv, Inv', NEW op \in Operations, Press(op)
  PROVE  AppInv'
<1>1. PICK call : call = Sent(op)
  OBVIOUS
<1>2. /\ ~phone.busy /\ store # None
      /\ wire' = wire \cup {call}
      /\ phone' = [phone EXCEPT !.busy = TRUE]
      /\ UNCHANGED <<vars, serving, agreed, lost, store, disk>>
  BY <1>1 DEF Press, UnchangedServer
<1>3. /\ phone' \in Phone /\ SameSetup /\ phone'.screen = phone.screen
      /\ phone'.setupBusy = phone.setupBusy /\ phone'.busy
  BY <1>2, UnderWayTypes DEF Phone, SameSetup
<1>4. /\ call \in Call /\ Plain(call) /\ call.op = op /\ call.live
      /\ call.customer = store
  BY <1>1, SentCall
<1>5. ~Awaits(Operations)
  BY <1>2, AwaitedOperation, UnderWayTypes
<1>6. CallOK(call)'
  BY <1>2, <1>3, <1>4 DEF CallOK, Plain, Operations
<1> QED
  BY <1>2, <1>3, <1>4, <1>5, <1>6, OneMoreCall DEF Operations

-----------------------------------------------------------------------------
(***************************************************************************)
(* A worker takes a call.                                                  *)
(***************************************************************************)
LEMMA TakeInv ==
  ASSUME AppInv, Inv', NEW w \in Workers, NEW call \in wire,
         NEW c \in Customers, Take(w, call, c), NEW job,
         At(w, "idle"), worker' = [worker EXCEPT ![w] = job],
         job.pc \in PcsOf(call.op), job.pc # "idle", job.customer = c,
         UNCHANGED rows, agreed \subseteq agreed', agreed' \subseteq Customers,
         call.op = "enroll" => c \in agreed',
         call.op \in Operations => call.customer = c,
         call.op # "customer"
  PROVE  AppInv'
<1> USE DEF AppInv
<1>1. PICK taken : /\ taken = [call EXCEPT !.customer = c]
                   /\ serving' = [serving EXCEPT ![w] = taken]
                   /\ wire' = wire \ {call}
                   /\ UNCHANGED <<phone, store, disk, lost>>
  BY DEF Take
<1>2. /\ call \in Call /\ taken \in Call
      /\ taken.op = call.op /\ taken.customer = c /\ taken.read = call.read
      /\ taken.samples = call.samples /\ taken.consented = call.consented
      /\ taken.live = call.live
  BY <1>1, UnderWayTypes DEF Call
<1>3. /\ serving'[w] = taken /\ serving[w] = None /\ taken # None
      /\ \A v \in Workers : v # w => serving'[v] = serving[v]
  BY <1>1, <1>2, UnderWayTypes DEF Serves
<1>4. AppTypeOK'
  BY <1>1, <1>2 DEF AppTypeOK
<1>5. SetupInv' /\ StoreInv'
  BY <1>1 DEF SetupInv, StoreInv, rows
<1>6. /\ worker'[w] = job
      /\ \A v \in Workers : v # w => worker'[v] = worker[v]
  BY DEF Inv, TypeOK
<1>7. \A v \in Workers : Serves(v)'
  BY <1>2, <1>3, <1>6 DEF Serves, At, Of
<1>8. CallOK(call)
  BY DEF CallInv
<1>9. CallOK(taken)'
  BY <1>1, <1>2, <1>8 DEF CallOK, Plain
<1>10. CallInv'
  <2>1. \A other : CallOK(other) => CallOK(other)'
    BY <1>1 DEF CallOK, Plain
  <2>2. \A other \in wire' : CallOK(other)'
    BY <1>1, <2>1 DEF CallInv
  <2>3. ASSUME NEW v \in Workers, serving'[v] # None PROVE CallOK(serving[v])'
    <3>1. PICK other : other = serving'[v]
      OBVIOUS
    <3>2. CallOK(other)'
      BY <1>3, <1>9, <2>1, <2>3, <3>1 DEF CallInv
    <3> QED
      BY <3>1, <3>2 DEF CallOK, Plain
  <2> QED
    BY <2>2, <2>3 DEF CallInv
<1>11. SoleInv'
  <2>1. \A other : /\ Alike(taken, other) = Alike(call, other)
                   /\ Alike(other, taken) = Alike(other, call)
    BY <1>2 DEF Alike
  <2>2. /\ \A other \in wire \ {call} : ~Alike(other, call)
        /\ \A v \in Workers : serving[v] # None =>
             ~Alike(call, serving[v]) /\ ~Alike(serving[v], call)
    BY DEF SoleInv, Alike
  <2> QED
    BY <1>1, <1>3, <2>1, <2>2 DEF SoleInv, Alike
<1>12. AgreedInv'
  BY <1>2, <1>3 DEF AgreedInv, Live, rows
<1> QED
  BY <1>4, <1>5, <1>7, <1>10, <1>11, <1>12

LEMMA ServeEnrollInv ==
  ASSUME AppInv, Inv', NEW w \in Workers, NEW call \in wire,
         ServeEnroll(w, call)
  PROVE  AppInv'
<1>1. PICK c \in Customers :
        /\ EnrollBegin(w, c) /\ Take(w, call, c)
        /\ agreed' = IF call.consented THEN agreed \cup {c} ELSE agreed
  BY DEF ServeEnroll
<1>2. call.op = "enroll" /\ call.samples >= RequiredSamples
  BY DEF ServeEnroll
<1>3. call.consented
  <2>1. call.samples \in Nat /\ Plain(call)
    BY UnderWayTypes DEF Call
  <2> QED
    BY <1>2, <2>1 DEF Plain
<1>4. PICK job : job = [Idle EXCEPT !.pc = "create_profile", !.customer = c,
                          !.label = Primary, !.kek = keyring[w].active]
  OBVIOUS
<1>5. /\ At(w, "idle") /\ worker' = [worker EXCEPT ![w] = job]
      /\ UNCHANGED rows
  BY <1>1, <1>4 DEF EnrollBegin, Begin
<1>6. job.pc = "create_profile" /\ job.customer = c
  BY <1>4 DEF Idle
<1>7. job.pc \in PcsOf(call.op)
  BY <1>2, <1>6 DEF PcsOf, EnrollPcs
<1>8. agreed \subseteq agreed' /\ agreed' \subseteq Customers /\ c \in agreed'
  BY <1>1, <1>3 DEF AppInv, AppTypeOK
<1> QED
  BY <1>1, <1>2, <1>5, <1>6, <1>7, <1>8, TakeInv DEF Operations

LEMMA ServeOwnInv ==
  ASSUME AppInv, Inv', NEW w \in Workers, NEW call \in wire, ServeOwn(w, call)
  PROVE  AppInv'
<1>1. PICK c : c = call.customer
  OBVIOUS
<1>2. PICK pc \in {"suspend", "grant", "update_payment_token", "crypto_shred"} :
        /\ At(w, "idle") /\ Authenticated(c)
        /\ worker' = [worker EXCEPT
                        ![w] = [Idle EXCEPT !.pc = pc, !.customer = c]]
        /\ UNCHANGED rows
        /\ pc = "suspend" => call.op = "withdraw"
        /\ pc = "grant" => call.op = "restore"
        /\ pc = "update_payment_token" => call.op = "card"
        /\ pc = "crypto_shred" => call.op = "erase"
  BY <1>1 DEF ServeOwn, WithdrawBegin, RestoreBegin, ReplaceBegin, EraseBegin,
              Begin
<1>3. c \in Customers
  BY <1>2 DEF Authenticated, AppInv, Inv, TypeOK
<1>4. PICK job : job = [Idle EXCEPT !.pc = pc, !.customer = c]
  OBVIOUS
<1>5. job.pc = pc /\ job.customer = c
  BY <1>4 DEF Idle
<1>6. job.pc \in PcsOf(call.op) /\ call.op \in Operations
  BY <1>2, <1>5 DEF PcsOf, ErasePcs, Operations
<1>7. Take(w, call, c) /\ agreed' = agreed /\ agreed \subseteq Customers
  BY <1>1 DEF ServeOwn, AppInv, AppTypeOK
<1> QED
  BY <1>1, <1>2, <1>3, <1>4, <1>5, <1>6, <1>7, TakeInv DEF Operations

-----------------------------------------------------------------------------
(***************************************************************************)
(* A handler goes on.                                                      *)
(***************************************************************************)
LEMMA AgreedMoves ==
  ASSUME AppInv, NEW w \in Workers, StatusMoves(w), ~At(w, "idle"),
         UNCHANGED agreed, NEW c \in Customers, Live(c)'
  PROVE  c \in agreed'
<1>1. CASE Live(c)
  BY <1>1 DEF AppInv, AgreedInv
<1>2. CASE At(w, "create_profile") /\ c = Of(w)
  <2>1. /\ serving[w] # None /\ worker[w].pc \in PcsOf(serving[w].op)
        /\ serving[w].customer = c
    BY <1>2 DEF AppInv, Serves
  <2>2. serving[w].op = "enroll"
    BY <1>2, <2>1 DEF PcsOf, ErasePcs, At
  <2> QED
    BY <2>1, <2>2 DEF AppInv, AgreedInv
<1> QED
  BY <1>1, <1>2 DEF StatusMoves

LEMMA WorkInv ==
  ASSUME AppInv, Inv', NEW w \in Workers, Work(w)
  PROVE  AppInv'
<1> USE DEF AppInv
<1>1. HandlerStep(w)
      /\ UNCHANGED <<phone, store, disk, wire, serving, agreed, lost>>
  BY DEF Work, phoneVars
<1>2. StatusMoves(w)
  BY <1>1, HandlerMoves
<1>3. ~At(w, "idle")
  BY <1>1 DEF HandlerStep, CreateProfile, AddFirstTemplate, RecordConsent,
     CreateCredential, Suspend, Grant, CryptoShred, WithdrawErased,
     RevokeCredentials, At
<1>4. serving[w] # None /\ worker[w].pc \in PcsOf(serving[w].op)
  BY <1>3 DEF Serves
<1>5. /\ worker'[w].pc \in PcsOf(serving[w].op) /\ Of(w)' = Of(w)
      /\ \A v \in Workers : v # w => worker'[v] = worker[v]
      /\ ~At(w, "idle")'
  BY <1>1, <1>4, HandlerGoesOn
<1>6. AppTypeOK' /\ SetupInv'
  BY <1>1 DEF AppTypeOK, SetupInv
<1>7. \A v \in Workers : Serves(v)'
  BY <1>1, <1>4, <1>5 DEF Serves, At, Of
<1>8. StoreInv'
  BY <1>1, <1>2 DEF StoreInv, StatusMoves
<1>9. CallInv' /\ SoleInv'
  BY <1>1 DEF CallInv, CallOK, Plain, SoleInv, Alike
<1>10. AgreedInv'
  <2>1. \A c \in Customers : Live(c)' => c \in agreed'
    BY <1>1, <1>2, <1>3, AgreedMoves
  <2> QED
    BY <1>1, <2>1 DEF AgreedInv
<1> QED
  BY <1>6, <1>7, <1>8, <1>9, <1>10

(***************************************************************************)
(* A handler ends, and its worker serves nothing any more.                 *)
(***************************************************************************)
LEMMA EndsInv ==
  ASSUME AppInv, Inv', NEW w \in Workers, HandlerEnds(w) \/ StorageFault(w),
         HungUp(w), UNCHANGED <<disk, wire, agreed>>, lost' \subseteq Customers,
         phone' \in Phone, SetupInv',
         (phone'.screen = "account") <=> (store' # None),
         store' \in Customers \cup {None},
         store' \in Customers => profile'[store'].status # "none",
         Awaits({"enroll"})' =>
           /\ store' = store /\ phone'.step = phone.step
           /\ phone'.setupBusy = phone.setupBusy,
         Awaits(Operations)' => store' = store /\ phone'.busy = phone.busy
  PROVE  AppInv'
<1> USE DEF AppInv
<1>1. StatusMoves(w)
  BY HandlerMoves
<1>2. /\ worker'[w] = Idle /\ ~At(w, "idle")
      /\ \A v \in Workers : v # w => worker'[v] = worker[v]
  BY HandlerGone
<1>3. /\ serving'[w] = None
      /\ \A v \in Workers : v # w => serving'[v] = serving[v]
      /\ serving' \in [Workers -> Call \cup {None}]
  BY UnderWayTypes DEF HungUp
<1>4. AppTypeOK'
  BY <1>3 DEF AppTypeOK
<1>5. \A v \in Workers : Serves(v)'
  BY <1>2, <1>3 DEF Serves, At, Of, Idle
<1>6. StoreInv'
  BY <1>1 DEF StoreInv, StatusMoves
<1>7. CallInv' /\ SoleInv'
  <2>1. \A call \in wire' : Plain(call)
    BY UnderWayTypes
  <2>2. \A v \in Workers : serving'[v] # None =>
          serving'[v] = serving[v] /\ Plain(serving'[v])
    BY <1>3, UnderWayTypes
  <2> QED
    BY <2>1, <2>2, CallsShrink, SoleShrinks
<1>8. AgreedInv'
  <2>1. \A c \in Customers : Live(c)' => c \in agreed'
    BY <1>1, <1>2, AgreedMoves
  <2> QED
    BY <1>3, <2>1 DEF AgreedInv
<1> QED
  BY <1>4, <1>5, <1>6, <1>7, <1>8

LEMMA Served ==
  ASSUME AppInv, NEW w \in Workers, HandlerEnds(w) \/ StorageFault(w)
  PROVE  /\ serving[w] \in Call /\ serving[w] # None
         /\ serving[w].op # "customer" /\ Plain(serving[w])
         /\ serving[w].customer = Of(w) /\ Of(w) \in Customers
         /\ worker[w].pc \in PcsOf(serving[w].op)
<1>1. ~At(w, "idle")
  BY HandlerGone DEF AppInv
<1>2. /\ serving[w] # None /\ serving[w].customer = Of(w)
      /\ worker[w].pc \in PcsOf(serving[w].op)
  BY <1>1 DEF AppInv, Serves
<1>3. worker[w].pc \in CustomerPcs
  BY <1>2 DEF PcsOf, CustomerPcs, EnrollPcs, AccountPcs, ErasePcs
<1> QED
  BY <1>2, <1>3, UnderWayTypes DEF AppInv, Inv, JobsOK, JobOK

\* The worker's call is awaited no more.
LEMMA HungUpAwaits ==
  ASSUME AppInv, NEW w \in Workers, serving[w] # None, HungUp(w), wire' = wire
  PROVE  /\ \A ops : Awaits(ops)' => Awaits(ops)
         /\ serving[w].live =>
              \A ops \in {{"enroll"}, Operations} :
                serving[w].op \in ops => ~Awaits(ops)'
<1>1. /\ serving'[w] = None
      /\ \A v \in Workers : v # w => serving'[v] = serving[v]
  BY UnderWayTypes DEF HungUp
<1>2. \A ops : Awaits(ops)' => Awaits(ops)
  BY <1>1 DEF Awaits
<1>3. ASSUME serving[w].live, NEW ops \in {{"enroll"}, Operations},
             serving[w].op \in ops
      PROVE  ~Awaits(ops)'
  BY <1>1, <1>3, NoneLeftServed, UnderWayTypes
<1> QED
  BY <1>2, <1>3

\* What an enrollment that is answered finds, and an operation.
LEMMA AnsweredEnrollment ==
  ASSUME AppInv, NEW w \in Workers, AnswerArrives(w), serving[w].op = "enroll"
  PROVE  /\ Enrolled(Of(w)) /\ Of(w) \in Customers
         /\ store = None /\ phone.step \in {"DETAILS", "DONE"}
         /\ profile' = profile /\ profile[Of(w)].status # "none"
<1>1. serving[w].live /\ HandlerEnds(w) /\ Succeeded(serving[w])
  BY DEF AnswerArrives
<1>2. serving[w] # None /\ serving[w].customer = Of(w) /\ Of(w) \in Customers
      /\ worker[w].pc \in EnrollPcs
  BY <1>1, Served DEF PcsOf
<1>3. CallOK(serving[w])
  BY <1>2 DEF AppInv, CallInv
<1>4. At(w, "answer") /\ profile' = profile
  BY <1>1, <1>2
     DEF HandlerEnds, EnrollAnswer, Withdraw, Activate, UpdatePaymentToken,
         AlreadyShredded, AuditErasure, At, EnrollPcs, rows
<1>5. profile[Of(w)].status # "none"
  BY <1>4 DEF AppInv, Inv, JobsOK, JobOK, At, CustomerPcs, EnrollPcs
<1> QED
  BY <1>1, <1>2, <1>3, <1>4, <1>5 DEF CallOK, Succeeded

LEMMA AnsweredOperation ==
  ASSUME AppInv, NEW w \in Workers, AnswerArrives(w), serving[w].op # "enroll"
  PROVE  /\ serving[w].op \in Operations
         /\ serving[w].live /\ phone.busy
         /\ store = Of(w) /\ store \in Customers
         /\ IF serving[w].op = "erase" THEN ErasedOk /\ Erased(store) ELSE Done
<1>1. serving[w].live /\ HandlerEnds(w) /\ Succeeded(serving[w])
  BY DEF AnswerArrives
<1>2. /\ serving[w] # None /\ serving[w].customer = Of(w) /\ Of(w) \in Customers
      /\ serving[w].op \in Operations
      /\ worker[w].pc \in PcsOf(serving[w].op)
  BY <1>1, Served DEF Call, Operations
<1>3. CallOK(serving[w])
  BY <1>2 DEF AppInv, CallInv
<1>4. serving[w].op = "erase" => Erased(Of(w))
  <2>1. serving[w].op = "erase" => worker[w].pc \in ErasePcs
    BY <1>2 DEF PcsOf
  <2> QED
    BY <1>1, <2>1
       DEF HandlerEnds, EnrollAnswer, Withdraw, Activate, UpdatePaymentToken,
           AlreadyShredded, AuditErasure, At, ErasePcs, AppInv, Inv, JobsOK,
           JobOK, Shredded, Erased
<1>5. IF serving[w].op = "erase" THEN ErasedOk ELSE Done
  BY <1>1, <1>2 DEF Succeeded, Operations
<1> QED
  BY <1>1, <1>2, <1>3, <1>4, <1>5 DEF CallOK

LEMMA AnswerArrivesInv ==
  ASSUME AppInv, Inv', NEW w \in Workers, AnswerArrives(w)
  PROVE  AppInv'
<1>1. /\ HandlerEnds(w) /\ HungUp(w) /\ UNCHANGED <<disk, wire, agreed, lost>>
      /\ serving[w] # None /\ serving[w].live /\ StatusMoves(w)
  BY Served, HandlerMoves DEF AnswerArrives, AppInv
<1>2. CASE serving[w].op = "enroll"
  <2>1. /\ phone' \in Phone /\ SetupInv' /\ store' = Of(w)
        /\ phone'.screen = "account" /\ phone'.busy = phone.busy
    BY <1>2, AnsweredEnrollment, EnrolledFields, UnderWayTypes
  <2>2. ~Awaits({"enroll"})' /\ ~Awaits(Operations)'
    BY <1>1, <1>2, HungUpAwaits, AnsweredEnrollment, AwaitedOperation,
       UnderWayTypes
  <2>3. Of(w) # None
    BY <1>2, AnsweredEnrollment, AccountsAssumption
  <2> QED
    BY <1>1, <1>2, <2>1, <2>2, <2>3, AnsweredEnrollment, EndsInv
       DEF AppInv, AppTypeOK
<1>3. CASE serving[w].op # "enroll"
  <2>1. /\ phone' \in Phone /\ SameSetup /\ store' \in {store, None}
        /\ (phone'.screen = "account") <=> (store' # None)
    BY <1>3, AnsweredOperation, DoneFields, ErasedFields, UnderWayTypes,
       AccountsAssumption
  <2>2. ~Awaits({"enroll"})' /\ ~Awaits(Operations)'
    BY <1>1, <1>3, HungUpAwaits, AnsweredOperation, AwaitedEnrollment,
       UnderWayTypes, AccountsAssumption
  <2>3. store' \in Customers => profile'[store'].status # "none"
    BY <1>1, <2>1, AccountsAssumption DEF AppInv, StoreInv, StatusMoves
  <2>4. SetupInv'
    BY <2>1, SetupKept, UnderWayTypes
  <2>5. store' \in Customers \cup {None} /\ lost' \subseteq Customers
    BY <1>1, <2>1 DEF AppInv, AppTypeOK
  <2> QED
    BY <1>1, <2>1, <2>2, <2>3, <2>4, <2>5, EndsInv
<1> QED
  BY <1>2, <1>3

LEMMA ErrorArrivesInv ==
  ASSUME AppInv, Inv', NEW w \in Workers, ErrorArrives(w)
  PROVE  AppInv'
<1>1. /\ StorageFault(w) /\ HungUp(w) /\ UNCHANGED <<disk, wire, agreed>>
      /\ serving[w] \in Call /\ serving[w] # None /\ serving[w].live
      /\ serving[w].customer \in Customers
      /\ Failed(serving[w]) /\ LostIfEnroll(w) /\ StatusMoves(w)
  BY Served, HandlerMoves DEF ErrorArrives, AppInv
<1>2. /\ phone' \in Phone /\ SameSetup /\ store' = store
      /\ phone'.screen = phone.screen
      /\ serving[w].op # "enroll" => phone'.setupBusy = phone.setupBusy
      /\ serving[w].op \notin Operations => phone'.busy = phone.busy
  BY <1>1, FailedFields, UnderWayTypes
<1>3. /\ serving[w].op = "enroll" => ~Awaits({"enroll"})'
      /\ serving[w].op \in Operations => ~Awaits(Operations)'
  BY <1>1, HungUpAwaits
<1>4. store' \in Customers => profile'[store'].status # "none"
  BY <1>1, <1>2 DEF AppInv, StoreInv, StatusMoves
<1>5. lost' \subseteq Customers
  BY <1>1 DEF LostIfEnroll, AppInv, AppTypeOK
<1> QED
  BY <1>1, <1>2, <1>3, <1>4, <1>5, EndsInv, SetupKept, UnderWayTypes
     DEF SameSetup, AppInv, AppTypeOK

LEMMA NobodyWaitsInv ==
  ASSUME AppInv, Inv', NEW w \in Workers, NobodyWaits(w)
  PROVE  AppInv'
<1>1. /\ HandlerEnds(w) \/ StorageFault(w)
      /\ HungUp(w) /\ UNCHANGED <<disk, wire, agreed>>
      /\ serving[w] # None /\ serving[w].customer \in Customers
      /\ Unheard /\ LostIfEnroll(w) /\ StatusMoves(w)
  BY Served, HandlerMoves DEF NobodyWaits, AppInv
<1>2. store' \in Customers => profile'[store'].status # "none"
  BY <1>1, UnheardFields, UnderWayTypes DEF AppInv, StoreInv, StatusMoves
<1>3. lost' \subseteq Customers
  BY <1>1 DEF LostIfEnroll, AppInv, AppTypeOK
<1> QED
  BY <1>1, <1>2, <1>3, EndsInv, UnheardFields, SetupKept, UnderWayTypes
     DEF SameSetup, AppInv, AppTypeOK

-----------------------------------------------------------------------------
(***************************************************************************)
(* Every step of the phone is one of the account service's, or none.       *)
(***************************************************************************)
LEMMA ServerSteps ==
  ASSUME AppInv, [AppNext]_appVars
  PROVE  [Next]_vars
<1>1. CASE UNCHANGED vars
  BY <1>1
<1>2. ASSUME NEW w \in Workers, NEW call \in wire, ServeEnroll(w, call)
      PROVE  Next
  BY <1>2 DEF ServeEnroll, Next
<1>3. ASSUME NEW w \in Workers, NEW call \in wire, ServeOwn(w, call)
      PROVE  Next
  <2>1. PICK c : c = call.customer
    OBVIOUS
  <2>2. \/ WithdrawBegin(w, c) \/ RestoreBegin(w, c)
        \/ ReplaceBegin(w, c) \/ EraseBegin(w, c)
    BY <1>3, <2>1 DEF ServeOwn
  <2>3. c \in Customers
    BY <2>2 DEF WithdrawBegin, RestoreBegin, ReplaceBegin, EraseBegin,
                Authenticated, AppInv, Inv, TypeOK
  <2> QED
    BY <2>2, <2>3 DEF Next
<1>4. ASSUME NEW w \in Workers,
             HandlerStep(w) \/ HandlerEnds(w) \/ StorageFault(w)
      PROVE  Next
  BY <1>4 DEF HandlerStep, HandlerEnds, WorkerStep, Next
<1>5. CASE ScanStep \/ CompleteSetup \/ Reopen \/ RefreshAccount
           \/ (\E op \in {"withdraw", "restore", "card", "erase"} : Press(op))
  BY <1>1, <1>5
     DEF ScanStep, SetConsent, AdvanceToScan, Scan, CameraFails, SubmitSample,
         SampleKept, SampleDropped, ResetSamples, CompleteSetup, Reopen,
         RefreshAccount, Press, Local, UnchangedServer
<1>6. CASE GiveUp \/ LoseRequest \/ Flush \/ Kill
  BY <1>1, <1>6 DEF GiveUp, LoseRequest, Flush, Kill
<1>7. CASE \E call \in wire :
             Refuse(call) \/ GetCustomer(call) \/ ReadingArrives(call)
  BY <1>1, <1>7 DEF Refuse, GetCustomer, ReadingArrives
<1>8. CASE UNCHANGED appVars
  BY <1>1, <1>8 DEF appVars
<1> QED
  BY <1>2, <1>3, <1>4, <1>5, <1>6, <1>7, <1>8
     DEF AppNext, ScanStep, Work, AnswerArrives, ErrorArrives, NobodyWaits

LEMMA AppInitInv == AppInit => AppInv
<1> SUFFICES ASSUME AppInit PROVE AppInv
  OBVIOUS
<1> USE DEF AppInit
<1>1. Inv
  BY InitInv
<1>2. phone \in Phone /\ SetupInv /\ phone.screen = "setup"
  BY DEF Opened, Phone, SetupInv
<1>3. AppTypeOK
  BY <1>2 DEF AppTypeOK
<1>4. \A w \in Workers : Serves(w)
  BY DEF Init, Idle, Serves, At
<1>5. StoreInv
  BY <1>2, AccountsAssumption DEF StoreInv
<1>6. CallInv /\ SoleInv
  BY DEF CallInv, SoleInv
<1>7. AgreedInv
  BY DEF AgreedInv, Init, NoProfile, Live
<1> QED
  BY <1>1, <1>2, <1>3, <1>4, <1>5, <1>6, <1>7 DEF AppInv

LEMMA AppStepInv ==
  ASSUME OneScan, AppInv, [AppNext]_appVars
  PROVE  AppInv'
<1>1. Inv'
  BY ServerSteps, StepInv DEF AppInv
<1>2. CASE UNCHANGED appVars
  <2>1. UNCHANGED <<vars, agreed, lost, phone, store, disk, wire, serving>>
    BY <1>2 DEF appVars, phoneVars
  <2>2. SetupInv'
    BY <2>1, UnderWayTypes DEF SetupInv
  <2>3. \A ops : Awaits(ops)' => Awaits(ops)
    BY <2>1 DEF Awaits
  <2> QED
    BY <1>1, <2>1, <2>2, <2>3, QuietStep, UnderWayTypes
<1>3. CASE ScanStep
  BY <1>1, <1>3, ScanInv
<1>4. CASE CompleteSetup \/ Reopen \/ RefreshAccount
  BY <1>1, <1>4, CompleteSetupInv, ReadAgainInv
<1>5. ASSUME NEW op \in Operations, Press(op) PROVE AppInv'
  BY <1>1, <1>5, PressInv
<1>6. CASE GiveUp \/ LoseRequest \/ Flush \/ Kill
  BY <1>1, <1>6, GiveUpInv, LoseRequestInv, FlushInv, KillInv
<1>7. ASSUME NEW call \in wire,
             Refuse(call) \/ GetCustomer(call) \/ ReadingArrives(call)
      PROVE  AppInv'
  BY <1>1, <1>7, RefuseInv, GetCustomerInv, ReadingArrivesInv
<1>8. ASSUME NEW call \in wire, NEW w \in Workers,
             ServeEnroll(w, call) \/ ServeOwn(w, call)
      PROVE  AppInv'
  BY <1>1, <1>8, ServeEnrollInv, ServeOwnInv
<1>9. ASSUME NEW w \in Workers,
             \/ Work(w) \/ AnswerArrives(w)
             \/ ErrorArrives(w) \/ NobodyWaits(w)
      PROVE  AppInv'
  BY <1>1, <1>9, WorkInv, AnswerArrivesInv, ErrorArrivesInv, NobodyWaitsInv
<1> QED
  BY <1>2, <1>3, <1>4, <1>5, <1>6, <1>7, <1>8, <1>9
     DEF AppNext, ScanStep, Operations

(***************************************************************************)
(* The invariant holds whatever is lost, late or killed, also before a     *)
(* write is flushed, and whatever is opened again while it is busy.        *)
(***************************************************************************)
THEOREM AppInvariance ==
  ASSUME OneScan
  PROVE  AppSpec => []AppInv
BY AppInitInv, AppStepInv, PTL DEF AppSpec

(***************************************************************************)
(* For the account service, phone and network are a client like any other  *)
(* (CustomerViewModel.kt against main.py): whatever is lost, late or       *)
(* pressed twice, what its handlers keep, they keep here.                  *)
(***************************************************************************)
THEOREM PhonesUseTheService ==
  ASSUME OneScan
  PROVE  AppSpec => Spec
<1>1. AppInit => Init
  BY DEF AppInit
<1>2. AppInv /\ [AppNext]_appVars => [Next]_vars
  BY ServerSteps
<1> QED
  BY <1>1, <1>2, AppInvariance, PTL DEF AppSpec, Spec

-----------------------------------------------------------------------------
(***************************************************************************)
(* No account exists whose owner has not ticked the box in the set-up that *)
(* made it, and no frame is captured before that.                          *)
(***************************************************************************)
THEOREM ConsentComesFirst ==
  ASSUME OneScan
  PROVE  AppSpec => []ConsentWasGiven
<1>1. AppInv => ConsentWasGiven
  <2> SUFFICES ASSUME AppInv PROVE ConsentWasGiven
    OBVIOUS
  <2>1. \A c \in Customers : Live(c) => c \in agreed
    BY DEF AppInv, AgreedInv
  <2>2. /\ phone.capturing \in Nat /\ phone.checking \in Nat
        /\ phone.samples \in Nat
    BY PhoneFields, UnderWayTypes
  <2>3. phone.capturing + phone.checking + phone.samples > 0 =>
          phone.capturing + phone.checking > 0 \/ phone.samples > 0
    BY <2>2
  <2> QED
    BY <2>1, <2>3, UnderWayTypes DEF ConsentWasGiven, SetupInv
<1> QED
  BY <1>1, AppInvariance, PTL

(***************************************************************************)
(* The store changes when an enrollment is answered, which finds it empty, *)
(* when an erasure is, and when the app is opened again.                   *)
(***************************************************************************)
LEMMA StoreChanges ==
  ASSUME AppInv, [AppNext]_appVars, store' # store
  PROVE  \/ Kill
         \/ \E w \in Workers :
              /\ AnswerArrives(w)
              /\ \/ serving[w].op = "enroll" /\ store = None /\ store' = Of(w)
                 \/ store \in Customers /\ Erased(store) /\ store' = None
<1>1. ASSUME NEW w \in Workers, AnswerArrives(w)
      PROVE  \/ serving[w].op = "enroll" /\ store = None /\ store' = Of(w)
             \/ store \in Customers /\ Erased(store) /\ store' = None
  <2>1. CASE serving[w].op = "enroll"
    BY <1>1, <2>1, AnsweredEnrollment DEF Enrolled
  <2>2. CASE serving[w].op = "erase"
    BY <1>1, <2>2, AnsweredOperation DEF ErasedOk
  <2>3. CASE serving[w].op \notin {"enroll", "erase"}
    BY <1>1, <2>3, AnsweredOperation DEF Done
  <2> QED
    BY <2>1, <2>2, <2>3
<1>2. CASE UNCHANGED store
  BY <1>2
<1>3. CASE ScanStep \/ CompleteSetup \/ Reopen \/ RefreshAccount
           \/ (\E op \in {"withdraw", "restore", "card", "erase"} : Press(op))
  BY <1>2, <1>3
     DEF ScanStep, SetConsent, AdvanceToScan, Scan, CameraFails, SubmitSample,
         SampleKept, SampleDropped, ResetSamples, CompleteSetup, Reopen,
         RefreshAccount, Press, Local
<1>4. CASE GiveUp \/ LoseRequest \/ Flush
  BY <1>2, <1>4 DEF GiveUp, Failed, LoseRequest, Flush
<1>5. CASE \E call \in wire :
             Refuse(call) \/ GetCustomer(call) \/ ReadingArrives(call)
  BY <1>2, <1>5 DEF Refuse, Failed, GetCustomer, ReadingArrives
<1>6. CASE \E call \in wire, w \in Workers :
             ServeEnroll(w, call) \/ ServeOwn(w, call)
  BY <1>2, <1>6 DEF ServeEnroll, ServeOwn, Take
<1>7. CASE \E w \in Workers : Work(w) \/ ErrorArrives(w) \/ NobodyWaits(w)
  BY <1>2, <1>7
     DEF Work, phoneVars, ErrorArrives, NobodyWaits, Failed, Unheard
<1>8. CASE UNCHANGED appVars
  BY <1>2, <1>8 DEF appVars, phoneVars
<1> QED
  BY <1>1, <1>3, <1>4, <1>5, <1>6, <1>7, <1>8 DEF AppNext, ScanStep

(***************************************************************************)
(* The phone forgets or overwrites a credential only when its account has  *)
(* been erased, also when the account screen is reopened at any moment.    *)
(***************************************************************************)
THEOREM CredentialsAreKept ==
  ASSUME OneScan, Flushed
  PROVE  AppSpec => CredentialKept
<1>1. AppInv /\ [AppNext]_appVars =>
        [store # None /\ store' # store => Erased(store)]_appVars
  <2> SUFFICES ASSUME AppInv, [AppNext]_appVars, store # None, store' # store
               PROVE  Erased(store)
    OBVIOUS
  <2>1. ~Kill
    BY DEF Kill, Flushed
  <2> QED
    BY <2>1, StoreChanges
<1> QED
  BY <1>1, AppInvariance, PTL DEF AppSpec, CredentialKept

-----------------------------------------------------------------------------
(***************************************************************************)
(* An account that lives is somebody's: what is made, failed or held stays *)
(* so until the next of these.                                             *)
(***************************************************************************)
Claimed(c) == store = c \/ c \in lost \/ InTheMaking(c)

LEMMA LostOnlyGrows ==
  ASSUME [AppNext]_appVars
  PROVE  lost \subseteq lost'
<1>1. CASE ScanStep \/ CompleteSetup \/ Reopen \/ RefreshAccount
           \/ (\E op \in {"withdraw", "restore", "card", "erase"} : Press(op))
  BY <1>1
     DEF ScanStep, SetConsent, AdvanceToScan, Scan, CameraFails, SubmitSample,
         SampleKept, SampleDropped, ResetSamples, CompleteSetup, Reopen,
         RefreshAccount, Press, Local, UnchangedServer
<1>2. CASE GiveUp \/ LoseRequest \/ Flush \/ Kill
  BY <1>2 DEF GiveUp, LoseRequest, Flush, Kill
<1>3. CASE \E call \in wire :
             \/ Refuse(call) \/ GetCustomer(call) \/ ReadingArrives(call)
             \/ \E w \in Workers : ServeEnroll(w, call) \/ ServeOwn(w, call)
  BY <1>3 DEF Refuse, GetCustomer, ReadingArrives, ServeEnroll, ServeOwn, Take
<1>4. CASE \E w \in Workers : \/ Work(w) \/ AnswerArrives(w)
                              \/ ErrorArrives(w) \/ NobodyWaits(w)
  BY <1>4 DEF Work, phoneVars, AnswerArrives, ErrorArrives, NobodyWaits,
              LostIfEnroll
<1>5. CASE UNCHANGED appVars
  BY <1>5 DEF appVars, phoneVars
<1> QED
  BY <1>1, <1>2, <1>3, <1>4, <1>5 DEF AppNext, ScanStep

\* A worker goes on with its call until the handler ends.
LEMMA ServedUntilEnd ==
  ASSUME AppInv, [AppNext]_appVars, NEW v \in Workers, serving[v] # None
  PROVE  \/ /\ serving'[v] # None
            /\ serving'[v].op = serving[v].op
            /\ serving'[v].customer = serving[v].customer
         \/ AnswerArrives(v) \/ ErrorArrives(v) \/ NobodyWaits(v)
<1>1. /\ serving[v] \in Call /\ Dead(serving[v]) \in Call
      /\ Dead(serving[v]).op = serving[v].op
      /\ Dead(serving[v]).customer = serving[v].customer
  BY UnderWayTypes DEF Dead, Call
<1>2. ASSUME serving'[v] \in {serving[v], Dead(serving[v])}
      PROVE  /\ serving'[v] # None
             /\ serving'[v].op = serving[v].op
             /\ serving'[v].customer = serving[v].customer
  BY <1>1, <1>2
<1>3. CASE ScanStep \/ CompleteSetup \/ Reopen \/ RefreshAccount
           \/ (\E op \in {"withdraw", "restore", "card", "erase"} : Press(op))
  BY <1>2, <1>3
     DEF ScanStep, SetConsent, AdvanceToScan, Scan, CameraFails, SubmitSample,
         SampleKept, SampleDropped, ResetSamples, CompleteSetup, Reopen,
         RefreshAccount, Press, Local, UnchangedServer
<1>4. CASE GiveUp
  BY <1>2, <1>4, UnderWayTypes DEF GiveUp
<1>5. CASE LoseRequest \/ Flush
  BY <1>2, <1>5 DEF LoseRequest, Flush
<1>6. CASE Kill
  BY <1>2, <1>6 DEF Kill
<1>7. CASE \E call \in wire :
             Refuse(call) \/ GetCustomer(call) \/ ReadingArrives(call)
  BY <1>2, <1>7 DEF Refuse, GetCustomer, ReadingArrives
<1>8. ASSUME NEW call \in wire, NEW w \in Workers,
             ServeEnroll(w, call) \/ ServeOwn(w, call)
      PROVE  serving'[v] = serving[v]
  <2>1. At(w, "idle")
    BY <1>8 DEF ServeEnroll, ServeOwn, EnrollBegin, WithdrawBegin,
                RestoreBegin, ReplaceBegin, EraseBegin, Begin
  <2>2. w # v
    BY <2>1 DEF AppInv, Serves
  <2>3. \E taken : serving' = [serving EXCEPT ![w] = taken]
    BY <1>8 DEF ServeEnroll, ServeOwn, Take
  <2> QED
    BY <2>2, <2>3, UnderWayTypes
<1>9. CASE \E w \in Workers : Work(w)
  BY <1>2, <1>9 DEF Work, phoneVars
<1>10. ASSUME NEW w \in Workers, w # v,
              AnswerArrives(w) \/ ErrorArrives(w) \/ NobodyWaits(w)
       PROVE  serving'[v] = serving[v]
  BY <1>10, UnderWayTypes
     DEF AnswerArrives, ErrorArrives, NobodyWaits, HungUp
<1>11. CASE UNCHANGED appVars
  BY <1>2, <1>11 DEF appVars, phoneVars
<1> QED
  BY <1>2, <1>3, <1>4, <1>5, <1>6, <1>7, <1>8, <1>9, <1>10, <1>11
     DEF AppNext, ScanStep

\* Profiles change only by a worker that serves a call.
LEMMA ProfileMoves ==
  ASSUME AppInv, [AppNext]_appVars
  PROVE  \/ profile' = profile
         \/ \E w \in Workers :
              /\ \/ Work(w) \/ AnswerArrives(w)
                 \/ ErrorArrives(w) \/ NobodyWaits(w)
              /\ StatusMoves(w) /\ ~At(w, "idle")
<1>1. ASSUME NEW w \in Workers,
             \/ Work(w) \/ AnswerArrives(w)
             \/ ErrorArrives(w) \/ NobodyWaits(w)
      PROVE  StatusMoves(w) /\ ~At(w, "idle")
  <2>1. CASE Work(w)
    BY <2>1, HandlerMoves
       DEF Work, HandlerStep, CreateProfile, AddFirstTemplate, RecordConsent,
           CreateCredential, Suspend, Grant, CryptoShred, WithdrawErased,
           RevokeCredentials, At, AppInv
  <2>2. CASE AnswerArrives(w) \/ ErrorArrives(w) \/ NobodyWaits(w)
    BY <2>2, HandlerMoves, HandlerGone
       DEF AnswerArrives, ErrorArrives, NobodyWaits, AppInv
  <2> QED
    BY <1>1, <2>1, <2>2
<1>2. CASE UNCHANGED vars
  BY <1>2 DEF vars, rows
<1>3. CASE ScanStep \/ CompleteSetup \/ Reopen \/ RefreshAccount
           \/ (\E op \in {"withdraw", "restore", "card", "erase"} : Press(op))
  BY <1>2, <1>3
     DEF ScanStep, SetConsent, AdvanceToScan, Scan, CameraFails, SubmitSample,
         SampleKept, SampleDropped, ResetSamples, CompleteSetup, Reopen,
         RefreshAccount, Press, Local, UnchangedServer
<1>4. CASE GiveUp \/ LoseRequest \/ Flush \/ Kill
  BY <1>2, <1>4 DEF GiveUp, LoseRequest, Flush, Kill
<1>5. CASE \E call \in wire :
             \/ Refuse(call) \/ GetCustomer(call) \/ ReadingArrives(call)
             \/ \E w \in Workers : ServeEnroll(w, call) \/ ServeOwn(w, call)
  BY <1>2, <1>5
     DEF Refuse, GetCustomer, ReadingArrives, ServeEnroll, ServeOwn,
         EnrollBegin, WithdrawBegin, RestoreBegin, ReplaceBegin, EraseBegin,
         rows
<1>6. CASE UNCHANGED appVars
  BY <1>2, <1>6 DEF appVars
<1> QED
  BY <1>1, <1>2, <1>3, <1>4, <1>5, <1>6 DEF AppNext, ScanStep

LEMMA MakerClaims ==
  ASSUME AppInv, NEW w \in Workers, At(w, "create_profile")
  PROVE  InTheMaking(Of(w))
<1>1. /\ serving[w] # None /\ serving[w].customer = Of(w)
      /\ worker[w].pc \in PcsOf(serving[w].op)
  BY DEF AppInv, Serves, At
<1> QED
  BY <1>1 DEF InTheMaking, PcsOf, ErasePcs, At

LEMMA ClaimStays ==
  ASSUME Flushed, AppInv, [AppNext]_appVars,
         NEW c \in Customers, Claimed(c), Live(c)'
  PROVE  Claimed(c)'
<1>1. CASE c \in lost
  BY <1>1, LostOnlyGrows DEF Claimed
<1>2. CASE InTheMaking(c)
  <2>1. PICK v \in Workers : /\ serving[v] # None /\ serving[v].op = "enroll"
                             /\ serving[v].customer = c
    BY <1>2 DEF InTheMaking
  <2>2. CASE AnswerArrives(v)
    BY <2>1, <2>2, AnsweredEnrollment, Served DEF Enrolled, AnswerArrives, Claimed
  <2>3. CASE ErrorArrives(v) \/ NobodyWaits(v)
    BY <2>1, <2>3 DEF ErrorArrives, NobodyWaits, LostIfEnroll, Claimed
  <2> QED
    BY <2>1, <2>2, <2>3, ServedUntilEnd DEF InTheMaking, Claimed
<1>3. CASE store = c
  <2>1. ~Kill \/ store' = store
    BY DEF Kill, Flushed
  <2>2. ASSUME Erased(c) PROVE FALSE
    <3>1. profile' = profile \/ \E w \in Workers : StatusMoves(w)
      BY ProfileMoves
    <3> QED
      BY <2>2, <3>1 DEF StatusMoves, Erased, Live
  <2>3. store' = store
    BY <1>3, <2>1, <2>2, StoreChanges, AccountsAssumption
  <2> QED
    BY <1>3, <2>3 DEF Claimed
<1> QED
  BY <1>1, <1>2, <1>3 DEF Claimed

(***************************************************************************)
(* Every account that is not erased is the one the phone holds, or is      *)
(* being made, or its enrollment failed or lost its answer.                *)
(***************************************************************************)
THEOREM NobodyIsStray ==
  ASSUME OneScan, Flushed
  PROVE  AppSpec => []NoStrayAccounts
<1>1. AppInit => NoStrayAccounts
  BY DEF AppInit, Init, NoProfile, NoStrayAccounts, Live
<1>2. AppInv /\ NoStrayAccounts /\ [AppNext]_appVars => NoStrayAccounts'
  <2> SUFFICES ASSUME AppInv, NoStrayAccounts, [AppNext]_appVars,
                      NEW c \in Customers, Live(c)'
               PROVE  Claimed(c)'
    BY DEF NoStrayAccounts, Claimed, InTheMaking
  <2>1. Live(c) \/ \E w \in Workers : At(w, "create_profile") /\ c = Of(w)
    BY ProfileMoves DEF StatusMoves, Live
  <2>2. Claimed(c)
    BY <2>1, MakerClaims DEF NoStrayAccounts, Claimed
  <2> QED
    BY <2>2, ClaimStays
<1> QED
  BY <1>1, <1>2, AppInvariance, PTL DEF AppSpec

-----------------------------------------------------------------------------
(***************************************************************************)
(* The status on the screen.  Unless the account screen is reopened while  *)
(* it is busy, there is one reading at a time and none beside an           *)
(* operation; and what was read is the status until a handler that the     *)
(* phone has given up, or waits for, is at work on the account.            *)
(***************************************************************************)
Reads(call) == call.op = "customer" /\ call.live

OrderInv ==
  /\ phone.due \/ Reading => phone.loading \/ phone.shown = None
  /\ Reading => ~phone.due /\ ~phone.busy
  /\ phone.busy => ~phone.due
  /\ store = None => ~phone.busy /\ phone.shown = None
  /\ \A call, other \in wire : Reads(call) /\ Reads(other) => call = other
  /\ \A call \in wire : Reads(call) => call.customer = store /\ store # None

Meddling ==
  \E w \in Workers :
    /\ serving[w] # None /\ serving[w].op \in Operations
    /\ serving[w].customer = store

TruthInv ==
  /\ /\ store # None /\ phone.shown # None
     /\ ~phone.outdated /\ ~phone.due /\ ~Reading /\ ~Meddling
     => phone.shown = profile[store].status
  /\ \A call \in wire :
       Reads(call) /\ call.read # None /\ ~phone.outdated /\ ~Meddling =>
         call.read = profile[store].status

StatusInv == OrderInv /\ TruthInv

\* Neither what is shown nor what is read of it changes.
LEMMA AccountStays ==
  ASSUME AppInv, StatusInv, SameAccount, store' = store,
         \A call : Reads(call) => (call \in wire' <=> call \in wire),
         Meddling => Meddling',
         store # None /\ ~Meddling' =>
           profile'[store].status = profile[store].status
  PROVE  StatusInv'
<1>1. Reading' <=> Reading
  BY DEF Reading, Reads
<1>2. OrderInv'
  BY <1>1 DEF StatusInv, OrderInv, SameAccount, Reads
<1>3. \A call \in wire : Reads(call) => store # None
  BY DEF StatusInv, OrderInv
<1>4. TruthInv'
  BY <1>1, <1>3 DEF StatusInv, TruthInv, SameAccount, Reads
<1> QED
  BY <1>2, <1>4 DEF StatusInv

\* The phone knows that the status may have changed.
LEMMA OutdatedStep ==
  ASSUME AppInv, StatusInv, phone'.outdated, store' = store,
         phone'.shown = phone.shown, phone'.due = phone.due,
         phone'.busy => phone.busy,
         phone'.loading = phone.loading \/ (~phone.due /\ ~Reading'),
         \A call \in wire' : Reads(call) => call \in wire
  PROVE  StatusInv'
<1>1. Reading' => Reading
  BY DEF Reading, Reads
<1>2. OrderInv'
  BY <1>1 DEF StatusInv, OrderInv, Reads
<1>3. TruthInv'
  BY DEF TruthInv
<1> QED
  BY <1>2, <1>3 DEF StatusInv

LEMMA ReopenStatus ==
  ASSUME AppInv, StatusInv, InOrder, Reopen
  PROVE  StatusInv'
<1>1. /\ ~phone.busy /\ ~Reading /\ store # None
      /\ wire' = wire /\ store' = store
  BY UnderWayTypes DEF Reopen, InOrder, Local
<1>2. /\ phone'.due /\ phone'.loading /\ phone'.busy = phone.busy
      /\ phone'.shown = phone.shown
  BY UnderWayTypes DEF Reopen, Phone
<1>3. ~Reading' /\ \A call \in wire : ~Reads(call)
  BY <1>1 DEF Reading, Reads
<1> QED
  BY <1>1, <1>2, <1>3 DEF StatusInv, OrderInv, TruthInv

LEMMA RefreshStatus ==
  ASSUME AppInv, StatusInv, RefreshAccount
  PROVE  StatusInv'
<1>1. /\ phone.due /\ store' = store /\ UNCHANGED <<vars, serving>>
  BY DEF RefreshAccount, UnchangedServer
<1>2. ~Reading /\ ~phone.busy /\ \A call \in wire : ~Reads(call)
  BY <1>1 DEF StatusInv, OrderInv, Reading, Reads
<1>3. CASE store = None
  <2>1. phone' = [phone EXCEPT !.due = FALSE, !.loading = FALSE,
                               !.shown = None] /\ wire' = wire
    BY <1>3 DEF RefreshAccount
  <2>2. ~phone'.due /\ phone'.shown = None /\ phone'.busy = phone.busy
    BY <2>1, UnderWayTypes DEF Phone
  <2>3. ~Reading'
    BY <1>2, <2>1 DEF Reading, Reads
  <2> QED
    BY <1>1, <1>2, <1>3, <2>1, <2>2, <2>3
       DEF StatusInv, OrderInv, TruthInv
<1>4. CASE store # None
  <2>1. PICK call : call = Sent("customer")
    OBVIOUS
  <2>2. /\ phone' = [phone EXCEPT !.due = FALSE, !.loading = TRUE]
        /\ wire' = wire \cup {call}
    BY <1>4, <2>1 DEF RefreshAccount
  <2>3. /\ ~phone'.due /\ phone'.loading /\ phone'.busy = phone.busy
        /\ phone'.shown = phone.shown
    BY <2>2, UnderWayTypes DEF Phone
  <2>4. Reads(call) /\ call.customer = store /\ call.read = None
    BY <2>1 DEF Sent, Reads
  <2>5. Reading'
    BY <2>2, <2>4 DEF Reading, Reads
  <2> QED
    BY <1>1, <1>2, <1>4, <2>2, <2>3, <2>4, <2>5
       DEF StatusInv, OrderInv, TruthInv, Reads
<1> QED
  BY <1>3, <1>4

LEMMA PressStatus ==
  ASSUME AppInv, StatusInv, NEW op \in Operations, Press(op)
  PROVE  StatusInv'
<1>1. PICK call : call = Sent(op)
  OBVIOUS
<1>2. /\ ~phone.loading /\ phone.shown # None /\ store # None
      /\ wire' = wire \cup {call}
      /\ phone' = [phone EXCEPT !.busy = TRUE]
      /\ store' = store /\ UNCHANGED <<vars, serving>>
  BY <1>1 DEF Press, UnchangedServer
<1>3. ~phone.due /\ ~Reading
  BY <1>2 DEF StatusInv, OrderInv
<1>4. /\ phone'.due = phone.due /\ phone'.loading = phone.loading
      /\ phone'.shown = phone.shown /\ phone'.outdated = phone.outdated
      /\ phone'.busy
  BY <1>2, UnderWayTypes DEF Phone
<1>5. ~Reads(call)
  BY <1>1 DEF Sent, Reads, Operations
<1>6. ~Reading' /\ \A other \in wire' : ~Reads(other)
  BY <1>2, <1>3, <1>5 DEF Reading, Reads
<1>7. Meddling' = Meddling /\ profile' = profile
  BY <1>2 DEF Meddling, vars, rows
<1> QED
  BY <1>2, <1>3, <1>4, <1>6, <1>7 DEF StatusInv, OrderInv, TruthInv, Reads

LEMMA NoReadingWhileEmptyOrBusy ==
  ASSUME StatusInv, store = None \/ phone.busy
  PROVE  ~Reading /\ \A call \in wire : ~Reads(call)
BY DEF StatusInv, OrderInv, Reading, Reads

LEMMA KillStatus ==
  ASSUME AppInv, StatusInv, Kill
  PROVE  StatusInv'
<1>1. /\ phone' = Opened(disk) /\ store' = disk
      /\ wire' = {Dead(call) : call \in wire}
  BY DEF Kill
<1>2. /\ phone'.shown = None /\ phone'.loading
      /\ ~phone'.busy /\ ~phone'.outdated
  BY <1>1, OpenedFields
<1>3. \A call \in wire' : ~Reads(call)
  BY <1>1, UnderWayTypes DEF Reads
<1>4. ~Reading'
  BY <1>3 DEF Reading, Reads
<1> QED
  BY <1>2, <1>3, <1>4 DEF StatusInv, OrderInv, TruthInv, Reads

\* A call that nobody will answer: an error, or the phone gave up.
LEMMA FailureStatus ==
  ASSUME AppInv, StatusInv, NEW call \in Call, Failed(call), profile' = profile,
         \A other : Reads(other) /\ other # call =>
           (other \in wire' <=> other \in wire),
         call.op = "customer" => call.live /\ call \in wire /\ call \notin wire',
         call.op = "enroll" /\ Meddling => Meddling'
  PROVE  StatusInv'
<1>1. CASE call.op = "enroll"
  <2>1. SameAccount /\ store' = store
    <3>1. /\ phone.outdated \in BOOLEAN /\ phone.loading \in BOOLEAN
          /\ phone \in Phone
      BY UnderWayTypes, PhoneFields
    <3>2. call.op \notin Operations /\ call.op # "customer"
      BY <1>1 DEF Operations
    <3> QED
      BY <1>1, <3>1, <3>2, FailedFields DEF SameAccount
  <2>2. ~Reads(call)
    BY <1>1 DEF Reads
  <2> QED
    BY <1>1, <2>1, <2>2, AccountStays
<1>2. CASE call.op # "enroll"
  <2>1. /\ phone'.outdated /\ store' = store /\ phone'.shown = phone.shown
        /\ phone'.due = phone.due
        /\ phone'.busy => phone.busy
        /\ phone'.loading = (phone.loading /\ call.op # "customer")
    BY <1>2, FailedFields, UnderWayTypes, PhoneFields DEF Call, Operations
  <2>2. CASE call.op = "customer"
    <3>1. Reads(call) /\ call \in wire /\ call \notin wire'
      BY <2>2 DEF Reads
    <3>2. \A other \in wire' : ~Reads(other)
      BY <3>1 DEF StatusInv, OrderInv
    <3>3. ~phone.due /\ ~Reading'
      BY <3>1, <3>2 DEF StatusInv, OrderInv, Reading, Reads
    <3> QED
      BY <2>1, <3>2, <3>3, OutdatedStep
  <2>3. CASE call.op # "customer"
    <3>1. phone'.loading = phone.loading
      BY <2>1, <2>3, UnderWayTypes, PhoneFields
    <3>2. ~Reads(call)
      BY <2>3 DEF Reads
    <3> QED
      BY <2>1, <3>1, <3>2, OutdatedStep
  <2> QED
    BY <2>2, <2>3
<1> QED
  BY <1>1, <1>2

LEMMA GiveUpStatus ==
  ASSUME AppInv, StatusInv, GiveUp
  PROVE  StatusInv'
<1>1. profile' = profile
  BY DEF GiveUp, vars, rows
<1>2. ASSUME NEW call \in wire, call.live, Failed(call),
             wire' = (wire \ {call}) \cup {Dead(call)}, serving' = serving
      PROVE  StatusInv'
  <2>1. call \in Call /\ Dead(call) # call /\ ~Reads(Dead(call))
    BY <1>2, UnderWayTypes DEF Reads
  <2>2. /\ \A other : Reads(other) /\ other # call =>
             (other \in wire' <=> other \in wire)
        /\ call \notin wire'
    BY <1>2, <2>1
  <2>3. store' = store
    BY <1>2 DEF Failed
  <2>4. Meddling' = Meddling
    BY <1>2, <2>3 DEF Meddling
  <2> QED
    BY <1>1, <1>2, <2>1, <2>2, <2>4, FailureStatus
<1>3. ASSUME NEW w \in Workers, Waited(serving[w]), Failed(serving[w]),
             serving' = [serving EXCEPT ![w] = Dead(@)], wire' = wire
      PROVE  StatusInv'
  <2>1. /\ serving[w] # None /\ serving[w] \in Call
        /\ serving[w].op # "customer"
    BY <1>3, UnderWayTypes DEF Waited
  <2>2. /\ serving'[w] = Dead(serving[w]) /\ serving'[w] # None
        /\ serving'[w].op = serving[w].op
        /\ serving'[w].customer = serving[w].customer
        /\ \A v \in Workers : v # w => serving'[v] = serving[v]
    BY <1>3, <2>1, UnderWayTypes DEF Dead, Call
  <2>3. store' = store
    BY <1>3 DEF Failed
  <2>4. Meddling => Meddling'
    BY <2>2, <2>3 DEF Meddling
  <2> QED
    BY <1>1, <1>3, <2>1, <2>4, FailureStatus
<1> QED
  BY <1>2, <1>3 DEF GiveUp

LEMMA RefuseStatus ==
  ASSUME AppInv, StatusInv, NEW call \in wire, Refuse(call)
  PROVE  StatusInv'
<1>1. wire' = wire \ {call} /\ UNCHANGED <<vars, serving>> /\ profile' = profile
  BY DEF Refuse, vars, rows
<1>2. CASE call.live
  <2>1. Failed(call) /\ call \in Call /\ store' = store
    BY <1>2, UnderWayTypes DEF Refuse, Failed
  <2>2. Meddling' = Meddling
    BY <1>1, <2>1 DEF Meddling
  <2> QED
    BY <1>1, <1>2, <2>1, <2>2, FailureStatus
<1>3. CASE ~call.live
  <2>1. phone' = phone /\ store' = store
    BY <1>3 DEF Refuse
  <2>2. SameAccount /\ Meddling' = Meddling
    BY <1>1, <2>1 DEF SameAccount, Meddling
  <2>3. ~Reads(call)
    BY <1>3 DEF Reads
  <2> QED
    BY <1>1, <2>1, <2>2, <2>3, AccountStays
<1> QED
  BY <1>2, <1>3

LEMMA GetCustomerStatus ==
  ASSUME AppInv, StatusInv, NEW call \in wire, GetCustomer(call)
  PROVE  StatusInv'
<1>1. PICK read : /\ read = [call EXCEPT !.read = profile[call.customer].status]
                  /\ wire' = (wire \ {call}) \cup {read}
  BY DEF GetCustomer
<1>2. /\ call \in Call /\ call.op = "customer"
      /\ phone' = [phone EXCEPT !.outdated = @ /\ ~call.live]
      /\ profile' = profile /\ serving' = serving /\ store' = store
  BY UnderWayTypes DEF GetCustomer, vars, rows
<1>3. /\ read.op = "customer" /\ read.live = call.live
      /\ read.customer = call.customer
      /\ read.read = profile[call.customer].status
  BY <1>1, <1>2 DEF Call
<1>4. /\ phone'.shown = phone.shown /\ phone'.due = phone.due
      /\ phone'.loading = phone.loading /\ phone'.busy = phone.busy
      /\ phone'.screen = phone.screen
      /\ phone'.outdated = (phone.outdated /\ ~call.live)
  BY <1>2, UnderWayTypes DEF Phone
<1>5. Meddling' = Meddling
  BY <1>2 DEF Meddling
<1>6. CASE call.live
  <2>1. Reads(call) /\ Reads(read)
    BY <1>2, <1>3, <1>6 DEF Reads
  <2>2. \A other \in wire' : Reads(other) => other = read
    BY <1>1, <2>1 DEF StatusInv, OrderInv
  <2>3. Reading /\ Reading'
    BY <1>1, <2>1 DEF Reading, Reads
  <2>4. call.customer = store /\ store # None
    BY <2>1 DEF StatusInv, OrderInv
  <2>5. OrderInv'
    BY <1>2, <1>3, <1>4, <2>2, <2>3, <2>4 DEF StatusInv, OrderInv, Reads
  <2>6. TruthInv'
    BY <1>2, <1>3, <2>2, <2>3, <2>4 DEF TruthInv, Reads
  <2> QED
    BY <2>5, <2>6 DEF StatusInv
<1>7. CASE ~call.live
  <2>1. ~Reads(call) /\ ~Reads(read)
    BY <1>2, <1>3, <1>7 DEF Reads
  <2>2. SameAccount
    BY <1>4, <1>7, UnderWayTypes, PhoneFields DEF SameAccount
  <2> QED
    BY <1>1, <1>2, <1>5, <2>1, <2>2, AccountStays
<1>8. call.live \in BOOLEAN
  BY <1>2 DEF Call
<1> QED
  BY <1>6, <1>7

LEMMA ReadingArrivesStatus ==
  ASSUME AppInv, StatusInv, NEW call \in wire, ReadingArrives(call)
  PROVE  StatusInv'
<1>1. /\ call.read # None /\ call.live /\ call \in Call
      /\ wire' = wire \ {call}
      /\ phone' = [phone EXCEPT !.loading = FALSE, !.shown = call.read]
      /\ profile' = profile /\ serving' = serving /\ store' = store
  BY UnderWayTypes DEF ReadingArrives, vars, rows
<1>2. Reads(call)
  BY <1>1, UnderWayTypes DEF Reads, Plain
<1>3. /\ \A other \in wire' : ~Reads(other)
      /\ Reading /\ store # None /\ call.customer = store
  BY <1>1, <1>2 DEF StatusInv, OrderInv, Reading, Reads
<1>4. ~Reading'
  BY <1>3 DEF Reading, Reads
<1>5. /\ phone'.shown = call.read /\ phone'.due = phone.due
      /\ phone'.busy = phone.busy /\ phone'.outdated = phone.outdated
  BY <1>1, UnderWayTypes DEF Phone
<1>6. Meddling' = Meddling
  BY <1>1 DEF Meddling
<1>7. ~phone.due /\ ~phone.busy
  BY <1>3 DEF StatusInv, OrderInv
<1>8. OrderInv'
  BY <1>1, <1>3, <1>4, <1>5, <1>7 DEF OrderInv, Reads
<1>9. TruthInv'
  BY <1>1, <1>2, <1>3, <1>5, <1>6 DEF StatusInv, TruthInv, Reads
<1> QED
  BY <1>8, <1>9 DEF StatusInv

\* A worker begins or goes on: the account is being worked on.
LEMMA TakeStatus ==
  ASSUME AppInv, StatusInv, NEW w \in Workers, NEW call \in wire,
         ServeEnroll(w, call) \/ ServeOwn(w, call)
  PROVE  StatusInv'
<1>1. PICK c : Take(w, call, c) /\ At(w, "idle") /\ profile' = profile
  BY DEF ServeEnroll, ServeOwn, EnrollBegin, WithdrawBegin, RestoreBegin,
         ReplaceBegin, EraseBegin, Begin, rows
<1>2. /\ wire' = wire \ {call} /\ phone' = phone /\ store' = store
      /\ \E taken : serving' = [serving EXCEPT ![w] = taken]
  BY <1>1 DEF Take
<1>3. serving[w] = None
  BY <1>1 DEF AppInv, Serves
<1>4. Meddling => Meddling'
  BY <1>2, <1>3, UnderWayTypes DEF Meddling
<1>5. ~Reads(call)
  BY DEF ServeEnroll, ServeOwn, Reads
<1> QED
  BY <1>1, <1>2, <1>4, <1>5, AccountStays DEF SameAccount

LEMMA OnlyWhereAtWork ==
  ASSUME AppInv, NEW w \in Workers, StatusMoves(w), ~At(w, "idle"),
         store # None,
         serving[w].op = "enroll" =>
           profile' = profile \/ At(w, "create_profile")
  PROVE  \/ profile'[store].status = profile[store].status
         \/ /\ serving[w] # None /\ serving[w].op \in Operations
            /\ serving[w].customer = store
<1>1. /\ serving[w] # None /\ serving[w] \in Call /\ serving[w].op # "customer"
      /\ serving[w].customer = Of(w)
  BY UnderWayTypes DEF AppInv, Serves
<1>2. store \in Customers /\ profile[store].status # "none"
  BY DEF AppInv, AppTypeOK, StoreInv
<1>3. CASE serving[w].op = "enroll"
  BY <1>2, <1>3 DEF StatusMoves
<1>4. CASE serving[w].op # "enroll"
  BY <1>1, <1>2, <1>4 DEF StatusMoves, Call, Operations
<1> QED
  BY <1>3, <1>4

\* A handler of enroll writes the profile with its first call only.
LEMMA EnrollmentWrites ==
  ASSUME AppInv, NEW w \in Workers, worker[w].pc \in EnrollPcs,
         HandlerStep(w) \/ HandlerEnds(w) \/ StorageFault(w)
  PROVE  profile' = profile \/ At(w, "create_profile")
BY DEF HandlerStep, HandlerEnds, AddFirstTemplate, RecordConsent,
       CreateProfile, CreateCredential, EnrollAnswer, Suspend, Grant,
       CryptoShred, WithdrawErased, RevokeCredentials, Withdraw, Activate,
       UpdatePaymentToken, AlreadyShredded, AuditErasure, StorageFault, At,
       EnrollPcs, rows

LEMMA WorkStatus ==
  ASSUME AppInv, StatusInv, NEW w \in Workers, Work(w)
  PROVE  StatusInv'
<1>1. HandlerStep(w) /\ UNCHANGED <<phone, store, wire, serving>>
  BY DEF Work, phoneVars
<1>2. StatusMoves(w) /\ ~At(w, "idle")
  BY <1>1, HandlerMoves
     DEF HandlerStep, CreateProfile, AddFirstTemplate, RecordConsent,
         CreateCredential, Suspend, Grant, CryptoShred, WithdrawErased,
         RevokeCredentials, At, AppInv
<1>3. serving[w].op = "enroll" =>
        profile' = profile \/ At(w, "create_profile")
  BY <1>1, <1>2, EnrollmentWrites DEF AppInv, Serves, PcsOf
<1>4. Meddling' = Meddling /\ SameAccount
  BY <1>1 DEF Meddling, SameAccount
<1>5. store # None /\ ~Meddling => profile'[store].status = profile[store].status
  BY <1>2, <1>3, OnlyWhereAtWork DEF Meddling
<1> QED
  BY <1>1, <1>4, <1>5, AccountStays

LEMMA AnswerStatus ==
  ASSUME AppInv, StatusInv, NEW w \in Workers, AnswerArrives(w)
  PROVE  StatusInv'
<1>1. wire' = wire
  BY DEF AnswerArrives
<1>2. CASE serving[w].op = "enroll"
  <2>1. /\ Enrolled(Of(w)) /\ Of(w) \in Customers /\ store = None
        /\ phone.step \in {"DETAILS", "DONE"}
    BY <1>2, AnsweredEnrollment
  <2>2. /\ store' # None /\ phone'.due /\ phone'.shown = phone.shown
        /\ phone'.busy = phone.busy
    BY <2>1, EnrolledFields, UnderWayTypes, AccountsAssumption
  <2>3. \A call \in wire : ~Reads(call)
    BY <2>1, NoReadingWhileEmptyOrBusy
  <2>4. phone.shown = None /\ ~phone.busy
    BY <2>1 DEF StatusInv, OrderInv
  <2>5. ~Reading'
    BY <1>1, <2>3 DEF Reading, Reads
  <2> QED
    BY <1>1, <2>2, <2>3, <2>4, <2>5 DEF StatusInv, OrderInv, TruthInv, Reads
<1>3. CASE serving[w].op # "enroll"
  <2>1. /\ phone.busy /\ store # None
        /\ ErasedOk \/ Done
    BY <1>3, AnsweredOperation, AccountsAssumption
  <2>2. \A call \in wire : ~Reads(call)
    BY <2>1, NoReadingWhileEmptyOrBusy
  <2>3. ~Reading'
    BY <1>1, <2>2 DEF Reading, Reads
  <2>4. CASE ErasedOk
    <3>1. store' = None /\ phone'.shown = None /\ ~phone'.due /\ ~phone'.busy
      BY <2>4, ErasedFields, UnderWayTypes
    <3> QED
      BY <1>1, <2>2, <2>3, <3>1 DEF StatusInv, OrderInv, TruthInv, Reads
  <2>5. CASE Done
    <3>1. store' = store /\ phone'.due /\ phone'.loading /\ ~phone'.busy
      BY <2>5, DoneFields, UnderWayTypes
    <3> QED
      BY <1>1, <2>1, <2>2, <2>3, <3>1 DEF StatusInv, OrderInv, TruthInv, Reads
  <2> QED
    BY <2>1, <2>4, <2>5
<1> QED
  BY <1>2, <1>3

LEMMA ErrorStatus ==
  ASSUME AppInv, StatusInv, NEW w \in Workers, ErrorArrives(w)
  PROVE  StatusInv'
<1>1. /\ StorageFault(w) /\ HungUp(w) /\ wire' = wire /\ Failed(serving[w])
      /\ serving[w] \in Call /\ serving[w] # None
      /\ serving[w].op # "customer"
  BY Served DEF ErrorArrives
<1>2. profile' = profile /\ store' = store
  BY <1>1 DEF StorageFault, rows, Failed
<1>3. serving[w].op = "enroll" /\ Meddling => Meddling'
  <2>1. \A v \in Workers : v # w => serving'[v] = serving[v]
    BY <1>1, UnderWayTypes DEF HungUp
  <2> QED
    BY <1>2, <2>1 DEF Meddling, Operations
<1> QED
  BY <1>1, <1>2, <1>3, FailureStatus

LEMMA UnheardStatus ==
  ASSUME AppInv, StatusInv, NEW w \in Workers, NobodyWaits(w)
  PROVE  StatusInv'
<1>1. wire' = wire /\ Unheard
  BY DEF NobodyWaits
<1> QED
  BY <1>1, UnheardFields, OutdatedStep, UnderWayTypes

LEMMA StatusStep ==
  ASSUME OneScan, InOrder, AppInv, StatusInv, [AppNext]_appVars
  PROVE  StatusInv'
<1>1. ASSUME SameAccount, UNCHANGED <<vars, store, wire, serving>>
      PROVE  StatusInv'
  <2>1. profile' = profile /\ Meddling' = Meddling
    BY <1>1 DEF Meddling, vars, rows
  <2> QED
    BY <1>1, <2>1, AccountStays
<1>2. CASE ScanStep
  BY <1>1, <1>2, ScanSteps, UnderWayTypes DEF Local, UnchangedServer
<1>3. CASE CompleteSetup
  <2>1. PICK call : call = Sent("enroll")
    OBVIOUS
  <2>2. /\ wire' = wire \cup {call} /\ phone' = [phone EXCEPT !.setupBusy = TRUE]
        /\ UNCHANGED <<vars, store, serving>>
    BY <1>3, <2>1 DEF CompleteSetup, UnchangedServer
  <2>3. SameAccount
    BY <2>2, UnderWayTypes DEF Phone, SameAccount
  <2>4. ~Reads(call)
    BY <2>1 DEF Sent, Reads
  <2>5. profile' = profile /\ Meddling' = Meddling
    BY <2>2 DEF Meddling, vars, rows
  <2> QED
    BY <2>2, <2>3, <2>4, <2>5, AccountStays
<1>4. CASE Reopen \/ RefreshAccount
  BY <1>4, ReopenStatus, RefreshStatus
<1>5. ASSUME NEW op \in Operations, Press(op) PROVE StatusInv'
  BY <1>5, PressStatus
<1>6. CASE GiveUp \/ Kill
  BY <1>6, GiveUpStatus, KillStatus
<1>7. CASE Flush \/ UNCHANGED appVars
  BY <1>1, <1>7 DEF Flush, appVars, phoneVars, SameAccount
<1>8. CASE LoseRequest
  <2>1. /\ \A call : Reads(call) => (call \in wire' <=> call \in wire)
        /\ UNCHANGED <<vars, phone, store, serving>>
    BY <1>8 DEF LoseRequest, Reads
  <2>2. SameAccount /\ profile' = profile /\ Meddling' = Meddling
    BY <2>1 DEF Meddling, vars, rows, SameAccount
  <2> QED
    BY <2>1, <2>2, AccountStays
<1>9. ASSUME NEW call \in wire,
             Refuse(call) \/ GetCustomer(call) \/ ReadingArrives(call)
      PROVE  StatusInv'
  BY <1>9, RefuseStatus, GetCustomerStatus, ReadingArrivesStatus
<1>10. ASSUME NEW call \in wire, NEW w \in Workers,
              ServeEnroll(w, call) \/ ServeOwn(w, call)
       PROVE  StatusInv'
  BY <1>10, TakeStatus
<1>11. ASSUME NEW w \in Workers,
              \/ Work(w) \/ AnswerArrives(w)
              \/ ErrorArrives(w) \/ NobodyWaits(w)
       PROVE  StatusInv'
  BY <1>11, WorkStatus, AnswerStatus, ErrorStatus, UnheardStatus
<1> QED
  BY <1>2, <1>3, <1>4, <1>5, <1>6, <1>7, <1>8, <1>9, <1>10, <1>11
     DEF AppNext, ScanStep, Operations

(***************************************************************************)
(* Unless the account screen is reopened while it is busy, the status it   *)
(* shows is the account's whenever nothing is under way, also after the    *)
(* app was killed, and although handlers that the phone gave up go on.     *)
(***************************************************************************)
THEOREM StatusShownIsTrue ==
  ASSUME OneScan, InOrder
  PROVE  AppSpec => []StatusIsTrue
<1>1. AppInit => StatusInv
  <2> SUFFICES ASSUME AppInit PROVE StatusInv
    OBVIOUS
  <2>1. phone.shown = None /\ ~phone.due /\ ~phone.busy /\ wire = {}
    BY DEF AppInit, Opened
  <2> QED
    BY <2>1 DEF StatusInv, OrderInv, TruthInv, Reading
<1>2. AppInv /\ StatusInv /\ [AppNext]_appVars => StatusInv'
  BY StatusStep
<1>3. StatusInv => StatusIsTrue
  BY DEF StatusInv, TruthInv, StatusIsTrue, Reading, Meddling
<1> QED
  BY <1>1, <1>2, <1>3, AppInvariance, PTL DEF AppSpec
=============================================================================
