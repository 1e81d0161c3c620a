------------------------------ MODULE Accounts ------------------------------
(***************************************************************************)
(* The life of a customer's account: enrollment, further palms, consent,   *)
(* the card on file, erasure (services/enrollment.py, account.py), and the *)
(* keys that protect it (crypto/kms.py, services/maintenance.py).          *)
(*                                                                         *)
(* As in Payments, a handler is a sequence of calls that commit one by     *)
(* one.  A worker is a server process: it runs one handler at a time and   *)
(* keeps its own copy of the key file, read when it started.               *)
(*                                                                         *)
(* A data encryption key (DEK) is represented by the KEK it is wrapped     *)
(* under; None is a wrapped_dek column that is empty.  What is sealed      *)
(* under a DEK is there or not there.                                      *)
(***************************************************************************)
EXTENDS Integers

CONSTANTS
  Workers,
  Customers,     \* pool of customer identifiers
  Labels,        \* names of palms
  Primary,       \* the label of the palm that is enrolled first
  Keks,          \* pool of key encryption keys
  Faults,        \* what may go wrong: a subset of FaultKinds
  None

FaultKinds == {"storage", "restart"}

ASSUME AccountsAssumption ==
  /\ Primary \in Labels
  /\ Faults \subseteq FaultKinds
  /\ None \notin Customers \cup Labels \cup Keks

VARIABLES
  profile,       \* the profiles table
  templates,     \* how many palm_templates rows there are under each label
  consent,       \* "given" while a consents row is not withdrawn
  credential,    \* the credentials table: one row per customer
  device,        \* customers whose phone received its credential
  erasures,      \* customers with an erasure row in the audit log
  keystore,      \* the key file
  keyring,       \* each process's copy of it
  created,       \* history: every KEK ever created
  worker

rows == <<profile, templates, consent, credential, erasures>>
keyVars == <<keystore, keyring, created>>
vars == <<rows, device, keyVars, worker>>

Statuses == {"active", "suspended", "shredded"}
Profile ==
  [status : Statuses \cup {"none"}, kek : Keks \cup {None}, token : BOOLEAN]
NoProfile == [status |-> "none", kek |-> None, token |-> FALSE]
KeyRing == {ring \in [active : Keks, held : SUBSET Keks] :
              ring.active \in ring.held}

(***************************************************************************)
(* pc names the call a handler makes next.                                 *)
(***************************************************************************)
EnrollPcs ==
  {"create_profile", "add_template", "record_consent", "create_credential",
   "answer"}
AccountPcs ==
  {"add_palm", "suspend", "withdraw", "grant", "activate",
   "update_payment_token"}
ErasePcs ==
  {"crypto_shred", "withdraw_erased", "revoke_credentials", "audit_erasure"}
KeyPcs == {"update_wrapped_dek", "destroy_kek"}

Job ==
  [pc : {"idle"} \cup EnrollPcs \cup AccountPcs \cup ErasePcs \cup KeyPcs,
   customer : Customers \cup {None}, label : Labels \cup {None},
   kek : Keks \cup {None}, todo : SUBSET Customers]
Idle ==
  [pc |-> "idle", customer |-> None, label |-> None, kek |-> None, todo |-> {}]

Init ==
  /\ profile = [c \in Customers |-> NoProfile]
  /\ templates = [c \in Customers |-> [l \in Labels |-> 0]]
  /\ consent = [c \in Customers |-> "none"]
  /\ credential = [c \in Customers |-> "none"]
  /\ device = {}
  /\ erasures = {}
  /\ \E k \in Keks :
       /\ keystore = [active |-> k, held |-> {k}]
       /\ created = {k}
  /\ keyring = [w \in Workers |-> keystore]
  /\ worker = [w \in Workers |-> Idle]

-----------------------------------------------------------------------------
At(w, pc) == worker[w].pc = pc
Advance(w, pc) == worker' = [worker EXCEPT ![w].pc = pc]
Finish(w) == worker' = [worker EXCEPT ![w] = Idle]
Begin(w, job) == At(w, "idle") /\ worker' = [worker EXCEPT ![w] = job]
Of(w) == worker[w].customer

(***************************************************************************)
(* enroll, once consent, samples and card are accepted: the identifier is  *)
(* new, and the DEK is wrapped before the first row is written.            *)
(***************************************************************************)
EnrollBegin(w, c) ==
  /\ profile[c] = NoProfile
  /\ \A v \in Workers : Of(v) # c
  /\ Begin(w, [Idle EXCEPT !.pc = "create_profile", !.customer = c,
                           !.label = Primary, !.kek = keyring[w].active])
  /\ UNCHANGED <<rows, device, keyVars>>

CreateProfile(w) ==
  /\ At(w, "create_profile")
  /\ profile' = [profile EXCEPT ![Of(w)] =
       [status |-> "active", kek |-> worker[w].kek, token |-> TRUE]]
  /\ Advance(w, "add_template")
  /\ UNCHANGED <<templates, consent, credential, erasures, device, keyVars>>

InsertTemplate(w) ==
  templates' = [templates EXCEPT ![Of(w)][worker[w].label] = @ + 1]

AddFirstTemplate(w) ==
  /\ At(w, "add_template")
  /\ InsertTemplate(w)
  /\ Advance(w, "record_consent")
  /\ UNCHANGED <<profile, consent, credential, erasures, device, keyVars>>

RecordConsent(w) ==
  /\ At(w, "record_consent")
  /\ consent' = [consent EXCEPT ![Of(w)] = "given"]
  /\ Advance(w, "create_credential")
  /\ UNCHANGED <<profile, templates, credential, erasures, device, keyVars>>

CreateCredential(w) ==
  /\ At(w, "create_credential")
  /\ credential' = [credential EXCEPT ![Of(w)] = "active"]
  /\ Advance(w, "answer")
  /\ UNCHANGED <<profile, templates, consent, erasures, device, keyVars>>

\* The audit row, and the answer: the only copy of the customer's secret.
EnrollAnswer(w) ==
  /\ At(w, "answer")
  /\ device' = device \cup {Of(w)}
  /\ Finish(w)
  /\ UNCHANGED <<rows, keyVars>>

-----------------------------------------------------------------------------
(***************************************************************************)
(* The account operations.  The caller proves to be the customer, and the  *)
(* profile is read; what was read is used until the handler ends.          *)
(***************************************************************************)
Authenticated(c) == c \in device /\ credential[c] = "active"
Readable(w, c) == profile[c].kek \in keyring[w].held

AddPalmBegin(w, c, label) ==
  /\ Authenticated(c)
  /\ profile[c].status = "active"
  /\ templates[c][label] = 0
  /\ Readable(w, c)
  /\ Begin(w, [Idle EXCEPT !.pc = "add_palm", !.customer = c,
                           !.label = label])
  /\ UNCHANGED <<rows, device, keyVars>>

AddPalm(w) ==
  /\ At(w, "add_palm")
  /\ InsertTemplate(w)
  /\ Finish(w)
  /\ UNCHANGED <<profile, consent, credential, erasures, device, keyVars>>

\* A slip: a tombstone is moved like any other profile.
SetAnyStatus(c, status) == [profile EXCEPT ![c].status = status]

\* A shredded profile is not touched.
SetProfileStatus(c, status) ==
  IF profile[c].status = "shredded" THEN profile
  ELSE [profile EXCEPT ![c].status = status]

\* Every row of this customer that is not withdrawn yet.
WithdrawConsent(c) ==
  [consent EXCEPT ![c] = IF @ = "given" THEN "withdrawn" ELSE @]

\* A slip: the consent is withdrawn first.
WithdrawBeforeSuspending(w, c) ==
  /\ Authenticated(c)
  /\ profile[c].status # "shredded"
  /\ Begin(w, [Idle EXCEPT !.pc = "suspend", !.customer = c])
  /\ consent' = WithdrawConsent(c)
  /\ UNCHANGED <<profile, templates, credential, erasures, device, keyVars>>

WithdrawBegin(w, c) ==
  /\ Authenticated(c)
  /\ profile[c].status # "shredded"
  /\ Begin(w, [Idle EXCEPT !.pc = "suspend", !.customer = c])
  /\ UNCHANGED <<rows, device, keyVars>>

Suspend(w) ==
  /\ At(w, "suspend")
  /\ profile' = SetProfileStatus(Of(w), "suspended")
  /\ Advance(w, "withdraw")
  /\ UNCHANGED <<templates, consent, credential, erasures, device, keyVars>>

Withdraw(w) ==
  /\ At(w, "withdraw")
  /\ consent' = WithdrawConsent(Of(w))
  /\ Finish(w)
  /\ UNCHANGED <<profile, templates, credential, erasures, device, keyVars>>

RestoreBegin(w, c) ==
  /\ Authenticated(c)
  /\ profile[c].status # "shredded"
  /\ Begin(w, [Idle EXCEPT !.pc = "grant", !.customer = c])
  /\ UNCHANGED <<rows, device, keyVars>>

Grant(w) ==
  /\ At(w, "grant")
  /\ consent' = [consent EXCEPT ![Of(w)] = "given"]
  /\ Advance(w, "activate")
  /\ UNCHANGED <<profile, templates, credential, erasures, device, keyVars>>

\* Whether the profile could be moved is not asked: the answer is "active".
Activate(w) ==
  /\ At(w, "activate")
  /\ profile' = SetProfileStatus(Of(w), "active")
  /\ Finish(w)
  /\ UNCHANGED <<templates, consent, credential, erasures, device, keyVars>>

ReplaceBegin(w, c) ==
  /\ Authenticated(c)
  /\ profile[c].status # "shredded"
  /\ Readable(w, c)
  /\ Begin(w, [Idle EXCEPT !.pc = "update_payment_token", !.customer = c])
  /\ UNCHANGED <<rows, device, keyVars>>

UpdatePaymentToken(w) ==
  /\ At(w, "update_payment_token")
  /\ profile' = [profile EXCEPT ![Of(w)].token = TRUE]
  /\ Finish(w)
  /\ UNCHANGED <<templates, consent, credential, erasures, device, keyVars>>

-----------------------------------------------------------------------------
(***************************************************************************)
(* delete_customer: the shred is one transaction; what follows it happens  *)
(* only in the handler that shredded.                                      *)
(***************************************************************************)
EraseBegin(w, c) ==
  /\ Authenticated(c)
  /\ Begin(w, [Idle EXCEPT !.pc = "crypto_shred", !.customer = c])
  /\ UNCHANGED <<rows, device, keyVars>>

Tombstone == [status |-> "shredded", kek |-> None, token |-> FALSE]

\* A slip: the palms of an erased customer stay in their table.
ShredKeepingTemplates(w) ==
  /\ At(w, "crypto_shred")
  /\ profile[Of(w)].status # "shredded"
  /\ profile' = [profile EXCEPT ![Of(w)] = Tombstone]
  /\ Advance(w, "withdraw_erased")
  /\ UNCHANGED <<templates, consent, credential, erasures, device, keyVars>>

CryptoShred(w) ==
  /\ At(w, "crypto_shred")
  /\ profile[Of(w)].status # "shredded"
  /\ profile' = [profile EXCEPT ![Of(w)] = Tombstone]
  /\ templates' = [templates EXCEPT ![Of(w)] = [l \in Labels |-> 0]]
  /\ Advance(w, "withdraw_erased")
  /\ UNCHANGED <<consent, credential, erasures, device, keyVars>>

AlreadyShredded(w) ==
  /\ At(w, "crypto_shred")
  /\ profile[Of(w)].status = "shredded"
  /\ Finish(w)
  /\ UNCHANGED <<rows, device, keyVars>>

\* A slip: the erasure is logged before the credentials are revoked.
WithdrawErasedAndLog(w) ==
  /\ At(w, "withdraw_erased")
  /\ consent' = WithdrawConsent(Of(w))
  /\ erasures' = erasures \cup {Of(w)}
  /\ Advance(w, "revoke_credentials")
  /\ UNCHANGED <<profile, templates, credential, device, keyVars>>

WithdrawErased(w) ==
  /\ At(w, "withdraw_erased")
  /\ consent' = WithdrawConsent(Of(w))
  /\ Advance(w, "revoke_credentials")
  /\ UNCHANGED <<profile, templates, credential, erasures, device, keyVars>>

RevokeCredentials(w) ==
  /\ At(w, "revoke_credentials")
  /\ credential' = [credential EXCEPT ![Of(w)] = "revoked"]
  /\ Advance(w, "audit_erasure")
  /\ UNCHANGED <<profile, templates, consent, erasures, device, keyVars>>

AuditErasure(w) ==
  /\ At(w, "audit_erasure")
  /\ erasures' = erasures \cup {Of(w)}
  /\ Finish(w)
  /\ UNCHANGED <<profile, templates, consent, credential, device, keyVars>>

-----------------------------------------------------------------------------
(***************************************************************************)
(* Keys.  A process changes its own copy and overwrites the file with it.  *)
(***************************************************************************)
SaveKeys(w, ring) ==
  /\ keyring' = [keyring EXCEPT ![w] = ring]
  /\ keystore' = ring

\* A slip: the new KEK is made active and not kept.
RotateForgettingKey(w, k) ==
  /\ At(w, "idle")
  /\ k \notin created
  /\ SaveKeys(w, [keyring[w] EXCEPT !.active = k])
  /\ created' = created \cup {k}
  /\ UNCHANGED <<rows, device, worker>>

RotateKek(w, k) ==
  /\ At(w, "idle")
  /\ k \notin created
  /\ SaveKeys(w, [active |-> k, held |-> keyring[w].held \cup {k}])
  /\ created' = created \cup {k}
  /\ UNCHANGED <<rows, device, worker>>

\* The profiles, read at once, whose DEK is under another KEK that is held.
ToRewrap(w) ==
  {c \in Customers : /\ profile[c].status # "shredded"
                     /\ profile[c].kek \in
                          keyring[w].held \ {keyring[w].active}}

RewrapBegin(w) ==
  /\ ToRewrap(w) # {}
  /\ Begin(w, [Idle EXCEPT !.pc = "update_wrapped_dek", !.todo = ToRewrap(w)])
  /\ UNCHANGED <<rows, device, keyVars>>

UpdateWrappedDek(w, c) ==
  /\ At(w, "update_wrapped_dek")
  /\ c \in worker[w].todo
  /\ profile' = [profile EXCEPT ![c].kek = keyring[w].active]
  /\ IF worker[w].todo = {c} THEN Finish(w)
     ELSE worker' = [worker EXCEPT ![w].todo = @ \ {c}]
  /\ UNCHANGED <<templates, consent, credential, erasures, device, keyVars>>

\* A slip: suspended profiles are not counted as users of their KEK.
RetiredForActive(w) ==
  {k \in keyring[w].held \ {keyring[w].active} :
     \A c \in Customers :
       profile[c].status = "active" => profile[c].kek # k}

\* retired_keks: the KEKs no live profile references.
RetiredKeks(w) ==
  {k \in keyring[w].held \ {keyring[w].active} :
     \A c \in Customers :
       profile[c].status # "shredded" => profile[c].kek # k}

\* The operator destroys a KEK that a rewrap reported as retired.
DestroyBegin(w, k) ==
  /\ k \in RetiredKeks(w)
  /\ Begin(w, [Idle EXCEPT !.pc = "destroy_kek", !.kek = k])
  /\ UNCHANGED <<rows, device, keyVars>>

DestroyKek(w) ==
  /\ At(w, "destroy_kek")
  /\ SaveKeys(w, [keyring[w] EXCEPT !.held = @ \ {worker[w].kek}])
  /\ Finish(w)
  /\ UNCHANGED <<rows, device, created>>

-----------------------------------------------------------------------------
(***************************************************************************)
(* Failures: a call to the repository raises and the handler ends there;   *)
(* or a process is restarted and reads the key file again.  A failure of   *)
(* the last call of enroll also stands for an answer that is lost.         *)
(***************************************************************************)
StorageFault(w) ==
  /\ "storage" \in Faults
  /\ ~At(w, "idle")
  /\ ~At(w, "destroy_kek")
  /\ Finish(w)
  /\ UNCHANGED <<rows, device, keyVars>>

Restart(w) ==
  /\ "restart" \in Faults
  /\ keyring' = [keyring EXCEPT ![w] = keystore]
  /\ Finish(w)
  /\ UNCHANGED <<rows, device, keystore, created>>

WorkerStep(w) ==
  \/ CreateProfile(w) \/ AddFirstTemplate(w) \/ RecordConsent(w)
  \/ CreateCredential(w) \/ EnrollAnswer(w)
  \/ AddPalm(w) \/ Suspend(w) \/ Withdraw(w) \/ Grant(w) \/ Activate(w)
  \/ UpdatePaymentToken(w)
  \/ CryptoShred(w) \/ AlreadyShredded(w) \/ WithdrawErased(w)
  \/ RevokeCredentials(w) \/ AuditErasure(w)
  \/ \E c \in Customers : UpdateWrappedDek(w, c)
  \/ DestroyKek(w)
  \/ StorageFault(w) \/ Restart(w)

Next ==
  \E w \in Workers :
    \/ \E c \in Customers :
         \/ EnrollBegin(w, c)
         \/ \E label \in Labels : AddPalmBegin(w, c, label)
         \/ WithdrawBegin(w, c) \/ RestoreBegin(w, c)
         \/ ReplaceBegin(w, c) \/ EraseBegin(w, c)
    \/ RewrapBegin(w)
    \/ \E k \in Keks : RotateKek(w, k) \/ DestroyBegin(w, k)
    \/ WorkerStep(w)

Spec == Init /\ [][Next]_vars

-----------------------------------------------------------------------------
TypeOK ==
  /\ profile \in [Customers -> Profile]
  /\ templates \in [Customers -> [Labels -> Nat]]
  /\ consent \in [Customers -> {"none", "given", "withdrawn"}]
  /\ credential \in [Customers -> {"none", "active", "revoked"}]
  /\ device \subseteq Customers
  /\ erasures \subseteq Customers
  /\ keystore \in KeyRing
  /\ keyring \in [Workers -> KeyRing]
  /\ created \subseteq Keks
  /\ worker \in [Workers -> Job]

Quiet == \A w \in Workers : At(w, "idle")
Live(c) == profile[c].status \in {"active", "suspended"}
Erased(c) == profile[c].status = "shredded"

(***************************************************************************)
(* A profile that is not erased can be opened: it keeps its wrapped DEK    *)
(* and the card sealed under it, whichever handlers overlap or fail.  "No  *)
(* account that exists but can never be read" (repository.py).             *)
(***************************************************************************)
LiveProfilesAreWhole ==
  \A c \in Customers : Live(c) => profile[c].kek # None /\ profile[c].token

(***************************************************************************)
(* Erasure is for good: a tombstone never becomes an account again, not by *)
(* a consent restored at the same moment either.                           *)
(***************************************************************************)
NeverResurrected ==
  [][\A c \in Customers : Erased(c) => Erased(c)']_vars

(***************************************************************************)
(* An erasure row in the audit log is evidence: the profile is a tombstone *)
(* and its credentials are revoked, whatever else was going on.            *)
(***************************************************************************)
ErasureLogged ==
  \A c \in erasures : Erased(c) /\ credential[c] = "revoked"

(***************************************************************************)
(* One handler at a time, whichever call fails: nothing of an erased       *)
(* customer is left, and no later handler puts any of it back.             *)
(***************************************************************************)
NothingLeft ==
  \A c \in Customers :
    Erased(c) => /\ profile[c] = Tombstone
                 /\ \A l \in Labels : templates[c][l] = 0

(***************************************************************************)
(* One handler at a time, whichever call fails: once a customer has a      *)
(* credential, the palm is active only under a consent that is on record.  *)
(* Withdrawing suspends first and restoring records the grant first.       *)
(***************************************************************************)
ConsentCovers ==
  \A c \in Customers :
    profile[c].status = "active" /\ credential[c] = "active" =>
      consent[c] = "given"

(***************************************************************************)
(* In one process, through rotations, rewraps, restarts and failures, the  *)
(* KEK of every live profile is in the key file and in the process: only a *)
(* KEK that no profile needs is destroyed (maintenance.py).                *)
(***************************************************************************)
KeysKept ==
  \A c \in Customers :
    Live(c) => /\ profile[c].kek \in keystore.held
               /\ \A w \in Workers : Readable(w, c)

(***************************************************************************)
(* "Otherwise a device still holding a credential could keep               *)
(* authenticating against the shredded profile" (enrollment.py): between   *)
(* handlers, an erased customer has no credential and no consent.  The     *)
(* code keeps this only while no call fails after the shred (README).      *)
(***************************************************************************)
ErasureEndsAccess ==
  Quiet => \A c \in Customers :
    Erased(c) => credential[c] # "active" /\ consent[c] # "given"

(***************************************************************************)
(* "Re-creating key material for an erased customer would undo the         *)
(* erasure" (maintenance.py): a tombstone has no wrapped DEK.  The code    *)
(* keeps this only while no rewrap runs beside an erasure (README).        *)
(***************************************************************************)
ErasedKeyIsGone ==
  \A c \in Customers : Erased(c) => profile[c].kek = None
=============================================================================
