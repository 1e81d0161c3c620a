--------------------------- MODULE AccountsProofs ---------------------------
(***************************************************************************)
(* What holds of the accounts whichever processes overlap, whichever call  *)
(* fails and whatever is restarted; and, in the last part, what holds in   *)
(* one process.                                                            *)
(***************************************************************************)
EXTENDS Accounts, TLAPS

\* Calls made before the customer has a credential.
Enrolling == {"create_profile", "add_template", "record_consent",
              "create_credential"}

\* Calls of a handler that shredded the profile.
Shredded == {"withdraw_erased", "revoke_credentials", "audit_erasure"}

CustomerPcs == EnrollPcs \cup AccountPcs \cup ErasePcs

\* What a handler may rely on about its customer, at each of its calls.
JobOK(w) ==
  /\ worker[w].pc \in CustomerPcs => Of(w) \in Customers
  /\ worker[w].pc \in CustomerPcs \ {"create_profile"} =>
       profile[Of(w)].status # "none"
  /\ At(w, "create_profile") =>
       profile[Of(w)] = NoProfile /\ worker[w].kek \in Keks
  /\ worker[w].pc \in {"create_profile", "add_template", "add_palm"} =>
       worker[w].label \in Labels
  /\ worker[w].pc \in Enrolling => credential[Of(w)] = "none"
  /\ worker[w].pc \in Shredded => Erased(Of(w))
  /\ At(w, "audit_erasure") => credential[Of(w)] = "revoked"
  /\ \A c \in worker[w].todo : profile[c].status # "none"
  /\ At(w, "destroy_kek") => worker[w].kek # keyring[w].active

JobsOK == \A w \in Workers : JobOK(w)

\* Nobody else works for a customer who is being enrolled.
EnrolledAlone ==
  \A w, v \in Workers :
    worker[w].pc \in Enrolling /\ v # w => Of(v) # Of(w)

\* A credential was issued for a profile.
CredentialsOK ==
  \A c \in Customers : credential[c] # "none" => profile[c].status # "none"

\* No key was ever made for a customer who has no profile.
BlanksOK ==
  \A c \in Customers : profile[c].status = "none" => profile[c].kek = None

Inv ==
  /\ TypeOK
  /\ JobsOK
  /\ BlanksOK
  /\ EnrolledAlone
  /\ CredentialsOK
  /\ LiveProfilesAreWhole
  /\ ErasureLogged

USE AccountsAssumption

LEMMA IdleOK ==
  /\ Idle \in Job
  /\ Idle.pc = "idle" /\ Idle.customer = None /\ Idle.todo = {}
BY DEF Idle, Job

LEMMA InitInv == Init => Inv
<1> SUFFICES ASSUME Init PROVE Inv
  OBVIOUS
<1> USE DEF Init
<1>1. TypeOK
  BY IdleOK DEF TypeOK, NoProfile, Profile, Statuses, KeyRing
<1>2. JobsOK /\ EnrolledAlone
  BY IdleOK DEF JobsOK, JobOK, EnrolledAlone, At, Of, Idle, CustomerPcs,
     EnrollPcs, AccountPcs, ErasePcs, Enrolling, Shredded
<1>3. BlanksOK /\ CredentialsOK /\ LiveProfilesAreWhole /\ ErasureLogged
  BY DEF BlanksOK, CredentialsOK, LiveProfilesAreWhole, ErasureLogged, Live,
         NoProfile
<1> QED
  BY <1>1, <1>2, <1>3 DEF Inv

(***************************************************************************)
(* A handler that begins, or ends: the tables are not touched.             *)
(***************************************************************************)
LEMMA JobStep ==
  ASSUME Inv, NEW w \in Workers, NEW job \in Job,
         worker' = [worker EXCEPT ![w] = job],
         UNCHANGED rows, device' \subseteq Customers,
         keystore' \in KeyRing, keyring' \in [Workers -> KeyRing],
         created' \subseteq Keks,
         \A v \in Workers : v # w => keyring'[v] = keyring[v],
         JobOK(w)',
         \A v \in Workers : v # w /\ worker[v].pc \in Enrolling =>
             job.customer # Of(v),
         job.pc \in Enrolling =>
           \A v \in Workers : v # w => Of(v) # job.customer
  PROVE  Inv'
<1> USE DEF Inv, rows
<1>1. TypeOK'
  BY DEF TypeOK
<1>2. worker'[w] = job /\ \A v \in Workers : v # w => worker'[v] = worker[v]
  BY DEF TypeOK
<1>3. JobsOK'
  <2> SUFFICES ASSUME NEW v \in Workers, v # w PROVE JobOK(v)'
    BY DEF JobsOK
  <2> QED
    BY <1>2 DEF JobsOK, JobOK, At, Of, Erased
<1>4. EnrolledAlone'
  BY <1>2 DEF EnrolledAlone, Of
<1>5. /\ BlanksOK' /\ CredentialsOK' /\ LiveProfilesAreWhole'
      /\ ErasureLogged'
  BY DEF BlanksOK, CredentialsOK, LiveProfilesAreWhole, ErasureLogged, Live,
         Erased
<1> QED
  BY <1>1, <1>3, <1>4, <1>5

LEMMA FinishStep ==
  ASSUME Inv, NEW w \in Workers, Finish(w),
         UNCHANGED rows, device' \subseteq Customers,
         keystore' \in KeyRing, keyring' \in [Workers -> KeyRing],
         created' \subseteq Keks,
         \A v \in Workers : v # w => keyring'[v] = keyring[v]
  PROVE  Inv'
<1>1. worker'[w] = Idle
  BY DEF Finish, Inv, TypeOK
<1>2. JobOK(w)'
  BY <1>1, IdleOK DEF JobOK, At, Of, Idle, CustomerPcs, EnrollPcs, AccountPcs,
     ErasePcs, Enrolling, Shredded
<1>3. \A v \in Workers : worker[v].pc \in Enrolling => Of(v) \in Customers
  BY DEF Inv, JobsOK, JobOK, CustomerPcs, EnrollPcs, Enrolling
<1> QED
  BY <1>1, <1>2, <1>3, IdleOK, JobStep DEF Finish, Enrolling

-----------------------------------------------------------------------------
(***************************************************************************)
(* Handlers that begin.                                                    *)
(***************************************************************************)
LEMMA EnrollBeginInv ==
  ASSUME Inv, NEW w \in Workers, NEW c \in Customers, EnrollBegin(w, c)
  PROVE  Inv'
<1> DEFINE job == [Idle EXCEPT !.pc = "create_profile", !.customer = c,
                               !.label = Primary, !.kek = keyring[w].active]
<1>1. /\ worker' = [worker EXCEPT ![w] = job]
      /\ UNCHANGED <<rows, device, keyVars>>
      /\ profile[c] = NoProfile
      /\ \A v \in Workers : Of(v) # c
  BY DEF EnrollBegin, Begin
<1>2. keyring[w].active \in Keks
  BY DEF Inv, TypeOK, KeyRing
<1>3. /\ job \in Job
      /\ job.pc = "create_profile" /\ job.customer = c
      /\ job.label = Primary /\ job.kek \in Keks /\ job.todo = {}
  BY <1>2 DEF Idle, Job, EnrollPcs
<1>4. credential[c] = "none"
  BY <1>1 DEF Inv, CredentialsOK, NoProfile
<1> HIDE DEF job
<1>5. worker'[w] = job
  BY <1>1 DEF Inv, TypeOK
<1>6. JobOK(w)'
  BY <1>1, <1>3, <1>4, <1>5 DEF JobOK, At, Of, CustomerPcs, EnrollPcs,
     AccountPcs, ErasePcs, Enrolling, Shredded, rows
<1> QED
  BY <1>1, <1>3, <1>6, JobStep DEF Inv, TypeOK, keyVars

\* A handler of a customer who has proved to be one.
LEMMA CustomerBegin ==
  ASSUME Inv, NEW w \in Workers, NEW c \in Customers, NEW job \in Job,
         job.pc \in AccountPcs \cup {"crypto_shred"}, job.customer = c,
         job.pc = "add_palm" => job.label \in Labels, job.todo = {},
         Authenticated(c), UNCHANGED <<rows, device, keyVars>>,
         Begin(w, job)
  PROVE  Inv'
<1>1. worker' = [worker EXCEPT ![w] = job] /\ worker'[w] = job
  BY DEF Begin, Inv, TypeOK
<1>2. credential[c] = "active" /\ profile[c].status # "none"
  BY DEF Authenticated, Inv, CredentialsOK
<1>3. JobOK(w)'
  BY <1>1, <1>2 DEF JobOK, At, Of, CustomerPcs, EnrollPcs, AccountPcs, ErasePcs,
     Enrolling, Shredded, rows
<1>4. \A v \in Workers : worker[v].pc \in Enrolling => Of(v) # c
  BY <1>2 DEF Inv, JobsOK, JobOK
<1>5. job.pc \notin Enrolling
  BY DEF Enrolling, AccountPcs
<1> QED
  BY <1>1, <1>3, <1>4, <1>5, JobStep DEF Inv, TypeOK, keyVars

LEMMA AccountBeginInv ==
  ASSUME Inv, NEW w \in Workers, NEW c \in Customers,
         \/ \E label \in Labels : AddPalmBegin(w, c, label)
         \/ WithdrawBegin(w, c) \/ RestoreBegin(w, c)
         \/ ReplaceBegin(w, c) \/ EraseBegin(w, c)
  PROVE  Inv'
<1>1. CASE \E label \in Labels : AddPalmBegin(w, c, label)
  <2>1. PICK label \in Labels : AddPalmBegin(w, c, label)
    BY <1>1
  <2> DEFINE job == [Idle EXCEPT !.pc = "add_palm", !.customer = c,
                                 !.label = label]
  <2>2. /\ job \in Job
        /\ job.pc = "add_palm" /\ job.customer = c
        /\ job.label \in Labels /\ job.todo = {}
    BY DEF Idle, Job, AccountPcs
  <2>3. Begin(w, job) /\ Authenticated(c) /\ UNCHANGED <<rows, device, keyVars>>
    BY <2>1 DEF AddPalmBegin
  <2> HIDE DEF job
  <2> QED
    BY <2>2, <2>3, CustomerBegin DEF AccountPcs
<1>2. CASE WithdrawBegin(w, c) \/ RestoreBegin(w, c) \/ ReplaceBegin(w, c)
           \/ EraseBegin(w, c)
  <2> DEFINE pcs == {"suspend", "grant", "update_payment_token", "crypto_shred"}
             job(pc) == [Idle EXCEPT !.pc = pc, !.customer = c]
  <2>1. PICK pc \in pcs :
          /\ Begin(w, job(pc)) /\ Authenticated(c)
          /\ UNCHANGED <<rows, device, keyVars>>
    BY <1>2 DEF WithdrawBegin, RestoreBegin, ReplaceBegin, EraseBegin
  <2>2. /\ job(pc) \in Job
        /\ job(pc).pc = pc /\ job(pc).customer = c /\ job(pc).todo = {}
    BY DEF Idle, Job, AccountPcs, ErasePcs
  <2> HIDE DEF job
  <2> QED
    BY <2>1, <2>2, CustomerBegin DEF AccountPcs
<1> QED
  BY <1>1, <1>2

\* rewrap_all and destroy_kek work for no customer in particular.
LEMMA KeyBeginInv ==
  ASSUME Inv, NEW w \in Workers,
         RewrapBegin(w) \/ \E k \in Keks : DestroyBegin(w, k)
  PROVE  Inv'
<1>1. PICK job \in Job :
        /\ worker' = [worker EXCEPT ![w] = job]
        /\ job.pc \in KeyPcs /\ job.customer = None
        /\ \A c \in job.todo : profile[c].status # "none"
        /\ job.pc = "destroy_kek" => job.kek # keyring[w].active
        /\ UNCHANGED <<rows, device, keyVars>>
  <2>1. CASE RewrapBegin(w)
    <3> DEFINE job == [Idle EXCEPT !.pc = "update_wrapped_dek",
                                   !.todo = ToRewrap(w)]
    <3>1. /\ job \in Job /\ job.pc \in KeyPcs /\ job.customer = None
          /\ job.pc # "destroy_kek"
      BY DEF Idle, Job, KeyPcs, ToRewrap
    <3>2. \A c \in job.todo : profile[c].status # "none"
      BY DEF ToRewrap, Inv, BlanksOK, TypeOK, KeyRing
    <3> QED
      BY <2>1, <3>1, <3>2 DEF RewrapBegin, Begin
  <2>2. CASE \E k \in Keks : DestroyBegin(w, k)
    <3>1. PICK k \in Keks : DestroyBegin(w, k)
      BY <2>2
    <3> DEFINE job == [Idle EXCEPT !.pc = "destroy_kek", !.kek = k]
    <3>2. /\ job \in Job /\ job.pc \in KeyPcs
          /\ job.customer = None /\ job.todo = {}
          /\ job.kek # keyring[w].active
      BY <3>1 DEF DestroyBegin, RetiredKeks, Idle, Job, KeyPcs
    <3> QED
      BY <3>1, <3>2 DEF DestroyBegin, Begin
  <2> QED
    BY <2>1, <2>2
<1>2. worker'[w] = job
  BY <1>1 DEF Inv, TypeOK
<1>3. JobOK(w)' /\ job.pc \notin Enrolling
  BY <1>1, <1>2 DEF JobOK, At, Of, KeyPcs, CustomerPcs, EnrollPcs,
     AccountPcs, ErasePcs, Enrolling, Shredded, rows, keyVars
<1>4. \A v \in Workers : worker[v].pc \in Enrolling => Of(v) # None
  BY DEF Inv, JobsOK, JobOK, Enrolling, CustomerPcs, EnrollPcs
<1> QED
  BY <1>1, <1>3, <1>4, JobStep DEF Inv, TypeOK, keyVars

-----------------------------------------------------------------------------
(***************************************************************************)
(* A call that writes the profile p and the credential k of customer c,    *)
(* and leaves the handler with job.                                        *)
(***************************************************************************)
Writes(w, c, job, p, k) ==
  /\ worker' = [worker EXCEPT ![w] = job]
  /\ profile' = [profile EXCEPT ![c] = p]
  /\ credential' = [credential EXCEPT ![c] = k]
  /\ templates' \in [Customers -> [Labels -> Nat]]
  /\ consent' \in [Customers -> {"none", "given", "withdrawn"}]
  /\ erasures' \subseteq Customers
  /\ UNCHANGED <<device, keyVars>>

\* Erasures and revocations are not undone, and a live profile is whole.
Keeps(c, p, k) ==
  /\ p.status # "none"
  /\ Erased(c) => p.status = "shredded"
  /\ p.status # "shredded" => p.kek # None /\ p.token
  /\ credential[c] = "revoked" => k = "revoked"
  /\ \A e \in erasures' :
       \/ e \in erasures
       \/ e = c /\ p.status = "shredded" /\ k = "revoked"

\* A handler that enrols does not have its customer disturbed.
Respects(w, c, job, k) ==
  /\ \A v \in Workers :
       v # w /\ worker[v].pc \in Enrolling /\ Of(v) = c =>
         k = credential[c] /\ ~At(v, "create_profile")
  /\ job.customer \in {Of(w), None}
  /\ job.pc \in Enrolling =>
       worker[w].pc \in Enrolling /\ job.customer = Of(w)

LEMMA WriteStep ==
  ASSUME Inv, NEW w \in Workers, NEW c \in Customers, NEW job \in Job,
         NEW p \in Profile, NEW k \in {"none", "active", "revoked"},
         Writes(w, c, job, p, k), Keeps(c, p, k), Respects(w, c, job, k),
         JobOK(w)'
  PROVE  Inv'
<1> USE DEF Writes, Keeps, Respects
<1> USE DEF Inv
<1>1. TypeOK'
  BY DEF TypeOK, keyVars
<1>2. /\ worker'[w] = job
      /\ \A v \in Workers : v # w => worker'[v] = worker[v]
      /\ profile'[c] = p /\ credential'[c] = k
      /\ \A d \in Customers : d # c => /\ profile'[d] = profile[d]
                                      /\ credential'[d] = credential[d]
  BY DEF TypeOK
<1>3. JobsOK'
  <2> SUFFICES ASSUME NEW v \in Workers, v # w PROVE JobOK(v)'
    BY DEF JobsOK
  <2>1. JobOK(v)
    BY DEF JobsOK
  <2>2. worker[v].todo \subseteq Customers
    BY DEF TypeOK, Job
  <2>3. CASE Of(v) = c
    BY <1>2, <2>1, <2>2, <2>3 DEF JobOK, At, Of, Erased, Enrolling, CustomerPcs,
       EnrollPcs, keyVars
  <2>4. CASE Of(v) # c
    BY <1>2, <2>1, <2>2, <2>4 DEF JobOK, At, Of, Erased, Enrolling, CustomerPcs,
       EnrollPcs, Shredded, ErasePcs, keyVars
  <2> QED
    BY <2>3, <2>4
<1>4. EnrolledAlone'
  <2>1. \A v \in Workers : worker[v].pc \in Enrolling => Of(v) # None
    BY DEF JobsOK, JobOK, Enrolling, CustomerPcs, EnrollPcs
  <2> QED
    BY <1>2, <2>1 DEF EnrolledAlone, Of
<1>5. BlanksOK' /\ CredentialsOK' /\ LiveProfilesAreWhole'
  BY <1>2 DEF BlanksOK, CredentialsOK, LiveProfilesAreWhole, Live, TypeOK
<1>6. ErasureLogged'
  BY <1>2 DEF ErasureLogged, Erased, TypeOK
<1> QED
  BY <1>1, <1>3, <1>4, <1>5, <1>6

-----------------------------------------------------------------------------
(***************************************************************************)
(* The calls of a handler that works for a customer.                       *)
(***************************************************************************)
LEMMA AtWork ==
  ASSUME Inv, NEW w \in Workers, worker[w].pc \in CustomerPcs
  PROVE  /\ Of(w) \in Customers /\ worker[w] \in Job
         /\ JobOK(w)
         /\ profile[Of(w)] \in Profile
         /\ profile = [profile EXCEPT ![Of(w)] = profile[Of(w)]]
         /\ credential[Of(w)] \in {"none", "active", "revoked"}
         /\ credential = [credential EXCEPT ![Of(w)] = credential[Of(w)]]
         /\ \A v \in Workers :
              v # w /\ worker[v].pc \in Enrolling => Of(v) # Of(w)
         /\ worker[w].pc # "create_profile" /\ ~Erased(Of(w)) =>
              profile[Of(w)].kek # None /\ profile[Of(w)].token
<1>1. Of(w) \in Customers /\ JobOK(w) /\ worker[w] \in Job
  BY DEF Inv, JobsOK, JobOK, TypeOK
<1>2. \A v \in Workers : v # w /\ worker[v].pc \in Enrolling => Of(v) # Of(w)
  BY DEF Inv, EnrolledAlone
<1>3. profile[Of(w)] \in Profile
  BY <1>1 DEF Inv, TypeOK
<1>4. worker[w].pc # "create_profile" /\ ~Erased(Of(w)) => Live(Of(w))
  BY <1>1, <1>3 DEF JobOK, Live, Erased, Profile, Statuses
<1> QED
  BY <1>1, <1>2, <1>3, <1>4 DEF Inv, TypeOK, LiveProfilesAreWhole

LEMMA AdvanceWrite ==
  ASSUME Inv, NEW w \in Workers, worker[w].pc \in CustomerPcs,
         NEW c \in Customers, c = Of(w),
         NEW pc \in CustomerPcs \ {"create_profile", "add_palm"},
         NEW p \in Profile, NEW k \in {"none", "active", "revoked"},
         Writes(w, c, [worker[w] EXCEPT !.pc = pc], p, k), Keeps(c, p, k),
         pc = "add_template" => worker[w].label \in Labels,
         pc \in Enrolling => worker[w].pc \in Enrolling /\ k = "none",
         pc \in Shredded => p.status = "shredded",
         pc = "audit_erasure" => k = "revoked"
  PROVE  Inv'
<1> DEFINE job == [worker[w] EXCEPT !.pc = pc]
<1>1. /\ worker[w] \in Job /\ JobOK(w)
      /\ \A v \in Workers : v # w /\ worker[v].pc \in Enrolling => Of(v) # c
  BY AtWork
<1>2. /\ job \in Job
      /\ job.pc = pc /\ job.customer = c /\ job.label = worker[w].label
      /\ job.todo = worker[w].todo
  BY <1>1 DEF Job, Of, CustomerPcs
<1>3. Writes(w, c, job, p, k)
  OBVIOUS
<1> HIDE DEF job
<1>4. /\ worker'[w] = job
      /\ profile'[c] = p /\ credential'[c] = k
      /\ \A d \in Customers : d # c => profile'[d] = profile[d]
  BY <1>3 DEF Writes, Inv, TypeOK
<1>5. JobOK(w)'
  <2>1. \A d \in job.todo : d \in Customers /\ profile'[d].status # "none"
    BY <1>1, <1>2, <1>4 DEF JobOK, Job, Keeps
  <2>2. pc # "destroy_kek"
    BY DEF CustomerPcs, EnrollPcs, AccountPcs, ErasePcs
  <2> QED
    BY <1>2, <1>4, <2>1, <2>2 DEF JobOK, At, Of, Erased, Keeps
<1>6. Respects(w, c, job, k)
  BY <1>1, <1>2 DEF Respects
<1> QED
  BY <1>2, <1>3, <1>5, <1>6, WriteStep

LEMMA FinishWrite ==
  ASSUME Inv, NEW w \in Workers, worker[w].pc \in CustomerPcs,
         NEW c \in Customers, c = Of(w), NEW p \in Profile,
         Writes(w, c, Idle, p, credential[c]), Keeps(c, p, credential[c])
  PROVE  Inv'
<1>1. worker'[w] = Idle
  BY DEF Writes, Inv, TypeOK
<1>2. JobOK(w)'
  BY <1>1, IdleOK DEF JobOK, At, Of, CustomerPcs, EnrollPcs, AccountPcs,
     ErasePcs, Enrolling, Shredded
<1>3. credential[c] \in {"none", "active", "revoked"}
  BY AtWork
<1>4. Respects(w, c, Idle, credential[c])
  BY AtWork, IdleOK DEF Respects, Enrolling
<1> QED
  BY <1>2, <1>3, <1>4, IdleOK, WriteStep

\* A row of the profile is written, or none is.
LEMMA EnrollCallInv ==
  ASSUME Inv, NEW w \in Workers,
         CreateProfile(w) \/ AddFirstTemplate(w) \/ RecordConsent(w)
         \/ CreateCredential(w)
  PROVE  Inv'
<1>1. /\ worker[w].pc \in Enrolling /\ worker[w].pc \in CustomerPcs
      /\ worker[w].pc \notin {"add_palm"} \cup Shredded
  BY DEF CreateProfile, AddFirstTemplate, RecordConsent, CreateCredential, At,
         Enrolling, CustomerPcs, EnrollPcs, Shredded
<1>2. PICK c \in Customers : c = Of(w)
  BY <1>1, AtWork
<1>3. /\ credential[c] = "none"
      /\ worker[w].pc # "create_profile" => profile[c].status # "none"
      /\ worker[w].pc \in {"create_profile", "add_template"} =>
           worker[w].label \in Labels
      /\ c \notin erasures
      /\ At(w, "create_profile") =>
           profile[c] = NoProfile /\ worker[w].kek \in Keks
  BY <1>1, <1>2, AtWork DEF JobOK, Inv, ErasureLogged
<1>4. CASE CreateProfile(w)
  <2> DEFINE p == [status |-> "active", kek |-> worker[w].kek, token |-> TRUE]
  <2>1. p \in Profile /\ p.status = "active" /\ p.kek # None /\ p.token
    BY <1>3, <1>4 DEF CreateProfile, Profile, Statuses
  <2>2. Writes(w, c, [worker[w] EXCEPT !.pc = "add_template"], p, "none")
    BY <1>2, <1>3, <1>4 DEF CreateProfile, Writes, Advance, Inv, TypeOK
  <2> HIDE DEF p
  <2>3. Keeps(c, p, "none")
    BY <1>3, <1>4, <2>1, <2>2 DEF Keeps, CreateProfile, Erased, NoProfile
  <2> QED
    BY <1>1, <1>2, <1>3, <1>4, <2>1, <2>2, <2>3, AdvanceWrite
       DEF CreateProfile, At, CustomerPcs, EnrollPcs, Shredded
<1>5. CASE AddFirstTemplate(w) \/ RecordConsent(w) \/ CreateCredential(w)
  <2>1. PICK pc \in {"record_consent", "create_credential", "answer"},
             k \in {"none", "active"} :
          /\ Writes(w, c, [worker[w] EXCEPT !.pc = pc], profile[c], k)
          /\ erasures' = erasures
          /\ pc \in Enrolling => k = "none"
    <3>1. CASE AddFirstTemplate(w)
      <4>1. templates' \in [Customers -> [Labels -> Nat]]
        BY <1>2, <1>3, <3>1 DEF AddFirstTemplate, InsertTemplate, At, Inv,
           TypeOK
      <4> QED
        BY <1>2, <1>3, <3>1, <4>1 DEF AddFirstTemplate, Writes, Advance, Inv,
           TypeOK
    <3>2. CASE RecordConsent(w)
      BY <1>2, <1>3, <3>2 DEF RecordConsent, Writes, Advance, Inv, TypeOK
    <3>3. CASE CreateCredential(w)
      BY <1>2, <1>3, <3>3 DEF CreateCredential, Writes, Advance, Inv, TypeOK,
         Enrolling
    <3> QED
      BY <1>5, <3>1, <3>2, <3>3
  <2>2. worker[w].pc # "create_profile"
    BY <1>5 DEF AddFirstTemplate, RecordConsent, CreateCredential, At
  <2>3. Keeps(c, profile[c], k) /\ profile[c] \in Profile
    BY <1>1, <1>2, <1>3, <2>1, <2>2, AtWork DEF Keeps, Erased
  <2> QED
    BY <1>1, <1>2, <2>1, <2>3, AdvanceWrite DEF CustomerPcs, EnrollPcs, Shredded
<1> QED
  BY <1>4, <1>5

LEMMA AccountCallInv ==
  ASSUME Inv, NEW w \in Workers,
         Suspend(w) \/ Grant(w) \/ WithdrawErased(w) \/ RevokeCredentials(w)
         \/ CryptoShred(w)
  PROVE  Inv'
<1>1. /\ worker[w].pc \in CustomerPcs /\ worker[w].pc \notin Enrolling
      /\ worker[w].pc # "create_profile"
  BY DEF Suspend, Grant, WithdrawErased, RevokeCredentials, CryptoShred, At,
         Enrolling, CustomerPcs, AccountPcs, ErasePcs
<1>2. PICK c \in Customers : c = Of(w)
  BY <1>1, AtWork
<1>3. /\ profile[c].status # "none" /\ profile[c] \in Profile
      /\ credential[c] \in {"none", "active", "revoked"}
      /\ ~Erased(c) => profile[c].kek # None /\ profile[c].token
      /\ worker[w].pc \in Shredded => Erased(c)
  BY <1>1, <1>2, AtWork DEF JobOK
<1>4. PICK pc \in {"withdraw", "activate", "withdraw_erased",
                   "revoke_credentials", "audit_erasure"},
           p \in Profile, k \in {"none", "active", "revoked"} :
        /\ Writes(w, c, [worker[w] EXCEPT !.pc = pc], p, k)
        /\ erasures' = erasures
        /\ p.status # "none"
        /\ Erased(c) => p.status = "shredded"
        /\ p.status # "shredded" => p.kek # None /\ p.token
        /\ credential[c] = "revoked" => k = "revoked"
        /\ pc \in Shredded => p.status = "shredded"
        /\ pc = "audit_erasure" => k = "revoked"
  <2>1. CASE Suspend(w)
    <3> DEFINE p == IF profile[c].status = "shredded" THEN profile[c]
                    ELSE [profile[c] EXCEPT !.status = "suspended"]
    <3>1. /\ p \in Profile /\ p.status # "none"
          /\ Erased(c) => p.status = "shredded"
          /\ p.status # "shredded" => p.kek # None /\ p.token
      BY <1>3 DEF Profile, Statuses, Erased
    <3>2. profile' = [profile EXCEPT ![c] = p]
      BY <1>2, <2>1 DEF Suspend, SetProfileStatus, Inv, TypeOK
    <3> HIDE DEF p
    <3>3. Writes(w, c, [worker[w] EXCEPT !.pc = "withdraw"], p, credential[c])
      BY <1>2, <2>1, <3>2 DEF Suspend, Writes, Advance, Inv, TypeOK
    <3> QED
      BY <1>3, <2>1, <3>1, <3>3 DEF Suspend, Shredded
  <2>2. CASE Grant(w)
    <3>1. Writes(w, c, [worker[w] EXCEPT !.pc = "activate"], profile[c],
                 credential[c])
      BY <1>2, <2>2 DEF Grant, Writes, Advance, Inv, TypeOK
    <3> QED
      BY <1>3, <2>2, <3>1 DEF Grant, Erased, Shredded
  <2>3. CASE WithdrawErased(w)
    <3>1. Writes(w, c, [worker[w] EXCEPT !.pc = "revoke_credentials"],
                 profile[c], credential[c])
      BY <1>2, <2>3 DEF WithdrawErased, WithdrawConsent, Writes, Advance, Inv,
         TypeOK
    <3> QED
      BY <1>3, <2>3, <3>1 DEF WithdrawErased, At, Erased, Shredded
  <2>4. CASE RevokeCredentials(w)
    <3>1. Writes(w, c, [worker[w] EXCEPT !.pc = "audit_erasure"], profile[c],
                 "revoked")
      BY <1>2, <2>4 DEF RevokeCredentials, Writes, Advance, Inv, TypeOK
    <3> QED
      BY <1>3, <2>4, <3>1 DEF RevokeCredentials, At, Erased, Shredded
  <2>5. CASE CryptoShred(w)
    <3>1. Writes(w, c, [worker[w] EXCEPT !.pc = "withdraw_erased"], Tombstone,
                 credential[c])
      BY <1>2, <2>5 DEF CryptoShred, Writes, Advance, Inv, TypeOK
    <3>2. Tombstone \in Profile /\ Tombstone.status = "shredded"
      BY DEF Tombstone, Profile, Statuses
    <3> QED
      BY <1>3, <2>5, <3>1, <3>2 DEF CryptoShred
  <2> QED
    BY <2>1, <2>2, <2>3, <2>4, <2>5
<1>5. Keeps(c, p, k)
  BY <1>4 DEF Keeps
<1> QED
  BY <1>1, <1>2, <1>4, <1>5, AdvanceWrite DEF CustomerPcs, EnrollPcs,
     AccountPcs, ErasePcs, Enrolling

LEMMA LastCallInv ==
  ASSUME Inv, NEW w \in Workers,
         AddPalm(w) \/ Withdraw(w) \/ Activate(w) \/ UpdatePaymentToken(w)
         \/ AuditErasure(w)
  PROVE  Inv'
<1>1. /\ worker[w].pc \in CustomerPcs /\ worker[w].pc # "create_profile"
  BY DEF AddPalm, Withdraw, Activate, UpdatePaymentToken, AuditErasure, At,
         CustomerPcs, AccountPcs, ErasePcs
<1>2. PICK c \in Customers : c = Of(w)
  BY <1>1, AtWork
<1>3. /\ profile[c].status # "none" /\ profile[c] \in Profile
      /\ credential[c] \in {"none", "active", "revoked"}
      /\ ~Erased(c) => profile[c].kek # None /\ profile[c].token
      /\ At(w, "add_palm") => worker[w].label \in Labels
      /\ At(w, "audit_erasure") => Erased(c) /\ credential[c] = "revoked"
  BY <1>1, <1>2, AtWork DEF JobOK, At, Shredded
<1>4. PICK p \in Profile :
        Writes(w, c, Idle, p, credential[c]) /\ Keeps(c, p, credential[c])
  <2>1. CASE AddPalm(w)
    <3>1. templates' \in [Customers -> [Labels -> Nat]]
      BY <1>2, <1>3, <2>1 DEF AddPalm, InsertTemplate, At, Inv, TypeOK
    <3>2. Writes(w, c, Idle, profile[c], credential[c])
      BY <1>2, <1>3, <2>1, <3>1 DEF AddPalm, Writes, Finish, Inv, TypeOK
    <3> QED
      BY <1>3, <2>1, <3>2 DEF AddPalm, Keeps, Erased
  <2>2. CASE Withdraw(w)
    <3>1. Writes(w, c, Idle, profile[c], credential[c])
      BY <1>2, <1>3, <2>2 DEF Withdraw, WithdrawConsent, Writes, Finish, Inv,
         TypeOK
    <3> QED
      BY <1>3, <2>2, <3>1 DEF Withdraw, Keeps, Erased
  <2>3. CASE Activate(w)
    <3> DEFINE p == IF profile[c].status = "shredded" THEN profile[c]
                    ELSE [profile[c] EXCEPT !.status = "active"]
    <3>1. /\ p \in Profile /\ p.status # "none"
          /\ Erased(c) => p.status = "shredded"
          /\ p.status # "shredded" => p.kek # None /\ p.token
      BY <1>3 DEF Profile, Statuses, Erased
    <3>2. profile' = [profile EXCEPT ![c] = p]
      BY <1>2, <2>3 DEF Activate, SetProfileStatus, Inv, TypeOK
    <3> HIDE DEF p
    <3>3. Writes(w, c, Idle, p, credential[c])
      BY <1>2, <2>3, <3>2 DEF Activate, Writes, Finish, Inv, TypeOK
    <3> QED
      BY <1>3, <2>3, <3>1, <3>3 DEF Activate, Keeps
  <2>4. CASE UpdatePaymentToken(w)
    <3> DEFINE p == [profile[c] EXCEPT !.token = TRUE]
    <3>1. /\ p \in Profile /\ p.status = profile[c].status
          /\ p.kek = profile[c].kek /\ p.token
      BY <1>3 DEF Profile
    <3>2. profile' = [profile EXCEPT ![c] = p]
      BY <1>2, <2>4 DEF UpdatePaymentToken, Inv, TypeOK
    <3> HIDE DEF p
    <3>3. Writes(w, c, Idle, p, credential[c])
      BY <1>2, <2>4, <3>2 DEF UpdatePaymentToken, Writes, Finish, Inv, TypeOK
    <3> QED
      BY <1>3, <2>4, <3>1, <3>3 DEF UpdatePaymentToken, Keeps, Erased
  <2>5. CASE AuditErasure(w)
    <3>1. Writes(w, c, Idle, profile[c], credential[c])
      BY <1>2, <1>3, <2>5 DEF AuditErasure, Writes, Finish, Inv, TypeOK
    <3> QED
      BY <1>2, <1>3, <2>5, <3>1 DEF AuditErasure, Keeps, Erased
  <2> QED
    BY <2>1, <2>2, <2>3, <2>4, <2>5
<1> QED
  BY <1>1, <1>2, <1>4, FinishWrite

\* A handler that ends without writing a row.
LEMMA EndInv ==
  ASSUME Inv, NEW w \in Workers,
         EnrollAnswer(w) \/ AlreadyShredded(w) \/ DestroyKek(w)
         \/ StorageFault(w) \/ Restart(w)
  PROVE  Inv'
<1>1. CASE EnrollAnswer(w)
  <2>1. Of(w) \in Customers
    BY <1>1, AtWork DEF EnrollAnswer, At, CustomerPcs, EnrollPcs
  <2> QED
    BY <1>1, <2>1, FinishStep DEF EnrollAnswer, keyVars, Inv, TypeOK
<1>2. CASE AlreadyShredded(w) \/ StorageFault(w)
  BY <1>2, FinishStep DEF AlreadyShredded, StorageFault, keyVars, Inv, TypeOK
<1>3. CASE DestroyKek(w)
  <2>1. worker[w].kek # keyring[w].active /\ keyring[w] \in KeyRing
    BY <1>3 DEF DestroyKek, Inv, JobsOK, JobOK, TypeOK
  <2>2. [keyring[w] EXCEPT !.held = @ \ {worker[w].kek}] \in KeyRing
    BY <2>1 DEF KeyRing
  <2> QED
    BY <1>3, <2>2, FinishStep DEF DestroyKek, SaveKeys, Inv, TypeOK
<1>4. CASE Restart(w)
  BY <1>4, FinishStep DEF Restart, Inv, TypeOK
<1> QED
  BY <1>1, <1>2, <1>3, <1>4

-----------------------------------------------------------------------------
\* rewrap_all: a tombstone it writes to stays a tombstone.
LEMMA UpdateWrappedDekInv ==
  ASSUME Inv, NEW w \in Workers, NEW c \in Customers, UpdateWrappedDek(w, c)
  PROVE  Inv'
<1> DEFINE p == [profile[c] EXCEPT !.kek = keyring[w].active]
<1>1. /\ worker[w] \in Job /\ JobOK(w)
      /\ At(w, "update_wrapped_dek") /\ c \in worker[w].todo
      /\ profile[c].status # "none"
  BY DEF UpdateWrappedDek, Inv, JobsOK, JobOK, TypeOK
<1>2. PICK job \in Job :
        /\ worker' = [worker EXCEPT ![w] = job]
        /\ job.pc \in {"idle", "update_wrapped_dek"}
        /\ job.customer \in {Of(w), None}
        /\ job.todo \subseteq worker[w].todo
  <2>1. CASE worker[w].todo = {c}
    BY <2>1, IdleOK DEF UpdateWrappedDek, Finish
  <2>2. CASE worker[w].todo # {c}
    <3> DEFINE job == [worker[w] EXCEPT !.todo = @ \ {c}]
    <3>1. /\ job \in Job /\ job.pc = worker[w].pc
          /\ job.customer = Of(w) /\ job.todo \subseteq worker[w].todo
      BY <1>1 DEF Job, Of
    <3>2. worker' = [worker EXCEPT ![w] = job]
      BY <2>2 DEF UpdateWrappedDek
    <3> HIDE DEF job
    <3> QED
      BY <1>1, <3>1, <3>2 DEF At
  <2> QED
    BY <2>1, <2>2
<1>3. PICK k \in {"none", "active", "revoked"} : k = credential[c]
  BY DEF Inv, TypeOK
<1>4. /\ p \in Profile /\ p.status = profile[c].status
      /\ p.token = profile[c].token /\ p.kek # None
  <2>1. profile[c] \in Profile /\ keyring[w].active \in Keks
    BY DEF Inv, TypeOK, KeyRing
  <2> QED
    BY <2>1 DEF Profile
<1>5. profile' = [profile EXCEPT ![c] = p]
  BY DEF UpdateWrappedDek
<1> HIDE DEF p
<1>6. Writes(w, c, job, p, k)
  BY <1>2, <1>3, <1>5 DEF UpdateWrappedDek, Writes, Inv, TypeOK
<1>7. Keeps(c, p, k)
  <2>1. ~Erased(c) => profile[c].token
    BY <1>1 DEF Erased, Live, Inv, LiveProfilesAreWhole, TypeOK, Profile,
                Statuses
  <2> QED
    BY <1>1, <1>3, <1>4, <2>1 DEF UpdateWrappedDek, Keeps, Erased
<1>8. Respects(w, c, job, k)
  <2>1. \A v \in Workers : At(v, "create_profile") => Of(v) # c
    BY <1>1 DEF Inv, JobsOK, JobOK, NoProfile
  <2> QED
    BY <1>2, <1>3, <2>1 DEF Respects, Enrolling
<1>9. JobOK(w)'
  <2>1. worker'[w] = job /\ profile'[c] = p
    BY <1>2, <1>5 DEF Inv, TypeOK
  <2>2. \A d \in job.todo : profile'[d].status # "none"
    BY <1>1, <1>2, <1>4, <1>5, <2>1 DEF JobOK, Job, Inv, TypeOK
  <2> QED
    BY <1>2, <2>1, <2>2 DEF JobOK, At, CustomerPcs, EnrollPcs, AccountPcs,
       ErasePcs, Enrolling, Shredded
<1> QED
  BY <1>2, <1>4, <1>6, <1>7, <1>8, <1>9, WriteStep

LEMMA RotateKekInv ==
  ASSUME Inv, NEW w \in Workers, NEW k \in Keks, RotateKek(w, k)
  PROVE  Inv'
<1> DEFINE ring == [active |-> k, held |-> keyring[w].held \cup {k}]
<1>1. ring \in KeyRing
  BY DEF Inv, TypeOK, KeyRing
<1>2. /\ keystore' = ring /\ keyring' = [keyring EXCEPT ![w] = ring]
      /\ created' = created \cup {k} /\ At(w, "idle")
      /\ UNCHANGED <<rows, device, worker>>
  BY DEF RotateKek, SaveKeys
<1> HIDE DEF ring
<1>3. PICK job \in Job : job = worker[w]
  BY DEF Inv, TypeOK
<1>4. worker' = [worker EXCEPT ![w] = job] /\ job.pc = "idle"
  BY <1>2, <1>3 DEF Inv, TypeOK, At
<1>5. JobOK(w)'
  BY <1>2, <1>4 DEF Inv, JobsOK, JobOK, At, Of, Erased, rows
<1>6. \A v \in Workers :
        v # w /\ worker[v].pc \in Enrolling => job.customer # Of(v)
  BY <1>3 DEF Inv, EnrolledAlone, Of
<1> QED
  BY <1>1, <1>2, <1>3, <1>4, <1>5, <1>6, JobStep DEF Inv, TypeOK, Enrolling

-----------------------------------------------------------------------------
LEMMA StepInv == Inv /\ [Next]_vars => Inv'
<1> SUFFICES ASSUME Inv, [Next]_vars PROVE Inv'
  OBVIOUS
<1>1. CASE UNCHANGED vars
  BY <1>1 DEF vars, rows, keyVars, Inv, TypeOK, JobsOK, JobOK, At, Of, Erased,
     BlanksOK, EnrolledAlone, CredentialsOK, LiveProfilesAreWhole, Live,
     ErasureLogged
<1>2. ASSUME NEW w \in Workers, WorkerStep(w) PROVE Inv'
  BY <1>2, EnrollCallInv, AccountCallInv, LastCallInv, EndInv,
     UpdateWrappedDekInv DEF WorkerStep
<1>3. ASSUME NEW w \in Workers, NEW c \in Customers,
             \/ EnrollBegin(w, c)
             \/ \E label \in Labels : AddPalmBegin(w, c, label)
             \/ WithdrawBegin(w, c) \/ RestoreBegin(w, c)
             \/ ReplaceBegin(w, c) \/ EraseBegin(w, c)
      PROVE  Inv'
  BY <1>3, EnrollBeginInv, AccountBeginInv
<1>4. ASSUME NEW w \in Workers,
             RewrapBegin(w)
             \/ \E k \in Keks : RotateKek(w, k) \/ DestroyBegin(w, k)
      PROVE  Inv'
  BY <1>4, KeyBeginInv, RotateKekInv
<1> QED
  BY <1>1, <1>2, <1>3, <1>4 DEF Next

(***************************************************************************)
(* The invariant is inductive.                                             *)
(***************************************************************************)
THEOREM Invariance == Spec => []Inv
<1>1. Init => Inv
  BY InitInv
<1>2. Inv /\ [Next]_vars => Inv'
  BY StepInv
<1> QED
  BY <1>1, <1>2, PTL DEF Spec

(***************************************************************************)
(* Every state of the accounts is well typed: in particular a process's    *)
(* active KEK is one it holds, whichever KEKs are destroyed.               *)
(***************************************************************************)
THEOREM WellTyped == Spec => []TypeOK
BY Invariance, PTL DEF Inv

(***************************************************************************)
(* A profile that is not erased keeps its wrapped DEK and its card.        *)
(***************************************************************************)
THEOREM LiveProfilesStayWhole == Spec => []LiveProfilesAreWhole
BY Invariance, PTL DEF Inv

(***************************************************************************)
(* An erasure row in the audit log is evidence of an erasure carried out.  *)
(***************************************************************************)
THEOREM ErasureIsEvidenced == Spec => []ErasureLogged
BY Invariance, PTL DEF Inv

(***************************************************************************)
(* A tombstone stays a tombstone, whichever handlers were under way when   *)
(* the profile was shredded.                                               *)
(***************************************************************************)
THEOREM ErasureIsFinal == Spec => NeverResurrected
<1>1. Inv /\ [Next]_vars => [\A c \in Customers : Erased(c) => Erased(c)']_vars
  <2> SUFFICES ASSUME Inv, Next, NEW c \in Customers, Erased(c)
               PROVE  Erased(c)'
    OBVIOUS
  <2>1. PICK w \in Workers :
          \/ CreateProfile(w) \/ Suspend(w) \/ Activate(w)
          \/ UpdatePaymentToken(w) \/ CryptoShred(w)
          \/ \E d \in Customers : UpdateWrappedDek(w, d)
          \/ UNCHANGED profile
    BY DEF Next, WorkerStep, rows, EnrollBegin, AddPalmBegin, WithdrawBegin,
       RestoreBegin, ReplaceBegin, EraseBegin, RewrapBegin, RotateKek,
       DestroyBegin, AddFirstTemplate, RecordConsent, CreateCredential,
       EnrollAnswer, AddPalm, Withdraw, Grant, AlreadyShredded, WithdrawErased,
       RevokeCredentials, AuditErasure, DestroyKek, StorageFault, Restart
  <2>2. CASE CreateProfile(w)
    <3>1. profile[Of(w)] = NoProfile
      BY <2>2 DEF CreateProfile, Inv, JobsOK, JobOK
    <3> QED
      BY <2>2, <3>1 DEF CreateProfile, Erased, NoProfile, Inv, TypeOK
  <2>3. CASE Suspend(w) \/ Activate(w)
    BY <2>3 DEF Suspend, Activate, SetProfileStatus, Erased, Inv, TypeOK
  <2>4. CASE UpdatePaymentToken(w)
    BY <2>4 DEF UpdatePaymentToken, Erased, Inv, TypeOK, Profile
  <2>5. CASE CryptoShred(w)
    BY <2>5 DEF CryptoShred, Tombstone, Erased, Inv, TypeOK
  <2>6. CASE \E d \in Customers : UpdateWrappedDek(w, d)
    BY <2>6 DEF UpdateWrappedDek, Erased, Inv, TypeOK, Profile
  <2>7. CASE UNCHANGED profile
    BY <2>7 DEF Erased
  <2> QED
    BY <2>1, <2>2, <2>3, <2>4, <2>5, <2>6, <2>7
<1> QED
  BY <1>1, Invariance, PTL DEF Spec, NeverResurrected

-----------------------------------------------------------------------------
(***************************************************************************)
(* One process.  It runs one handler at a time, so what a handler read     *)
(* still holds at its next call, whatever failed before.                   *)
(***************************************************************************)
OneProcess == \A v, w \in Workers : v = w

BeginStep(w) ==
  \/ \E c \in Customers :
       \/ EnrollBegin(w, c)
       \/ \E label \in Labels : AddPalmBegin(w, c, label)
       \/ WithdrawBegin(w, c) \/ RestoreBegin(w, c)
       \/ ReplaceBegin(w, c) \/ EraseBegin(w, c)
  \/ RewrapBegin(w)
  \/ \E k \in Keks : DestroyBegin(w, k)

LEMMA ProcessSteps ==
  ASSUME [Next]_vars
  PROVE  \/ UNCHANGED vars
         \/ \E w \in Workers :
              \/ BeginStep(w) \/ WorkerStep(w)
              \/ \E k \in Keks : RotateKek(w, k)
BY DEF Next, BeginStep

\* The handler that begins, and what it has read.
Takes(w, job) ==
  /\ worker' = [worker EXCEPT ![w] = job]
  /\ UNCHANGED <<rows, device, keyVars>>
  /\ job \in Job
  /\ job.pc \in {"create_profile", "add_palm", "suspend", "grant",
                 "update_payment_token", "crypto_shred",
                 "update_wrapped_dek", "destroy_kek"}
  /\ job.pc = "create_profile" => job.kek = keyring[w].active
  /\ job.pc \in {"add_palm", "update_payment_token"} => ~Erased(job.customer)
  /\ \A c \in job.todo : ~Erased(c)
  /\ job.pc = "destroy_kek" => job.kek \in RetiredKeks(w)

LEMMA NewJob ==
  ASSUME Inv, NEW w \in Workers, BeginStep(w)
  PROVE  \E job : Takes(w, job)
<1>1. ASSUME NEW c \in Customers, EnrollBegin(w, c)
      PROVE  \E job : Takes(w, job)
  <2> DEFINE job == [Idle EXCEPT !.pc = "create_profile", !.customer = c,
                                 !.label = Primary, !.kek = keyring[w].active]
  <2>1. keyring[w].active \in Keks
    BY DEF Inv, TypeOK, KeyRing
  <2>2. job \in Job
    BY <2>1 DEF Idle, Job, EnrollPcs
  <2>3. job.pc = "create_profile" /\ job.todo = {}
        /\ job.kek = keyring[w].active
    BY DEF Idle
  <2>4. worker' = [worker EXCEPT ![w] = job]
        /\ UNCHANGED <<rows, device, keyVars>>
    BY <1>1 DEF EnrollBegin, Begin
  <2> HIDE DEF job
  <2> QED
    BY <2>2, <2>3, <2>4 DEF Takes
<1>2. ASSUME NEW c \in Customers, NEW label \in Labels,
             AddPalmBegin(w, c, label)
      PROVE  \E job : Takes(w, job)
  <2> DEFINE job == [Idle EXCEPT !.pc = "add_palm", !.customer = c,
                                 !.label = label]
  <2>1. /\ job \in Job /\ job.pc = "add_palm" /\ job.todo = {}
        /\ job.customer = c
    BY DEF Idle, Job, AccountPcs
  <2>2. worker' = [worker EXCEPT ![w] = job] /\ ~Erased(c)
        /\ UNCHANGED <<rows, device, keyVars>>
    BY <1>2 DEF AddPalmBegin, Begin, Erased
  <2> HIDE DEF job
  <2> QED
    BY <2>1, <2>2 DEF Takes
<1>3. ASSUME NEW c \in Customers,
             WithdrawBegin(w, c) \/ RestoreBegin(w, c) \/ ReplaceBegin(w, c)
             \/ EraseBegin(w, c)
      PROVE  \E job : Takes(w, job)
  <2> DEFINE job(pc) == [Idle EXCEPT !.pc = pc, !.customer = c]
             pcs == {"suspend", "grant", "update_payment_token",
                     "crypto_shred"}
  <2>1. PICK pc \in pcs : /\ worker' = [worker EXCEPT ![w] = job(pc)]
                          /\ UNCHANGED <<rows, device, keyVars>>
                          /\ pc = "update_payment_token" => ~Erased(c)
    BY <1>3 DEF WithdrawBegin, RestoreBegin, ReplaceBegin, EraseBegin, Begin,
       Erased
  <2>2. /\ job(pc) \in Job /\ job(pc).pc = pc /\ job(pc).todo = {}
        /\ job(pc).customer = c
    BY DEF Idle, Job, AccountPcs, ErasePcs
  <2> HIDE DEF job
  <2> QED
    BY <2>1, <2>2 DEF Takes
<1>4. ASSUME RewrapBegin(w)
      PROVE  \E job : Takes(w, job)
  <2> DEFINE job == [Idle EXCEPT !.pc = "update_wrapped_dek",
                                 !.todo = ToRewrap(w)]
  <2>1. /\ job \in Job /\ job.pc = "update_wrapped_dek"
        /\ job.todo = ToRewrap(w)
    BY DEF Idle, Job, KeyPcs, ToRewrap
  <2>2. worker' = [worker EXCEPT ![w] = job]
        /\ UNCHANGED <<rows, device, keyVars>>
    BY <1>4 DEF RewrapBegin, Begin
  <2> HIDE DEF job
  <2> QED
    BY <2>1, <2>2 DEF Takes, ToRewrap, Erased
<1>5. ASSUME NEW k \in Keks, DestroyBegin(w, k)
      PROVE  \E job : Takes(w, job)
  <2> DEFINE job == [Idle EXCEPT !.pc = "destroy_kek", !.kek = k]
  <2>1. /\ job \in Job /\ job.pc = "destroy_kek" /\ job.kek = k
        /\ job.todo = {}
    BY DEF Idle, Job, KeyPcs
  <2>2. worker' = [worker EXCEPT ![w] = job] /\ k \in RetiredKeks(w)
        /\ UNCHANGED <<rows, device, keyVars>>
    BY <1>5 DEF DestroyBegin, Begin
  <2> HIDE DEF job
  <2> QED
    BY <2>1, <2>2 DEF Takes
<1> QED
  BY <1>1, <1>2, <1>3, <1>4, <1>5 DEF BeginStep

\* A handler's customer, and what becomes of the handler.
LEMMA CallOf ==
  ASSUME Inv, NEW w \in Workers
  PROVE  /\ worker[w].pc \in CustomerPcs => Of(w) \in Customers
         /\ Idle.pc = "idle" /\ Idle.todo = {}
         /\ \A job : worker' = [worker EXCEPT ![w] = job] => worker'[w] = job
         /\ \A pc : Advance(w, pc) =>
              /\ worker'[w].pc = pc /\ worker'[w].kek = worker[w].kek
              /\ worker'[w].customer = Of(w)
              /\ worker'[w].todo = worker[w].todo
         /\ Finish(w) => worker'[w] = Idle
<1>1. worker \in [Workers -> Job] /\ JobOK(w)
  BY DEF Inv, TypeOK, JobsOK
<1>2. ASSUME NEW pc, Advance(w, pc)
      PROVE  /\ worker'[w].pc = pc /\ worker'[w].kek = worker[w].kek
             /\ worker'[w].customer = Of(w)
             /\ worker'[w].todo = worker[w].todo
  BY <1>1, <1>2 DEF Advance, Job, Of
<1> QED
  BY <1>1, <1>2, IdleOK DEF Finish, JobOK, Of

-----------------------------------------------------------------------------
(***************************************************************************)
(* Consent.  A profile is suspended before its consent is withdrawn, and   *)
(* the consent is on record before the profile becomes active.             *)
(***************************************************************************)
Covered(w) ==
  /\ worker[w].pc \in {"create_credential", "activate"} =>
       consent[Of(w)] = "given"
  /\ At(w, "withdraw") => profile[Of(w)].status # "active"

ConsentInv == Inv /\ ConsentCovers /\ \A w \in Workers : Covered(w)

\* What a call writes about one customer.
LEMMA ConsentWrite ==
  ASSUME OneProcess, ConsentInv, Inv', NEW w \in Workers, NEW c \in Customers,
         \A d \in Customers : d # c =>
           /\ profile'[d].status = profile[d].status
           /\ credential'[d] = credential[d] /\ consent'[d] = consent[d],
         profile'[c].status = "active" /\ credential'[c] = "active" =>
           consent'[c] = "given",
         Covered(w)'
  PROVE  ConsentInv'
<1>1. ConsentCovers'
  BY DEF ConsentInv, ConsentCovers
<1>2. \A v \in Workers : Covered(v)'
  BY DEF OneProcess
<1> QED
  BY <1>1, <1>2 DEF ConsentInv

\* Steps that leave statuses, consents and credentials alone.
LEMMA ConsentKept ==
  ASSUME OneProcess, ConsentInv, Inv', NEW w \in Workers,
         \A d \in Customers : profile'[d].status = profile[d].status,
         UNCHANGED <<consent, credential>>,
         worker'[w].pc \notin {"create_credential", "activate", "withdraw"}
  PROVE  ConsentInv'
<1>1. ConsentCovers'
  BY DEF ConsentInv, ConsentCovers
<1>2. \A v \in Workers : Covered(v)'
  BY DEF OneProcess, Covered, At
<1> QED
  BY <1>1, <1>2 DEF ConsentInv

LEMMA ConsentCall ==
  ASSUME OneProcess, ConsentInv, Inv', NEW w \in Workers,
         \/ CreateProfile(w) \/ RecordConsent(w) \/ CreateCredential(w)
         \/ Suspend(w) \/ Withdraw(w) \/ Grant(w) \/ Activate(w)
         \/ CryptoShred(w) \/ WithdrawErased(w) \/ RevokeCredentials(w)
  PROVE  ConsentInv'
<1>1. worker[w].pc \in CustomerPcs
  BY DEF CreateProfile, RecordConsent, CreateCredential, Suspend, Withdraw,
     Grant, Activate, CryptoShred, WithdrawErased, RevokeCredentials, At,
     CustomerPcs, EnrollPcs, AccountPcs, ErasePcs
<1>2. PICK c \in Customers : c = Of(w)
  BY <1>1, CallOf DEF ConsentInv
<1>3. /\ profile \in [Customers -> Profile]
      /\ consent \in [Customers -> {"none", "given", "withdrawn"}]
      /\ credential \in [Customers -> {"none", "active", "revoked"}]
      /\ JobOK(w) /\ Covered(w)
      /\ profile[c].status = "active" /\ credential[c] = "active" =>
           consent[c] = "given"
  BY DEF ConsentInv, ConsentCovers, Inv, TypeOK, JobsOK
<1>4. /\ \A pc : Advance(w, pc) => worker'[w].pc = pc /\ Of(w)' = c
      /\ Finish(w) => worker'[w].pc = "idle"
  BY <1>2, CallOf DEF ConsentInv, Of
<1>5. /\ \A d \in Customers : d # c =>
           /\ profile'[d].status = profile[d].status
           /\ credential'[d] = credential[d] /\ consent'[d] = consent[d]
      /\ profile'[c].status = "active" /\ credential'[c] = "active" =>
           consent'[c] = "given"
      /\ Covered(w)'
  <2>1. CASE CreateProfile(w)
    <3>1. credential[c] = "none"
      BY <1>2, <1>3, <2>1 DEF CreateProfile, JobOK, At, Enrolling
    <3> QED
      BY <1>2, <1>3, <1>4, <2>1, <3>1 DEF CreateProfile, Covered, At
  <2>2. CASE RecordConsent(w)
    BY <1>2, <1>3, <1>4, <2>2 DEF RecordConsent, Covered, At
  <2>3. CASE CreateCredential(w)
    BY <1>2, <1>3, <1>4, <2>3 DEF CreateCredential, Covered, At
  <2>4. CASE Suspend(w)
    <3>1. profile'[c].status # "active"
      BY <1>2, <1>3, <2>4 DEF Suspend, SetProfileStatus, Profile
    <3>2. \A d \in Customers : d # c => profile'[d] = profile[d]
      BY <1>2, <1>3, <2>4 DEF Suspend, SetProfileStatus
    <3> QED
      BY <1>2, <1>3, <1>4, <2>4, <3>1, <3>2 DEF Suspend, Covered, At
  <2>5. CASE Withdraw(w)
    BY <1>2, <1>3, <1>4, <2>5 DEF Withdraw, WithdrawConsent, Covered, At
  <2>6. CASE Grant(w)
    BY <1>2, <1>3, <1>4, <2>6 DEF Grant, Covered, At
  <2>7. CASE Activate(w)
    <3>1. \A d \in Customers : d # c => profile'[d] = profile[d]
      BY <1>2, <1>3, <2>7 DEF Activate, SetProfileStatus
    <3> QED
      BY <1>2, <1>3, <1>4, <2>7, <3>1 DEF Activate, Covered, At
  <2>8. CASE CryptoShred(w)
    BY <1>2, <1>3, <1>4, <2>8 DEF CryptoShred, Tombstone, Covered, At
  <2>9. CASE WithdrawErased(w)
    <3>1. Erased(c)
      BY <1>2, <1>3, <2>9 DEF WithdrawErased, JobOK, At, Shredded
    <3> QED
      BY <1>2, <1>3, <1>4, <2>9, <3>1
         DEF WithdrawErased, WithdrawConsent, Covered, At, Erased
  <2>10. CASE RevokeCredentials(w)
    BY <1>2, <1>3, <1>4, <2>10 DEF RevokeCredentials, Covered, At
  <2> QED
    BY <2>1, <2>2, <2>3, <2>4, <2>5, <2>6, <2>7, <2>8, <2>9, <2>10
<1> QED
  BY <1>5, ConsentWrite

LEMMA ConsentInductive ==
  ASSUME OneProcess
  PROVE  ConsentInv /\ [Next]_vars => ConsentInv'
<1> SUFFICES ASSUME ConsentInv, [Next]_vars PROVE ConsentInv'
  OBVIOUS
<1>1. Inv /\ Inv'
  BY StepInv DEF ConsentInv
<1>2. profile \in [Customers -> Profile] /\ worker \in [Workers -> Job]
  BY <1>1 DEF Inv, TypeOK
<1>3. CASE UNCHANGED vars
  BY <1>1, <1>3 DEF vars, rows, keyVars, ConsentInv, ConsentCovers, Covered, At,
     Of
<1>4. ASSUME NEW w \in Workers, BeginStep(w) PROVE ConsentInv'
  <2>1. PICK job : Takes(w, job)
    BY <1>1, <1>4, NewJob
  <2>2. worker'[w] = job
    BY <1>2, <2>1 DEF Takes
  <2> QED
    BY <1>1, <2>1, <2>2, ConsentKept DEF Takes, rows
<1>5. ASSUME NEW w \in Workers, WorkerStep(w) PROVE ConsentInv'
  <2>1. CASE \/ CreateProfile(w) \/ RecordConsent(w) \/ CreateCredential(w)
             \/ Suspend(w) \/ Withdraw(w) \/ Grant(w) \/ Activate(w)
             \/ CryptoShred(w) \/ WithdrawErased(w) \/ RevokeCredentials(w)
    BY <1>1, <2>1, ConsentCall
  <2>2. CASE \/ AddFirstTemplate(w) \/ EnrollAnswer(w) \/ AddPalm(w)
             \/ AlreadyShredded(w) \/ AuditErasure(w) \/ DestroyKek(w)
             \/ StorageFault(w) \/ Restart(w)
    <3>1. worker'[w].pc \in {"idle", "record_consent"}
      BY <1>1, <2>2, CallOf
         DEF AddFirstTemplate, EnrollAnswer, AddPalm, AlreadyShredded,
             AuditErasure, DestroyKek, StorageFault, Restart
    <3>2. UNCHANGED <<profile, consent, credential>>
      BY <2>2 DEF AddFirstTemplate, EnrollAnswer, AddPalm, AlreadyShredded,
         AuditErasure, DestroyKek, StorageFault, Restart, rows
    <3> QED
      BY <1>1, <3>1, <3>2, ConsentKept
  <2>3. CASE UpdatePaymentToken(w)
    <3>1. worker'[w].pc = "idle"
      BY <1>1, <2>3, CallOf DEF UpdatePaymentToken
    <3>2. \A d \in Customers : profile'[d].status = profile[d].status
      BY <1>2, <2>3 DEF UpdatePaymentToken, Profile
    <3> QED
      BY <1>1, <2>3, <3>1, <3>2, ConsentKept DEF UpdatePaymentToken
  <2>4. ASSUME NEW c \in Customers, UpdateWrappedDek(w, c)
        PROVE  ConsentInv'
    <3>1. worker'[w].pc \in {"idle", "update_wrapped_dek"}
      BY <1>1, <1>2, <2>4, CallOf DEF UpdateWrappedDek, Job, At
    <3>2. \A d \in Customers : profile'[d].status = profile[d].status
      BY <1>2, <2>4 DEF UpdateWrappedDek, Profile
    <3> QED
      BY <1>1, <2>4, <3>1, <3>2, ConsentKept DEF UpdateWrappedDek
  <2> QED
    BY <1>5, <2>1, <2>2, <2>3, <2>4 DEF WorkerStep
<1>6. ASSUME NEW w \in Workers, NEW k \in Keks, RotateKek(w, k)
      PROVE  ConsentInv'
  BY <1>1, <1>6, ConsentKept DEF RotateKek, rows, At
<1> QED
  BY <1>3, <1>4, <1>5, <1>6, ProcessSteps

-----------------------------------------------------------------------------
(***************************************************************************)
(* Erasure.  A handler that is about to write key material, a card or a    *)
(* palm works for a customer who is not erased.                            *)
(***************************************************************************)
Unerased(w) ==
  /\ worker[w].pc \in {"create_profile", "add_template", "add_palm",
                       "update_payment_token"} => ~Erased(Of(w))
  /\ At(w, "update_wrapped_dek") => \A c \in worker[w].todo : ~Erased(c)

ErasedInv == Inv /\ NothingLeft /\ \A w \in Workers : Unerased(w)

LEMMA ErasedWrite ==
  ASSUME OneProcess, ErasedInv, Inv', NEW w \in Workers, NEW c \in Customers,
         \A d \in Customers : d # c => /\ profile'[d] = profile[d]
                                      /\ templates'[d] = templates[d],
         Erased(c)' => /\ profile'[c] = Tombstone
                       /\ \A l \in Labels : templates'[c][l] = 0,
         Unerased(w)'
  PROVE  ErasedInv'
<1>1. NothingLeft'
  BY DEF ErasedInv, NothingLeft, Erased
<1>2. \A v \in Workers : Unerased(v)'
  BY DEF OneProcess
<1> QED
  BY <1>1, <1>2 DEF ErasedInv

LEMMA ErasedKept ==
  ASSUME OneProcess, ErasedInv, Inv', NEW w \in Workers,
         UNCHANGED <<profile, templates>>, Unerased(w)'
  PROVE  ErasedInv'
<1>1. NothingLeft'
  BY DEF ErasedInv, NothingLeft, Erased
<1>2. \A v \in Workers : Unerased(v)'
  BY DEF OneProcess
<1> QED
  BY <1>1, <1>2 DEF ErasedInv

LEMMA ErasedCall ==
  ASSUME OneProcess, ErasedInv, Inv', NEW w \in Workers,
         \/ CreateProfile(w) \/ AddFirstTemplate(w) \/ AddPalm(w)
         \/ Suspend(w) \/ Activate(w) \/ UpdatePaymentToken(w)
         \/ CryptoShred(w)
  PROVE  ErasedInv'
<1>1. worker[w].pc \in CustomerPcs
  BY DEF CreateProfile, AddFirstTemplate, AddPalm, Suspend, Activate,
     UpdatePaymentToken, CryptoShred, At, CustomerPcs, EnrollPcs, AccountPcs,
     ErasePcs
<1>2. PICK c \in Customers : c = Of(w)
  BY <1>1, CallOf DEF ErasedInv
<1>3. /\ profile \in [Customers -> Profile]
      /\ templates \in [Customers -> [Labels -> Nat]]
      /\ JobOK(w) /\ Unerased(w)
      /\ Erased(c) => /\ profile[c] = Tombstone
                      /\ \A l \in Labels : templates[c][l] = 0
  BY DEF ErasedInv, NothingLeft, Inv, TypeOK, JobsOK, Job
<1>4. /\ \A pc : Advance(w, pc) => worker'[w].pc = pc /\ Of(w)' = c
      /\ Finish(w) => worker'[w].pc = "idle"
  BY <1>2, CallOf DEF ErasedInv, Of
<1>5. CASE \/ CreateProfile(w) \/ AddFirstTemplate(w) \/ AddPalm(w)
           \/ UpdatePaymentToken(w)
  <2>1. ~Erased(c)
    BY <1>2, <1>3, <1>5 DEF CreateProfile, AddFirstTemplate, AddPalm,
       UpdatePaymentToken, Unerased, At
  <2>2. /\ \A d \in Customers : d # c => /\ profile'[d] = profile[d]
                                        /\ templates'[d] = templates[d]
        /\ profile'[c].status \in {profile[c].status, "active"}
    BY <1>2, <1>3, <1>5 DEF CreateProfile, AddFirstTemplate, AddPalm,
       InsertTemplate, UpdatePaymentToken, Profile
  <2>3. ~Erased(c)'
    BY <2>1, <2>2 DEF Erased
  <2>4. /\ worker'[w].pc \in {"add_template", "record_consent", "idle"}
        /\ worker'[w].pc = "add_template" => Of(w)' = c
    BY <1>4, <1>5 DEF CreateProfile, AddFirstTemplate, AddPalm,
       UpdatePaymentToken
  <2>5. Unerased(w)'
    BY <2>3, <2>4 DEF Unerased, At
  <2> QED
    BY <2>2, <2>3, <2>5, ErasedWrite
<1>6. CASE Suspend(w) \/ Activate(w)
  <2>1. PICK status \in {"suspended", "active"} :
          /\ profile' = SetProfileStatus(c, status)
          /\ templates' = templates
          /\ worker'[w].pc \in {"withdraw", "idle"}
    BY <1>2, <1>4, <1>6 DEF Suspend, Activate
  <2>2. \A d \in Customers : d # c => profile'[d] = profile[d]
    BY <1>3, <2>1 DEF SetProfileStatus
  <2>3. IF Erased(c) THEN profile'[c] = profile[c] ELSE ~Erased(c)'
    BY <1>3, <2>1 DEF SetProfileStatus, Erased, Profile
  <2>4. Unerased(w)'
    BY <2>1 DEF Unerased, At
  <2> QED
    BY <1>3, <2>1, <2>2, <2>3, <2>4, ErasedWrite
<1>7. CASE CryptoShred(w)
  <2>1. worker'[w].pc = "withdraw_erased"
    BY <1>4, <1>7 DEF CryptoShred
  <2>2. Unerased(w)'
    BY <2>1 DEF Unerased, At
  <2>3. /\ \A d \in Customers : d # c => /\ profile'[d] = profile[d]
                                        /\ templates'[d] = templates[d]
        /\ profile'[c] = Tombstone
        /\ \A l \in Labels : templates'[c][l] = 0
    BY <1>2, <1>3, <1>7 DEF CryptoShred
  <2> QED
    BY <2>2, <2>3, ErasedWrite
<1> QED
  BY <1>5, <1>6, <1>7

LEMMA ErasedInductive ==
  ASSUME OneProcess
  PROVE  ErasedInv /\ [Next]_vars => ErasedInv'
<1> SUFFICES ASSUME ErasedInv, [Next]_vars PROVE ErasedInv'
  OBVIOUS
<1>1. Inv /\ Inv'
  BY StepInv DEF ErasedInv
<1>2. /\ profile \in [Customers -> Profile] /\ worker \in [Workers -> Job]
      /\ \A w \in Workers : Unerased(w)
  BY <1>1 DEF Inv, TypeOK, ErasedInv
<1>3. CASE UNCHANGED vars
  BY <1>1, <1>3 DEF vars, rows, keyVars, ErasedInv, NothingLeft, Unerased,
     Erased, At, Of
<1>4. ASSUME NEW w \in Workers, BeginStep(w) PROVE ErasedInv'
  <2>1. PICK job : Takes(w, job)
    BY <1>1, <1>4, NewJob
  <2>2. worker'[w] = job
    BY <1>2, <2>1 DEF Takes
  <2>3. CASE job.pc = "create_profile"
    <3>1. worker'[w].pc = "create_profile" /\ JobOK(w)'
      BY <1>1, <2>2, <2>3 DEF Inv, JobsOK
    <3>2. ~Erased(Of(w))'
      BY <3>1 DEF JobOK, At, Of, Erased, NoProfile
    <3>3. Unerased(w)'
      BY <3>1, <3>2 DEF Unerased, At
    <3> QED
      BY <1>1, <2>1, <3>3, ErasedKept DEF Takes, rows
  <2>4. CASE job.pc # "create_profile"
    <3>1. Unerased(w)'
      BY <2>1, <2>2, <2>4 DEF Takes, Unerased, At, Of, Erased, rows
    <3> QED
      BY <1>1, <2>1, <3>1, ErasedKept DEF Takes, rows
  <2> QED
    BY <2>3, <2>4
<1>5. ASSUME NEW w \in Workers, WorkerStep(w) PROVE ErasedInv'
  <2>1. CASE \/ CreateProfile(w) \/ AddFirstTemplate(w) \/ AddPalm(w)
             \/ Suspend(w) \/ Activate(w) \/ UpdatePaymentToken(w)
             \/ CryptoShred(w)
    BY <1>1, <2>1, ErasedCall
  <2>2. CASE \/ RecordConsent(w) \/ CreateCredential(w) \/ EnrollAnswer(w)
             \/ Withdraw(w) \/ Grant(w) \/ AlreadyShredded(w)
             \/ WithdrawErased(w) \/ RevokeCredentials(w) \/ AuditErasure(w)
             \/ DestroyKek(w) \/ StorageFault(w) \/ Restart(w)
    <3>1. worker'[w].pc \in {"idle", "create_credential", "answer", "activate",
                             "revoke_credentials", "audit_erasure"}
      BY <1>1, <2>2, CallOf
         DEF RecordConsent, CreateCredential, EnrollAnswer, Withdraw, Grant,
             AlreadyShredded, WithdrawErased, RevokeCredentials, AuditErasure,
             DestroyKek, StorageFault, Restart
    <3>2. UNCHANGED <<profile, templates>>
      BY <2>2 DEF RecordConsent, CreateCredential, EnrollAnswer, Withdraw,
         Grant, AlreadyShredded, WithdrawErased, RevokeCredentials,
         AuditErasure, DestroyKek, StorageFault, Restart, rows
    <3>3. Unerased(w)'
      BY <3>1 DEF Unerased, At
    <3> QED
      BY <1>1, <3>2, <3>3, ErasedKept
  <2>3. ASSUME NEW c \in Customers, UpdateWrappedDek(w, c)
        PROVE  ErasedInv'
    <3>1. ~Erased(c) /\ \A d \in worker[w].todo : ~Erased(d)
      BY <1>2, <2>3 DEF UpdateWrappedDek, Unerased
    <3>2. /\ \A d \in Customers : d # c => profile'[d] = profile[d]
          /\ profile'[c].status = profile[c].status
          /\ templates' = templates
      BY <1>2, <2>3 DEF UpdateWrappedDek, Profile
    <3>3. /\ worker'[w].pc \in {"idle", "update_wrapped_dek"}
          /\ worker'[w].todo \subseteq worker[w].todo
      BY <1>1, <1>2, <2>3, CallOf DEF UpdateWrappedDek, Job, At
    <3>4. worker[w].todo \subseteq Customers
      BY <1>2 DEF Job
    <3>5. \A d \in worker'[w].todo : ~Erased(d)'
      BY <3>1, <3>2, <3>3, <3>4 DEF Erased
    <3>6. Unerased(w)'
      BY <3>3, <3>5 DEF Unerased, At
    <3>7. ~Erased(c)'
      BY <3>1, <3>2 DEF Erased
    <3> QED
      BY <1>1, <3>2, <3>6, <3>7, ErasedWrite
  <2> QED
    BY <1>5, <2>1, <2>2, <2>3 DEF WorkerStep
<1>6. ASSUME NEW w \in Workers, NEW k \in Keks, RotateKek(w, k)
      PROVE  ErasedInv'
  BY <1>1, <1>6, ErasedKept DEF RotateKek, rows, At, Unerased
<1> QED
  BY <1>3, <1>4, <1>5, <1>6, ProcessSteps

-----------------------------------------------------------------------------
(***************************************************************************)
(* Keys.  The process's copy is the key file; a profile about to be made   *)
(* is sealed under a KEK that is held, and the KEK about to be destroyed   *)
(* is still one that no live profile needs.                                *)
(***************************************************************************)
KeysInHand(w) ==
  /\ keyring[w] = keystore
  /\ At(w, "create_profile") => worker[w].kek \in keystore.held
  /\ At(w, "destroy_kek") =>
       \A c \in Customers : Live(c) => profile[c].kek # worker[w].kek

AllHeld == \A c \in Customers : Live(c) => profile[c].kek \in keystore.held

KeysInv == Inv /\ AllHeld /\ \A w \in Workers : KeysInHand(w)

\* A write to profiles under a KEK that is held, or to none.
LEMMA KeysWrite ==
  ASSUME OneProcess, KeysInv, Inv', NEW w \in Workers, UNCHANGED keyVars,
         worker'[w].pc \notin {"create_profile", "destroy_kek"},
         \A c \in Customers : Live(c)' =>
           \/ Live(c) /\ profile'[c].kek = profile[c].kek
           \/ profile'[c].kek \in keystore.held
  PROVE  KeysInv'
<1>1. AllHeld'
  BY DEF KeysInv, AllHeld, keyVars
<1>2. KeysInHand(w)'
  BY DEF KeysInv, KeysInHand, At, keyVars
<1> QED
  BY <1>1, <1>2 DEF KeysInv, OneProcess

LEMMA KeysCall ==
  ASSUME OneProcess, KeysInv, Inv', NEW w \in Workers, WorkerStep(w),
         UNCHANGED keyVars
  PROVE  KeysInv'
<1>1. /\ profile \in [Customers -> Profile] /\ worker \in [Workers -> Job]
      /\ JobOK(w) /\ KeysInHand(w) /\ keyring[w] \in KeyRing
  BY DEF KeysInv, Inv, TypeOK, JobsOK
<1>2. /\ \A pc : Advance(w, pc) => worker'[w].pc = pc
      /\ Finish(w) => worker'[w].pc = "idle"
  BY CallOf DEF KeysInv
<1>3. worker'[w].pc \notin {"create_profile", "destroy_kek"}
  <2>1. ASSUME NEW c \in Customers, UpdateWrappedDek(w, c)
        PROVE  worker'[w].pc \in {"idle", "update_wrapped_dek"}
    BY <1>1, <1>2, <2>1 DEF UpdateWrappedDek, Job, At
  <2> QED
    BY <1>2, <2>1
       DEF WorkerStep, CreateProfile, AddFirstTemplate, RecordConsent,
           CreateCredential, EnrollAnswer, AddPalm, Suspend, Withdraw, Grant,
           Activate, UpdatePaymentToken, CryptoShred, AlreadyShredded,
           WithdrawErased, RevokeCredentials, AuditErasure, DestroyKek,
           StorageFault, Restart
<1>4. \A c \in Customers : Live(c)' =>
        \/ Live(c) /\ profile'[c].kek = profile[c].kek
        \/ profile'[c].kek \in keystore.held
  <2>1. CASE CreateProfile(w)
    <3>1. Of(w) \in Customers /\ worker[w].kek \in keystore.held
      BY <1>1, <2>1 DEF CreateProfile, JobOK, KeysInHand, At, CustomerPcs,
         EnrollPcs
    <3> QED
      BY <1>1, <2>1, <3>1 DEF CreateProfile, Live
  <2>2. CASE Suspend(w) \/ Activate(w)
    <3>1. Of(w) \in Customers /\ profile[Of(w)].status # "none"
      BY <1>1, <2>2 DEF Suspend, Activate, JobOK, At, CustomerPcs, AccountPcs
    <3>2. PICK status \in {"suspended", "active"} :
            profile' = SetProfileStatus(Of(w), status)
      BY <2>2 DEF Suspend, Activate
    <3> QED
      BY <1>1, <3>1, <3>2 DEF SetProfileStatus, Live, Profile, Statuses
  <2>3. CASE UpdatePaymentToken(w)
    BY <1>1, <2>3 DEF UpdatePaymentToken, Live, Profile
  <2>4. CASE CryptoShred(w)
    BY <1>1, <2>4 DEF CryptoShred, Tombstone, Live
  <2>5. ASSUME NEW c \in Customers, UpdateWrappedDek(w, c)
        PROVE  \A d \in Customers : Live(d)' =>
                 \/ Live(d) /\ profile'[d].kek = profile[d].kek
                 \/ profile'[d].kek \in keystore.held
    <3>1. keyring[w].active \in keystore.held
      BY <1>1 DEF KeysInHand, KeyRing
    <3> QED
      BY <1>1, <2>5, <3>1 DEF UpdateWrappedDek, Live, Profile
  <2>6. CASE UNCHANGED profile
    BY <2>6 DEF Live
  <2> QED
    BY <2>1, <2>2, <2>3, <2>4, <2>5, <2>6
       DEF WorkerStep, AddFirstTemplate, RecordConsent, CreateCredential,
           EnrollAnswer, AddPalm, Withdraw, Grant, AlreadyShredded,
           WithdrawErased, RevokeCredentials, AuditErasure, DestroyKek,
           StorageFault, Restart, rows
<1> QED
  BY <1>3, <1>4, KeysWrite

LEMMA KeysInductive ==
  ASSUME OneProcess
  PROVE  KeysInv /\ [Next]_vars => KeysInv'
<1> SUFFICES ASSUME KeysInv, [Next]_vars PROVE KeysInv'
  OBVIOUS
<1>1. Inv /\ Inv'
  BY StepInv DEF KeysInv
<1>2. /\ worker \in [Workers -> Job] /\ keyring \in [Workers -> KeyRing]
      /\ \A w \in Workers : KeysInHand(w)
  BY <1>1 DEF Inv, TypeOK, KeysInv
<1>3. CASE UNCHANGED vars
  BY <1>1, <1>3 DEF vars, rows, keyVars, KeysInv, AllHeld, KeysInHand, Live, At
<1>4. ASSUME NEW w \in Workers, BeginStep(w) PROVE KeysInv'
  <2>1. PICK job : Takes(w, job)
    BY <1>1, <1>4, NewJob
  <2>2. worker'[w] = job /\ UNCHANGED <<profile, keystore, keyring>>
    BY <1>2, <2>1 DEF Takes, rows, keyVars
  <2>3. KeysInHand(w)'
    <3>1. job.pc = "create_profile" => job.kek \in keystore.held
      BY <1>2, <2>1 DEF Takes, KeysInHand, KeyRing
    <3>2. job.pc = "destroy_kek" =>
            \A c \in Customers : Live(c) => profile[c].kek # job.kek
      BY <2>1 DEF Takes, RetiredKeks, Live
    <3> QED
      BY <1>2, <2>2, <3>1, <3>2 DEF KeysInHand, At, Live
  <2>4. AllHeld'
    BY <2>2 DEF KeysInv, AllHeld, Live
  <2> QED
    BY <1>1, <2>3, <2>4 DEF KeysInv, OneProcess
<1>5. ASSUME NEW w \in Workers, WorkerStep(w) PROVE KeysInv'
  <2>1. CASE DestroyKek(w)
    <3>1. /\ keystore' = [keyring[w] EXCEPT !.held = @ \ {worker[w].kek}]
          /\ keyring'[w] = keystore' /\ profile' = profile
          /\ worker'[w].pc = "idle"
      BY <1>1, <1>2, <2>1, CallOf DEF DestroyKek, SaveKeys, rows
    <3>2. keystore'.held = keystore.held \ {worker[w].kek}
      BY <1>2, <3>1 DEF KeysInHand, KeyRing
    <3>3. \A c \in Customers : Live(c) => profile[c].kek # worker[w].kek
      BY <1>2, <2>1 DEF KeysInHand, DestroyKek
    <3>4. AllHeld'
      BY <3>1, <3>2, <3>3 DEF KeysInv, AllHeld, Live
    <3>5. KeysInHand(w)'
      BY <3>1 DEF KeysInHand, At
    <3> QED
      BY <1>1, <3>4, <3>5 DEF KeysInv, OneProcess
  <2>2. CASE Restart(w)
    <3>1. /\ keyring'[w] = keystore /\ keystore' = keystore
          /\ profile' = profile /\ worker'[w].pc = "idle"
      BY <1>1, <1>2, <2>2, CallOf DEF Restart, rows
    <3> QED
      BY <1>1, <3>1 DEF KeysInv, AllHeld, KeysInHand, Live, At, OneProcess
  <2>3. CASE UNCHANGED keyVars
    BY <1>1, <1>5, <2>3, KeysCall
  <2> QED
    BY <1>5, <2>1, <2>2, <2>3
       DEF WorkerStep, CreateProfile, AddFirstTemplate, RecordConsent,
           CreateCredential, EnrollAnswer, AddPalm, Suspend, Withdraw, Grant,
           Activate, UpdatePaymentToken, CryptoShred, AlreadyShredded,
           WithdrawErased, RevokeCredentials, AuditErasure, UpdateWrappedDek,
           StorageFault
<1>6. ASSUME NEW w \in Workers, NEW k \in Keks, RotateKek(w, k)
      PROVE  KeysInv'
  <2>1. /\ keystore' = [active |-> k, held |-> keyring[w].held \cup {k}]
        /\ keyring'[w] = keystore' /\ UNCHANGED <<profile, worker>>
        /\ worker[w].pc = "idle"
    BY <1>2, <1>6 DEF RotateKek, SaveKeys, rows, At
  <2>2. keystore'.held = keystore.held \cup {k}
    BY <1>2, <2>1 DEF KeysInHand
  <2>3. AllHeld' /\ KeysInHand(w)'
    BY <2>1, <2>2 DEF KeysInv, AllHeld, Live, KeysInHand, At
  <2> QED
    BY <1>1, <2>3 DEF KeysInv, OneProcess
<1> QED
  BY <1>3, <1>4, <1>5, <1>6, ProcessSteps

-----------------------------------------------------------------------------
(***************************************************************************)
(* In one process, whichever calls fail: the palm of a customer who has a  *)
(* credential is active only under a consent on record.  Withdrawing       *)
(* suspends the profile first, restoring records the grant first.  With    *)
(* two processes a withdrawal beside a restore breaks it.                  *)
(***************************************************************************)
THEOREM ActiveUnderConsent ==
  ASSUME OneProcess
  PROVE  Spec => []ConsentCovers
<1>1. Init => ConsentInv
  <2> SUFFICES ASSUME Init PROVE ConsentInv
    OBVIOUS
  <2>1. Inv /\ \A c \in Customers : profile[c].status = "none"
    BY InitInv DEF Init, NoProfile
  <2>2. \A w \in Workers : worker[w].pc = "idle"
    BY DEF Init, Idle
  <2> QED
    BY <2>1, <2>2 DEF ConsentInv, ConsentCovers, Covered, At
<1>2. ConsentInv => ConsentCovers
  BY DEF ConsentInv
<1> QED
  BY <1>1, <1>2, ConsentInductive, PTL DEF Spec

(***************************************************************************)
(* In one process, whichever calls fail: crypto_shred leaves a tombstone   *)
(* and no palm, and no handler that follows puts a key, a card or a palm   *)
(* back.  With two processes an add_palm or a rewrap that overlaps does.   *)
(***************************************************************************)
THEOREM ErasureLeavesNothing ==
  ASSUME OneProcess
  PROVE  Spec => []NothingLeft
<1>1. Init => ErasedInv
  <2> SUFFICES ASSUME Init PROVE ErasedInv
    OBVIOUS
  <2>1. Inv /\ \A c \in Customers : ~Erased(c)
    BY InitInv DEF Init, NoProfile, Erased
  <2>2. \A w \in Workers : worker[w].pc = "idle"
    BY DEF Init, Idle
  <2> QED
    BY <2>1, <2>2 DEF ErasedInv, NothingLeft, Unerased, At
<1>2. ErasedInv => NothingLeft
  BY DEF ErasedInv
<1> QED
  BY <1>1, <1>2, ErasedInductive, PTL DEF Spec

(***************************************************************************)
(* In one process, through rotations, rewraps, restarts and failures: the  *)
(* KEK of every profile that is not erased is in the key file and in the   *)
(* process, since only a KEK reported as retired is destroyed.             *)
(***************************************************************************)
THEOREM KeysStay ==
  ASSUME OneProcess
  PROVE  Spec => []KeysKept
<1>1. Init => KeysInv
  <2> SUFFICES ASSUME Init PROVE KeysInv
    OBVIOUS
  <2>1. Inv /\ \A c \in Customers : ~Live(c)
    BY InitInv DEF Init, NoProfile, Live
  <2>2. \A w \in Workers : worker[w].pc = "idle" /\ keyring[w] = keystore
    BY DEF Init, Idle
  <2> QED
    BY <2>1, <2>2 DEF KeysInv, AllHeld, KeysInHand, At
<1>2. KeysInv => KeysKept
  BY DEF KeysInv, AllHeld, KeysInHand, KeysKept, Readable
<1> QED
  BY <1>1, <1>2, KeysInductive, PTL DEF Spec
=============================================================================
