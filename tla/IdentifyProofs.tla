--------------------------- MODULE IdentifyProofs ---------------------------
(***************************************************************************)
(* Theorems about identification, for any number of requests, servers,     *)
(* customers, hands and keys, whatever the servers' builds and key rings,  *)
(* the matcher's distances, threshold and margin, and the shard's limit.   *)
(***************************************************************************)
EXTENDS Identify, TLAPS, FiniteSetTheorems, WellFoundedInduction

Pcs == {"idle", "probe", "count_in_shard", "find_candidates",
        "templates_for", "charge"}
Answers == {"none", "liveness_failed", "palm_not_found", "poor_quality",
            "shard_overflow", "no_match", "reenrollment_required",
            "ambiguous_match", "approved"}
CandidateRow == [customer : Customers, kek : Keks]
Scored == [customer : Customers, distance : Nat]
Job ==
  [pc : Pcs, server : Servers \cup {None}, hand : Hands \cup {None},
   shard : PayCodes \cup {None}, todo : SUBSET CandidateRow,
   scored : SUBSET Scored, stale : Nat, answer : Answers,
   customer : Customers \cup {None}, eligible : SUBSET Customers,
   steady : SUBSET Palm, truncated : BOOLEAN]

ProfilesOK ==
  /\ profile \in [Customers -> Profile]
  /\ \A c \in Customers : Active(c) \/ profile[c].status = "suspended" =>
       /\ profile[c].shard \in PayCodes
       /\ profile[c].engine \in Engines
       /\ profile[c].kek \in Keks
  /\ IsFiniteSet({c \in Customers : profile[c] # NoProfile})

JobOK(job) ==
  /\ job.pc # "idle" =>
       /\ job.server \in Servers /\ job.hand \in Hands
       /\ job.shard \in PayCodes /\ job.answer = "none"
  /\ \A p \in job.steady : p \in palms /\ Active(p.customer)

TypeInv ==
  /\ ProfilesOK
  /\ palms \subseteq Palm
  /\ request \in [Requests -> Job]
  /\ \A r \in Requests : JobOK(request[r])

-----------------------------------------------------------------------------
(***************************************************************************)
(* The steps: one request's own, or a write to the tables by another.      *)
(***************************************************************************)
OwnStep(r) ==
  \/ \E s \in Servers, hand \in Shown, shard \in PayCodes :
       PayBegin(r, s, hand, shard)
  \/ RequestStep(r)

TableStep ==
  \/ \E s \in Servers, c \in Customers :
       \/ \E shard \in PayCodes : CreateProfile(s, c, shard)
       \/ \E hand \in HandsOf[c] : AddPalm(s, c, hand)
  \/ \E c \in Customers :
       \/ \E hand \in HandsOf[c] : AddFirstTemplate(c, hand)
       \/ Suspend(c) \/ Restore(c) \/ CryptoShred(c)

LEMMA Steps == Next <=> TableStep \/ \E r \in Requests : OwnStep(r)
BY DEF Next, OwnStep, TableStep

\* History, written out.
LEMMA HistoryOf ==
  /\ Unaffected =>
       request' = [r \in Requests |->
                     IF At(r, "idle") THEN Idle ELSE request[r]]
  /\ \A c : NowEligible(c) =>
       request' = [r \in Requests |->
                     IF At(r, "idle") THEN Idle
                     ELSE [request[r] EXCEPT !.eligible = @ \cup {c}]]
  /\ \A c : NoLongerSteady(c) =>
       request' = [r \in Requests |->
                     IF At(r, "idle") THEN Idle
                     ELSE [request[r] EXCEPT !.steady =
                             {p \in @ : p.customer # c}]]
BY DEF Unaffected, NowEligible, NoLongerSteady, History

(***************************************************************************)
(* A table write, as a request in progress sees it: the customers it may   *)
(* charge grow with the active ones, and the palms it holds to be steady   *)
(* stay where they are, with a profile that does not change.               *)
(***************************************************************************)
Followed(r) ==
  /\ request'[r] = [request[r] EXCEPT !.eligible = request'[r].eligible,
                                      !.steady = request'[r].steady]
  /\ request[r].eligible \subseteq request'[r].eligible
  /\ \A c \in Customers :
       Active(c)' => Active(c) \/ c \in request'[r].eligible
  /\ \A p \in request'[r].steady :
       /\ p \in request[r].steady
       /\ p \in palms => p \in palms'
       /\ profile'[p.customer] = profile[p.customer]

LEMMA IdleJob == Idle \in Job
BY DEF Idle, Job, Pcs, Answers

\* The shortest distance of a palm is one, and no other is shorter.
LEMMA LeastDistance ==
  ASSUME NEW S \in SUBSET Nat, S # {}
  PROVE  \E d \in S : \A e \in S : d <= e
<1>1. PICK d \in S : \A e \in S : ~(<<e, d>> \in OpToRel(<, Nat))
  BY WFMin, NatLessThanWellFounded
<1>2. d \in Nat /\ \A e \in S : e \in Nat /\ ~(e < d)
  BY <1>1 DEF OpToRel
<1>3. \A e \in S : d <= e
  BY <1>2
<1> QED
  BY <1>3

\* A write to one customer's profile keeps the table in order.
LEMMA ProfileWritten ==
  ASSUME ProfilesOK, NEW c \in Customers, NEW row \in Profile,
         profile' = [profile EXCEPT ![c] = row],
         row.status \in {"active", "suspended"} =>
           row.shard \in PayCodes /\ row.engine \in Engines /\ row.kek \in Keks
  PROVE  ProfilesOK'
<1>1. profile' \in [Customers -> Profile]
  BY DEF ProfilesOK
<1>2. \A d \in Customers : Active(d)' \/ profile'[d].status = "suspended" =>
        /\ profile'[d].shard \in PayCodes
        /\ profile'[d].engine \in Engines
        /\ profile'[d].kek \in Keks
  BY DEF ProfilesOK, Active
<1>3. IsFiniteSet({d \in Customers : profile'[d] # NoProfile})
  <2> DEFINE known == {d \in Customers : profile[d] # NoProfile}
             more == {d \in Customers : profile'[d] # NoProfile}
  <2>1. IsFiniteSet(known \cup {c})
    BY FS_AddElement DEF ProfilesOK
  <2>2. more \subseteq known \cup {c}
    BY DEF ProfilesOK
  <2> QED
    BY <2>1, <2>2, FS_Subset
<1> QED
  BY <1>1, <1>2, <1>3 DEF ProfilesOK

\* What a write to the tables is, seen from the requests.
WrittenFor(c) ==
  \/ NowEligible(c) /\ ~Active(c) /\ UNCHANGED palms
  \/ NoLongerSteady(c) /\ ~Active(c)'
     /\ \A p \in palms : p.customer # c => p \in palms'

LEMMA TablesWritten ==
  ASSUME TypeInv, TableStep
  PROVE  /\ ProfilesOK' /\ palms' \subseteq Palm
         /\ \/ Unaffected /\ UNCHANGED profile /\ palms \subseteq palms'
            \/ \E c \in Customers :
                 /\ WrittenFor(c)
                 /\ \A d \in Customers \ {c} : profile'[d] = profile[d]
<1> USE DEF TypeInv
<1>1. ASSUME NEW s \in Servers, NEW c \in Customers, NEW shard \in PayCodes,
             CreateProfile(s, c, shard)
      PROVE  /\ ProfilesOK' /\ UNCHANGED palms
             /\ WrittenFor(c)
             /\ \A d \in Customers \ {c} : profile'[d] = profile[d]
  <2> DEFINE row == [status |-> "active", shard |-> shard,
                     engine |-> Engine[s], kek |-> ActiveKek[s]]
  <2>1. ActiveKek[s] \in Keks /\ Engine[s] \in Engines
    BY IdentifyAssumption DEF Engines
  <2>2. row \in Profile
    BY <2>1 DEF Profile, Engines
  <2>3. profile' = [profile EXCEPT ![c] = row]
    BY <1>1 DEF CreateProfile
  <2>4. ProfilesOK'
    BY <2>1, <2>2, <2>3, ProfileWritten
  <2>5. WrittenFor(c)
    BY <1>1 DEF CreateProfile, WrittenFor, NoProfile, Active
  <2> QED
    BY <1>1, <2>3, <2>4, <2>5 DEF CreateProfile, ProfilesOK
<1>2. ASSUME NEW c \in Customers, NEW hand \in HandsOf[c],
             NEW engine \in Engines, InsertTemplate(c, hand, engine)
      PROVE  /\ ProfilesOK' /\ palms' \subseteq Palm
             /\ Unaffected /\ UNCHANGED profile /\ palms \subseteq palms'
  <2>1. hand \in Hands
    BY DEF Hands
  <2>2. [customer |-> c, hand |-> hand, engine |-> engine] \in Palm
    BY <2>1 DEF Palm
  <2> QED
    BY <1>2, <2>2 DEF InsertTemplate, ProfilesOK, Active
<1>3. ASSUME NEW c \in Customers, Suspend(c)
      PROVE  /\ ProfilesOK' /\ UNCHANGED palms
             /\ WrittenFor(c)
             /\ \A d \in Customers \ {c} : profile'[d] = profile[d]
  <2> DEFINE row == [profile[c] EXCEPT !.status = "suspended"]
  <2>1. profile' = [profile EXCEPT ![c] = row]
    BY <1>3 DEF Suspend, ProfilesOK
  <2>2. /\ row \in Profile
        /\ row.shard \in PayCodes /\ row.engine \in Engines /\ row.kek \in Keks
    BY <1>3 DEF Suspend, ProfilesOK, Profile, Active
  <2>3. ProfilesOK'
    BY <2>1, <2>2, ProfileWritten
  <2>4. profile'[c].status = "suspended"
    BY <2>1 DEF ProfilesOK, Profile
  <2> QED
    BY <1>3, <2>1, <2>3, <2>4 DEF Suspend, WrittenFor, Active, ProfilesOK
<1>4. ASSUME NEW c \in Customers, Restore(c)
      PROVE  /\ ProfilesOK' /\ UNCHANGED palms
             /\ WrittenFor(c)
             /\ \A d \in Customers \ {c} : profile'[d] = profile[d]
  <2> DEFINE row == [profile[c] EXCEPT !.status = "active"]
  <2>1. profile' = [profile EXCEPT ![c] = row]
    BY <1>4 DEF Restore, ProfilesOK
  <2>2. /\ row \in Profile
        /\ row.shard \in PayCodes /\ row.engine \in Engines /\ row.kek \in Keks
    BY <1>4 DEF Restore, ProfilesOK, Profile
  <2>3. ProfilesOK'
    BY <2>1, <2>2, ProfileWritten
  <2> QED
    BY <1>4, <2>1, <2>3 DEF Restore, WrittenFor, Active, ProfilesOK
<1>5. ASSUME NEW c \in Customers, CryptoShred(c)
      PROVE  /\ ProfilesOK' /\ palms' \subseteq Palm
             /\ WrittenFor(c)
             /\ \A d \in Customers \ {c} : profile'[d] = profile[d]
  <2>1. profile' = [profile EXCEPT ![c] = Tombstone]
    BY <1>5 DEF CryptoShred
  <2>2. Tombstone \in Profile /\ Tombstone.status = "shredded"
    BY DEF Tombstone, NoProfile, Profile
  <2>3. ProfilesOK'
    BY <2>1, <2>2, ProfileWritten
  <2>4. ~Active(c)'
    BY <2>1, <2>2 DEF Active, ProfilesOK
  <2>5. /\ palms' \subseteq palms
        /\ \A p \in palms : p.customer # c => p \in palms'
    BY <1>5 DEF CryptoShred, PalmsOf
  <2> QED
    BY <1>5, <2>1, <2>3, <2>4, <2>5 DEF CryptoShred, WrittenFor, ProfilesOK
<1>6. ASSUME NEW c \in Customers, NEW hand \in HandsOf[c],
             \/ AddFirstTemplate(c, hand)
             \/ \E s \in Servers : AddPalm(s, c, hand)
      PROVE  \E engine \in Engines : InsertTemplate(c, hand, engine)
  <2>1. CASE AddFirstTemplate(c, hand)
    BY <2>1 DEF AddFirstTemplate, ProfilesOK
  <2>2. CASE \E s \in Servers : AddPalm(s, c, hand)
    BY <2>2 DEF AddPalm, Engines
  <2> QED
    BY <1>6, <2>1, <2>2
<1> QED
  BY <1>1, <1>2, <1>3, <1>4, <1>5, <1>6 DEF TableStep

LEMMA TableStepFollowed ==
  ASSUME TypeInv, TableStep, NEW r \in Requests
  PROVE  /\ request' = [q \in Requests |-> request'[q]]
         /\ request'[r] \in Job /\ JobOK(request[r])'
         /\ At(r, "idle") => request'[r] = Idle
         /\ ~At(r, "idle") => Followed(r)
<1> USE DEF TypeInv
<1> DEFINE job == request[r]
<1>1. job \in Job /\ JobOK(job)
  OBVIOUS
<1>2. CASE Unaffected /\ UNCHANGED profile /\ palms \subseteq palms'
  <2>1. /\ request' = [q \in Requests |-> request'[q]]
        /\ request'[r] = IF At(r, "idle") THEN Idle ELSE job
    BY <1>2, HistoryOf
  <2>2. CASE At(r, "idle")
    BY <2>1, <2>2, IdleJob DEF JobOK, Idle
  <2>3. CASE ~At(r, "idle")
    <3>1. request'[r] = job
      BY <2>1, <2>3
    <3>2. Followed(r)
      BY <1>1, <1>2, <3>1 DEF Followed, Job, Active
    <3>3. JobOK(request[r])'
      BY <1>1, <1>2, <3>1 DEF JobOK, Active
    <3> QED
      BY <1>1, <2>1, <2>3, <3>1, <3>2, <3>3
  <2> QED
    BY <2>2, <2>3
<1>3. CASE \E c \in Customers :
             /\ WrittenFor(c)
             /\ \A d \in Customers \ {c} : profile'[d] = profile[d]
  <2>1. PICK c \in Customers :
          /\ WrittenFor(c)
          /\ \A d \in Customers \ {c} : profile'[d] = profile[d]
    BY <1>3
  <2>2. \A p \in job.steady : p.customer \in Customers
    BY <1>1 DEF Job, Palm
  <2>3. CASE NowEligible(c) /\ ~Active(c) /\ UNCHANGED palms
    <3>1. /\ request' = [q \in Requests |-> request'[q]]
          /\ request'[r] = IF At(r, "idle") THEN Idle
                           ELSE [job EXCEPT !.eligible = @ \cup {c}]
      BY <2>3, HistoryOf
    <3>2. CASE At(r, "idle")
      BY <3>1, <3>2, IdleJob DEF JobOK, Idle
    <3>3. CASE ~At(r, "idle")
      <4>1. request'[r] = [job EXCEPT !.eligible = @ \cup {c}]
        BY <3>1, <3>3
      <4>2. /\ request'[r].eligible = job.eligible \cup {c}
            /\ request'[r].steady = job.steady
            /\ request'[r] \in Job
        BY <1>1, <4>1 DEF Job
      <4>3. \A p \in job.steady : p.customer # c
        BY <1>1, <2>3 DEF JobOK
      <4>4. \A p \in job.steady : profile'[p.customer] = profile[p.customer]
        BY <2>1, <2>2, <4>3
      <4>5. \A d \in Customers : Active(d)' => Active(d) \/ d = c
        BY <2>1 DEF Active
      <4>6. request'[r] = [job EXCEPT !.eligible = request'[r].eligible,
                                      !.steady = request'[r].steady]
        BY <1>1, <4>1, <4>2 DEF Job
      <4>7. Followed(r)
        BY <2>3, <4>2, <4>4, <4>5, <4>6 DEF Followed
      <4>8. /\ request'[r].pc = job.pc /\ request'[r].server = job.server
            /\ request'[r].hand = job.hand /\ request'[r].shard = job.shard
            /\ request'[r].answer = job.answer
        BY <1>1, <4>1 DEF Job
      <4>9. JobOK(request[r])'
        BY <1>1, <2>3, <4>2, <4>4, <4>8 DEF JobOK, Active
      <4> QED
        BY <3>1, <3>3, <4>2, <4>7, <4>9
    <3> QED
      BY <3>2, <3>3
  <2>4. CASE /\ NoLongerSteady(c) /\ ~Active(c)'
             /\ \A p \in palms : p.customer # c => p \in palms'
    <3>1. /\ request' = [q \in Requests |-> request'[q]]
          /\ request'[r] = IF At(r, "idle") THEN Idle
                           ELSE [job EXCEPT !.steady =
                                   {p \in @ : p.customer # c}]
      BY <2>4, HistoryOf
    <3>2. CASE At(r, "idle")
      BY <3>1, <3>2, IdleJob DEF JobOK, Idle
    <3>3. CASE ~At(r, "idle")
      <4>1. request'[r] = [job EXCEPT !.steady = {p \in @ : p.customer # c}]
        BY <3>1, <3>3
      <4>2. /\ request'[r].eligible = job.eligible
            /\ request'[r].steady = {p \in job.steady : p.customer # c}
            /\ request'[r] \in Job
        BY <1>1, <4>1 DEF Job
      <4>3. \A p \in request'[r].steady :
              /\ p \in job.steady
              /\ p \in palms => p \in palms'
              /\ profile'[p.customer] = profile[p.customer]
        BY <2>1, <2>2, <2>4, <4>2
      <4>4. \A d \in Customers : Active(d)' => Active(d)
        BY <2>1, <2>4 DEF Active
      <4>5. request'[r] = [job EXCEPT !.eligible = request'[r].eligible,
                                      !.steady = request'[r].steady]
        BY <1>1, <4>1, <4>2 DEF Job
      <4>6. Followed(r)
        BY <4>2, <4>3, <4>4, <4>5 DEF Followed
      <4>7. /\ request'[r].pc = job.pc /\ request'[r].server = job.server
            /\ request'[r].hand = job.hand /\ request'[r].shard = job.shard
            /\ request'[r].answer = job.answer
        BY <1>1, <4>1 DEF Job
      <4>8. JobOK(request[r])'
        BY <1>1, <4>3, <4>7 DEF JobOK, Active
      <4> QED
        BY <3>1, <3>3, <4>2, <4>6, <4>8
    <3> QED
      BY <3>2, <3>3
  <2> QED
    BY <2>1, <2>3, <2>4 DEF WrittenFor
<1> QED
  BY <1>2, <1>3, TablesWritten

-----------------------------------------------------------------------------
(***************************************************************************)
(* A request's own steps.                                                  *)
(***************************************************************************)
LEMMA OwnStepAlone ==
  ASSUME TypeInv, NEW r \in Requests, OwnStep(r)
  PROVE  /\ UNCHANGED <<profile, palms>>
         /\ request' = [request EXCEPT ![r] = request'[r]]
         /\ \A q \in Requests \ {r} : request'[q] = request[q]
<1>1. UNCHANGED <<profile, palms>>
  BY DEF OwnStep, RequestStep, PayBegin, ProbeFails, Probe, CountInShard,
         FindCandidates, TemplatesFor, Decide, Charge
<1>2. \E job : Become(r, job)
  BY DEF OwnStep, RequestStep, PayBegin, ProbeFails, Probe, CountInShard,
         FindCandidates, TemplatesFor, SkipStale, SkipUnreadable, Score,
         Decide, Charge, Answer, Advance
<1> QED
  BY <1>1, <1>2 DEF Become, TypeInv

-----------------------------------------------------------------------------
(***************************************************************************)
(* The inductive invariant of a request.  Whoever is on its way to be      *)
(* charged was active at some time since it began; and every palm the      *)
(* server could compare is accounted for: its customer is yet to be read, *)
(* or was scored no farther away than that palm.                           *)
(***************************************************************************)
WasActive(r) ==
  /\ ~At(r, "idle") =>
       \A c \in Customers : Active(c) => c \in request[r].eligible
  /\ \A row \in request[r].todo : row.customer \in request[r].eligible
  /\ \A s \in request[r].scored : s.customer \in request[r].eligible
  /\ request[r].customer # None =>
       request[r].customer \in request[r].eligible

AccountedFor(r, p) ==
  \/ \E row \in request[r].todo : /\ row.customer = p.customer
                                  /\ row.kek = profile[p.customer].kek
  \/ \E s \in request[r].scored : /\ s.customer = p.customer
                                  /\ s.distance <= DistanceTo(r, p)

FartherThanCharged(r, p) ==
  p.customer # request[r].customer =>
    \E mine \in request[r].scored :
      /\ mine.customer = request[r].customer
      /\ mine.distance <= Threshold
      /\ DistanceTo(r, p) - mine.distance >= MatchMargin

Refusals == {"no_match", "reenrollment_required"}

\* A limit of zero is the one case where a fetch can come back empty although
\* there was somebody to fetch; the count before it refuses that.
Compared(r) ==
  /\ At(r, "find_candidates") /\ MaxCandidates = 0 => Comparable(r) = {}
  /\ ~request[r].truncated =>
       \A p \in Comparable(r) :
         /\ At(r, "templates_for") => AccountedFor(r, p)
         /\ At(r, "charge") \/ Answered(r, "approved") =>
              FartherThanCharged(r, p)
         /\ request[r].answer \in Refusals => DistanceTo(r, p) > Threshold

RequestInv(r) ==
  /\ request[r] \in Job /\ JobOK(request[r])
  /\ WasActive(r)
  /\ Compared(r)

IdentifyInv ==
  /\ ProfilesOK /\ palms \subseteq Palm
  /\ request \in [Requests -> Job]
  /\ \A r \in Requests : RequestInv(r)

LEMMA InvTypes == IdentifyInv => TypeInv
BY DEF IdentifyInv, RequestInv, TypeInv

\* A request that does nothing says nothing.
LEMMA IdleInv ==
  ASSUME NEW r \in Requests, request[r] = Idle
  PROVE  RequestInv(r)
<1>1. WasActive(r)
  BY DEF WasActive, At, Idle
<1>2. Compared(r)
  BY DEF Compared, At, Answered, Idle, Comparable, Refusals
<1>3. JobOK(request[r])
  BY DEF JobOK, Idle
<1> QED
  BY <1>1, <1>2, <1>3, IdleJob DEF RequestInv

LEMMA IdentifyInit == Init => IdentifyInv
<1> SUFFICES ASSUME Init PROVE IdentifyInv
  OBVIOUS
<1>1. ProfilesOK
  <2>1. {c \in Customers : profile[c] # NoProfile} = {}
    BY DEF Init
  <2>2. profile \in [Customers -> Profile]
    BY DEF Init, NoProfile, Profile
  <2> QED
    BY <2>1, <2>2, FS_EmptySet DEF Init, ProfilesOK, NoProfile, Active
<1>2. request \in [Requests -> Job] /\ \A r \in Requests : request[r] = Idle
  BY IdleJob DEF Init
<1> QED
  BY <1>1, <1>2, IdleInv DEF Init, IdentifyInv

-----------------------------------------------------------------------------
(***************************************************************************)
(* While others write to the tables, a request can only lose palms it      *)
(* could compare and gain customers it may charge.                         *)
(***************************************************************************)
LEMMA TableStepInv ==
  ASSUME IdentifyInv, TableStep, NEW r \in Requests
  PROVE  RequestInv(r)'
<1>1. /\ TypeInv /\ RequestInv(r)
      /\ request'[r] \in Job /\ JobOK(request[r])'
  BY InvTypes, TableStepFollowed DEF IdentifyInv
<1>2. CASE At(r, "idle")
  <2>1. request'[r] = Idle
    BY <1>1, <1>2, TableStepFollowed
  <2>2. WasActive(r)'
    BY <2>1 DEF WasActive, At, Idle
  <2>3. Compared(r)'
    BY <2>1 DEF Compared, At, Answered, Idle, Comparable, Refusals
  <2> QED
    BY <1>1, <2>2, <2>3 DEF RequestInv
<1>3. CASE ~At(r, "idle")
  <2>1. Followed(r)
    BY <1>1, <1>3, TableStepFollowed
  <2>2. /\ request'[r].pc = request[r].pc
        /\ request'[r].server = request[r].server
        /\ request'[r].hand = request[r].hand
        /\ request'[r].shard = request[r].shard
        /\ request'[r].todo = request[r].todo
        /\ request'[r].scored = request[r].scored
        /\ request'[r].answer = request[r].answer
        /\ request'[r].customer = request[r].customer
        /\ request'[r].truncated = request[r].truncated
    BY <1>1, <2>1 DEF Followed, RequestInv, Job
  <2>3. WasActive(r)'
    BY <1>1, <1>3, <2>1, <2>2 DEF RequestInv, WasActive, Followed, At
  <2>4. \A p \in Comparable(r)' :
          /\ p \in Comparable(r)
          /\ profile'[p.customer] = profile[p.customer]
    BY <2>1, <2>2 DEF Comparable, Followed
  <2>5. \A p \in Comparable(r)' :
          /\ AccountedFor(r, p) => AccountedFor(r, p)'
          /\ FartherThanCharged(r, p) => FartherThanCharged(r, p)'
          /\ DistanceTo(r, p)' = DistanceTo(r, p)
    BY <2>2, <2>4 DEF AccountedFor, FartherThanCharged, DistanceTo
  <2>6. Compared(r)'
    BY <1>1, <2>2, <2>4, <2>5 DEF RequestInv, Compared, At, Answered
  <2> QED
    BY <1>1, <2>3, <2>6 DEF RequestInv
<1> QED
  BY <1>2, <1>3

-----------------------------------------------------------------------------
(***************************************************************************)
(* A request's own steps, one by one.                                      *)
(***************************************************************************)
\* The request becomes job, and the tables stay.
Becomes(r, job) == Become(r, job) /\ UNCHANGED <<profile, palms>>

LEMMA BecomesThat ==
  ASSUME request \in [Requests -> Job], NEW r \in Requests, NEW job,
         Becomes(r, job)
  PROVE  /\ request'[r] = job
         /\ \A c \in Customers : Active(c)' <=> Active(c)
         /\ UNCHANGED <<profile, palms>>
BY DEF Becomes, Become, Active

\* Answers that charge nobody and claim nothing about who is enrolled.
LEMMA AnswerInv ==
  ASSUME IdentifyInv, NEW r \in Requests, ~At(r, "idle"),
         NEW code \in Answers \ (Refusals \cup {"approved"}),
         Answer(r, code), UNCHANGED <<profile, palms>>
  PROVE  RequestInv(r)'
<1> USE DEF IdentifyInv
<1> DEFINE job == request[r]
<1>1. /\ request'[r] = [job EXCEPT !.pc = "idle", !.answer = code]
      /\ UNCHANGED <<profile, palms>>
  BY BecomesThat DEF Answer, Becomes
<1>2. /\ request'[r] \in Job
      /\ request'[r].pc = "idle" /\ request'[r].answer = code
      /\ request'[r].todo = job.todo /\ request'[r].scored = job.scored
      /\ request'[r].customer = job.customer
      /\ request'[r].eligible = job.eligible
      /\ request'[r].steady = job.steady
  BY <1>1 DEF RequestInv, Job, Pcs
<1>3. JobOK(request[r])'
  BY <1>1, <1>2 DEF RequestInv, JobOK, Active
<1>4. WasActive(r)'
  BY <1>2 DEF RequestInv, WasActive, At
<1>5. Compared(r)'
  BY <1>2 DEF Compared, At, Answered, Refusals
<1> QED
  BY <1>2, <1>3, <1>4, <1>5 DEF RequestInv

LEMMA PayBeginInv ==
  ASSUME IdentifyInv, NEW r \in Requests, NEW s \in Servers,
         NEW hand \in Shown, NEW shard \in PayCodes,
         PayBegin(r, s, hand, shard)
  PROVE  RequestInv(r)'
<1> USE DEF IdentifyInv
<1> DEFINE job == [Idle EXCEPT
             !.pc = "probe", !.server = s, !.hand = hand, !.shard = shard,
             !.eligible = {c \in Customers : Active(c)},
             !.steady = {p \in palms : Active(p.customer)}]
<1>1. /\ request'[r] = job
      /\ UNCHANGED <<profile, palms>>
  BY BecomesThat DEF PayBegin, Becomes
<1>2. hand \in Hands
  BY IdentifyAssumption
<1>3. /\ request'[r].pc = "probe" /\ request'[r].server = s
      /\ request'[r].hand = hand /\ request'[r].shard = shard
      /\ request'[r].todo = {} /\ request'[r].scored = {}
      /\ request'[r].stale = 0 /\ request'[r].answer = "none"
      /\ request'[r].customer = None /\ request'[r].truncated = FALSE
      /\ request'[r].eligible = {c \in Customers : Active(c)}
      /\ request'[r].steady = {p \in palms : Active(p.customer)}
  BY <1>1 DEF Idle
<1>4. request'[r] \in Job
  <2>1. request'[r] = [pc |-> "probe", server |-> s, hand |-> hand,
          shard |-> shard, todo |-> {}, scored |-> {}, stale |-> 0,
          answer |-> "none", customer |-> None,
          eligible |-> {c \in Customers : Active(c)},
          steady |-> {p \in palms : Active(p.customer)}, truncated |-> FALSE]
    BY <1>1 DEF Idle
  <2>2. {p \in palms : Active(p.customer)} \in SUBSET Palm
    OBVIOUS
  <2> HIDE DEF job
  <2> QED
    BY <1>2, <2>1, <2>2 DEF Job, Pcs, Answers
<1> HIDE DEF job
<1>5. JobOK(request[r])'
  BY <1>1, <1>2, <1>3 DEF JobOK, Active
<1>6. WasActive(r)'
  BY <1>1, <1>3 DEF WasActive, At, Active
<1>7. Compared(r)'
  BY <1>3 DEF Compared, At, Answered, Refusals
<1> QED
  BY <1>4, <1>5, <1>6, <1>7 DEF RequestInv

\* On to the next call, which is not yet that of a comparison.
LEMMA AdvanceInv ==
  ASSUME IdentifyInv, NEW r \in Requests, ~At(r, "idle"),
         NEW pc \in {"count_in_shard", "find_candidates"},
         Advance(r, pc), UNCHANGED <<profile, palms>>,
         pc = "find_candidates" /\ MaxCandidates = 0 => Comparable(r) = {}
  PROVE  RequestInv(r)'
<1> USE DEF IdentifyInv
<1> DEFINE job == request[r]
<1>1. /\ request'[r] = [job EXCEPT !.pc = pc]
      /\ UNCHANGED <<profile, palms>>
  BY BecomesThat DEF Advance, Becomes
<1>2. /\ request'[r] \in Job
      /\ request'[r].pc = pc /\ request'[r].answer = job.answer
      /\ request'[r].server = job.server /\ request'[r].hand = job.hand
      /\ request'[r].shard = job.shard
      /\ request'[r].todo = job.todo /\ request'[r].scored = job.scored
      /\ request'[r].customer = job.customer
      /\ request'[r].eligible = job.eligible
      /\ request'[r].steady = job.steady
      /\ request'[r].truncated = job.truncated
  BY <1>1 DEF RequestInv, Job, Pcs
<1>3. job.answer = "none" /\ request'[r].pc # "idle"
  BY <1>2 DEF RequestInv, JobOK, At
<1>4. JobOK(request[r])'
  BY <1>1, <1>2 DEF RequestInv, JobOK, Active, At
<1>5. WasActive(r)'
  BY <1>1, <1>2 DEF RequestInv, WasActive, At, Active
<1>6. Comparable(r)' = Comparable(r)
  BY <1>1, <1>2 DEF Comparable
<1>7. Compared(r)'
  BY <1>2, <1>3, <1>6 DEF Compared, At, Answered, Refusals
<1> QED
  BY <1>2, <1>4, <1>5, <1>7 DEF RequestInv

LEMMA CountInShardInv ==
  ASSUME IdentifyInv, NEW r \in Requests, CountInShard(r)
  PROVE  RequestInv(r)'
<1> USE DEF IdentifyInv
<1> DEFINE shard == request[r].shard
<1>1. ~At(r, "idle") /\ UNCHANGED <<profile, palms>>
  BY DEF CountInShard, At
<1>2. CASE Cardinality(InShard(shard)) > MaxCandidates
  <2>1. Answer(r, "shard_overflow")
    BY <1>2 DEF CountInShard
  <2> QED
    BY <1>1, <2>1, AnswerInv DEF Answers, Refusals
<1>3. CASE ~(Cardinality(InShard(shard)) > MaxCandidates)
  <2>1. Advance(r, "find_candidates")
    BY <1>3 DEF CountInShard
  <2>2. ASSUME MaxCandidates = 0 PROVE Comparable(r) = {}
    <3>1. IsFiniteSet(InShard(shard))
      <4>1. InShard(shard) \in SUBSET {c \in Customers : profile[c] # NoProfile}
        BY DEF InShard, Active, NoProfile
      <4> QED
        BY <4>1, FS_Subset DEF ProfilesOK
    <3>2. Cardinality(InShard(shard)) \in Nat
      BY <3>1, FS_CardinalityType
    <3>3. InShard(shard) = {}
      BY <1>3, <2>2, <3>1, <3>2, FS_EmptySet
    <3>4. \A p \in Comparable(r) : p.customer \in InShard(shard)
      BY DEF Comparable, InShard, RequestInv, JobOK, Job, Palm
    <3> QED
      BY <3>3, <3>4
  <2> QED
    BY <1>1, <2>1, <2>2, AdvanceInv
<1> QED
  BY <1>2, <1>3

LEMMA ProbeInv ==
  ASSUME IdentifyInv, NEW r \in Requests, ProbeFails(r) \/ Probe(r)
  PROVE  RequestInv(r)'
<1>1. ~At(r, "idle") /\ UNCHANGED <<profile, palms>>
  BY DEF ProbeFails, Probe, At
<1>2. CASE ProbeFails(r)
  <2>1. PICK code \in {"liveness_failed", "palm_not_found", "poor_quality"} :
          Answer(r, code)
    BY <1>2 DEF ProbeFails
  <2>2. code \in Answers \ (Refusals \cup {"approved"})
    BY DEF Answers, Refusals
  <2> QED
    BY <1>1, <2>1, <2>2, AnswerInv
<1>3. CASE Probe(r)
  BY <1>1, <1>3, AdvanceInv DEF Probe
<1> QED
  BY <1>2, <1>3

\* An answer to somebody no palm of whom is found.
LEMMA RefusedInv ==
  ASSUME IdentifyInv, NEW r \in Requests, ~At(r, "idle"),
         NEW code \in Refusals, Answer(r, code), UNCHANGED <<profile, palms>>,
         ~request[r].truncated =>
           \A p \in Comparable(r) : DistanceTo(r, p) > Threshold
  PROVE  RequestInv(r)'
<1> USE DEF IdentifyInv
<1> DEFINE job == request[r]
<1>1. /\ request'[r] = [job EXCEPT !.pc = "idle", !.answer = code]
      /\ UNCHANGED <<profile, palms>>
  BY BecomesThat DEF Answer, Becomes
<1>2. /\ request'[r] \in Job
      /\ request'[r].pc = "idle" /\ request'[r].answer = code
      /\ request'[r].server = job.server /\ request'[r].hand = job.hand
      /\ request'[r].shard = job.shard
      /\ request'[r].todo = job.todo /\ request'[r].scored = job.scored
      /\ request'[r].customer = job.customer
      /\ request'[r].eligible = job.eligible
      /\ request'[r].steady = job.steady
      /\ request'[r].truncated = job.truncated
  BY <1>1 DEF RequestInv, Job, Pcs, Answers, Refusals
<1>3. JobOK(request[r])'
  BY <1>1, <1>2 DEF RequestInv, JobOK, Active
<1>4. WasActive(r)'
  BY <1>2 DEF RequestInv, WasActive, At
<1>5. \A p \in Comparable(r)' : p \in Comparable(r)
  BY <1>1, <1>2 DEF Comparable
<1>6. \A p : DistanceTo(r, p)' = DistanceTo(r, p)
  BY <1>2 DEF DistanceTo
<1>7. Compared(r)'
  BY <1>2, <1>5, <1>6 DEF Compared, At, Answered, Refusals
<1> QED
  BY <1>2, <1>3, <1>4, <1>7 DEF RequestInv

LEMMA FindCandidatesInv ==
  ASSUME IdentifyInv, NEW r \in Requests, FindCandidates(r)
  PROVE  RequestInv(r)'
<1> USE DEF IdentifyInv
<1> DEFINE job == request[r]
<1>1. ~At(r, "idle") /\ UNCHANGED <<profile, palms>>
  BY DEF FindCandidates, At
<1>2. \A p \in Comparable(r) : p.customer \in InShard(job.shard)
  BY DEF Comparable, InShard, RequestInv, JobOK, Job, Palm
<1>3. PICK found \in Fetched(job.shard) :
        IF found = {} THEN Answer(r, "no_match")
        ELSE Become(r, [job EXCEPT
               !.pc = "templates_for", !.todo = {Row(c) : c \in found},
               !.truncated = InShard(job.shard) \ found # {}])
  BY DEF FindCandidates
<1>4. CASE found = {}
  <2>1. Comparable(r) = {}
    <3>1. CASE MaxCandidates = 0
      BY <3>1 DEF FindCandidates, RequestInv, Compared
    <3>2. CASE MaxCandidates # 0
      <4>1. InShard(job.shard) = {}
        BY <1>4, <3>2, FS_EmptySet DEF Fetched
      <4> QED
        BY <1>2, <4>1
    <3> QED
      BY <3>1, <3>2
  <2> QED
    BY <1>1, <1>3, <1>4, <2>1, RefusedInv DEF Refusals
<1>5. CASE found # {}
  <2> DEFINE rows == {Row(c) : c \in found}
             left == InShard(job.shard) \ found # {}
  <2>1. /\ request'[r] = [job EXCEPT !.pc = "templates_for", !.todo = rows,
                                     !.truncated = left]
        /\ UNCHANGED <<profile, palms>>
    BY <1>1, <1>3, <1>5, BecomesThat DEF Becomes
  <2>2. found \subseteq InShard(job.shard)
    BY DEF Fetched
  <2>3. rows \in SUBSET CandidateRow /\ left \in BOOLEAN
    <3>1. \A c \in found : c \in Customers /\ profile[c].kek \in Keks
      BY <2>2 DEF InShard, ProfilesOK
    <3> QED
      BY <3>1 DEF Row, CandidateRow
  <2> HIDE DEF rows, left
  <2>4. /\ request'[r] \in Job
        /\ request'[r].pc = "templates_for" /\ request'[r].answer = job.answer
        /\ request'[r].server = job.server /\ request'[r].hand = job.hand
        /\ request'[r].shard = job.shard
        /\ request'[r].todo = rows /\ request'[r].scored = job.scored
        /\ request'[r].customer = job.customer
        /\ request'[r].eligible = job.eligible
        /\ request'[r].steady = job.steady
        /\ request'[r].truncated = left
    BY <2>1, <2>3 DEF RequestInv, Job, Pcs
  <2>5. job.answer = "none"
    BY <1>1 DEF RequestInv, JobOK, At
  <2>6. JobOK(request[r])'
    BY <1>1, <2>1, <2>4 DEF RequestInv, JobOK, Active, At
  <2>7. WasActive(r)'
    <3>1. \A row \in rows : row.customer \in InShard(job.shard)
      BY <2>2 DEF rows, Row
    <3>2. \A row \in rows : row.customer \in job.eligible
      BY <1>1, <3>1 DEF RequestInv, WasActive, InShard
    <3> QED
      BY <1>1, <2>1, <2>4, <3>2 DEF RequestInv, WasActive, At, Active
  <2>8. ASSUME ~left, NEW p \in Comparable(r) PROVE AccountedFor(r, p)'
    <3>1. p.customer \in found
      BY <1>2, <2>8 DEF left
    <3>2. Row(p.customer) \in rows
      BY <3>1 DEF rows
    <3> QED
      BY <2>1, <2>4, <3>2 DEF AccountedFor, Row
  <2>9. Comparable(r)' = Comparable(r)
    BY <2>1, <2>4 DEF Comparable
  <2>10. Compared(r)'
    BY <2>4, <2>5, <2>8, <2>9 DEF Compared, At, Answered, Refusals
  <2> QED
    BY <2>4, <2>6, <2>7, <2>10 DEF RequestInv
<1> QED
  BY <1>4, <1>5

-----------------------------------------------------------------------------
(***************************************************************************)
(* Reading a candidate's palms: the row leaves todo, and the palms that    *)
(* can be compared leave a score that is no larger than their distance.    *)
(***************************************************************************)
LEMMA BestIsLeast ==
  ASSUME NEW hand \in Hands, NEW usable \in SUBSET Palm, usable # {}
  PROVE  /\ BestDistance(hand, usable) \in Nat
         /\ \A p \in usable :
              BestDistance(hand, usable) <= Distance[hand, p.hand]
<1> DEFINE away == {Distance[hand, p.hand] : p \in usable}
<1>1. away \in SUBSET Nat /\ away # {}
  BY IdentifyAssumption DEF Palm
<1>2. PICK d \in away : \A e \in away : d <= e
  BY <1>1, LeastDistance
<1>3. /\ d \in {Distance[hand, p.hand] : p \in usable}
      /\ \A p \in usable : d <= Distance[hand, p.hand]
  BY <1>2
<1>4. /\ BestDistance(hand, usable) \in away
      /\ \A p \in usable :
           BestDistance(hand, usable) <= Distance[hand, p.hand]
  BY <1>3 DEF BestDistance
<1> QED
  BY <1>1, <1>4

\* A row is done with, adding scores to those there are.
LEMMA RowDone ==
  ASSUME IdentifyInv, NEW r \in Requests, At(r, "templates_for"),
         UNCHANGED <<profile, palms>>, NEW row \in request[r].todo,
         NEW scores \in SUBSET Scored, NEW stale \in Nat,
         Become(r, [request[r] EXCEPT !.todo = @ \ {row},
                                      !.scored = @ \cup scores,
                                      !.stale = stale]),
         \A s \in scores : s.customer = row.customer,
         \A p \in Comparable(r) :
           p.customer = row.customer /\ row.kek = profile[p.customer].kek =>
             \E s \in scores : s.customer = p.customer
                               /\ s.distance <= DistanceTo(r, p)
  PROVE  RequestInv(r)'
<1> USE DEF IdentifyInv
<1> DEFINE job == request[r]
<1>1. /\ request'[r] = [job EXCEPT !.todo = @ \ {row},
                                   !.scored = @ \cup scores, !.stale = stale]
      /\ UNCHANGED <<profile, palms>>
  BY BecomesThat DEF Becomes
<1>2. /\ job \in Job /\ job.pc = "templates_for"
      /\ job.todo \ {row} \in SUBSET CandidateRow
      /\ job.scored \cup scores \in SUBSET Scored
  BY DEF RequestInv, Job, At
<1>3. /\ request'[r] \in Job
      /\ request'[r].pc = "templates_for" /\ request'[r].answer = job.answer
      /\ request'[r].server = job.server /\ request'[r].hand = job.hand
      /\ request'[r].shard = job.shard
      /\ request'[r].todo = job.todo \ {row}
      /\ request'[r].scored = job.scored \cup scores
      /\ request'[r].customer = job.customer
      /\ request'[r].eligible = job.eligible
      /\ request'[r].steady = job.steady
      /\ request'[r].truncated = job.truncated
  BY <1>1, <1>2 DEF Job
<1>4. job.answer = "none"
  BY <1>2 DEF RequestInv, JobOK
<1>5. JobOK(request[r])'
  BY <1>1, <1>2, <1>3, <1>4 DEF RequestInv, JobOK, Active
<1>6. WasActive(r)'
  BY <1>1, <1>2, <1>3, <1>4 DEF RequestInv, WasActive, At, Active
<1>7. Comparable(r)' = Comparable(r)
  BY <1>1, <1>3 DEF Comparable
<1>8. ASSUME NEW p \in Comparable(r), AccountedFor(r, p)
      PROVE  AccountedFor(r, p)'
  <2>1. DistanceTo(r, p)' = DistanceTo(r, p) /\ UNCHANGED profile
    BY <1>1, <1>3 DEF DistanceTo
  <2>2. CASE p.customer = row.customer /\ row.kek = profile[p.customer].kek
    BY <1>3, <2>1, <2>2 DEF AccountedFor
  <2>3. CASE ~(p.customer = row.customer /\ row.kek = profile[p.customer].kek)
    BY <1>3, <1>8, <2>1, <2>3 DEF AccountedFor
  <2> QED
    BY <2>2, <2>3
<1>9. Compared(r)'
  BY <1>2, <1>3, <1>4, <1>7, <1>8
     DEF RequestInv, Compared, At, Answered, Refusals
<1> QED
  BY <1>3, <1>5, <1>6, <1>9 DEF RequestInv

LEMMA TemplatesForInv ==
  ASSUME IdentifyInv, NEW r \in Requests, TemplatesFor(r)
  PROVE  RequestInv(r)'
<1> USE DEF IdentifyInv
<1> DEFINE job == request[r]
<1>1. At(r, "templates_for") /\ UNCHANGED <<profile, palms>>
  BY DEF TemplatesFor
<1>2. PICK row \in job.todo :
        SkipStale(r, row) \/ SkipUnreadable(r, row) \/ Score(r, row)
  BY DEF TemplatesFor
<1> DEFINE usable == Usable(r, row.customer)
<1>3. \A p \in Comparable(r) :
        p.customer = row.customer /\ row.kek = profile[p.customer].kek =>
          p \in usable /\ p \in PalmsOf(row.customer) /\ Opens(r, row)
  BY DEF Comparable, Usable, PalmsOf, Opens, RequestInv, JobOK
<1>4. /\ job \in Job /\ job.hand \in Hands /\ usable \in SUBSET Palm
      /\ row.customer \in Customers /\ job.stale \in Nat
  BY <1>1 DEF RequestInv, JobOK, Job, At, Usable, PalmsOf, CandidateRow
<1>5. ASSUME SkipStale(r, row) \/ SkipUnreadable(r, row)
      PROVE  RequestInv(r)'
  <2>1. PICK stale \in Nat :
          Become(r, [job EXCEPT !.todo = @ \ {row}, !.scored = @ \cup {},
                                !.stale = stale])
    <3>1. /\ job.scored \cup {} = job.scored
          /\ job.stale + 1 \in Nat
          /\ job = [job EXCEPT !.stale = job.stale]
      BY <1>4 DEF Job
    <3>2. CASE SkipStale(r, row)
      <4>1. Become(r, [job EXCEPT !.todo = @ \ {row}, !.scored = @ \cup {},
                                  !.stale = job.stale + 1])
        BY <1>4, <3>2 DEF SkipStale, Job
      <4> QED
        BY <3>1, <4>1
    <3>3. CASE SkipUnreadable(r, row)
      BY <1>4, <3>1, <3>3 DEF SkipUnreadable, Job
    <3> QED
      BY <1>5, <3>2, <3>3
  <2>2. \A p \in Comparable(r) :
          ~(p.customer = row.customer /\ row.kek = profile[p.customer].kek)
    BY <1>3, <1>5 DEF SkipStale, SkipUnreadable
  <2>3. {} \in SUBSET Scored
    OBVIOUS
  <2> QED
    BY <1>1, <1>2, <2>1, <2>2, <2>3, RowDone
<1>6. CASE Score(r, row)
  <2> DEFINE best == BestDistance(job.hand, usable)
             score == [customer |-> row.customer, distance |-> best]
  <2>1. /\ best \in Nat
        /\ \A p \in usable : best <= Distance[job.hand, p.hand]
    BY <1>4, <1>6, BestIsLeast DEF Score
  <2>2. score \in Scored
    BY <1>4, <2>1 DEF Scored
  <2>3. Become(r, [job EXCEPT !.todo = @ \ {row}, !.scored = @ \cup {score},
                              !.stale = job.stale])
    BY <1>4, <1>6 DEF Score, Job
  <2>4. \A p \in Comparable(r) :
          p.customer = row.customer /\ row.kek = profile[p.customer].kek =>
            \E s \in {score} : s.customer = p.customer
                               /\ s.distance <= DistanceTo(r, p)
    BY <1>3, <2>1 DEF DistanceTo
  <2>5. /\ {score} \in SUBSET Scored
        /\ \A s \in {score} : s.customer = row.customer
    BY <2>2
  <2> HIDE DEF score
  <2> QED
    BY <1>1, <1>2, <1>4, <2>3, <2>4, <2>5, RowDone
<1> QED
  BY <1>2, <1>5, <1>6

-----------------------------------------------------------------------------
(***************************************************************************)
(* The verdict.  Everybody the server could compare has been scored, no    *)
(* farther away than each of their palms; so what the verdict says of the  *)
(* scores holds of the palms.                                              *)
(***************************************************************************)
LEMMA AllScored ==
  ASSUME IdentifyInv, NEW r \in Requests, At(r, "templates_for"),
         request[r].todo = {}, ~request[r].truncated,
         NEW p \in Comparable(r)
  PROVE  /\ DistanceTo(r, p) \in Nat
         /\ \E s \in request[r].scored : /\ s.customer = p.customer
                                         /\ s.distance \in Nat
                                         /\ s.distance <= DistanceTo(r, p)
<1>1. AccountedFor(r, p)
  BY DEF IdentifyInv, RequestInv, Compared
<1>2. request[r] \in Job /\ request[r].hand \in Hands /\ p \in Palm
  BY DEF IdentifyInv, RequestInv, JobOK, Job, At, Comparable
<1>3. DistanceTo(r, p) \in Nat
  BY <1>2, IdentifyAssumption DEF DistanceTo, Palm
<1> QED
  BY <1>1, <1>2, <1>3 DEF AccountedFor, Job, Scored

LEMMA DecideInv ==
  ASSUME IdentifyInv, NEW r \in Requests, Decide(r)
  PROVE  RequestInv(r)'
<1> USE DEF IdentifyInv
<1> DEFINE job == request[r]
           scored == request[r].scored
<1>1. /\ At(r, "templates_for") /\ ~At(r, "idle") /\ job.todo = {}
      /\ job \in Job
      /\ \A s \in scored : s \in Scored /\ s.distance \in Nat
      /\ UNCHANGED <<profile, palms>>
  BY DEF Decide, At, RequestInv, Job, Scored
<1>2. CASE scored = {} /\ \E code \in Refusals : Answer(r, code)
  <2>1. ~job.truncated => Comparable(r) = {}
    BY <1>1, <1>2, AllScored
  <2> QED
    BY <1>1, <1>2, <2>1, RefusedInv
<1>3. ASSUME NEW best \in Nearest(scored), best.distance > Threshold,
             Answer(r, "no_match")
      PROVE  RequestInv(r)'
  <2>1. ASSUME ~job.truncated, NEW p \in Comparable(r)
        PROVE  DistanceTo(r, p) > Threshold
    <3>1. PICK s \in scored : /\ s.distance \in Nat /\ DistanceTo(r, p) \in Nat
                              /\ s.distance <= DistanceTo(r, p)
      BY <1>1, <2>1, AllScored
    <3>2. best.distance <= s.distance /\ best.distance \in Nat
      BY <1>1, <1>3 DEF Nearest
    <3> QED
      BY <1>3, <3>1, <3>2, IdentifyAssumption
  <2> QED
    BY <1>1, <1>3, <2>1, RefusedInv DEF Refusals
<1>4. CASE Answer(r, "ambiguous_match")
  BY <1>1, <1>4, AnswerInv DEF Answers, Refusals
<1>5. ASSUME NEW best \in Nearest(scored), best.distance <= Threshold,
             ~Ambiguous(best, scored),
             Become(r, [job EXCEPT !.pc = "charge",
                                   !.customer = best.customer])
      PROVE  RequestInv(r)'
  <2>1. request'[r] = [job EXCEPT !.pc = "charge", !.customer = best.customer]
    BY <1>1, <1>5, BecomesThat DEF Becomes
  <2>2. best \in scored /\ best.customer \in Customers /\ best.distance \in Nat
    BY <1>1 DEF Nearest, Scored
  <2>3. /\ request'[r] \in Job
        /\ request'[r].pc = "charge" /\ request'[r].answer = job.answer
        /\ request'[r].server = job.server /\ request'[r].hand = job.hand
        /\ request'[r].shard = job.shard
        /\ request'[r].todo = job.todo /\ request'[r].scored = scored
        /\ request'[r].customer = best.customer
        /\ request'[r].eligible = job.eligible
        /\ request'[r].steady = job.steady
        /\ request'[r].truncated = job.truncated
    BY <1>1, <2>1, <2>2 DEF Job, Pcs
  <2>4. job.answer = "none"
    BY <1>1 DEF RequestInv, JobOK, At
  <2>5. JobOK(request[r])'
    BY <1>1, <2>3 DEF RequestInv, JobOK, Active, At
  <2>6. WasActive(r)'
    BY <1>1, <2>2, <2>3 DEF RequestInv, WasActive, At, Active
  <2>7. Comparable(r)' = Comparable(r)
    BY <1>1, <2>3 DEF Comparable
  <2>8. ASSUME ~job.truncated, NEW p \in Comparable(r)
        PROVE  FartherThanCharged(r, p)'
    <3>1. PICK s \in scored : /\ s.customer = p.customer
                              /\ s.distance \in Nat
                              /\ DistanceTo(r, p) \in Nat
                              /\ s.distance <= DistanceTo(r, p)
      BY <1>1, <2>8, AllScored
    <3>2. ASSUME p.customer # best.customer
          PROVE  DistanceTo(r, p) - best.distance >= MatchMargin
      <4>1. s.distance - best.distance >= MatchMargin
        BY <1>5, <2>2, <3>1, <3>2, IdentifyAssumption DEF Ambiguous
      <4> QED
        BY <2>2, <3>1, <4>1, IdentifyAssumption
    <3>3. DistanceTo(r, p)' = DistanceTo(r, p)
      BY <2>3 DEF DistanceTo
    <3> QED
      BY <1>5, <2>2, <2>3, <3>2, <3>3 DEF FartherThanCharged
  <2>9. Compared(r)'
    BY <2>3, <2>4, <2>7, <2>8 DEF Compared, At, Answered, Refusals
  <2> QED
    BY <2>3, <2>5, <2>6, <2>9 DEF RequestInv
<1> QED
  BY <1>2, <1>3, <1>4, <1>5 DEF Decide, Refusals

LEMMA ChargeInv ==
  ASSUME IdentifyInv, NEW r \in Requests, Charge(r)
  PROVE  RequestInv(r)'
<1> USE DEF IdentifyInv
<1> DEFINE job == request[r]
<1>1. /\ request'[r] = [job EXCEPT !.pc = "idle", !.answer = "approved"]
      /\ UNCHANGED <<profile, palms>>
  BY BecomesThat DEF Charge, Answer, Becomes
<1>2. /\ request'[r] \in Job
      /\ request'[r].pc = "idle" /\ request'[r].answer = "approved"
      /\ request'[r].server = job.server /\ request'[r].hand = job.hand
      /\ request'[r].shard = job.shard
      /\ request'[r].todo = job.todo /\ request'[r].scored = job.scored
      /\ request'[r].customer = job.customer
      /\ request'[r].eligible = job.eligible
      /\ request'[r].steady = job.steady
      /\ request'[r].truncated = job.truncated
  BY <1>1 DEF RequestInv, Job, Pcs, Answers
<1>3. JobOK(request[r])'
  BY <1>1, <1>2 DEF RequestInv, JobOK, Active
<1>4. WasActive(r)'
  BY <1>2 DEF RequestInv, WasActive, At
<1>5. Comparable(r)' = Comparable(r)
  BY <1>1, <1>2 DEF Comparable
<1>6. \A p : FartherThanCharged(r, p) => FartherThanCharged(r, p)'
  BY <1>2 DEF FartherThanCharged, DistanceTo
<1>7. At(r, "charge")
  BY DEF Charge
<1>8. Compared(r)'
  BY <1>2, <1>5, <1>6, <1>7
     DEF RequestInv, Compared, At, Answered, Refusals
<1> QED
  BY <1>2, <1>3, <1>4, <1>8 DEF RequestInv

-----------------------------------------------------------------------------
LEMMA OwnStepInv ==
  ASSUME IdentifyInv, NEW r \in Requests, OwnStep(r), NEW q \in Requests
  PROVE  RequestInv(q)'
<1>1. CASE q = r
  BY <1>1, PayBeginInv, ProbeInv, CountInShardInv, FindCandidatesInv,
     TemplatesForInv, DecideInv, ChargeInv DEF OwnStep, RequestStep
<1>2. CASE q # r
  <2>1. request'[q] = request[q] /\ UNCHANGED <<profile, palms>>
    BY <1>2, InvTypes, OwnStepAlone
  <2>2. Comparable(q)' = Comparable(q)
    BY <2>1 DEF Comparable
  <2>3. \A p : /\ AccountedFor(q, p)' <=> AccountedFor(q, p)
               /\ FartherThanCharged(q, p)' <=> FartherThanCharged(q, p)
               /\ DistanceTo(q, p)' = DistanceTo(q, p)
    BY <2>1 DEF AccountedFor, FartherThanCharged, DistanceTo
  <2>4. Compared(q)'
    BY <2>1, <2>2, <2>3
       DEF IdentifyInv, RequestInv, Compared, At, Answered
  <2>5. WasActive(q)' /\ JobOK(request[q])'
    BY <2>1 DEF IdentifyInv, RequestInv, WasActive, JobOK, At, Active
  <2> QED
    BY <2>1, <2>4, <2>5 DEF IdentifyInv, RequestInv
<1> QED
  BY <1>1, <1>2

LEMMA IdentifyStep == IdentifyInv /\ [Next]_vars => IdentifyInv'
<1> SUFFICES ASSUME IdentifyInv, [Next]_vars PROVE IdentifyInv'
  OBVIOUS
<1>1. CASE UNCHANGED vars
  <2>1. UNCHANGED <<profile, palms, request>>
    BY <1>1 DEF vars
  <2>2. ASSUME NEW r \in Requests PROVE RequestInv(r)'
    <3>1. Comparable(r)' = Comparable(r)
      BY <2>1 DEF Comparable
    <3>2. \A p : /\ AccountedFor(r, p)' <=> AccountedFor(r, p)
                 /\ FartherThanCharged(r, p)' <=> FartherThanCharged(r, p)
                 /\ DistanceTo(r, p)' = DistanceTo(r, p)
      BY <2>1 DEF AccountedFor, FartherThanCharged, DistanceTo
    <3>3. Compared(r)'
      BY <2>1, <3>1, <3>2
         DEF IdentifyInv, RequestInv, Compared, At, Answered
    <3>4. WasActive(r)' /\ JobOK(request[r])'
      BY <2>1 DEF IdentifyInv, RequestInv, WasActive, JobOK, At, Active
    <3> QED
      BY <2>1, <3>3, <3>4 DEF IdentifyInv, RequestInv
  <2> QED
    BY <2>1, <2>2 DEF IdentifyInv, ProfilesOK, Active
<1>2. CASE TableStep
  <2>1. ProfilesOK' /\ palms' \subseteq Palm
    BY <1>2, InvTypes, TablesWritten
  <2>2. request' \in [Requests -> Job]
    <3>1. \/ Unaffected
          \/ \E c \in Customers : NowEligible(c) \/ NoLongerSteady(c)
      BY <1>2, InvTypes, TablesWritten DEF WrittenFor
    <3>2. request' = [q \in Requests |-> request'[q]]
      BY <3>1, HistoryOf
    <3>3. \A q \in Requests : request'[q] \in Job
      BY <1>2, InvTypes, TableStepFollowed
    <3> QED
      BY <3>2, <3>3
  <2>3. \A r \in Requests : RequestInv(r)'
    BY <1>2, TableStepInv
  <2> QED
    BY <2>1, <2>2, <2>3 DEF IdentifyInv
<1>3. ASSUME NEW r \in Requests, OwnStep(r) PROVE IdentifyInv'
  <2>1. /\ UNCHANGED <<profile, palms>>
        /\ request' = [request EXCEPT ![r] = request'[r]]
    BY <1>3, InvTypes, OwnStepAlone
  <2>2. \A q \in Requests : RequestInv(q)'
    BY <1>3, OwnStepInv
  <2>3. request'[r] \in Job
    BY <2>2 DEF RequestInv
  <2>4. request' \in [Requests -> Job]
    BY <2>1, <2>3 DEF IdentifyInv
  <2> QED
    BY <2>1, <2>2, <2>4 DEF IdentifyInv, ProfilesOK, Active
<1> QED
  BY <1>1, <1>2, <1>3, Steps

(***************************************************************************)
(* The invariant that the theorems below rest on holds in every reachable  *)
(* state.                                                                  *)
(***************************************************************************)
THEOREM Invariance == Spec => []IdentifyInv
BY IdentifyInit, IdentifyStep, PTL DEF Spec

(***************************************************************************)
(* The tables and the requests have their types, and a palm that a request *)
(* holds to be enrolled throughout is in the table.                        *)
(***************************************************************************)
THEOREM Typing == Spec => []IdentifyTypeOK
<1>1. IdentifyInv => IdentifyTypeOK
  <2> SUFFICES ASSUME IdentifyInv PROVE IdentifyTypeOK
    OBVIOUS
  <2>1. ASSUME NEW r \in Requests
        PROVE  /\ request[r].scored \subseteq
                    [customer : Customers, distance : Nat]
               /\ request[r].todo \subseteq [customer : Customers, kek : Keks]
               /\ request[r].eligible \subseteq Customers
               /\ request[r].steady \subseteq palms
    BY DEF IdentifyInv, RequestInv, JobOK, Job, Scored, CandidateRow
  <2> QED
    BY <2>1 DEF IdentifyInv, ProfilesOK, IdentifyTypeOK
<1> QED
  BY <1>1, Invariance, PTL

(***************************************************************************)
(* Nobody is charged whose account was not active at any time since the    *)
(* request began, however enrolments, suspensions and erasures fall        *)
(* between the calls of pay.                                               *)
(***************************************************************************)
THEOREM OnlyActiveAreCharged == Spec => []ChargedWasActive
<1>1. IdentifyInv => ChargedWasActive
  BY DEF IdentifyInv, RequestInv, WasActive, ChargedWasActive
<1> QED
  BY <1>1, Invariance, PTL

(***************************************************************************)
(* Whoever is charged for a palm is nearer to it, by the margin, than      *)
(* every other customer the server could compare it with, for any matcher  *)
(* and any limit, unless the fetch left profiles out.                      *)
(***************************************************************************)
THEOREM NearestIsCharged == Spec => []ChargedIsNearest
<1>1. IdentifyInv => ChargedIsNearest
  BY DEF IdentifyInv, RequestInv, Compared, FartherThanCharged,
         ChargedIsNearest
<1> QED
  BY <1>1, Invariance, PTL

(***************************************************************************)
(* Whoever is told that no palm matches, or to enroll again, has no palm   *)
(* within the threshold that the server could compare, and nobody else has.*)
(***************************************************************************)
THEOREM RefusalsAreTrue == Spec => []NoMatchIsTrue
<1>1. IdentifyInv => NoMatchIsTrue
  BY DEF IdentifyInv, RequestInv, Compared, Refusals, Answered, NoMatchIsTrue
<1> QED
  BY <1>1, Invariance, PTL
=============================================================================
