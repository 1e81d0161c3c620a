------------------------------ MODULE Identify ------------------------------
(***************************************************************************)
(* Whose palm is this?  The first half of pay (services/payment.py): the   *)
(* frame is judged, the shard of the pay code is counted, its active       *)
(* profiles are fetched, the palms of each are read and compared, and the  *)
(* nearest customer is charged.  Each call to the repository is a read of  *)
(* its own, and other processes enroll, suspend, restore and erase in      *)
(* between.  What follows, the charge, is the subject of Payments.         *)
(*                                                                         *)
(* A server runs one build of the recognition engine and holds some of the *)
(* KEKs; during an upgrade the servers differ.  A palm is compared by the  *)
(* distance of the hand shown to the hand enrolled, which noise does not   *)
(* change.                                                                 *)
(***************************************************************************)
EXTENDS Integers, FiniteSets

CONSTANTS
  Requests,      \* pay requests the servers work on at the same time
  Servers,
  Engine,        \* engine_id of each server's build
  ActiveKek,     \* the KEK each server wraps new keys under
  Holds,         \* the KEKs each server holds
  Customers,     \* pool of customer identifiers
  HandsOf,       \* the hands of the person who enrolls as a customer
  Shown,         \* the hands that are shown at the tills
  Distance,      \* between two hands, as the matcher measures it
  PayCodes,
  Keks,
  Threshold,     \* the matcher's operating point
  MatchMargin,
  MaxCandidates,
  None

Hands == UNION {HandsOf[c] : c \in Customers}

ASSUME IdentifyAssumption ==
  /\ Shown \subseteq Hands
  /\ Distance \in [Hands \X Hands -> Nat]
  /\ Threshold \in Nat /\ MatchMargin \in Nat /\ MaxCandidates \in Nat
  /\ None \notin Customers
  /\ Holds \in [Servers -> SUBSET Keks]
  /\ \A s \in Servers : ActiveKek[s] \in Holds[s]

VARIABLES
  profile,       \* the profiles table
  palms,         \* the palm_templates table
  request

vars == <<profile, palms, request>>

Engines == {Engine[s] : s \in Servers}
NoProfile ==
  [status |-> "none", shard |-> None, engine |-> None, kek |-> None]
\* What else a tombstone keeps, its shard and engine, is not looked at again.
Tombstone == [NoProfile EXCEPT !.status = "shredded"]
Profile ==
  [status : {"none", "active", "suspended", "shredded"},
   shard : PayCodes \cup {None}, engine : Engines \cup {None},
   kek : Keks \cup {None}]
Palm == [customer : Customers, hand : Hands, engine : Engines]

(***************************************************************************)
(* A request remembers what it read.  Three fields are history: eligible,  *)
(* the customers active at some time since it began; steady, the palms     *)
(* that were enrolled when it began and whose customer has been active     *)
(* ever since; truncated, that the fetch left active profiles out.         *)
(***************************************************************************)
Idle ==
  [pc |-> "idle", server |-> None, hand |-> None, shard |-> None,
   todo |-> {}, scored |-> {}, stale |-> 0,
   answer |-> "none", customer |-> None,
   eligible |-> {}, steady |-> {}, truncated |-> FALSE]

Init ==
  /\ profile = [c \in Customers |-> NoProfile]
  /\ palms = {}
  /\ request = [r \in Requests |-> Idle]

Active(c) == profile[c].status = "active"
InShard(shard) == {c \in Customers : Active(c) /\ profile[c].shard = shard}
PalmsOf(c) == {p \in palms : p.customer = c}

At(r, pc) == request[r].pc = pc
Become(r, job) == request' = [request EXCEPT ![r] = job]
Advance(r, pc) == Become(r, [request[r] EXCEPT !.pc = pc])
Answer(r, code) == Become(r, [request[r] EXCEPT !.pc = "idle", !.answer = code])

-----------------------------------------------------------------------------
(***************************************************************************)
(* What other requests do to the tables, one commit each.  enroll writes   *)
(* the profile before its first palm.  History follows: an answer that was *)
(* given is forgotten.                                                     *)
(***************************************************************************)
History(Follow(_)) ==
  request' = [r \in Requests |->
    IF At(r, "idle") THEN Idle ELSE Follow(request[r])]
Unaffected == LET Follow(q) == q IN History(Follow)
NowEligible(c) ==
  LET Follow(q) == [q EXCEPT !.eligible = @ \cup {c}] IN History(Follow)
NoLongerSteady(c) ==
  LET Follow(q) == [q EXCEPT !.steady = {p \in @ : p.customer # c}]
  IN  History(Follow)

CreateProfile(s, c, shard) ==
  /\ profile[c] = NoProfile
  /\ profile' = [profile EXCEPT ![c] =
       [status |-> "active", shard |-> shard, engine |-> Engine[s],
        kek |-> ActiveKek[s]]]
  /\ NowEligible(c)
  /\ UNCHANGED palms

InsertTemplate(c, hand, engine) ==
  /\ palms' = palms \cup {[customer |-> c, hand |-> hand, engine |-> engine]}
  /\ Unaffected
  /\ UNCHANGED profile

AddFirstTemplate(c, hand) ==
  /\ Active(c)
  /\ PalmsOf(c) = {}
  /\ InsertTemplate(c, hand, profile[c].engine)

\* add_palm: a further hand, on the build of the server that was asked.
AddPalm(s, c, hand) ==
  /\ Active(c)
  /\ PalmsOf(c) # {}
  /\ profile[c].kek \in Holds[s]
  /\ \A p \in PalmsOf(c) : p.hand # hand
  /\ InsertTemplate(c, hand, Engine[s])

Suspend(c) ==
  /\ Active(c)
  /\ profile' = [profile EXCEPT ![c].status = "suspended"]
  /\ NoLongerSteady(c)
  /\ UNCHANGED palms

Restore(c) ==
  /\ profile[c].status = "suspended"
  /\ profile' = [profile EXCEPT ![c].status = "active"]
  /\ NowEligible(c)
  /\ UNCHANGED palms

CryptoShred(c) ==
  /\ profile[c].status \in {"active", "suspended"}
  /\ profile' = [profile EXCEPT ![c] = Tombstone]
  /\ palms' = palms \ PalmsOf(c)
  /\ NoLongerSteady(c)

-----------------------------------------------------------------------------
PayBegin(r, s, hand, shard) ==
  /\ At(r, "idle")
  /\ Become(r, [Idle EXCEPT
       !.pc = "probe", !.server = s, !.hand = hand, !.shard = shard,
       !.eligible = {c \in Customers : Active(c)},
       !.steady = {p \in palms : Active(p.customer)}])
  /\ UNCHANGED <<profile, palms>>

\* _probe_template: liveness first, then the palm is located and judged.
ProbeFails(r) ==
  /\ At(r, "probe")
  /\ \E code \in {"liveness_failed", "palm_not_found", "poor_quality"} :
       Answer(r, code)
  /\ UNCHANGED <<profile, palms>>

Probe(r) ==
  /\ At(r, "probe")
  /\ Advance(r, "count_in_shard")
  /\ UNCHANGED <<profile, palms>>

CountInShard(r) ==
  /\ At(r, "count_in_shard")
  /\ IF Cardinality(InShard(request[r].shard)) > MaxCandidates
     THEN Answer(r, "shard_overflow")
     ELSE Advance(r, "find_candidates")
  /\ UNCHANGED <<profile, palms>>

Row(c) == [customer |-> c, kek |-> profile[c].kek]

\* A slip: suspended profiles are fetched with the others.
FetchedEvenSuspended(shard) ==
  {found \in SUBSET {c \in Customers : /\ profile[c].status # "shredded"
                                       /\ profile[c].shard = shard} :
     Cardinality(found) <= MaxCandidates}

\* LIMIT: the oldest profiles.  Which ones these are is left open.
Fetched(shard) ==
  {found \in SUBSET InShard(shard) :
     \/ found = InShard(shard) /\ Cardinality(found) <= MaxCandidates
     \/ Cardinality(found) = MaxCandidates}

FindCandidates(r) ==
  /\ At(r, "find_candidates")
  /\ \E found \in Fetched(request[r].shard) :
       IF found = {} THEN Answer(r, "no_match")
       ELSE Become(r, [request[r] EXCEPT
              !.pc = "templates_for", !.todo = {Row(c) : c \in found},
              !.truncated = InShard(request[r].shard) \ found # {}])
  /\ UNCHANGED <<profile, palms>>

\* A slip: the score is that of the hand that fits worst.
WorstDistance(hand, usable) ==
  CHOOSE d \in {Distance[hand, p.hand] : p \in usable} :
    \A p \in usable : Distance[hand, p.hand] <= d

BestDistance(hand, usable) ==
  CHOOSE d \in {Distance[hand, p.hand] : p \in usable} :
    \A p \in usable : d <= Distance[hand, p.hand]

Usable(r, c) == {p \in PalmsOf(c) : p.engine = Engine[request[r].server]}
Opens(r, row) == row.kek \in Holds[request[r].server]

(***************************************************************************)
(* One candidate: skipped and counted if every palm is of another build;   *)
(* skipped if its key is not held or no palm is there; scored by the best  *)
(* of its palms otherwise.                                                 *)
(***************************************************************************)
SkipStale(r, row) ==
  /\ PalmsOf(row.customer) # {}
  /\ Usable(r, row.customer) = {}
  /\ Become(r, [request[r] EXCEPT !.todo = @ \ {row}, !.stale = @ + 1])

SkipUnreadable(r, row) ==
  /\ \/ PalmsOf(row.customer) = {}
     \/ Usable(r, row.customer) # {} /\ ~Opens(r, row)
  /\ Become(r, [request[r] EXCEPT !.todo = @ \ {row}])

Score(r, row) ==
  /\ Usable(r, row.customer) # {}
  /\ Opens(r, row)
  /\ Become(r, [request[r] EXCEPT
       !.todo = @ \ {row},
       !.scored = @ \cup {[customer |-> row.customer,
                           distance |-> BestDistance(request[r].hand,
                                                     Usable(r, row.customer))]}])

TemplatesFor(r) ==
  /\ At(r, "templates_for")
  /\ \E row \in request[r].todo :
       SkipStale(r, row) \/ SkipUnreadable(r, row) \/ Score(r, row)
  /\ UNCHANGED <<profile, palms>>

Nearest(scored) ==
  {best \in scored : \A other \in scored : best.distance <= other.distance}

\* A slip: the margin is forgotten, only a tie is ambiguous.
AmbiguousWhenEqual(best, scored) ==
  \E other \in scored \ {best} : other.distance = best.distance

Ambiguous(best, scored) ==
  \E other \in scored \ {best} : other.distance - best.distance < MatchMargin

\* The verdict over the candidates that were scored.
Decide(r) ==
  LET scored == request[r].scored IN
  /\ At(r, "templates_for")
  /\ request[r].todo = {}
  /\ \/ /\ scored = {}
        /\ Answer(r, IF request[r].stale > 0 THEN "reenrollment_required"
                     ELSE "no_match")
     \/ \E best \in Nearest(scored) :
          \/ best.distance > Threshold /\ Answer(r, "no_match")
          \/ /\ best.distance <= Threshold
             /\ Ambiguous(best, scored)
             /\ Answer(r, "ambiguous_match")
          \/ /\ best.distance <= Threshold
             /\ ~Ambiguous(best, scored)
             /\ Become(r, [request[r] EXCEPT !.pc = "charge",
                                             !.customer = best.customer])
  /\ UNCHANGED <<profile, palms>>

\* load_card_token opens the profile that was fetched, and the card is charged.
Charge(r) ==
  /\ At(r, "charge")
  /\ Answer(r, "approved")
  /\ UNCHANGED <<profile, palms>>

RequestStep(r) ==
  \/ ProbeFails(r) \/ Probe(r) \/ CountInShard(r) \/ FindCandidates(r)
  \/ TemplatesFor(r) \/ Decide(r) \/ Charge(r)

Next ==
  \/ \E s \in Servers, c \in Customers :
       \/ \E shard \in PayCodes : CreateProfile(s, c, shard)
       \/ \E hand \in HandsOf[c] : AddPalm(s, c, hand)
  \/ \E c \in Customers :
       \/ \E hand \in HandsOf[c] : AddFirstTemplate(c, hand)
       \/ Suspend(c) \/ Restore(c) \/ CryptoShred(c)
  \/ \E r \in Requests :
       \/ \E s \in Servers, hand \in Shown, shard \in PayCodes :
            PayBegin(r, s, hand, shard)
       \/ RequestStep(r)

Spec == Init /\ [][Next]_vars

-----------------------------------------------------------------------------
IdentifyTypeOK ==
  /\ profile \in [Customers -> Profile]
  /\ palms \subseteq Palm
  /\ \A r \in Requests :
       /\ request[r].scored \subseteq [customer : Customers, distance : Nat]
       /\ request[r].todo \subseteq [customer : Customers, kek : Keks]
       /\ request[r].eligible \subseteq Customers
       /\ request[r].steady \subseteq palms

Answered(r, code) == request[r].answer = code

(***************************************************************************)
(* The profile found at the start of pay is used until the charge, and the *)
(* customer may be suspended or erased in between.  But nobody is charged  *)
(* whose account was not active at any time since the request began: who   *)
(* withdraws or erases, and hears so, is not charged by a later request.   *)
(***************************************************************************)
ChargedWasActive ==
  \A r \in Requests :
    request[r].customer # None => request[r].customer \in request[r].eligible

\* The palms that this server could compare, active since the request began.
Comparable(r) ==
  {p \in request[r].steady :
     /\ profile[p.customer].shard = request[r].shard
     /\ p.engine = Engine[request[r].server]
     /\ profile[p.customer].kek \in Holds[request[r].server]}
DistanceTo(r, p) == Distance[request[r].hand, p.hand]

(***************************************************************************)
(* "Charging either would be a coin flip with someone's money, so refuse"  *)
(* (payment.py): whoever is charged for a palm is nearer to it, by the     *)
(* margin, than every other customer the server could compare it with,     *)
(* whatever was enrolled or erased while it compared; unless profiles were *)
(* added between the count and the fetch, and the fetch left some out.     *)
(***************************************************************************)
ChargedIsNearest ==
  \A r \in Requests :
    Answered(r, "approved") /\ ~request[r].truncated =>
      \A p \in Comparable(r) :
        p.customer # request[r].customer =>
          \E mine \in request[r].scored :
            /\ mine.customer = request[r].customer
            /\ mine.distance <= Threshold
            /\ DistanceTo(r, p) - mine.distance >= MatchMargin

(***************************************************************************)
(* "Taking the worst would reject a valid customer for owning a second     *)
(* palm" (payment.py): whoever is told that no palm matches, or to enroll  *)
(* again, has no palm within the threshold that this server could compare, *)
(* and nobody else has.                                                    *)
(***************************************************************************)
NoMatchIsTrue ==
  \A r \in Requests :
    /\ \/ Answered(r, "no_match")
       \/ Answered(r, "reenrollment_required")
    /\ ~request[r].truncated
    => \A p \in Comparable(r) : DistanceTo(r, p) > Threshold

(***************************************************************************)
(* "Two enrolled palms both look like this one ... so refuse"              *)
(* (payment.py): nobody is charged for a palm that another active customer *)
(* of the shard has enrolled and whose hand is nearer to it, whether or    *)
(* not this server can compare the two.  The code keeps this only while    *)
(* every server has the same build and all the keys (README).              *)
(***************************************************************************)
NobodyEnrolledIsNearer ==
  \A r \in Requests :
    Answered(r, "approved") =>
      \A p \in request[r].steady :
        /\ profile[p.customer].shard = request[r].shard
        /\ p.customer # request[r].customer
        => \E mine \in request[r].scored :
             /\ mine.customer = request[r].customer
             /\ mine.distance <= DistanceTo(r, p)
=============================================================================
