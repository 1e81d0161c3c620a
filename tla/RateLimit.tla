----------------------------- MODULE RateLimit -----------------------------
(***************************************************************************)
(* The rate limiter (services/ratelimit.py), its table (store/             *)
(* repository.py) and the routes that ask it before they work              *)
(* (api/main.py): /v1/pay, /v1/enroll and /v1/capture/check.               *)
(*                                                                         *)
(* The counters are in the database, which all servers share; the clock is *)
(* each server's own.  A server reads its clock anew for every check and   *)
(* every purge: it may be ahead of the slowest clock, now, by at most      *)
(* MaxSkew.  Counting and comparing are one transaction.                   *)
(***************************************************************************)
EXTENDS Integers

CONSTANTS
  Workers,       \* requests the servers work on at the same time
  Codes,         \* digests of pay codes
  Merchants,     \* digests of merchant identifiers
  Global,        \* the one identity every capture check is counted under
  Limits,        \* DEFAULT_LIMITS
  MaxSkew,       \* bound: how far apart two servers' clocks may be
  Horizon,       \* bound: the last moment
  MaxCalls,      \* bound: the number of checks
  None

Scopes == {"pay_by_hint", "pay_by_terminal", "enroll", "capture_check"}
Times == 0 .. Horizon

LongestWindow ==
  LET lengths == {Limits[s].window_seconds : s \in Scopes}
  IN  CHOOSE l \in lengths : \A other \in lengths : other <= l

ASSUME RateLimitAssumption ==
  /\ Limits \in [Scopes -> [max_hits : Nat, window_seconds : Nat \ {0}]]
  /\ Horizon \in Nat
  /\ MaxCalls \in Nat
  /\ MaxSkew \in Nat /\ MaxSkew <= LongestWindow /\ MaxSkew <= Horizon

Buckets ==
  [scope : {"pay_by_hint", "enroll"}, identity : Codes]
    \cup [scope : {"pay_by_terminal"}, identity : Merchants]
    \cup [scope : {"capture_check"}, identity : {Global}]
Bucket(scope, identity) == [scope |-> scope, identity |-> identity]

VARIABLES
  now,           \* the slowest server's clock
  hits,          \* the rate_limits table: bucket and window start, 0: no row
  worker,
  audited,       \* rate_limit rows in the audit log
  refused,       \* history: answers 429
  granted,       \* history: attempts let through, by bucket and window start
  lockout,       \* history: what the last refusal of a bucket announced
  calls          \* history: checks made

vars == <<now, hits, worker, audited, refused, granted, lockout, calls>>

Idle == [pc |-> "idle", merchant |-> None]
NoLockout == [from |-> 0, until |-> 0]

Init ==
  /\ now = 0
  /\ hits = [b \in Buckets |-> [t \in Times |-> 0]]
  /\ granted = [b \in Buckets |-> [t \in Times |-> 0]]
  /\ lockout = [b \in Buckets |-> NoLockout]
  /\ worker = [w \in Workers |-> Idle]
  /\ audited = 0
  /\ refused = 0
  /\ calls = 0

At(w, pc) == worker[w].pc = pc
Become(w, job) == worker' = [worker EXCEPT ![w] = job]

-----------------------------------------------------------------------------
Window(scope) == Limits[scope].window_seconds

\* A slip: every scope is counted in windows of the longest length.
WindowStartOfLongest(scope, moment) == moment - (moment % LongestWindow)

WindowStart(scope, moment) == moment - (moment % Window(scope))

RetryAfter(scope, moment) == Window(scope) - (moment % Window(scope))

\* A slip: what is compared is the count before this attempt.
OverBeforeThis(bucket, start) ==
  hits[bucket][start] > Limits[bucket.scope].max_hits

\* Is the attempt that is being counted one too many?
Over(bucket, start) ==
  hits[bucket][start] + 1 > Limits[bucket.scope].max_hits

CountHit(bucket, start) ==
  /\ calls < MaxCalls
  /\ calls' = calls + 1
  /\ hits' = [hits EXCEPT ![bucket][start] = @ + 1]

\* The moments a server's clock may show now.
Moments == now .. now + MaxSkew

(***************************************************************************)
(* check: the attempt is counted, then compared.  A refused attempt has    *)
(* been counted too.                                                       *)
(***************************************************************************)
Admit(w, bucket, moment, next) ==
  LET start == WindowStart(bucket.scope, moment) IN
  /\ CountHit(bucket, start)
  /\ ~Over(bucket, start)
  /\ granted' = [granted EXCEPT ![bucket][start] = @ + 1]
  /\ Become(w, next)
  /\ UNCHANGED <<now, audited, refused, lockout>>

Refuse(w, bucket, moment) ==
  LET start == WindowStart(bucket.scope, moment) IN
  /\ CountHit(bucket, start)
  /\ Over(bucket, start)
  /\ lockout' = [lockout EXCEPT ![bucket] =
       [from |-> moment, until |-> moment + RetryAfter(bucket.scope, moment)]]
  /\ Become(w, [Idle EXCEPT !.pc = "append_audit"])
  /\ UNCHANGED <<now, audited, refused, granted>>

Check(w, bucket, next) ==
  \E moment \in Moments :
    Admit(w, bucket, moment, next) \/ Refuse(w, bucket, moment)

(***************************************************************************)
(* The routes.  pay asks twice, and the second refusal does not give back  *)
(* what the first check counted.                                           *)
(***************************************************************************)
PayByHint(w, code, merchant) ==
  /\ At(w, "idle")
  /\ Check(w, Bucket("pay_by_hint", code),
           [pc |-> "by_terminal", merchant |-> merchant])

PayByTerminal(w) ==
  /\ At(w, "by_terminal")
  /\ Check(w, Bucket("pay_by_terminal", worker[w].merchant), Idle)

Enroll(w, code) ==
  /\ At(w, "idle")
  /\ Check(w, Bucket("enroll", code), Idle)

CaptureCheck(w) ==
  /\ At(w, "idle")
  /\ Check(w, Bucket("capture_check", Global), Idle)

\* A slip: the refusal is answered and then logged.
AnswerFirst(w) ==
  /\ At(w, "append_audit")
  /\ refused' = refused + 1
  /\ Become(w, [Idle EXCEPT !.pc = "answer"])
  /\ UNCHANGED <<now, hits, audited, granted, lockout, calls>>

AppendAudit(w) ==
  /\ At(w, "append_audit")
  /\ audited' = audited + 1
  /\ Become(w, [Idle EXCEPT !.pc = "answer"])
  /\ UNCHANGED <<now, hits, refused, granted, lockout, calls>>

Answer429(w) ==
  /\ At(w, "answer")
  /\ refused' = refused + 1
  /\ Become(w, Idle)
  /\ UNCHANGED <<now, hits, audited, granted, lockout, calls>>

\* A call to the repository raises: 500, whatever was counted stays counted.
StorageFault(w) ==
  /\ worker[w].pc \in {"by_terminal", "append_audit"}
  /\ Become(w, Idle)
  /\ UNCHANGED <<now, hits, audited, refused, granted, lockout, calls>>

-----------------------------------------------------------------------------
Cutoff(moment) == moment - 2 * LongestWindow

\* purge_expired: the rows whose window started before the cutoff are deleted.
PurgeExpired ==
  \E moment \in Moments :
    /\ hits' = [b \in Buckets |->
                  [t \in Times |-> IF t < Cutoff(moment) THEN 0 ELSE hits[b][t]]]
    /\ hits' # hits
    /\ UNCHANGED <<now, worker, audited, refused, granted, lockout, calls>>

Tick ==
  /\ now + MaxSkew < Horizon
  /\ now' = now + 1
  /\ UNCHANGED <<hits, worker, audited, refused, granted, lockout, calls>>

Next ==
  \/ \E w \in Workers :
       \/ \E code \in Codes :
            \/ \E merchant \in Merchants : PayByHint(w, code, merchant)
            \/ Enroll(w, code)
       \/ PayByTerminal(w) \/ CaptureCheck(w)
       \/ AppendAudit(w) \/ Answer429(w) \/ StorageFault(w)
  \/ PurgeExpired
  \/ Tick

Spec == Init /\ [][Next]_vars

-----------------------------------------------------------------------------
Job ==
  [pc : {"idle", "by_terminal", "append_audit", "answer"},
   merchant : Merchants \cup {None}]

LimitTypeOK ==
  /\ now \in Times
  /\ hits \in [Buckets -> [Times -> Nat]]
  /\ granted \in [Buckets -> [Times -> Nat]]
  /\ lockout \in [Buckets -> [from : Nat, until : Nat]]
  /\ worker \in [Workers -> Job]
  /\ audited \in Nat /\ refused \in Nat /\ calls \in Nat

(***************************************************************************)
(* No window lets more attempts through than its limit, however many       *)
(* servers count at the same time with clocks that differ, and whenever    *)
(* somebody purges: "a limiter that the next server behind the load        *)
(* balancer cannot see is not a limiter", and a purge must not "delete     *)
(* live windows" of another length (ratelimit.py).                         *)
(***************************************************************************)
WindowHolds ==
  \A b \in Buckets, t \in Times : granted[b][t] <= Limits[b.scope].max_hits

(***************************************************************************)
(* "A fixed window admits up to 2x the limit across a window boundary"     *)
(* (ratelimit.py), and no more than that: the attempts let through in the  *)
(* windows that an interval of one window's length touches.                *)
(***************************************************************************)
TwiceTheLimitAtMost ==
  \A b \in Buckets, first \in Times :
    LET last == first + Window(b.scope) - 1
        one == WindowStart(b.scope, first)
        other == WindowStart(b.scope, last)
    IN  last \in Times =>
          (IF one = other THEN granted[b][one]
           ELSE granted[b][one] + granted[b][other])
            <= 2 * Limits[b.scope].max_hits

(***************************************************************************)
(* Retry-After tells the truth.  Until the moment it names every further   *)
(* attempt is refused, by whichever server; and the window of that moment  *)
(* holds no attempt from before it, so that attempts made during a lockout *)
(* never prolong it.                                                       *)
(***************************************************************************)
RetryAfterIsExact ==
  \A b \in Buckets :
    LET told == lockout[b] IN
    told # NoLockout =>
      /\ \A t \in told.from .. told.until - 1 :
           t >= now => Over(b, WindowStart(b.scope, t))
      /\ WindowStart(b.scope, told.until) = told.until

(***************************************************************************)
(* "Lockouts are audited, so a customer complaining they cannot pay is     *)
(* diagnosable" (ratelimit.py): an answer 429 is in the audit log before   *)
(* it is sent, even when the log may fail.                                 *)
(***************************************************************************)
LockoutsAudited == refused <= audited
=============================================================================
