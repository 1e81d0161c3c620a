-------------------------- MODULE RateLimitProofs --------------------------
(***************************************************************************)
(* What the limiter promises, for all limits, numbers of servers and       *)
(* requests, and clocks that differ by up to the longest window.           *)
(***************************************************************************)
EXTENDS RateLimit, TLAPS, FiniteSetTheorems

\* A window has begun by the moment it is asked for, and is not over yet.
LEMMA WindowStartBounds ==
  ASSUME NEW scope \in Scopes, NEW moment \in Nat
  PROVE  /\ Window(scope) \in Nat \ {0}
         /\ WindowStart(scope, moment) \in 0 .. moment
         /\ moment - Window(scope) < WindowStart(scope, moment)
<1>1. Window(scope) \in Nat \ {0}
  BY RateLimitAssumption DEF Window
<1>2. \A n \in Nat \ {0} : moment % n \in 0 .. n - 1 /\ moment % n <= moment
  OBVIOUS
<1> QED
  BY <1>1, <1>2 DEF WindowStart

\* No scope has a longer window than the one the purge is measured by.
LEMMA LongestIsLongest ==
  /\ LongestWindow \in Nat
  /\ \A scope \in Scopes : Window(scope) <= LongestWindow
<1> DEFINE lengths == {Limits[s].window_seconds : s \in Scopes}
           Tops(l) == l \in lengths /\ \A other \in lengths : other <= l
<1>1. \A s \in Scopes : Window(s) \in Nat /\ Window(s) \in lengths
  BY RateLimitAssumption DEF Window
<1>2. \A l \in lengths : \E s \in Scopes : l = Window(s)
  BY DEF Window
<1>3. \E l : Tops(l)
  <2> DEFINE Later(a, b) == IF a <= b THEN b ELSE a
             one == Later(Window("pay_by_hint"), Window("pay_by_terminal"))
             two == Later(Window("enroll"), Window("capture_check"))
             top == Later(one, two)
  <2>1. /\ Window("pay_by_hint") \in Nat /\ Window("pay_by_terminal") \in Nat
        /\ Window("enroll") \in Nat /\ Window("capture_check") \in Nat
    BY <1>1 DEF Scopes
  <2>2. top \in lengths
    BY <1>1, <2>1 DEF Scopes
  <2>3. \A s \in Scopes : Window(s) <= top
    BY <2>1 DEF Scopes
  <2> QED
    BY <1>2, <2>2, <2>3
<1>4. Tops(LongestWindow)
  <2>1. LongestWindow = CHOOSE l : Tops(l)
    BY DEF LongestWindow
  <2> QED
    BY <1>3, <2>1
<1> QED
  BY <1>1, <1>2, <1>4

-----------------------------------------------------------------------------
(***************************************************************************)
(* The inductive invariant.  In every window that some server may still    *)
(* count in, what was let through has been counted and no purge has        *)
(* forgotten it.                                                           *)
(***************************************************************************)
LiveWindowsCounted ==
  \A b \in Buckets, t \in Times :
    t > now - Window(b.scope) => granted[b][t] <= hits[b][t]

Tables ==
  /\ now \in Nat /\ now + MaxSkew <= Horizon
  /\ hits \in [Buckets -> [Times -> Nat]]
  /\ granted \in [Buckets -> [Times -> Nat]]

LimitInv == Tables /\ LiveWindowsCounted /\ WindowHolds

\* What a step does to the tables when it counts an attempt of a bucket.
Counts(b, start) == hits' = [hits EXCEPT ![b][start] = @ + 1]
Grants(b, start) == granted' = [granted EXCEPT ![b][start] = @ + 1]

LEMMA BucketScope ==
  \A b \in Buckets : b.scope \in Scopes
BY DEF Buckets, Scopes

LEMMA LimitInit == Init => LimitInv
<1> SUFFICES ASSUME Init PROVE LimitInv
  OBVIOUS
<1>1. Tables
  BY RateLimitAssumption DEF Init, Tables
<1>2. LiveWindowsCounted
  BY DEF Init, LiveWindowsCounted
<1>3. WindowHolds
  BY BucketScope, RateLimitAssumption DEF Init, WindowHolds
<1> QED
  BY <1>1, <1>2, <1>3 DEF LimitInv

\* A moment a server may read falls in a window that is not over for anybody.
LEMMA MomentIsLive ==
  ASSUME Tables, NEW b \in Buckets, NEW moment \in Moments
  PROVE  /\ WindowStart(b.scope, moment) \in Times
         /\ WindowStart(b.scope, moment) > now - Window(b.scope)
<1>1. now \in Nat /\ MaxSkew \in Nat /\ Horizon \in Nat /\ now + MaxSkew <= Horizon
  BY RateLimitAssumption DEF Tables
<1>2. moment \in Nat /\ now <= moment /\ moment <= Horizon
  BY <1>1 DEF Moments
<1>3. /\ Window(b.scope) \in Nat
      /\ WindowStart(b.scope, moment) \in 0 .. moment
      /\ moment - Window(b.scope) < WindowStart(b.scope, moment)
  BY <1>2, BucketScope, WindowStartBounds
<1> QED
  BY <1>1, <1>2, <1>3 DEF Times

\* An attempt let through stays within the limit, and is counted.
LEMMA AdmitKeeps ==
  ASSUME LimitInv, NEW w, NEW b \in Buckets, NEW next, NEW moment \in Moments,
         Admit(w, b, moment, next)
  PROVE  LimitInv'
<1> DEFINE start == WindowStart(b.scope, moment)
           max == Limits[b.scope].max_hits
<1>1. start \in Times /\ start > now - Window(b.scope)
  BY MomentIsLive DEF LimitInv
<1>2. /\ Counts(b, start) /\ Grants(b, start)
      /\ ~(hits[b][start] + 1 > max) /\ now' = now
  BY DEF Admit, CountHit, Counts, Grants, Over
<1>3. max \in Nat
  BY BucketScope, RateLimitAssumption
<1>4. granted[b][start] <= hits[b][start]
  BY <1>1 DEF LimitInv, LiveWindowsCounted
<1> HIDE DEF start, max
<1>5. Tables'
  BY <1>1, <1>2 DEF LimitInv, Tables, Counts, Grants
<1>6. \A c \in Buckets, t \in Times :
         IF c = b /\ t = start
         THEN hits'[c][t] = hits[c][t] + 1 /\ granted'[c][t] = granted[c][t] + 1
         ELSE hits'[c][t] = hits[c][t] /\ granted'[c][t] = granted[c][t]
  BY <1>1, <1>2 DEF LimitInv, Tables, Counts, Grants
<1>7. \A c \in Buckets, t \in Times : hits[c][t] \in Nat /\ granted[c][t] \in Nat
  BY DEF LimitInv, Tables
<1>8. LiveWindowsCounted'
  BY <1>2, <1>6, <1>7 DEF LimitInv, LiveWindowsCounted, Window
<1>9. WindowHolds'
  <2> SUFFICES ASSUME NEW c \in Buckets, NEW t \in Times
               PROVE  granted'[c][t] <= Limits[c.scope].max_hits
    BY DEF WindowHolds
  <2>1. CASE c = b /\ t = start
    <3>1. granted'[b][start] = granted[b][start] + 1
      BY <1>1, <1>6
    <3>2. granted[b][start] \in Nat /\ hits[b][start] \in Nat
      BY <1>1, <1>7
    <3>3. granted'[b][start] <= max
      BY <3>1, <3>2, <1>2, <1>3, <1>4
    <3> QED
      BY <2>1, <3>3 DEF max
  <2>2. CASE ~(c = b /\ t = start)
    BY <2>2, <1>6 DEF LimitInv, WindowHolds
  <2> QED
    BY <2>1, <2>2
<1> QED
  BY <1>5, <1>8, <1>9 DEF LimitInv

\* A refused attempt is counted too, which only adds to the counts.
LEMMA RefuseKeeps ==
  ASSUME LimitInv, NEW w, NEW b \in Buckets, NEW moment \in Moments,
         Refuse(w, b, moment)
  PROVE  LimitInv'
<1> DEFINE start == WindowStart(b.scope, moment)
<1>1. start \in Times
  BY MomentIsLive DEF LimitInv
<1>2. Counts(b, start) /\ granted' = granted /\ now' = now
  BY DEF Refuse, CountHit, Counts
<1> HIDE DEF start
<1>3. \A c \in Buckets, t \in Times :
         hits[c][t] \in Nat /\ granted[c][t] \in Nat /\ hits'[c][t] >= hits[c][t]
  BY <1>1, <1>2 DEF LimitInv, Tables, Counts
<1>4. Tables'
  BY <1>1, <1>2 DEF LimitInv, Tables, Counts
<1>5. \A c \in Buckets, t \in Times : hits'[c][t] \in Nat
  BY <1>4 DEF Tables
<1>6. LiveWindowsCounted'
  BY <1>2, <1>3, <1>5 DEF LimitInv, LiveWindowsCounted, Window
<1>7. WindowHolds'
  BY <1>2 DEF LimitInv, WindowHolds
<1> QED
  BY <1>4, <1>6, <1>7 DEF LimitInv

\* A purge forgets no window that is still counted in.
LEMMA PurgeKeeps ==
  ASSUME LimitInv, PurgeExpired
  PROVE  LimitInv'
<1>1. PICK moment \in Moments :
        hits' = [b \in Buckets |->
                  [t \in Times |-> IF t < Cutoff(moment) THEN 0 ELSE hits[b][t]]]
  BY DEF PurgeExpired
<1>2. granted' = granted /\ now' = now
  BY DEF PurgeExpired
<1>3. now \in Nat /\ MaxSkew \in Nat /\ MaxSkew <= LongestWindow
      /\ LongestWindow \in Nat /\ Horizon \in Nat
  BY LongestIsLongest, RateLimitAssumption DEF LimitInv, Tables
<1>4. Cutoff(moment) <= now - LongestWindow
  BY <1>3 DEF Moments, Cutoff
<1>5. Cutoff(moment) \in Int
  BY <1>3 DEF Moments, Cutoff
<1> HIDE DEF Cutoff
<1>6. Tables'
  BY <1>1, <1>2 DEF LimitInv, Tables
<1>7. LiveWindowsCounted'
  <2> SUFFICES ASSUME NEW b \in Buckets, NEW t \in Times,
                      t > now - Window(b.scope)
               PROVE  granted[b][t] <= hits'[b][t]
    BY <1>2 DEF LiveWindowsCounted, Window
  <2>1. Window(b.scope) \in Nat /\ Window(b.scope) <= LongestWindow
    BY BucketScope, LongestIsLongest, RateLimitAssumption DEF Window
  <2>2. t \in Nat
    BY <1>3 DEF Times
  <2>3. ~(t < Cutoff(moment))
    BY <1>3, <1>4, <1>5, <2>1, <2>2
  <2>4. hits'[b][t] = hits[b][t]
    BY <1>1, <2>3
  <2> QED
    BY <2>4 DEF LimitInv, LiveWindowsCounted
<1>8. WindowHolds'
  BY <1>2 DEF LimitInv, WindowHolds
<1> QED
  BY <1>6, <1>7, <1>8 DEF LimitInv

\* As time goes by, windows end and none comes back.
LEMMA TickKeeps ==
  ASSUME LimitInv, Tick
  PROVE  LimitInv'
<1>1. now \in Nat /\ MaxSkew \in Nat /\ Horizon \in Nat
  BY RateLimitAssumption DEF LimitInv, Tables
<1>2. now' = now + 1 /\ now + MaxSkew < Horizon /\ hits' = hits /\ granted' = granted
  BY DEF Tick
<1>3. Tables'
  BY <1>1, <1>2 DEF LimitInv, Tables
<1>4. LiveWindowsCounted'
  <2>1. \A b \in Buckets : Window(b.scope) \in Nat
    BY BucketScope, RateLimitAssumption DEF Window
  <2>2. \A t \in Times : t \in Nat
    BY <1>1 DEF Times
  <2> SUFFICES ASSUME NEW b \in Buckets, NEW t \in Times,
                      t > now' - Window(b.scope)
               PROVE  granted[b][t] <= hits[b][t]
    BY <1>2 DEF LiveWindowsCounted, Window
  <2>3. t > now - Window(b.scope)
    BY <1>1, <1>2, <2>1, <2>2
  <2> QED
    BY <2>3 DEF LimitInv, LiveWindowsCounted
<1>5. WindowHolds'
  BY <1>2 DEF LimitInv, WindowHolds
<1> QED
  BY <1>3, <1>4, <1>5 DEF LimitInv

LEMMA CheckKeeps ==
  ASSUME LimitInv, NEW w, NEW b \in Buckets, NEW next, Check(w, b, next)
  PROVE  LimitInv'
BY AdmitKeeps, RefuseKeeps DEF Check

LEMMA OtherKeeps ==
  ASSUME LimitInv, hits' = hits, granted' = granted, now' = now
  PROVE  LimitInv'
BY DEF LimitInv, Tables, LiveWindowsCounted, WindowHolds, Window

\* A pay request names a merchant: the second check counts in a bucket.
Named ==
  /\ worker \in [Workers -> Job]
  /\ \A w \in Workers : At(w, "by_terminal") => worker[w].merchant \in Merchants

\* What becomes of a worker in any step.
JobIsNamed(job) ==
  /\ job \in Job
  /\ job.pc = "by_terminal" => job.merchant \in Merchants

LEMMA IdleIsNamed ==
  /\ JobIsNamed(Idle)
  /\ \A pc \in {"append_audit", "answer"} : JobIsNamed([Idle EXCEPT !.pc = pc])
<1>1. /\ [Idle EXCEPT !.pc = "append_audit"] =
             [pc |-> "append_audit", merchant |-> None]
      /\ [Idle EXCEPT !.pc = "answer"] = [pc |-> "answer", merchant |-> None]
  BY DEF Idle
<1>2. \A pc \in {"idle", "append_audit", "answer"} :
         JobIsNamed([pc |-> pc, merchant |-> None])
  BY DEF JobIsNamed, Job
<1> QED
  BY <1>1, <1>2 DEF Idle

LEMMA BecomeKeepsNamed ==
  ASSUME Named, NEW w \in Workers, NEW job, JobIsNamed(job), Become(w, job)
  PROVE  Named'
BY DEF Named, Become, JobIsNamed, At

LEMMA CheckKeepsNamed ==
  ASSUME Named, NEW w \in Workers, NEW b, NEW next, JobIsNamed(next),
         Check(w, b, next)
  PROVE  Named'
<1>1. PICK moment \in Moments : Admit(w, b, moment, next) \/ Refuse(w, b, moment)
  BY DEF Check
<1>2. CASE Admit(w, b, moment, next)
  BY <1>2, BecomeKeepsNamed DEF Admit
<1>3. CASE Refuse(w, b, moment)
  BY <1>3, BecomeKeepsNamed, IdleIsNamed DEF Refuse
<1> QED
  BY <1>1, <1>2, <1>3

LimitIInv == LimitInv /\ Named

LEMMA LimitInductive == LimitIInv /\ [Next]_vars => LimitIInv'
<1> SUFFICES ASSUME LimitInv, Named, [Next]_vars PROVE LimitInv' /\ Named'
  BY DEF LimitIInv
<1>1. ASSUME NEW w \in Workers, NEW code \in Codes, NEW merchant \in Merchants,
             PayByHint(w, code, merchant)
      PROVE  LimitInv' /\ Named'
  <2>1. Bucket("pay_by_hint", code) \in Buckets
    BY DEF Bucket, Buckets
  <2>2. JobIsNamed([pc |-> "by_terminal", merchant |-> merchant])
    BY DEF JobIsNamed, Job
  <2>3. Check(w, Bucket("pay_by_hint", code),
              [pc |-> "by_terminal", merchant |-> merchant])
    BY <1>1 DEF PayByHint
  <2> QED
    BY <2>1, <2>2, <2>3, CheckKeeps, CheckKeepsNamed
<1>2. ASSUME NEW w \in Workers, NEW code \in Codes, Enroll(w, code)
      PROVE  LimitInv' /\ Named'
  <2>1. Bucket("enroll", code) \in Buckets
    BY DEF Bucket, Buckets
  <2>2. Check(w, Bucket("enroll", code), Idle)
    BY <1>2 DEF Enroll
  <2> QED
    BY <2>1, <2>2, IdleIsNamed, CheckKeeps, CheckKeepsNamed
<1>3. ASSUME NEW w \in Workers, PayByTerminal(w)
      PROVE  LimitInv' /\ Named'
  <2>1. worker[w].merchant \in Merchants
    BY <1>3 DEF PayByTerminal, Named
  <2>2. Bucket("pay_by_terminal", worker[w].merchant) \in Buckets
    BY <2>1 DEF Bucket, Buckets
  <2>3. Check(w, Bucket("pay_by_terminal", worker[w].merchant), Idle)
    BY <1>3 DEF PayByTerminal
  <2> QED
    BY <2>2, <2>3, IdleIsNamed, CheckKeeps, CheckKeepsNamed
<1>4. ASSUME NEW w \in Workers, CaptureCheck(w)
      PROVE  LimitInv' /\ Named'
  <2>1. Bucket("capture_check", Global) \in Buckets
    BY DEF Bucket, Buckets
  <2>2. Check(w, Bucket("capture_check", Global), Idle)
    BY <1>4 DEF CaptureCheck
  <2> QED
    BY <2>1, <2>2, IdleIsNamed, CheckKeeps, CheckKeepsNamed
<1>5. ASSUME NEW w \in Workers,
             AppendAudit(w) \/ Answer429(w) \/ StorageFault(w)
      PROVE  LimitInv' /\ Named'
  <2>1. Named'
    BY <1>5, BecomeKeepsNamed, IdleIsNamed
       DEF AppendAudit, Answer429, StorageFault
  <2>2. LimitInv'
    BY <1>5, OtherKeeps DEF AppendAudit, Answer429, StorageFault
  <2> QED
    BY <2>1, <2>2
<1>6. ASSUME PurgeExpired
      PROVE  LimitInv' /\ Named'
  <2>1. worker' = worker
    BY <1>6 DEF PurgeExpired
  <2> QED
    BY <1>6, <2>1, PurgeKeeps DEF Named, At
<1>7. ASSUME Tick
      PROVE  LimitInv' /\ Named'
  <2>1. worker' = worker
    BY <1>7 DEF Tick
  <2> QED
    BY <1>7, <2>1, TickKeeps DEF Named, At
<1>8. ASSUME UNCHANGED vars
      PROVE  LimitInv' /\ Named'
  BY <1>8, OtherKeeps DEF vars, Named, At
<1> QED
  BY <1>1, <1>2, <1>3, <1>4, <1>5, <1>6, <1>7, <1>8 DEF Next

LEMMA LimitAlways == Spec => []LimitIInv
<1>1. Init => LimitIInv
  BY LimitInit, IdleIsNamed DEF LimitIInv, Init, Named, JobIsNamed, Job, Idle, At
<1> QED
  BY <1>1, LimitInductive, PTL DEF Spec

(***************************************************************************)
(* However many servers count, with clocks up to the longest window apart, *)
(* and whenever a purge runs, no window lets through more than its limit:  *)
(* hit_rate_limit counts before it compares, and purge_expired spares      *)
(* every window that a server may still count in.                          *)
(***************************************************************************)
THEOREM WindowsHold == Spec => []WindowHolds
<1>1. LimitIInv => WindowHolds
  BY DEF LimitIInv, LimitInv
<1> QED
  BY <1>1, LimitAlways, PTL

(***************************************************************************)
(* The imprecision the limiter accepts is bounded: the windows that an     *)
(* interval of one window's length touches let through twice the limit at  *)
(* most ("up to 2x the limit across a window boundary", ratelimit.py).     *)
(***************************************************************************)
THEOREM TwiceTheLimit == Spec => []TwiceTheLimitAtMost
<1>1. LimitIInv => TwiceTheLimitAtMost
  <2> SUFFICES ASSUME LimitIInv, NEW b \in Buckets, NEW first \in Times,
                      first + Window(b.scope) - 1 \in Times
               PROVE  LET last == first + Window(b.scope) - 1
                          one == WindowStart(b.scope, first)
                          other == WindowStart(b.scope, last)
                      IN (IF one = other THEN granted[b][one]
                          ELSE granted[b][one] + granted[b][other])
                           <= 2 * Limits[b.scope].max_hits
    BY DEF TwiceTheLimitAtMost
  <2> DEFINE last == first + Window(b.scope) - 1
             one == WindowStart(b.scope, first)
             other == WindowStart(b.scope, last)
             max == Limits[b.scope].max_hits
  <2>1. one \in Times /\ other \in Times
    BY BucketScope, WindowStartBounds, RateLimitAssumption DEF Times
  <2>2. max \in Nat
    BY BucketScope, RateLimitAssumption
  <2>3. \A t \in Times : granted[b][t] \in Nat /\ granted[b][t] <= max
    BY DEF LimitIInv, LimitInv, Tables, WindowHolds
  <2> HIDE DEF one, other, max
  <2> QED
    BY <2>1, <2>2, <2>3 DEF one, other, max
<1> QED
  BY <1>1, LimitAlways, PTL

-----------------------------------------------------------------------------
(***************************************************************************)
(* Windows tile the time: every moment of a window has the same start, and *)
(* the moment after its last is the start of the next.                     *)
(***************************************************************************)
LEMMA DivideWithRest ==
  ASSUME NEW n \in Nat \ {0}, NEW m \in Nat
  PROVE  \E q \in Nat : m = n * q + (m % n) /\ m % n \in 0 .. n - 1
<1>1. m = n * (m \div n) + (m % n)
  OBVIOUS
<1>2. m % n \in 0 .. n - 1 /\ m \div n \in Nat
  OBVIOUS
<1> QED
  BY <1>1, <1>2

LEMMA RestIsUnique ==
  ASSUME NEW n \in Nat \ {0}, NEW q \in Nat, NEW r \in 0 .. n - 1
  PROVE  (n * q + r) % n = r
<1> DEFINE m == n * q + r
<1>1. n * q \in Nat /\ m \in Nat
  OBVIOUS
<1>2. PICK p \in Nat : m = n * p + (m % n) /\ m % n \in 0 .. n - 1
  BY <1>1, DivideWithRest
<1>3. \A a, b \in Nat : a < b => n * a + n <= n * b
  <2> SUFFICES ASSUME NEW a \in Nat, NEW b \in Nat, a < b
               PROVE  n * a + n <= n * b
    OBVIOUS
  <2>1. PICK d \in Nat : b = a + 1 + d
    <3>1. b - a - 1 \in Nat /\ b = a + 1 + (b - a - 1)
      OBVIOUS
    <3> QED
      BY <3>1
  <2>2. n * b = n * a + n + n * d /\ n * d \in Nat /\ n * a \in Nat
    BY <2>1
  <2> QED
    BY <2>2
<1>4. p = q
  <2>1. n * p \in Nat /\ n * q \in Nat
    OBVIOUS
  <2>2. CASE p < q
    BY <1>2, <1>3, <2>1, <2>2
  <2>3. CASE q < p
    BY <1>2, <1>3, <2>1, <2>3
  <2> QED
    BY <2>2, <2>3
<1> QED
  BY <1>1, <1>2, <1>4

LEMMA WindowsTile ==
  ASSUME NEW scope \in Scopes, NEW moment \in Nat
  PROVE  LET start == WindowStart(scope, moment)
             next == moment + RetryAfter(scope, moment)
         IN  /\ start \in Nat /\ start <= moment /\ moment < next
             /\ next = start + Window(scope)
             /\ WindowStart(scope, next) = next
             /\ \A t \in start .. next - 1 : WindowStart(scope, t) = start
<1> DEFINE n == Window(scope)
           start == WindowStart(scope, moment)
           next == moment + RetryAfter(scope, moment)
<1>1. n \in Nat \ {0}
  BY WindowStartBounds
<1>2. PICK q \in Nat : /\ moment = n * q + (moment % n)
                       /\ moment % n \in 0 .. n - 1
  BY <1>1, DivideWithRest
<1>3. n * q \in Nat /\ n * (q + 1) = n * q + n
  BY <1>1
<1>4. start = n * q /\ next = n * q + n
  BY <1>1, <1>2, <1>3 DEF WindowStart, RetryAfter
<1>5. start \in Nat /\ start <= moment /\ moment < next /\ next = start + n
  BY <1>1, <1>2, <1>3, <1>4
<1>6. WindowStart(scope, next) = next
  <2>1. (n * (q + 1) + 0) % n = 0
    BY <1>1, RestIsUnique
  <2>2. next % n = 0
    BY <1>1, <1>3, <1>4, <2>1
  <2> QED
    BY <1>1, <1>3, <1>4, <2>2 DEF WindowStart
<1>7. ASSUME NEW t \in start .. next - 1
      PROVE  WindowStart(scope, t) = start
  <2>1. t - n * q \in 0 .. n - 1 /\ n * q + (t - n * q) = t
    BY <1>1, <1>3, <1>4
  <2>2. t % n = t - n * q
    BY <1>1, <2>1, RestIsUnique
  <2> QED
    BY <1>1, <1>3, <1>4, <2>2 DEF WindowStart
<1> QED
  BY <1>5, <1>6, <1>7

-----------------------------------------------------------------------------
(***************************************************************************)
(* A bucket is locked out to the end of a window, and that window is full  *)
(* as long as some server may still count in it.                           *)
(***************************************************************************)
Full(b, start) ==
  now < start + Window(b.scope) => Over(b, start)

LockedTo(b, told, start) ==
  /\ start <= told.from /\ told.until = start + Window(b.scope)
  /\ WindowStart(b.scope, told.until) = told.until
  /\ \A t \in start .. told.until - 1 : WindowStart(b.scope, t) = start

LockoutOK(b) ==
  \/ lockout[b] = NoLockout
  \/ \E start \in Times : LockedTo(b, lockout[b], start) /\ Full(b, start)

RetryInv ==
  /\ LimitIInv
  /\ lockout \in [Buckets -> [from : Nat, until : Nat]]
  /\ \A b \in Buckets : LockoutOK(b)

LEMMA CountsAreNat ==
  ASSUME LimitIInv, NEW b \in Buckets
  PROVE  /\ Window(b.scope) \in Nat \ {0} /\ Window(b.scope) <= LongestWindow
         /\ Limits[b.scope].max_hits \in Nat /\ LongestWindow \in Nat
         /\ now \in Nat /\ MaxSkew \in Nat /\ MaxSkew <= LongestWindow
         /\ Times \subseteq Nat
         /\ \A t \in Times : hits[b][t] \in Nat
<1>1. b.scope \in Scopes
  BY BucketScope
<1>2. /\ Window(b.scope) \in Nat \ {0}
      /\ Limits[b.scope].max_hits \in Nat /\ MaxSkew \in Nat
      /\ MaxSkew <= LongestWindow /\ Horizon \in Nat
  BY <1>1, RateLimitAssumption DEF Window
<1>3. LongestWindow \in Nat /\ Window(b.scope) <= LongestWindow
  BY <1>1, LongestIsLongest
<1>4. now \in Nat /\ \A t \in Times : hits[b][t] \in Nat
  BY DEF LimitIInv, LimitInv, Tables
<1>5. Times \subseteq Nat
  BY <1>2 DEF Times
<1> QED
  BY <1>2, <1>3, <1>4, <1>5

\* Counts that nobody gives back keep a full window full.
LEMMA LockoutKept ==
  ASSUME LimitIInv, LimitIInv', NEW b \in Buckets, LockoutOK(b),
         lockout'[b] = lockout[b], now' >= now,
         \A t \in Times :
           now < t + Window(b.scope) => hits'[b][t] >= hits[b][t]
  PROVE  LockoutOK(b)'
<1>1. CASE lockout[b] = NoLockout
  BY <1>1 DEF LockoutOK
<1>2. CASE lockout[b] # NoLockout
  <2>1. PICK start \in Times : LockedTo(b, lockout[b], start) /\ Full(b, start)
    BY <1>2 DEF LockoutOK
  <2>2. LockedTo(b, lockout'[b], start)
    BY <2>1
  <2>3. /\ hits[b][start] \in Nat /\ hits'[b][start] \in Nat
        /\ now \in Nat /\ now' \in Nat /\ start \in Nat
        /\ Window(b.scope) \in Nat /\ Limits[b.scope].max_hits \in Nat
    <3>1. now' \in Nat /\ hits'[b][start] \in Nat
      BY DEF LimitIInv, LimitInv, Tables
    <3> QED
      BY <3>1, CountsAreNat
  <2>4. ASSUME now' < start + Window(b.scope)
        PROVE  hits'[b][start] + 1 > Limits[b.scope].max_hits
    <3>1. now < start + Window(b.scope)
      BY <2>3, <2>4
    <3>2. hits[b][start] + 1 > Limits[b.scope].max_hits
      BY <2>1, <3>1 DEF Full, Over
    <3> QED
      BY <2>3, <3>1, <3>2
  <2>5. Full(b, start)'
    BY <2>4 DEF Full, Over, Window
  <2> QED
    BY <2>2, <2>5 DEF LockoutOK, LockedTo, WindowStart, Window
<1> QED
  BY <1>1, <1>2

\* A refused attempt announces the end of the window it was counted in.
LEMMA RefuseLocks ==
  ASSUME RetryInv, LimitIInv', NEW w, NEW b \in Buckets, NEW moment \in Moments,
         Refuse(w, b, moment)
  PROVE  RetryInv'
<1> DEFINE start == WindowStart(b.scope, moment)
           until == moment + RetryAfter(b.scope, moment)
           told == [from |-> moment, until |-> until]
<1>1. start \in Times /\ b.scope \in Scopes
  BY MomentIsLive, BucketScope DEF RetryInv, LimitIInv, LimitInv
<1>2. moment \in Nat
  BY CountsAreNat DEF RetryInv, Moments
<1>3. /\ start <= moment /\ moment < until /\ until = start + Window(b.scope)
      /\ WindowStart(b.scope, until) = until
      /\ \A t \in start .. until - 1 : WindowStart(b.scope, t) = start
  BY <1>1, <1>2, WindowsTile
<1>4. until \in Nat
  BY <1>1, <1>3, CountsAreNat DEF RetryInv
<1>5. /\ Counts(b, start) /\ now' = now
      /\ lockout' = [lockout EXCEPT ![b] = told]
      /\ hits[b][start] + 1 > Limits[b.scope].max_hits
  BY DEF Refuse, CountHit, Counts, Over
<1> HIDE DEF start, until
<1>6. \A c \in Buckets, t \in Times :
        hits[c][t] \in Nat /\ hits'[c][t] \in Nat /\ hits'[c][t] >= hits[c][t]
  BY <1>1, <1>5 DEF RetryInv, LimitIInv, LimitInv, Tables, Counts
<1>7. lockout' \in [Buckets -> [from : Nat, until : Nat]]
  BY <1>2, <1>4, <1>5 DEF RetryInv
<1>8. LockoutOK(b)'
  <2>1. lockout'[b] = told /\ told.from = moment /\ told.until = until
    BY <1>5 DEF RetryInv
  <2>2. LockedTo(b, told, start)
    BY <1>3, <2>1 DEF LockedTo
  <2>3. hits'[b][start] + 1 > Limits[b.scope].max_hits
    <3>1. Limits[b.scope].max_hits \in Nat
      BY CountsAreNat DEF RetryInv
    <3> QED
      BY <1>1, <1>5, <1>6, <3>1
  <2> QED
    BY <1>1, <2>1, <2>2, <2>3
       DEF LockoutOK, LockedTo, Full, Over, WindowStart, Window
<1>9. ASSUME NEW c \in Buckets, c # b PROVE LockoutOK(c)'
  <2>1. lockout'[c] = lockout[c] /\ LockoutOK(c)
    BY <1>5, <1>9 DEF RetryInv
  <2>2. now' >= now
    BY <1>5, CountsAreNat DEF RetryInv
  <2> QED
    BY <1>6, <2>1, <2>2, LockoutKept DEF RetryInv
<1> QED
  BY <1>7, <1>8, <1>9 DEF RetryInv

\* Every other step leaves the lockouts, and forgets nothing that counts.
LEMMA OthersKeepLockouts ==
  ASSUME RetryInv, LimitIInv', UNCHANGED lockout, now' \in {now, now + 1},
         \A b \in Buckets, t \in Times :
           now < t + Window(b.scope) => hits'[b][t] >= hits[b][t]
  PROVE  RetryInv'
<1>1. ASSUME NEW b \in Buckets PROVE LockoutOK(b)'
  <2>1. now' >= now
    BY <1>1, CountsAreNat DEF RetryInv
  <2> QED
    BY <2>1, LockoutKept DEF RetryInv
<1> QED
  BY <1>1 DEF RetryInv

LEMMA CheckKeepsLockouts ==
  ASSUME RetryInv, LimitIInv', NEW w, NEW b \in Buckets, NEW next,
         Check(w, b, next)
  PROVE  RetryInv'
<1>1. PICK moment \in Moments : Admit(w, b, moment, next) \/ Refuse(w, b, moment)
  BY DEF Check
<1>2. CASE Admit(w, b, moment, next)
  <2>1. \A c \in Buckets, t \in Times : hits'[c][t] >= hits[c][t]
    BY <1>2 DEF Admit, CountHit, RetryInv, LimitIInv, LimitInv, Tables
  <2> QED
    BY <1>2, <2>1, OthersKeepLockouts DEF Admit
<1>3. CASE Refuse(w, b, moment)
  BY <1>3, RefuseLocks
<1> QED
  BY <1>1, <1>2, <1>3

LEMMA RetryInductive == RetryInv /\ [Next]_vars => RetryInv'
<1> SUFFICES ASSUME RetryInv, [Next]_vars PROVE RetryInv'
  OBVIOUS
<1>1. LimitIInv'
  BY LimitInductive DEF RetryInv
<1>2. \A b \in Buckets, t \in Times : hits[b][t] >= hits[b][t]
  BY CountsAreNat DEF RetryInv
<1>3. ASSUME NEW w \in Workers,
             \/ \E code \in Codes :
                  \/ \E merchant \in Merchants : PayByHint(w, code, merchant)
                  \/ Enroll(w, code)
             \/ PayByTerminal(w) \/ CaptureCheck(w)
      PROVE  RetryInv'
  <2>1. PICK b \in Buckets : \E next : Check(w, b, next)
    <3>1. ASSUME NEW code \in Codes, NEW merchant \in Merchants,
                 PayByHint(w, code, merchant)
          PROVE  \E b \in Buckets : \E next : Check(w, b, next)
      BY <3>1 DEF PayByHint, Bucket, Buckets
    <3>2. ASSUME NEW code \in Codes, Enroll(w, code)
          PROVE  \E b \in Buckets : \E next : Check(w, b, next)
      BY <3>2 DEF Enroll, Bucket, Buckets
    <3>3. ASSUME PayByTerminal(w)
          PROVE  \E b \in Buckets : \E next : Check(w, b, next)
      BY <3>3 DEF PayByTerminal, Bucket, Buckets, RetryInv, LimitIInv, Named
    <3>4. ASSUME CaptureCheck(w)
          PROVE  \E b \in Buckets : \E next : Check(w, b, next)
      BY <3>4 DEF CaptureCheck, Bucket, Buckets
    <3> QED
      BY <1>3, <3>1, <3>2, <3>3, <3>4
  <2>2. PICK next : Check(w, b, next)
    BY <2>1
  <2> QED
    BY <1>1, <2>2, CheckKeepsLockouts
<1>4. ASSUME NEW w \in Workers,
             AppendAudit(w) \/ Answer429(w) \/ StorageFault(w)
      PROVE  RetryInv'
  BY <1>1, <1>2, <1>4, OthersKeepLockouts
     DEF AppendAudit, Answer429, StorageFault
<1>5. ASSUME PurgeExpired PROVE RetryInv'
  <2>1. PICK moment \in Moments :
          hits' = [b \in Buckets |-> [t \in Times |->
                     IF t < Cutoff(moment) THEN 0 ELSE hits[b][t]]]
    BY <1>5 DEF PurgeExpired
  <2>2. ASSUME NEW b \in Buckets, NEW t \in Times, now < t + Window(b.scope)
        PROVE  hits'[b][t] >= hits[b][t]
    <3>1. ~(t < Cutoff(moment))
      BY <2>2, CountsAreNat DEF RetryInv, Moments, Cutoff
    <3>2. hits'[b][t] = hits[b][t]
      BY <2>1, <3>1
    <3> QED
      BY <1>2, <3>2
  <2> QED
    BY <1>1, <1>5, <2>2, OthersKeepLockouts DEF PurgeExpired
<1>6. ASSUME Tick PROVE RetryInv'
  BY <1>1, <1>2, <1>6, OthersKeepLockouts DEF Tick
<1>7. ASSUME UNCHANGED vars PROVE RetryInv'
  BY <1>1, <1>2, <1>7, OthersKeepLockouts DEF vars
<1> QED
  BY <1>3, <1>4, <1>5, <1>6, <1>7 DEF Next

(***************************************************************************)
(* Retry-After (RateLimiter.check) is neither too short nor too long: the  *)
(* bucket stays full up to the moment it names, for every server and       *)
(* whatever is purged, and that moment begins a window of its own.         *)
(***************************************************************************)
THEOREM RetryAfterIsTrue == Spec => []RetryAfterIsExact
<1>1. Init => RetryInv
  <2> SUFFICES ASSUME Init PROVE RetryInv
    OBVIOUS
  <2>1. LimitIInv
    BY LimitInit, IdleIsNamed DEF LimitIInv, Init, Named, JobIsNamed, Idle, At
  <2>2. /\ lockout \in [Buckets -> [from : Nat, until : Nat]]
        /\ \A b \in Buckets : lockout[b] = NoLockout
    BY DEF Init, NoLockout
  <2> QED
    BY <2>1, <2>2 DEF RetryInv, LockoutOK
<1>2. RetryInv => RetryAfterIsExact
  <2> SUFFICES ASSUME RetryInv, NEW b \in Buckets, lockout[b] # NoLockout
               PROVE  /\ \A t \in lockout[b].from .. lockout[b].until - 1 :
                           t >= now => Over(b, WindowStart(b.scope, t))
                      /\ WindowStart(b.scope, lockout[b].until) =
                           lockout[b].until
    BY DEF RetryAfterIsExact
  <2>1. PICK start \in Times : LockedTo(b, lockout[b], start) /\ Full(b, start)
    BY DEF RetryInv, LockoutOK
  <2>2. /\ now \in Nat /\ start \in Nat /\ Window(b.scope) \in Nat
        /\ lockout[b].from \in Nat /\ lockout[b].until \in Nat
    BY CountsAreNat DEF RetryInv
  <2>3. ASSUME NEW t \in lockout[b].from .. lockout[b].until - 1, t >= now
        PROVE  Over(b, WindowStart(b.scope, t))
    <3>1. now < start + Window(b.scope) /\ t \in start .. lockout[b].until - 1
      BY <2>1, <2>2, <2>3 DEF LockedTo
    <3> QED
      BY <2>1, <3>1 DEF Full, LockedTo
  <2> QED
    BY <2>1, <2>3 DEF LockedTo
<1> QED
  BY <1>1, <1>2, RetryInductive, PTL DEF Spec

-----------------------------------------------------------------------------
(***************************************************************************)
(* Every answer 429 has its row: those sent, and those on their way.       *)
(***************************************************************************)
Answering == {w \in Workers : At(w, "answer")}

AuditInv ==
  /\ worker \in [Workers -> Job]
  /\ refused \in Nat /\ audited \in Nat
  /\ IsFiniteSet(Answering)
  /\ refused + Cardinality(Answering) <= audited

\* A worker that takes up another job is answering then, or is not.
LEMMA WhoAnswers ==
  ASSUME AuditInv, NEW w \in Workers, NEW job, job \in Job, Become(w, job)
  PROVE  /\ worker' \in [Workers -> Job]
         /\ Answering' = IF job.pc = "answer" THEN Answering \cup {w}
                         ELSE Answering \ {w}
BY DEF AuditInv, Become, Answering, At

LEMMA NotAnswering ==
  ASSUME AuditInv, NEW w \in Workers, NEW job, job \in Job, Become(w, job),
         job.pc # "answer", UNCHANGED <<refused, audited>>
  PROVE  AuditInv'
<1>1. Answering' = Answering \ {w} /\ worker' \in [Workers -> Job]
  BY WhoAnswers
<1>2. /\ IsFiniteSet(Answering \ {w})
      /\ Cardinality(Answering \ {w}) \in Nat
      /\ Cardinality(Answering \ {w}) <= Cardinality(Answering)
      /\ Cardinality(Answering) \in Nat
  BY FS_RemoveElement, FS_CardinalityType, FS_Subset DEF AuditInv
<1> QED
  BY <1>1, <1>2 DEF AuditInv

LEMMA CheckIsNoAnswer ==
  ASSUME AuditInv, NEW w \in Workers, NEW b, NEW next, next \in Job,
         next.pc # "answer", Check(w, b, next)
  PROVE  AuditInv'
<1>1. /\ [Idle EXCEPT !.pc = "append_audit"] \in Job
      /\ [Idle EXCEPT !.pc = "append_audit"].pc = "append_audit"
  BY DEF Idle, Job
<1>2. PICK moment \in Moments : Admit(w, b, moment, next) \/ Refuse(w, b, moment)
  BY DEF Check
<1>3. CASE Admit(w, b, moment, next)
  BY <1>3, NotAnswering DEF Admit
<1>4. CASE Refuse(w, b, moment)
  BY <1>1, <1>4, NotAnswering DEF Refuse
<1> QED
  BY <1>2, <1>3, <1>4

LEMMA AuditInductive == AuditInv /\ [Next]_vars => AuditInv'
<1> SUFFICES ASSUME AuditInv, [Next]_vars PROVE AuditInv'
  OBVIOUS
<1>1. /\ Idle \in Job /\ Idle.pc = "idle"
      /\ [Idle EXCEPT !.pc = "answer"] \in Job
      /\ [Idle EXCEPT !.pc = "answer"].pc = "answer"
  BY DEF Idle, Job
<1>2. ASSUME NEW w \in Workers, NEW code \in Codes, NEW merchant \in Merchants,
             PayByHint(w, code, merchant)
      PROVE  AuditInv'
  <2> DEFINE next == [pc |-> "by_terminal", merchant |-> merchant]
  <2>1. next \in Job /\ next.pc # "answer"
    BY DEF Job
  <2>2. Check(w, Bucket("pay_by_hint", code), next)
    BY <1>2 DEF PayByHint
  <2> HIDE DEF next
  <2> QED
    BY <2>1, <2>2, CheckIsNoAnswer
<1>3. ASSUME NEW w \in Workers,
             (\E code \in Codes : Enroll(w, code)) \/ PayByTerminal(w)
             \/ CaptureCheck(w)
      PROVE  AuditInv'
  BY <1>1, <1>3, CheckIsNoAnswer DEF Enroll, PayByTerminal, CaptureCheck
<1>4. ASSUME NEW w \in Workers, StorageFault(w) PROVE AuditInv'
  BY <1>1, <1>4, NotAnswering DEF StorageFault
<1>5. ASSUME NEW w \in Workers, AppendAudit(w) PROVE AuditInv'
  <2>1. Answering' = Answering \cup {w} /\ worker' \in [Workers -> Job]
    BY <1>1, <1>5, WhoAnswers DEF AppendAudit
  <2>2. w \notin Answering
    BY <1>5 DEF AppendAudit, Answering, At
  <2>3. /\ IsFiniteSet(Answering \cup {w}) /\ Cardinality(Answering) \in Nat
        /\ Cardinality(Answering \cup {w}) = Cardinality(Answering) + 1
    BY <2>2, FS_AddElement, FS_CardinalityType DEF AuditInv
  <2> QED
    BY <1>5, <2>1, <2>3 DEF AppendAudit, AuditInv
<1>6. ASSUME NEW w \in Workers, Answer429(w) PROVE AuditInv'
  <2>1. Answering' = Answering \ {w} /\ worker' \in [Workers -> Job]
    BY <1>1, <1>6, WhoAnswers DEF Answer429
  <2>2. w \in Answering
    BY <1>6 DEF Answer429, Answering
  <2>3. /\ IsFiniteSet(Answering \ {w}) /\ Cardinality(Answering) \in Nat
        /\ Cardinality(Answering \ {w}) = Cardinality(Answering) - 1
    BY <2>2, FS_RemoveElement, FS_CardinalityType DEF AuditInv
  <2> QED
    BY <1>6, <2>1, <2>3 DEF Answer429, AuditInv
<1>7. ASSUME UNCHANGED <<worker, refused, audited>> PROVE AuditInv'
  BY <1>7 DEF AuditInv, Answering, At
<1> QED
  BY <1>2, <1>3, <1>4, <1>5, <1>6, <1>7 DEF Next, PurgeExpired, Tick, vars

(***************************************************************************)
(* However many requests are refused at the same time, and whichever call  *)
(* to the log fails, every answer 429 that was sent has a row of its own   *)
(* in the audit log (the limiter appends before the route answers).        *)
(***************************************************************************)
THEOREM LockoutsHaveRows == Spec => []LockoutsAudited
<1>1. Init => AuditInv
  <2> SUFFICES ASSUME Init PROVE AuditInv
    OBVIOUS
  <2>1. worker \in [Workers -> Job] /\ Answering = {}
    BY DEF Init, Idle, Job, Answering, At
  <2> QED
    BY <2>1, FS_EmptySet DEF Init, AuditInv
<1>2. AuditInv => LockoutsAudited
  BY FS_CardinalityType DEF AuditInv, LockoutsAudited
<1> QED
  BY <1>1, <1>2, AuditInductive, PTL DEF Spec
=============================================================================
