# A verification development for Palmdrino

Palmdrino lets a customer pay with the palm of a hand: a merchant's tablet
(the *terminal*) captures a palm and a short pay code, a Python backend
identifies the customer, decides under PSD2 whether the payment is strongly
authenticated, charges the card through an acquirer (a mock of Nexi's gateway),
and keeps rows, counters and an audit log in SQLite. Customers enrol, replace
their card, pause, and erase their account from an Android app.

This directory holds TLA+ models of that code, TLC configurations that check
them on small instances, and proofs that TLAPS checks for every instance.
Paths below are relative to the repository: `backend/palmpay` is `bp`.

## 1. The system

| Component | Source | State | Operations | Model |
|---|---|---|---|---|
| Payment service | `bp/services/payment.py` | none of its own | identify, pay, refund, void | `Identify` (identify), `Payments` |
| SCA rules | `bp/payments/sca.py` | none | assess | `Sca` |
| Acquirer | `bp/payments/nexi_mock.py`, `gateway.py` | accounts, transactions, idempotency cache (all in memory) | tokenize, authorize, capture, refund, void; the check of a card number | `Gateway`, `EnrollmentGate` |
| Enrollment service | `bp/services/enrollment.py` | none of its own | enroll, add_palm, delete_customer; reference of the samples | `Accounts`, `EnrollmentGate` |
| Account service | `bp/services/account.py` | none of its own | withdraw_consent, restore_consent, replace_card | `Accounts`, `Payments` |
| Credentials | `bp/services/credentials.py` | credentials table | issue, verify, revoke_all | `Accounts` |
| Key management | `bp/crypto/kms.py` | key file; a copy of it per process | wrap, unwrap, rotate_kek, destroy_kek | `Accounts`, `KeyFiles` |
| Key maintenance | `bp/services/maintenance.py` | none of its own | rewrap_all, retired_keks | `Accounts`, `KeyFiles` |
| Repository | `bp/store/repository.py`, `models.py` | the SQLite tables | one commit per call | the variables of `Payments`, `Accounts`, `Identify`, `RateLimit` |
| Rate limiter | `bp/services/ratelimit.py`, `bp/api/main.py` 176-206 | rate_limits table | check, purge_expired | `RateLimit` |
| Merchant terminal | `PayScreen.kt`, `MainActivity.kt`, `PalmdrinoClient.kt` | form, busy, error, result, idempotency key | charge, again, settings | `Terminal` |
| Customer app | `CustomerViewModel.kt`, `AccountScreen.kt`, `SetupScreen.kt`, `SecureStore.kt` | set-up, account screen, credential | set up, read, pause, restore, replace card, erase | `CustomerApp` |
| Field encryption | `bp/crypto/envelope.py` | none | seal, open | represented by the key used |
| Capture, liveness, features, matcher | `bp/palmprint/` | none | numerical | not modelled |
| Configuration, wiring | `bp/config.py`, `bp/services/container.py` | the shard pepper's file | start of a process | `KeyFiles` |
| Screens, camera, theme | Kotlin UI | none | none | not modelled |

**How they interact.** The API's handlers are `async def` functions that await
only the upload and then call the services synchronously: within one process a
handler runs to its end before the next one starts. The README of the
repository starts one uvicorn process. The code also prepares for several
(`docs/DECISIONS.md` D9: controls are durable "or do not exist behind a second
server"; `ratelimit.py` "the next server behind the load balancer"; a lock and
`check_same_thread=False` in the repository). Every repository call commits on
its own and every acquirer call has its own lock, so a handler is a sequence of
atomic calls. That is the grain of the models: **one action per call**, a
variable `worker` that says which call each handler makes next, *one worker* for
the program as shipped, *several workers* for several processes over one
database. A call that raises ends the handler and leaves the earlier calls
committed.

**What makes it correct**, and what is hard about it:

* *Payment service.* One charge per key whatever is retried; rows that are
  charges; books that never run ahead of the money; credits within the charge;
  the low-value allowance kept. Hard: failures between the acquirer and the
  row, two processes on one payment or one counter, retries answered from a
  cache.
* *Acquirer.* Conservation of money; refunds within the charge; capture closes
  the door to void.
* *Terminal.* One charge per sale and a truthful screen over a network that
  loses requests and answers; every sale ends.
* *Accounts.* Erasure is complete, final and evidenced; a palm is active only
  under consent; a live profile can be read; no KEK in use is destroyed. Hard:
  failures between status, consent and credential; a rewrap beside an erasure.
* *Identification.* Whoever is charged was active and is the nearest; "no match"
  is true. Hard: the tables change between the count, the fetch and each
  candidate; servers of two builds and two sets of keys.
* *Rate limiter.* No window exceeds its limit, Retry-After is exact, refusals
  are audited. Hard: window lengths that differ in one table, clocks that
  differ, a purge at any moment.
* *Customer app.* One person, one account; consent first; a truthful status; no
  credential lost. Hard: answers lost or late, the app killed, readings that
  overtake operations.
* *Key file and pepper.* A process started at any moment can read every profile
  and finds every shard. Hard: processes killed in the middle of a write, each
  with its own copy of a file.

`PROJECT.json` lists the hazards at their lines, with the properties that would
notice each going wrong in a run. Where the code does go wrong, or a run excludes
the case, the list of properties is empty and a note says what is known.

## 2. The modules

```
Sca        Gateway ---- EnrollmentGate -- MCGateway, AcquirerProofs
   \        /                   CardLedger
    Payments ...................:  refinement (CL)
    /  |   \
   /   |    MCPayments
  /    |
 /     PaymentsProofs
 |          |
 |      TerminalProofs
 |     /
Terminal -- MCTerminal

Accounts -- MCAccounts          Identify -- MCIdentify, IdentifyProofs
   |  \---- AccountsProofs      RateLimit -- MCRateLimit, RateLimitProofs
   |             |              KeyFiles -- MCKeyFiles, KeyFilesProofs
   |      CustomerAppProofs
   |     /
CustomerApp -- MCCustomerApp
```

* `Sca` is pure: `Assess` from factors, counter and amount. The palm counts as
  inherence, the pay code as knowledge only for a secret hint.
* `Gateway` is the acquirer. `statement` is a history variable: what the
  cardholder was charged and credited per transaction. Answers are what
  `authorize` caches: approved, transaction, amount. `FailingTokens` stands for
  the scripted declines, blocked and expired cards.
* `Payments` composes both with the rows. A `Job` records what a handler read
  and keeps: customer, token, verdict, answer. `exempt` is a history variable:
  the exempt *charges* since the customer's last strong one, to compare with
  the counter the code keeps. Failures: `StorageFault` (a repository call
  raises), `PayGatewayError` (`authorize` raises `PaymentError`, which the
  protocol allows and the mock never does), `Restart` (process and in-memory
  acquirer).
* `CardLedger` is the abstract specification: money on cards, one entry per
  charge, and books that follow. `Payments!ImplementsCardLedger` gives the
  refinement mapping.
* `EnrollmentGate` is what an enrollment passes before its card is tokenised: the
  Luhn check of the number and the consistency of the samples. Both are computed
  as the code computes them and compared with independent statements: the
  standard's check from the right, and "one frame that lies apart is never the
  stored reference".
* `Terminal` composes `Payments` with tills. `wire` holds requests on their way,
  `serving` the request each worker answers; a call that its till gave up
  stays on the wire as not `live`. `Trouble` selects what may disturb a sale:
  editing the form, opening the settings, answers later than the till waits.
  `touched` is history: which sales were edited or left for the settings. New
  keys, transactions and the worker that takes a call are interchangeable and
  chosen with `CHOOSE`, which keeps the liveness run small without symmetry.
* `Identify` is the first half of `pay`. The matcher is an input, a distance
  between hands; a request remembers what it read and, as history, who was
  active since it began.
* `RateLimit` is the limiter with the routes that ask it. Each server reads its
  own clock, at most `MaxSkew` ahead of the slowest.
* `CustomerApp` composes `Accounts` with the phone: the set-up, the account
  screen, and the credential in the encrypted store and, a little later, on the
  disk. `agreed`, `lost` and `outdated` are history.
* `KeyFiles` looks closer at what `Accounts` takes for one step: the key file is
  written to a temporary file and renamed, the pepper's file is opened and then
  written, and a process may be killed in between. `Faults` names what the
  operator does *not* rule out: processes that start or write at once
  (`overlap`), one that goes on after a failed write (`goesOn`), a KEK destroyed
  while another process still wraps under it (`stale`).
* `Accounts` is the life of a profile with its palms, consent, credential and
  keys. Each process has its own `keyring`, a copy of `keystore`.
* `MC*` modules hold symmetry and the functions a `.cfg` cannot write.

Abstractions that a reader should know:

* A request without an idempotency key gets a new UUID: it is a request with a
  key nobody used. A palm that identifies nobody, or an amount that is refused
  before the acquirer is asked, changes nothing `Payments` and `Terminal` keep.
* Identifiers (transactions, keys, customers, KEKs) come from finite pools;
  when a pool is empty no new one is handed out.
* `audit` in `Payments` is the set of charges, refunds and voids that have a
  row; rows of declines, errors and other events are left out. `erasures` in
  `Accounts` likewise.
* Consent is `given` while some row is not withdrawn. PII is written and shred
  with the card and has no state of its own.
* The account operations authenticate and read the profile in one step. A
  credential is only ever revoked after its profile was shredded, and a
  shredded profile is refused by the read, so a revocation between the two
  reads changes nothing.
* A DEK is represented by the KEK it is wrapped under. Nothing is lost: the
  code never gives a customer a second DEK.
* Noise is left out of `Identify`: a hand has one distance to another. Which
  profiles `LIMIT` keeps is left open.
* The phone's form fields are left out: details are valid when they are sent.
  Two given-up calls that are alike count as one.
* The clock of `RateLimit` counts in units of the windows, not in seconds, and
  `window_start` is a number (the code compares decimal strings, which all have
  ten digits until 2286).
* A visit to the settings is the one way in which a till of `Terminal` loses what
  its screen remembers. Android drops it just as well when the activity is
  recreated or killed, since the key is kept with `remember` (`PayScreen.kt:57`);
  a till that loses its key so is outside the models, and outside what
  `OneChargePerSaleKept` and the liveness property promise.
* A failed repository call has no effect in `Payments` and `Accounts`
  (`StorageFault`). The code does not roll back: when one statement of several
  fails, as the deletion of the templates after the update in `crypto_shred`
  (`repository.py:300`), the next call that commits makes the first ones
  durable. Such halves of a call are left out; a failed shred leaves the account
  as it was.
* In `Accounts` the key file is always written (`SaveKeys`): a write that fails or
  is cut off belongs to `KeyFiles`, behind its `Faults` and kills.
* "Terminal settings" from the result screen does to the till what "again"
  does, and is not a separate action.
* The definitions whose comment begins "A slip" are not part of any
  specification: each is a wrong version of the definition it precedes, used
  to confirm that a property notices it.

## 3. The runs

Passing runs (bounds in each `.cfg`; safety runs use symmetry where the
identifiers are interchangeable, the run with a liveness property does not):

| Run | Question | Bounds |
|---|---|---|
| `gateway` | Is the acquirer right on its own, in any order of calls? Do bad card numbers and bad frames stop before it? | 2 cards (one always declines), 2 keys, 2 transactions, amounts 1-2, balance 3; numbers of 11, 12, 13 and 16 digits with two free adjacent digits; 2-4 samples, all distances 0-3; inputs are tried on an acquirer without accounts |
| `payments_serial` | One handler at a time: no over-credit, exemption kept, one charge per key, refines `CardLedger` | 3 keys and transactions, 3 cards, 2 customers (one with a public hint), limits 2/3/2 so that every limit is met; `authorize` may raise |
| `payments_processes` | Two processes, failing calls, restarts: do the books ever lie, and do row, acquirer and audit agree when nothing failed? | 2 workers, 2 keys and transactions, amounts 1-2 (partial refunds) |
| `terminal` | Lost and late messages, failing storage, edits, the settings: one charge per sale, truthful result, every request ends in a result | 1 till, 2 workers, 3 keys, 2 transactions, 2 sales, one edit or visit of the settings (`MaxTouched`), fairness |
| `accounts_failures` | Failing calls, restarts, rotations: nothing left, consent covers, keys kept | 1 worker, 2 customers, 2 labels, 3 KEKs |
| `accounts_processes` | Two processes: whole profiles, final erasure, evidence | 2 workers, 2 customers, 2 KEKs |
| `limits` | Do the limits hold, is Retry-After exact, is every refusal audited? | 2 requests at a time, windows of 1, 2 and 3, limits 1 and 2, skew 1, 4 checks (`MaxCalls`), 10 moments (`Horizon`) |
| `identify` | Is the right customer charged, is "no match" true? | 1 request, 3 customers, one with two hands, 2 candidates at most, 3 servers: old build; new build; new build and new KEK |
| `customer_app` | One account, consent, a true status, no credential lost | 1 phone, 2 set-ups, 2 samples, 1 scan at a time (`MaxTaps`), 1 late call (`MaxLate`), timeouts, lost answers, kills |
| `keyfiles` | Can a process started now read everything? | 3 processes (one for maintenance), 2 customers, 4 KEKs, 2 peppers, kills at every step |

Why the bounds are enough: the properties relate at most two transactions, two
keys, two handlers and one customer to each other; three transactions allow two
exempt payments, which reach the limit, and a third that is refused the exemption.
A customer's payments are all of one kind, because the kind of pay code is fixed
when the customer enrols (`SecretHint`): with a secret one every payment is
strong and the counter stays at zero, with a public one none is and the counter
only grows. The limits are so small that one more payment always crosses one. In
`identify`
one request suffices, because what others do to the tables are actions of their
own; three customers overflow a shard of two while it is read. Four checks fill
a window, overflow it, and count in the next one, and ten moments let the longest
window pass a purge. Two set-ups are what it takes to have a second account. Four
KEKs allow a rotation after one that a crash undid.

Runs that end in a counterexample, each a place where the code does something
else than its own words (`findings` in `PROJECT.json`):

| Run | What happens |
|---|---|
| `void_after_unrecorded_refund` | refund at the acquirer, `record_refund` fails, void passes its check: credited twice |
| `terminal_settings` | opening the settings during a charge forgets the key; the retry charges again |

More of what the models show, without a run of its own. Each of these is
obtained from the named `.cfg` with the change given:

* *Two tills, one allowance* (`payments_processes.cfg` with `SecretHint = {}`,
  `Faults = {}`, invariant `LowValueWithinLimits`): `would_qualify` reads the
  counter and `record_exempt` adds to it after the charge, so two processes
  both find room and together exceed "EUR 150.00 since last SCA" (`sca.py:75`).
* *Erasure interrupted* (`accounts_failures.cfg`, `ErasureEndsAccess`): when
  withdrawal or revocation fails after the shred (`enrollment.py:440-443`),
  every further erasure finds the profile shredded and does nothing; consent
  and credential stay in force.
* *Rewrap beside an erasure* (`accounts_processes.cfg`, `ErasedKeyIsGone`):
  `update_wrapped_dek` (`repository.py:384`) does not look at the status, so a
  rewrap that read its snapshot before an erasure puts a wrapped DEK into the
  tombstone. The sealed columns of a tombstone are empty, so nothing is left to
  open with it.
* *A nearer palm that cannot be read* (`identify.cfg`,
  `NobodyEnrolledIsNearer`): a server skips palms of another build
  (`payment.py:190`) and profiles whose KEK it has not read; if another palm is
  within the threshold and the margin finds no rival among those it can read,
  it charges that customer.
* *A shard that overflows between two calls*: a fetch that leaves profiles out
  goes unnoticed (`payment.py:171-181`). `ChargedIsNearest` and `NoMatchIsTrue`
  exclude it by `truncated`.
* *Refund and void at once* (`void_after_unrecorded_refund.cfg` with
  `Faults = {}` and `Workers = {w1, w2}`): both pass their checks before the refund
  is in the row, the acquirer refunds and then voids, and the cardholder is
  credited twice. Row and
  acquirer agree afterwards (`RecordsAgree`), which is why `NoOverCredit` is
  claimed for one handler at a time.
* *Retries are counted again*: a retry answered from the idempotency cache is
  approved without a charge, and `record_exempt` counts it (`payment.py:459`):
  the allowance is never *under*counted (`AllowanceNeverUndercounted`), but not
  exact.
* *Edits between two tries*: after an error the till keeps the key while amount
  and pay code can be edited (`PayScreen.kt:124`). The answer shown is then the
  earlier attempt's. `ResultMatchesAttempt` is claimed for sales that nobody
  edited; `ResultTellsTruth` holds for all.
* *Lost answers on the phone*: the lost answer of an erasure leaves a revoked
  credential and the account screen; the lost answer of an enrollment leaves an
  account nobody holds, and the next set-up a second one with the same palm, so
  that every till finds the match ambiguous. `NoStrayAccounts` says that there is
  no other way to it, except two scans at once (`MaxTaps = 2`; the second answer
  clears `busy` while the enrollment is being sent,
  `CustomerViewModel.kt:135`) and an app killed before `apply()` has reached the
  disk (`Trouble` with `"unflushed"`).
* *Readings that overtake* (`customer_app.cfg` with `"overtaking"` in `Trouble`,
  `StatusIsTrue`): leaving and reopening the account screen during an operation
  may show an older status last. A re-read that failed, its error dismissed,
  also leaves the old status on the screen.
* *After erasing, in the same process*, the set-up is still at its last step and
  without scans; the server refuses the enrollment until the app is restarted.
  Likewise the app offers no way back to the scans after `inconsistent_samples`.
* *Key file* (`keyfiles.cfg` with one of the `Faults`, `KeysSurvive`): two
  processes that write at once, one that goes on after a failed write, or a KEK
  destroyed under a process that still uses its copy each lose a key. A rewrap
  in a process of its own makes profiles unreadable for running servers until
  they restart, which loses nothing.
* *Pepper* (`keyfiles.cfg` with `Faults = {"overlap"}`, `PepperIsShared`): two
  first starts that overlap each write a pepper and keep their own. A process
  killed between opening and writing the file leaves an empty pepper, which all
  processes then use, consistently.

`CHECK_DEADLOCK FALSE` stands in the configurations where the system really
stops: a till after `MaxSales`, the accounts, the phone and the keys when
identifiers are used up, the rate limiter after `MaxCalls` and at the `Horizon`.

**Fairness** (`FairTerminalSpec`). Weak fairness of the server's steps: the
event loop runs the handler it took. Weak fairness of the button and the
timeout: OkHttp's timers fire, and the cashier tries again while no result is
shown. Strong fairness of taking a request the till waits for and of its answer
arriving: the network may lose messages, not all of them for ever. `SaleEnds`
claims no more than that allows: late answers and failing calls may happen any
number of times, and *once they stop* every request ends in a result. A service
that always answers after 60 seconds, or a storage that always fails, never ends
a sale. What the property rules out is a till or a service left in a state that
no later calm repairs.

`mishap` in `Payments` is a history variable: a repository call failed or a
process was restarted at some time. Agreement of row, acquirer and audit log
(`RecordsAgree`, `AuditComplete`) is claimed for histories without one; what
holds across failures are the one-sided properties (`RowsAreCharges`,
`RefundsNeverAhead`, `AuditBacked`).

## 4. What is proved

Every theorem holds for all values of the constants that satisfy the named
`ASSUME`s of the modules, which TLC evaluates in every run; what a theorem
assumes beyond that stands in its statement and is given here. TLC refutes each
theorem's property without the assumption, unless said otherwise.

Two constants carry an assumption about data: an `Attempt` is a card number that
is a sequence of digits, and samples whose distances are natural numbers, the same
from both sides and 0 from a sample to itself. `luhn_valid` makes the first true
before it checks the number (`ch.isdigit()`), and the second is how
`_select_reference` fills its matrix; floating-point distances are counted in
steps.

### Payments (`PaymentsProofs`)

For any number of workers, customers, cards, transactions and keys, and any
failures:

* `Typing`: `Spec => []TypeOK`;
* `RowsRecordCharges`: `Spec => []RowsAreCharges`;
* `RefundsNeverLead`: `Spec => []RefundsNeverAhead`;
* `RowsStay`: `Spec => RowsNeverRewritten`;
* `AuditEarned`: `Spec => []AuditBacked`;
* `RecordsStayTogether`: `Spec => []RecordsAgree`, and
* `AuditKeepsUp`: `Spec => []AuditComplete`, both claimed for histories without
  a mishap, as the properties themselves say;
* `KeysChargeOnce`: `Spec => []OneChargePerKey`, and
* `CardsStayRegistered`: `Spec => []CardsRegistered`, both when the acquirer
  keeps its memory (`"restart" \notin Faults`): the mock forgets its cache and
  its accounts with the process, so the claim is not made across restarts. The
  run that checks `CardsRegistered` (`payments_serial`) has one handler at a time
  and a storage that does not fail. That it also holds when a replacement fails
  half-way, or two of them overlap, is what the theorem adds;
* `AllowanceIsCounted`: `Spec => []AllowanceNeverUndercounted`, when handlers run
  to their end (`HandlersFinish`: neither storage nor process fails).

The invariant `Inv` is inductive where the properties are not. A row equals the
charge only if the answer a handler carries from the acquirer is one: so `Inv`
says that an approved answer in the cache, and in every handler that is about
to record it, names a transaction on the statement with that amount. A key is
charged once only if a statement under a key comes with an answer cached under
it. A stored card is registered only if the token a replacement is about to
store is.

Several handlers may be between the acquirer and the row of one payment, so the
exact invariant is about a *sum* over handlers: what the acquirer refunded is
what the row says plus what these handlers have yet to record. The set changes
with every step of a handler. Rather than follow such a sum, the proofs state the
same by *packing*: the amounts that are pending are laid side by side as disjoint
intervals of numbers, one per handler (`Sized`, `Disjoint`). If they fit between
the figures of the two books, their sum is at most the gap (`AtMost`); if they
stay below the higher figure and cover what lies between (`Covers`), it is at
least the gap (`AtLeast`). When a handler
leaves, its interval is cut out and those above move down. The existence of such
a packing is inductive, and without pending handlers it says that the gap is
closed.

With one handler at a time (`OneAtATime`), as the program is shipped:

* `NeverOverCredited`: `Spec => []NoOverCredit`, when storage does not fail
  (`Serial`). The strengthening says what the handler in progress knows: between
  the acquirer's refund and its record the row lags by exactly the handler's
  amount, and otherwise `credited = refunded`, or the whole charge once voided.
* `LowValueStaysWithinLimits`: `Spec => []LowValueWithinLimits`, when handlers
  finish. The verdict a handler carries is the one the counters still give.
* `LedgerIsImplemented`: `Spec => ImplementsCardLedger`, when handlers finish:
  the payment service over its acquirer refines `CardLedger`. The initial state
  maps to the initial state, `PayAuthorize` to a charge, the acquirer's refund and
  void to a credit, the recording calls to bookings, and every other call to a
  stutter (`MapCharge`, `MapGiveBack`,
  `MapBookCharge`, `MapBookReturn`, `MapStutter`). `RefineInv` adds what the
  mapping needs, for instance that a card without an account has not been spent
  from.

### The acquirer and the gate (`AcquirerProofs`)

The acquirer alone (`GatewaySpec`), whatever a client calls in whatever order,
and with the enrollments in front of it (`GateSpec`):

* `AcquirerKeepsMoney`: `GatewaySpec => []MoneyConserved`, and
* `MoneyIsKept`: `GateSpec => []MoneyConserved`;
* `CapturesBoundCredits`: `GatewaySpec => CapturedNeverOverCredited`;
* `TyposAreCaught`: `GateSpec => []LuhnCatchesTypos`;
* `BadFramesAreNeverStored`: `GateSpec => []NoBadFrameIsStored`.

Three of these are about sums over sets of any size: what was charged to a card,
the terms of a check digit, the distances from a sample. `SumFunctionOnSet` is
defined by recursion on sets, so what it computes needs induction, and the
library's induction theorems take a predicate, which the provers cannot
instantiate. `SetInduction` takes a *set* of numbers instead: one that holds 0
and the successor of each number it holds contains all of `Nat`. It follows from
the pigeonhole principle of the library: were `n` missing, the missing numbers up
to `n` would be a finite set that counting down maps one to one into itself
without `n`. From it follow induction on finite sets (`SubsetInduction`), that the
recursion has a solution (`SumsExist`), that a sum depends on its terms only
(`SumOfSame`), that *any* element can be taken out of it (`SumWithout`, the law
that `CHOOSE` hides), and that larger terms have a larger sum (`SumGrows`).

* *Money.* The transactions of a card are those with its token. The strengthening
  (`MoneyInv`) says that a transaction without an entry on the statement belongs
  to no card, and that the others belong to cards with an account. So opening an
  account finds nothing spent, an approval takes in a term that was not in the
  sum, and a refund or a void changes one term (`SpentOn`); every other card's sum
  stays (`SpentStays`). The entry is only made when the account exists, which is
  why `Credit` may skip a card without one and the money still adds up.
* *Captured charges.* They stay approved, and for an approved one what was
  credited is at most `refunded`, which is at most the charge (`RefundsFit`).
* *Card numbers*, of any length. Position by position the same digits are doubled
  from the left by the parity of the length and from the right
  (`TermFromRight`), and counting from the right adds up the same sum
  (`SumFromRight`). A term is at most 9 and doubling keeps digits apart
  (`DoublingDigits`), so one wrong digit, or two swapped neighbours, change the
  checksum by something between 1 and 9 up or down. The exception of 0 and 9 in
  `Transposed` is exactly the pair for which the change is none.
* *Frames*, any number and any distances. A sample of least total exists, so
  `argmin` means something (`ReferenceIsMedoid`). Against the outlier, a good
  sample has the smaller total: they are as far from each other as each other, and
  every further sample is nearer to the good one (`OutlierLiesFarther`). With two
  samples there is no further one, which is why the property asks for three.

### The tills (`TerminalProofs`)

For any number of tills, sales, workers and keys, any `Trouble`, and failing
storage:

* `SalesChargeOnce`: `TerminalSpec => []OneChargePerSaleKept`;
* `ResultsAreTrue`: `TerminalSpec => []ResultTellsTruth`;
* `ResultsMatchTheForm`: `TerminalSpec => []ResultMatchesAttempt`;
* `TillsUseTheService`: `TerminalSpec => Spec`. Whatever network and tills do, the
  payment service takes only steps of its own specification, so each theorem of
  `PaymentsProofs` about `Spec` holds of the composition.

`TillInv` relates the screens, the calls under way and the acquirer's memory
through keys and sales: a key belongs to one sale, and a sale keeps its key
unless the settings are opened (`KeyInv`); the acquirer has one answer for a key,
and an approved one is a charge on the statement under it (`CacheInv`); a till
waits for one call, made with what is on its screen (`LiveInv`); a sale that
nobody edited is asked for in one way (`FormInv`); an approval stays on the books
and a declined key stays declined (`ResultInv`). Each property follows from
these: two charges of one sale would be two answers for one key.

### Accounts (`AccountsProofs`)

For any number of processes and whatever fails:

* `WellTyped`: `Spec => []TypeOK`;
* `LiveProfilesStayWhole`: `Spec => []LiveProfilesAreWhole`;
* `ErasureIsEvidenced`: `Spec => []ErasureLogged`;
* `ErasureIsFinal`: `Spec => NeverResurrected`.

The inductive invariant there says that nobody else works for a customer whose
enrollment has not issued the credential yet, that every handler but the one
about to create the profile works for a customer who has one, what an erasure
has done by each of its steps, and that the KEK a process is about to destroy is
not the one it wraps under.

In one process (`OneProcess`), whichever call fails and whatever restarts:

* `ActiveUnderConsent`: `Spec => []ConsentCovers`;
* `ErasureLeavesNothing`: `Spec => []NothingLeft`;
* `KeysStay`: `Spec => []KeysKept`.

Each has an invariant of its own that says what the one handler may rely on: a
withdrawal between its two calls has suspended the profile, a restoration has
recorded the grant (`ConsentInv`); no handler but the erasing one works for an
erased customer (`ErasedInv`); the process holds what the file holds, and the KEK
it is about to destroy wraps no live profile (`KeysInv`).

### The phone (`CustomerAppProofs`)

For any number of customers, workers, samples and late calls, answers lost and
the app killed at any moment, with one scan at a time (`OneScan`):

* `ConsentComesFirst`: `AppSpec => []ConsentWasGiven`;
* `NobodyIsStray`: `AppSpec => []NoStrayAccounts`, and
* `CredentialsAreKept`: `AppSpec => CredentialKept`, both when the app is not
  killed before `apply()` has reached the disk (`Flushed`);
* `StatusShownIsTrue`: `AppSpec => []StatusIsTrue`, when the account screen is not
  reopened while it is busy (`InOrder`);
* `PhonesUseTheService`: `AppSpec => Spec`, the specification of `Accounts`, so its
  theorems hold of the composition too. It takes `OneScan` from `AppInv`, which
  types the calls; nothing it claims depends on the scans.

The proofs take any number of workers and the run one; each assumption is one of
the behaviours section 3 lists as the way to a wrong account, credential or
status, and TLC finds a counterexample without it.

Every call the phone waits for has left its mark (`CallInv`): while an enrollment
is awaited the set-up is busy at its last step and nothing is stored; while an
operation is awaited the screen is busy with the stored account. So there is one
call of each kind (`SoleInv`), and its answer finds the phone as it was when the
call was sent. For the status, what was read is the account's until a handler
that the phone waits for, or has given up, works on it (`TruthInv`), and that one's
end is a reason to read again or leaves the screen marked `outdated`.

### Identification (`IdentifyProofs`)

For any hands, distances, threshold, margin, limit, servers and requests, however
the tables change between the calls:

* `Typing`: `Spec => []IdentifyTypeOK`;
* `OnlyActiveAreCharged`: `Spec => []ChargedWasActive`;
* `NearestIsCharged`: `Spec => []ChargedIsNearest`;
* `RefusalsAreTrue`: `Spec => []NoMatchIsTrue`.

Whoever is on the way to be charged was active since the request began
(`WasActive`); and every palm the server can compare has been scored, no farther
away than it is now, or its row is still to be read, unless the fetch left
profiles out (`AccountedFor`).

### Limits (`RateLimitProofs`)

For all limits and window lengths, any number of servers, and clocks that differ
by at most the longest window:

* `WindowsHold`: `Spec => []WindowHolds`;
* `TwiceTheLimit`: `Spec => []TwiceTheLimitAtMost`, the bound that
  `ratelimit.py` states for an interval across a window boundary;
* `RetryAfterIsTrue`: `Spec => []RetryAfterIsExact`;
* `LockoutsHaveRows`: `Spec => []LockoutsAudited`.

`WindowHolds` compares a history of what was let through with the limit; it is
inductive only together with `LiveWindowsCounted`: in every window that some
server may still count in, what was let through is in the table. That is where
the purge's cutoff of *two* longest windows is needed. A lockout ends with a
window, and that window stays full as long as anybody may count in it
(`RetryInv`). The answers sent, and the handlers about to send one, are no more
than the audit rows (`AuditInv`). No symmetry of servers or bound on calls enters
the proofs.

### Keys and pepper (`KeyFilesProofs`)

Under `Faults = {}` (one maintenance process that runs alone, and stops when a
write fails), for any number of processes killed at any step:

* `KeysAreNeverLost`: `Spec => []KeysSurvive`;
* `PepperIsNeverSplit`: `Spec => []PepperIsShared`.

Neither is inductive: the file is safe only if the next write is. The invariant
says that starts and writes exclude each other, that the KEK every running
process wraps under is in the file, and that what a process is about to write
covers every profile and every running process.

### What is only model-checked

Every invariant and action property of the passing runs is proved, under the
assumptions given with its theorem. What is left:

* `SaleEnds`: liveness under fairness, and the `ENABLED` inside it, are out of the
  prover's reach.
* The two runs that end in a counterexample have nothing to prove.

## 5. What is not modelled

* Image processing, liveness and matching (`bp/palmprint/`): numerical. Their
  results, that a frame passes and how far two palms lie apart, are inputs.
* Cryptography (`bp/crypto/envelope.py`): represented by which key seals what.
* The routes for health and the audit log, which change nothing; the parsing of
  forms and images; HTTP status codes; settings other than the pepper.
* `capture` is in `Gateway` but the service never calls it, so `Payments` does
  not either. The ranges of the card schemes are left out.
* The warning about a crowded shard in `enroll`: it only writes an audit row.
* Two processes that write the same temporary key file byte by byte at once:
  `KeyFiles` lets one overwrite the other's as a whole.
* An acquirer that fails while a till waits: `authorize` raises in the runs of
  `Payments`, not in `terminal`, where storage and the network fail.
* Layout, wording, the camera library, the demonstration script.

## 6. What could follow

* Liveness of the phone: a set-up that ends once calls stop failing.
* The label of a further palm, which two processes may enroll at once
  (`enrollment.py:360`): the models let it happen, and no property excludes it.
* Capture checks share one bucket (`main.py:273`): how long one phone's set-up
  can keep another's waiting is a question of liveness.
