# MigrationPath backend: formal models

TLA+ models, TLC runs and TLAPS proofs for the backend in `src/` (NestJS, TypeORM on
PostgreSQL, Stripe Checkout, Calendly). The first part is the inventory of the system, the
second what is modelled, checked and proved, the third the plan for what is left.

## 1. The system

A visitor is captured as a *prospect*, pre-screened, reviewed by an agent, books a slot at
Calendly and pays the consultation fee through Stripe ("book-then-pay"). Requests run in a
serverless function (`api/index.ts`, killed after `maxDuration` = 300 s) or a container;
several instances share one PostgreSQL database and nothing else. There is hardly a
transaction or a lock, so two requests interleave at every `await`.

| component | state it keeps | operations | correct when |
|---|---|---|---|
| webhook idempotency (`webhooks/webhook-event.repository.ts`, `processOnce`) | `webhook_events`: status, `claimed_at` | `claim`, `markProcessed`, `markFailed` | one handler per event at a time; 2xx means handled; a crash is retried |
| Stripe handlers (`webhooks.service.ts`, `stripe-webhook.controller.ts`) | none of its own | `handleStripeCheckoutCompleted`, `handleStripeSessionUnpaid` | safe to run twice and to stop anywhere; a charge ends up booked |
| Calendly handlers (same service, `calendly-webhook.controller.ts`) | none of its own | `handleCalendlyInviteeCreated`, `...Canceled`, free-booking confirmation | one booking per slot; a cancellation is not undone |
| payments (`payments/`) | `payments`: status, session id, booking | `createConsultationCheckout`, `markPaidFromSession`, `markSessionUnpaid`, `markPaidWithBooking` | no free consult, no unrecorded charge, one paid row |
| reconciliation sweep (`payment-reconciliation.service.ts`) | `running` flag | `reconcile` | every stale session is decided by what Stripe says |
| prospects (`prospect/`) | `prospects`: stage, flags, reference | `capture`, `create`, `linkSponsor`, `advanceStage`, `review`, `reportBooking` | the stage only moves forward; who may book is on record |
| summary, notifier (`prospect/`) | `prospect_summaries` | `refresh`, alerts | a refresh repairs and loses no block; alerts never fail the caller |
| consultations (`consultation/`) | `consultation_bookings`: status | `deliverStrategy`, `deleteBooking`, lookups | status reflects payment and delivery |
| candidate invites | `candidate_invites` | `create`, `accept` | an invitation is accepted once |
| pre-screen (`pre-screen/`) with the employer-sponsored engine | sponsors, nominations | `submit`, `assess` | unknown is neither pass nor fail; a sponsor that is linked is complete |
| points capture (`points-engine/`) | `points_rules` | `capture`, `calculateTotalPoints`, `buildStanding` | score and standing tell the same story; a result is never lost |
| partner quiz and audit (`partner/`) | submissions, audits | `assess`, `calculatePartnerReadiness` | no answer makes a couple worse off than it should; strong means strong |
| policy configuration (`policy-config/`) | `policy_config` and a cache per process | `ensureLoaded`, `getRequiredNumber`, `num`, `update` | an edit takes effect |
| occupations (`occupations/`) | occupations, list memberships, visa links | `create`, `update`, `remove`, `importLists`, `syncVisas`, `isOnAnyList` | the links follow the lists |
| serverless entry (`api/index.ts`) | the promise of the application, per instance | one bootstrap for all requests that meet a cold instance | one application per server; a failed start is tried again |
| site configuration, migration rules, data freshness | reference rows | CRUD | plain |
| auth, CMS, search, analytics, stats, admin, health, notifications | rows per user or none | CRUD, proxies | plain request and response |

How they interact: the two webhook controllers run their handler inside `processOnce`; the
Stripe handler calls payments, then reads the prospect and the booking, writes the booking,
calls `advanceStage` and refreshes the summary. The sweep asks Stripe about old rows and
hands paid ones to *the same* handler through a callback set at boot
(`setReconciliationConfirmer`), without an event claim. Checkout, Calendly and the agent's
endpoints write the same three tables meanwhile. Every form of the site runs an engine,
creates a prospect and calls `ProspectSummaryService.refresh`; so does every writer of a
booking or a payment. The engines read policy rows through a cache per process, and the
catalogue of occupations.

What is hard: read, await, write by id (checkout, sweep, `advanceStage`); a handler of six
awaits without a transaction; a summary rebuilt by whoever last touched the prospect from
what it happened to read; caches that other instances do not see; Stripe's answer lost after the session exists; events lost,
repeated, late, or in the wrong order; timers on both sides (`LEASE_MS` 5 min,
`SESSION_REUSE_MS` 20 h, Stripe's expiry 24 h, `STALE_SESSION_MS` 26 h). `PROJECT.json`
lists each hazard with its line and the properties that would catch it.

## 2. What is modelled, checked and proved

### Modules

* `ExclusiveHandling` is the abstract promise of the event table: at most one worker
  handles an event, and a finished event is never handed out again.
* `WebhookEvents` is the table, `processOnce` and the HTTP answer. `status[e]` and
  `lease[e]` are the row; `claimed_at` is turned into a timer, `lease[e]`, which runs from
  `Lease + 1` down to 0 and stands for "claimed less than or exactly `LEASE_MS` ago".
  `left[w]` is the time to the platform's kill, `retryIn[e]` the time to the next delivery
  by a provider, `provider[e]` whether it has seen a 2xx. `Claim` and `Skip` are the two
  outcomes of the upsert, `MarkProcessed` and `MarkFailed` the two ends of `processOnce`;
  `ClaimError`, `HandlerThrows`, `MarkProcessedError` and `Crash` are the failures, at most
  `MaxFaults` of them. A query that fails may have been carried out with its answer lost: then
  nobody works under a claim that was taken, or `markFailed` follows over a row that says
  processed. For `ExclusiveHandling` an event is therefore finished when its row says so and no
  worker is still on it (`Done`). Rows older than the migration of the lease start with a NULL claim.
* `ConsultPayment` is the core: checkout, Stripe, the confirmation path and the agent, for
  one prospect. An *attempt* is a checkout call together with the `payments` row it inserts
  and the session it creates; `ByHand` attempts are sessions an agent opened in the
  dashboard, with the prospect in their metadata and no row. `call[k]` is the await a
  checkout stands at, `wpc[w]` the await a confirmation stands at; each action is the code
  from one await to the next. The one real transaction, `markPaidWithBooking`, is one
  action (`CommitPaid`), guarded by the unique index (`IndexAllows`). A worker is a webhook
  delivery (`StartHook`) or one row of a sweep (`StartSweep`); both go through the same
  steps from `FindPaid` on, as in the code. `Fail` is a crash or a failing query at any await;
  one query is allowed to fail, the lookup of the named booking, which the code then takes for
  "no booking" (`ReadSlotFails`). `recorded` is a history variable: the charges
  whose row has ever said paid; it decides nothing and is what the code promises about. Age of a row is fresh (may be reused), aging,
  or stale (swept); Stripe lets an open session lapse in between.
* `ChargeConfirmation` is the story the checkout, the webhooks and the sweep have in common,
  with no awaits, workers or failures: a session is opened for a purpose that stays, it ends
  as a charge or not, the charge is recorded together with its booking while no other is, an
  end is answered only once it is dealt with, and nothing else confirms a booking.
  `ConsultPayment` implements it (`Ledger`): `outcome` is what became of Stripe's session,
  `purpose` the booking its metadata names, `standing` the rows that say paid, `answered` the
  finished events; `recorded` and `booking` are its own. `Withdraw` is in the story because
  the code can undo a recorded payment (the run `consult_paid_is_final`), and whatever a
  checkout, a handler or a sweep only reads or plans is a stutter.
* `CalendlyBooking` is how slots taken at Calendly become bookings: the two invitee
  handlers (named by their event, one at a time, as `ExclusiveHandling` promises), the
  browser's `reportBooking`, an agent and a payment. `created[i]` and `canceled[i]` are the
  await the handler of a slot's event stands at; `row` is the table in order of creation.
  `Find` is the lookup by invitee URI and the adoption of a reported row, `ReadForFree`,
  `ConfirmFree` and `Advance` are the free-booking mode, `Fail` a crash or a failing query. A
  row that was deleted under a handler makes it throw, and the event is delivered again.
  `linked` are the slots whose link carried the prospect id, `astray` those whose link carried
  something else in its place: the lookup of that prospect fails at every delivery.
* `ProspectIntake` is everything between a form and what the agent sees. A request works
  through a *script* (`Script`), the awaits of its handler in order: engine, reference,
  insertion, sponsor, the five queries and the write of `refresh`, and so on for the
  reviews, bookings, cancellations, payments, invitations, edits of the policy and of the
  catalogue that happen beside it. `local[r]` is what the request holds in memory between
  two awaits, `told[r]` its answer. `Fails` lets any step throw and `Throws` says who
  catches it; `Stops` ends an instance with all its requests and its cache.
* `EmployerSponsoredEngine`, `PointsEngine`, `PartnerEligibilityEngine`,
  `PartnerAuditEngine` are the rules, as operators on a form: no state, no recursion.
  `ProspectIntake` calls them in the step where the code does.
* `PolicyValues` is how a number is taken from the rows, `PolicyCache` the cache of each
  instance with the load that is on its way, `OccupationCatalogue` the memberships, the visa
  links and what a transaction that resolves them reads and writes. `ProspectIntake` extends
  the three; its requests perform their operations.
* `ServerlessEntry` is the start of an instance: `bootstrapPromise[i]` is the variable of that
  name, `built[i]` counts the applications put on the instance's one express server. A request
  to an instance in `Cold` begins with the steps `enter` and `await`; on the others they are
  over before anything of interest and left out.
* `MCWebhookEvents`, `MCConsultPayment`, `MCCalendlyBooking`, `MCProspectIntake`: finite
  instances, symmetry sets, and the workloads of the intake.
* `WebhookEvents_proofs`, `ConsultPayment_proofs`, `CalendlyBooking_proofs`,
  `EmployerSponsoredEngine_proofs` (lemmas about the engine, for every form and policy),
  `ProspectIntake_proofs`, and, on top of the last, `ProspectPoints_proofs` (the calculator),
  `ProspectAudit_proofs` (the audit) and `ProspectRepairs_proofs` (summaries and visa links):
  the theorems.

`ConsultPayment` does not repeat the event claims: a delivery starts only when no worker
holds it and it is not finished. `WebhookEvents` is proved to implement exactly that. In the same way `ProspectIntake` takes
bookings and payments as single writes: how they come about is the business of the others.

Operators named as plausible errors (`CommitPaymentOnly`, `NoIndex`, ...) are not part of the
models; each is a bug the code could have, or had, and breaks a property below.

### Runs

| run | result | shows |
|---|---|---|
| `webhook_events` | passes, 24,442 states | one handler per event (`OneHandlerPerEvent`), however soon a delivery is repeated; a 2xx stands for finished work (`AckedIsHandled`) and every event is processed in the end (`EventuallyProcessed`) where the provider waits out the lease; the refinement of `ExclusiveHandling` (`HandsOutExclusively`) |
| `webhook_retry_in_lease` | violation | with a provider that retries within the lease, a failed event is answered 200 and given up (`FailedStaysOwed`) |
| `consult_payment_safety` | passes, 3.2 million states | no confirmed booking without a paid session (`ConfirmedWasPaid`), no paid row without a charge (`PaidWasCharged`), one paid row (`OnePaid`), no paid row beside a pending booking (`PaidSlotNotPending`), every session has a row (`EverySessionHasRow`), every answered charge has been on record (`AnsweredChargeOnRecord`), and a recorded payment is undone only by a checkout or a sweep that writes by id after a round trip to Stripe (`OnlyStaleWritesUndo`) |
| `consult_payment_live` | passes, 135,058 states | checkout, webhook and sweep implement `ChargeConfirmation` (`ConfirmsCharges`); every charge is answered (`ChargeGetsAnswered`) and booked (`ChargeGetsBooked`) unless it came second; the sweep decides every stale row that has a session id (`SweepResolves`) |
| `calendly_booking` | passes, 649,115 states | a handled slot has its row (`HandledIsBooked`), only a payment confirms where payments are on (`OnlyStripeConfirms`), what was cancelled or delivered is not brought back (`SettledStays`), every `invitee.created` is processed in the end but that of a link that names something other than a prospect (`EventuallyAnswered`), a free slot is confirmed in the end (`FreeSlotConfirmed`) |
| `intake` | passes, 219,710 states | instances: `OneApplication`; requests: `BookableIsOnRecord`, `LinkedSponsorIsComplete`, `NoLateAcceptance`, `QuizResultReturned`; configuration: `EditTakesEffect`, `OneVerdict`, `SyncRepairs`; summaries: `RefreshRepairs`, `HomeworkKept`; rules: `UnknownDecidesNothing`, `RefusalIsFinal`, `WaitingNeverHurts`, `ApartForAReason`, `ExperienceNeverCosts`, `StrongMeansStrong` |
| `consult_paid_is_final` | violation | a checkout that found a row open expires it after the webhook has recorded it paid |
| `consult_charge_answered` | violation | of two concurrent checkouts both paid, the second charge's webhook fails on the unique index for ever |
| `consult_stage_forward` | violation | `advanceStage` writes what it decided on an older stage, backward or out of `disqualified` |
| `consult_cancelled_stands` | violation | a payment confirms a booking cancelled meanwhile |
| `calendly_two_rows` | violation | a browser's report without the invitee URI and the invitee webhook each insert a row for the same slot |
| `intake_account` | violation | any later refresh replaces the engine's breakdown in the summary by the two flags |

The seven violations are listed under "findings" in `PROJECT.json`, with the sentence of the
code's comments each one contradicts. `ChargeGetsAnswered`, `ChargeGetsBooked` and
`SweepResolves` carry the exception "the charge came second" (`PaidElsewhere`) because of
`consult_charge_answered`: what they say is that, while its provider does not give up, this is
the *only* way a charge is left unanswered. `ChargeGetsBooked` needs it too: when the handler
of the first charge dies after its commit, its event is lost, and a second session is paid, the
index refuses the second charge for ever and nobody writes the stage.

### Bounds, and why they suffice

* `webhook_events`: two events, two workers, three faults; `Lease` = `HandlerLimit` = 2
  (the deployed settings are equal: 300 s and 5 min). One provider repeats after 1, so that
  its deliveries meet a running handler, the other after 3, past the lease. Three faults are
  a failure, a failure of its retry and one of the other event. The theorems cover every
  other value.
* `consult_payment_safety`: two checkouts, two workers, one booking, one fault, one
  intervention. Every race here is between two parties; one fault is needed to strand a
  row, one intervention to move booking or prospect under a running handler. Workers and
  checkouts are interchangeable, so symmetry is sound (no liveness in this run).
* `consult_payment_live`: one checkout, one session by hand, two bookings (so that the
  session's booking and the latest one differ), one worker, two faults (a handler that dies and
  the event that is then lost, which is what strands a second charge) and no intervention (an intervention can withdraw clearance, after which nothing need happen). No symmetry.
* `calendly_booking`: two slots of one prospect, so that a reported row may be taken for the
  other one, one of which may be given up; one report, one fault, one intervention; four
  settings: payments on and off, an embed with and without the URI, a slot whose link lost the
  prospect id, and one whose link carried something else. `Rows` is large enough for every
  insertion any behaviour makes.
* `intake`: workloads. Those of one request give it every form that differs in at most two
  answers from a typical one (and every combination of evidence for the audit), with the
  boundary values of each rule among them. Those of two to four requests interleave them on
  two instances with one fault: any two writers of one summary, three edits beside a reader
  of the policy, two acceptances beside an invitation, up to four transactions on one
  occupation. A race here is between two parties; a third is there to repair or to find
  what they leave. Two requests and an edit meet an instance that is still cold, whose start may
  fail.
* The violation runs use the smallest instance that shows the fault: one worker, no fault,
  and one intervention where an agent or Calendly takes part.

`CHECK_DEADLOCK FALSE` stands in the `ConsultPayment` runs because the story ends there:
every session paid or lapsed, every event answered. In the `webhook_events`,
`webhook_retry_in_lease` and Calendly runs it stands because all events may be answered for
good, in the intake runs because all requests may be done.

### Fairness

* A step of code that has been reached is taken (`WF` on `Serve`, `Work`, `Proceed`): the
  process runs or dies, and dying is a counted fault.
* Time passes (`Tick`, `Age`); Stripe settles a delayed payment one way or the other and
  expires open sessions (`Lapse`).
* A provider keeps delivering an event it has no 2xx for (`SF`, since a delivery may find
  no free worker): this is Stripe's documented retry schedule, which the code relies on.
  Giving up is `LoseHook`, a counted fault that the liveness properties allow for.
* The sweep comes to every stale row (`SF`): it runs hourly on one instance when
  `PAYMENT_RECONCILIATION_ENABLED` is set. Where it is not set, `SweepResolves` says nothing.
* Calendly: `WF` on the deliveries and on the steps of a handler. A due event stays due, and
  its handler has the event to itself.
* Intake: `WF` on the steps that create a prospect and refresh its summary, as far as
  `QuizResultReturned` needs it: a query answers or fails.
* Nothing is assumed of people: nobody has to pay, review or cancel.

### Theorems

For any number of events, workers, checkouts, bookings, slots, requests, instances, edits,
faults and interventions, whatever the forms say. Every invariant, every action property and
both refinements of the passing runs are proved.

* `WebhookEvents`: `TypeCorrect`; `AckSafety` (`[]AckedIsHandled`, which is about the events
  whose `RetryGap` is longer than the lease); `Exclusion` (`[]OneHandlerPerEvent`) and
  `Refinement` (it implements `ExclusiveHandling`) **assuming `HandlerLimit <= Lease`**. That
  a provider waits out the lease is enforced by nothing (its failure is the run
  `webhook_retry_in_lease`); the assumption holds for the serverless deployment with its
  present constants, and stops holding with the 800 s the comment in `api/index.ts`
  mentions, or in a container without a limit.

  For `AckSafety` the invariant `AckInv` adds that an event owed a 2xx and unprocessed has a
  lease no longer than the wait for its next delivery, so that a delivery never meets a live
  claim. For `Exclusion`, `HoldInv` adds that a busy worker dies before its event's lease
  runs out, so that a claimable event has no worker. `AckedIsHandled` and
  `OneHandlerPerEvent` alone are not inductive: they say nothing about the timers.
* `ConsultPayment`: `TypeCorrect`; `NoFreeBooking` (`ConfirmedWasPaid`); `PaidRowsAreCharges`
  (`PaidWasCharged`); `OnePaidRow` (`OnePaid`); `PaymentAndBookingTogether`
  (`PaidSlotNotPending`); `SessionsHaveRows` (`EverySessionHasRow`); `ChargesAreOnRecord`
  (`AnsweredChargeOnRecord`); `OnlyStaleWrites` (`OnlyStaleWritesUndo`); `Refinement` (it
  implements `ChargeConfirmation`). Besides the finiteness of `Attempts` and the numeric
  bounds they assume nothing.

  The inductive invariant `Inv` is `Types`, `Places` and `Money`. `Money` is the six
  properties; `Places` ties where a call or worker stands to what is already true: a
  confirming worker's session is paid, a worker past the commit has a row that is paid (or
  expired since), a checkout that may create a session has its row, an event is due only
  for a session that has ended (`HookInv`), and every row that says paid is of a charge that
  was recorded (`RecordInv`). The code keeps those facts in local variables across
  awaits, which is why the properties alone are not inductive: `ConfirmedWasPaid` is kept by
  `Confirm` only because the worker got there through a paid session.

  `OnlyStaleWrites` is read off the steps (`UndoneByWhom`). Three writes close a row that was
  read an await before, by its id and whatever it says by then. The webhook's own
  `markSessionUnpaid` (`FindUnpaid`, then `CloseUnpaid`) is one of them and does no harm, but
  only because of Stripe: a session ends once, so that the row of one that ended unpaid is never
  recorded as paid. That leaves `CloseFound` and `WriteOff`. Guarding those two writes is thus enough to make
  `PaidIsFinal`, which a run refutes, true.

  `Refinement` takes each action to a step of the story. `CreateSession`,
  `CreateLost` and `OpenByHand` are `Open`; `Pay`, `Settle`, `Bounce` and `Lapse` are `End`;
  `CommitPaid` and `RecordOrphan` are `Record`, by the unique index; `CloseFound` and
  `WriteOff` are `Withdraw` when the row has been paid meanwhile and nothing otherwise;
  `Confirm` is `Confirm`, by the invariant's clauses about the slot a worker goes for and the
  charge it has recorded; `Mark` of a webhook is `Answer`; what the
  agent and Calendly do to a booking is `Arrange`. All others, the sweep's questions and the
  faults among them, change nothing that the story has (`SilentStep`).

* `CalendlyBooking`: `TypeCorrect`; `OneBookingPerInvitee` (no two bookings carry the same
  invitee URI); `OneRowWhereUriIsShown` (the claim that the run `calendly_two_rows` refutes,
  `OneRowPerSlot`, does hold where the embed's message carries the URI, whatever the faults
  and interleavings: the report without it is the only cause); `StripeAlone` (`OnlyStripeConfirms`); `SettledIsFinal` (`SettledStays`);
  `NoSlotIsLost` (`HandledIsBooked`). Assumed: finitely many slots and reports, and
  deployments that are a choice of the two settings. The invariant `Inv` adds to the
  properties what a handler takes with it across its awaits: the row it is about has been
  inserted, so no insertion takes its place (`Held`); the row is the one of its own slot
  (`OwnRow`, which is where `Unambiguous` is needed: a row without a URI is there only when
  the embed shows none, and then no other slot is in play); a handler past its insertion has
  written what Calendly said (`Written`); only free bookings reach the confirmation
  (`FreeOnly`); a settled row is settled for a handled slot (`SettledIsHandled`).
* `ProspectIntake`: all its theorems rest on the lemma `AlwaysBasic`: what a request has left
  to do is the rest of its script, and a script goes through its steps in the order of
  `Phase`, so that "has not linked yet" is a fact about a set of steps and no induction over
  a sequence is needed. On top of it:

  * `OneStart` (`OneApplication`), by `Boots`: an instance that is starting has one start.
  * `EditsTakeEffect` (`EditTakesEffect`), by `Editions`: a cache, or a query on its way that
    no clearing will void, is at least as new as the last edit published.
  * `BookableOnRecord` (`BookableIsOnRecord`), by `OnRecord`: a request past its insertion
    that did not fail is on record, and nothing deletes a prospect.
  * `LinkedSponsor` (`LinkedSponsorIsComplete`), by `Sponsored`: a request that has the link
    before it has its nomination written or none to write.
  * `TypeCorrect` (`TypeOK`), by `Memory`, `Rows` and `Kept`: what a request holds, the
    tables, and the summaries and invitations built from both.
  * `LateComersAreRefused` (`NoLateAcceptance`), by `Late`: the invitation of whoever was told
    "accepted" is closed (as accepted, or by an expiry that was decided before and written
    after), no invitation is opened again, and a request that started after that ends at
    its look-up.
  * `UnknownIsNoPass` (`UnknownDecidesNothing`) and `RefusalStands` (`RefusalIsFinal`), from
    lemmas about the engine alone: a finding that is decided stays as it is on every
    completion (`FindingStays`; the exception is the band of English, a test that does not
    apply while the score is unknown), and where the closest pathway is not open and has
    nothing undecided, every verified one has failed (`AllHaveFailed`: there are nine tests, and a failed one weighs as much as ten
    undecided ones). The runs try forms that differ in two answers; these are for
    every form, every policy and every catalogue.
  * `WaitingIsSafe` (`WaitingNeverHurts`) and `ProtectedReasonsCount` (`ApartForAReason`),
    for all dates and answers.
  * `WorkNeverCosts` (`ExperienceNeverCosts`), for every profile and every cap: the ranges of
    the rules table leave no gap and never fall.
  * `OneVerdictOfOneEdition` (`OneVerdict`), by `Verdicts`: every row of the policy that is
    held anywhere is one that its edition had, so that two readings of one edition agree; and
    a calculator's flags are what the edition it read makes of its total.
  * `HomeworkIsKept` (`HomeworkKept`): only the save changes a summary, and it merges.
  * `RefreshDoesRepair` (`RefreshRepairs`), by `Statuses` and `AreCurrent`: a refresh nobody
    wrote beside holds, of each table it has read, what the table says now.
  * `StrongIsStrong` (`StrongMeansStrong`), for every form, and every policy with
    `AllEvidenceSuffices`: the threshold is not below 75, and a couple that shows every piece
    of evidence is weak on no pillar. Without such a condition the property is false, since
    the weights are rows an administrator may edit: with rows that never add up to the
    threshold the audit has no advice left to give, and calls that strong. `StrongAsSeeded`
    shows that the seeded rows meet the condition. The argument: a pillar of which nothing is
    lacking scores what the full evidence scores (`CompletePillarIsStrong`), so a weak one
    lacks something and is given advice; commitment is the exception named below.
  * `SyncDoesRepair` (`SyncRepairs`), by `Know`: a request that is alone at the catalogue
    holds the lists, the rows to drop and the links as they are now.

  Assumed: the readers of the policy include the requests, a reference from the clock is none
  of those drawn, forms are such as validation lets through and each is served by an
  instance (`WorkloadsAreValid`), `None` is no status, only answers that may be missing are
  completed, the bound on faults is a number; the policy rows are numbers and include the
  seeded ones (`RowsAreNumbers`, `SeedsAreThere`: the migrations insert them, `update` edits
  rows and deletes none). TLC checks each of them on the instance of its runs.

Only model-checked:

* liveness under fairness (`EventuallyProcessed`, `ChargeGetsAnswered`, `ChargeGetsBooked`,
  `SweepResolves`, `EventuallyAnswered`, `FreeSlotConfirmed`, `QuizResultReturned`), which is
  out of the prover's reach;
* the violations.

### Abstractions

What every model leaves out:

* Amounts, currencies, names, texts and metadata other than ids. Visas are all active.
* Policy values are integers; the column is a double. The seeded values are whole numbers and
  nothing in the models divides by one. Years and English scores of a form are whole too
  (the DTOs admit half a band).
* Errors of configuration (no price, no return URL, a missing secret) refuse a request before
  anything is written. `CalendlyBooking` has payments on and off (`free`);
  in `ConsultPayment` they are on.

`ConsultPayment`:

* Bookings and payments of other prospects: the checkout refuses a booking of another one.
* A `completed` event of an unpaid session does nothing but be marked processed.
* A session without a URL is recorded like any other (`RecordSession`); that the request then
  fails is not modelled. A zero-price session counts as paid.
* The invitee handler that inserts a booking is one step (`Book`): its awaits are the subject
  of `CalendlyBooking`. Summary and alert are part of `Mark`: they cannot fail the handler,
  and nothing reads the summary to decide.
* The sweep's overlap flag and batch size: any stale row may be taken up at any time by any
  worker, which covers several instances and a batch read long before.
* `refunded` and `duplicate` rows: only a migration writes them.

`CalendlyBooking`:

* The slots are those of one prospect. A row that the browser reported without a URI may be
  adopted for another slot of the prospect (`Unambiguous` says when it cannot be), so the
  properties are about the case that it cannot.
* A cancellation handled before its creation is dropped with a warning, as in the code, and
  the creation then brings up a booking of a slot that is no longer held. `SettledStays` is
  about rows that were there to be cancelled.
* `reportBooking` returns an existing row of the same invitee whatever its status.
* A link without the prospect's id falls back on other fields of the invitee
  (`webhooks.service.ts:176-180`). What it finds there may be no prospect's id: `findById` then
  throws (line 214) at each retry, the event is poisoned, and the slot never becomes a booking.
  That is `astray`; `EventuallyAnswered` leaves it out and is about all the others.
* A cancellation handled while the free-booking handler is between its read (`ReadForFree`)
  and its write (`ConfirmFree`) is overwritten. `SettledStays` does not catch it: its slot is
  not handled before the handler of its creation ends, and it speaks of slots that are.
  `consult_cancelled_stands` shows the same race on the paying path.

`ProspectIntake`, the catalogue and the engines:

* A function that is laid over another, as the code spreads an object over a default, is `++`
  of `OccupationCatalogue`. A summary is read as a sequence of at most one row (`Found`), an
  occupation that is not there has no links (`LinksOf`). The further categories a points
  profile claims are a function from category to label; the label "null" of
  a rule by range stands for the NULL of its column.
* Reads of the policy with no I/O between them are one step, since nothing else of the
  instance runs meanwhile. The three loads `buildStanding` starts together are one, and so
  are the occupation lookups of the pathways; a lookup that fails is a fault.
* Answers that a sponsor left out on adverse information and on training do not block a
  nomination, in the code and in the model, although the engine's header says that unknown
  is never a pass; `UnknownDecidesNothing` is about the facts the engine does treat as
  unknown.
* A request to the catalogue is about one occupation. A bulk import or sync does the same
  for each of many; that one failure undoes the whole transaction is in the model, that it
  undoes the others' is not. `create` over an occupation that has memberships, and the save
  of one that was loaded before a membership was added, fail: this is how TypeORM saves a
  loaded relation, taken from how the service uses it. Rows that were removed and added
  again between a read and the commit are not told apart by their ids.
* Invitations are those of one business and one candidate's address. `findOne` takes any
  pending row, so a request to invite may meet one that has expired although another is open;
  the check of the business prospect may refuse any request (`FindInvite`). An expired
  invitation is read in one step (`LookUpInvite`) and closed in a later one (`CloseExpired`),
  over whatever an acceptance has made of it meanwhile.
* The partner's relationship status is a string the DTO does not restrict: one label stands for
  all those the engine does not know. A negative number in a policy row is refused by `update`
  and not used where a row has one all the same.
* A start that fails does so before anything is put on the server (`BootFails`): the database
  is connected inside `NestFactory.create`, and the boot hooks do no I/O or catch their errors
  (`migration-status.service.ts:28`, `pre-screen.service.ts:77`,
  `payment-reconciliation.service.ts:47`, `payments.service.ts:256`,
  `webhooks.service.ts:91`). Were one of them to throw, what `api/index.ts:83-142` has put on
  the shared server by then would stay there.
* `points_rules`, employer policies and the commercial configuration are read, never edited.

Where a property has an exception, the code has it:

* `ChargeGetsAnswered`, `ChargeGetsBooked`, `SweepResolves`: the charge came second (above).
  `SweepResolves` also leaves out a row without a session id, which no sweep takes up.
* `RefreshRepairs` leaves out an unpaid payment row shown before the paid one: `paid_at DESC`
  puts NULL first, against the comment over that query, "A paid row is the answer whenever one
  exists" (`prospect-summary.service.ts:190-192`). It takes no schedule to
  see, only two rows and that query (`ShownPayment`), so no run is spent on it. Left out too are
  the block of an older booking that a cancellation writes
  over a rescheduled one's, the stale block of a deleted last booking, and two refreshes that
  overlap, each saving the whole row.
* `HomeworkKept` is about what one refresh does. Of two that overlap the later save may lose the
  answers or the result the other added, and only a new submission brings them back.
* `EditTakesEffect` begins where an instance has dropped its cache and no older load is on its
  way there. Other instances keep the old rows for as long as they live: the code has no
  expiry and no message between instances.
* `OneVerdict` is about a standing whose readings were all of one edition of the policy: an edit
  between two of them can show a score and a verdict that disagree.
* `NoLateAcceptance` says nothing of two acceptances at the same moment, which create two
  prospects.
* `StrongMeansStrong` leaves out a couple that has lived together and is not registered,
  for which the audit has no recommendation however weak the commitment pillar is.
* `SyncRepairs` leaves out an occupation without a classification, which `syncVisas` skips.
  Two concurrent updates of one occupation may leave the lists of both; the property is about
  a request that is alone at the catalogue, and finds what those left.

### Not modelled

* Mail and alerts (`prospect-notifier.service.ts`), search, the CMS proxy, user profiles,
  site configuration, data freshness, migration rules, admin, analytics, stats, invitation,
  notifications and health: a request reads or writes one row, or formats an answer, and
  nothing else depends on what it saw. A model of them would restate an assignment.
* Authentication: guards and token checks refuse a request before any handler runs.
* What the bootstrap configures (headers, pipes, interceptors, documentation) and the wiring
  of the framework: no state of the domain.
* Migrations, entities and DTOs as such: where a column, an index or a default decides
  something (the unique indexes, the lease, what an absent answer becomes), it is in the
  model of the code that meets it.
* Maintenance scripts: run by hand, alone.

This bounds how much of the repository a model can stand for. Of some 28,000 lines, 8,852
are one table of occupations (`official-occupations.ts`, data without behaviour); scripts,
migrations, entities, DTOs and the texts of answers make up most of what remains after the
modelled services.

## 3. Plan

The model is complete as far as the code has behaviour worth checking, and its safety
properties and both refinements are proved. What is left:

1. Liveness stays with TLC; its properties are checked on the instances above and depend on
   the fairness listed there.
2. When `CloseFound` and `WriteOff` are guarded in the code (by the status they found),
   `Withdraw` can be struck from `ChargeConfirmation`; the refinement proof then shows
   `PaidIsFinal`, and the exception "the charge came second" is what remains of the liveness
   properties.
3. When `reportBooking` and the invitee webhook share a key for a slot without a URI,
   `OneRowPerSlot` should be proved without the condition of `OneRowWhereUriIsShown`.
4. The ways `StageMovesForward`, `CancelledStands` and `AccountStays` fail are decisions for
   the owners of the code; the runs stay as they are until one is taken.
