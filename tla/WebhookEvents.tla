---------------------------- MODULE WebhookEvents ----------------------------
(***************************************************************************)
(* The idempotency table of the webhook endpoints and the wrapper every    *)
(* handler runs in: WebhookEventRepository.claim / markProcessed /         *)
(* markFailed, WebhooksService.processOnce, and the HTTP answer the two    *)
(* controllers give the provider, which decides whether it sends the event *)
(* again.                                                                  *)
(*                                                                         *)
(* Time is counted in ticks by timers that run down to 0, so that a lease  *)
(* of any length needs no wall clock.  The body of a handler is one step   *)
(* here (it succeeds or throws); ConsultPayment opens it up.  `attempts`,  *)
(* `payload` and `error` are only logged or displayed and are left out.    *)
(***************************************************************************)
EXTENDS Naturals

CONSTANTS
  Events,        \* the identities (provider, external_id) of deliveries
  Workers,       \* the requests being served, over all instances
  NoEvent,
  Lease,         \* LEASE_MS, in ticks
  HandlerLimit,  \* ticks after its claim at which the platform kills a handler
  RetryGap,      \* RetryGap[e]: least ticks between two deliveries of e by its provider
  MaxFaults      \* bound: crashes, database errors and handlers that throw

ASSUME TimesAreNat ==
  /\ Lease \in Nat /\ HandlerLimit \in Nat /\ MaxFaults \in Nat
  /\ RetryGap \in [Events -> Nat]
ASSUME NoEventIsNone == NoEvent \notin Events

VARIABLES
  status,     \* status[e]: webhook_events.status, or "absent" before the first claim
  lease,      \* lease[e]: ticks until claimed_at is older than LEASE_MS; 0 for NULL
  wpc,        \* wpc[w]: where processOnce stands in worker w
  event,      \* event[w]: the event worker w is processing
  left,       \* left[w]: ticks until the platform kills worker w
  provider,   \* provider[e]: "owed" until a delivery of e is answered 2xx, then "acked"
  retryIn,    \* retryIn[e]: ticks until the provider may deliver e (again)
  handled,    \* the events some handler ran to completion for (history)
  faults      \* faults so far

row == <<status, lease>>
workers == <<wpc, event, left>>
sender == <<provider, retryIn>>
vars == <<status, lease, wpc, event, left, provider, retryIn, handled, faults>>

Statuses == {"absent", "received", "processed", "failed"}
Busy(w) == wpc[w] # "idle"

TypeOK ==
  /\ status \in [Events -> Statuses]
  /\ lease \in [Events -> Nat]
  /\ wpc \in [Workers -> {"idle", "running", "succeeded", "threw"}]
  /\ event \in [Workers -> Events \cup {NoEvent}]
  /\ \A w \in Workers : Busy(w) <=> event[w] # NoEvent
  /\ left \in [Workers -> Nat]
  /\ provider \in [Events -> {"owed", "acked"}]
  /\ retryIn \in [Events -> Nat]
  /\ handled \in SUBSET Events
  /\ faults \in 0..MaxFaults

\* Rows written before the lease column existed have a NULL claimed_at and any
\* status but `processed`, whose claimed_at the migration backfilled.
Init ==
  /\ status \in [Events -> {"absent", "received", "failed"}]
  /\ lease = [e \in Events |-> 0]
  /\ wpc = [w \in Workers |-> "idle"]
  /\ event = [w \in Workers |-> NoEvent]
  /\ left = [w \in Workers |-> 0]
  /\ provider = [e \in Events |-> "owed"]
  /\ retryIn = [e \in Events |-> 0]
  /\ handled = {}
  /\ faults = 0

-----------------------------------------------------------------------------
\* A fault the environment may inject, while the bound lasts.
Fault == faults < MaxFaults /\ faults' = faults + 1

\* Plausible errors in the WHERE clause of the upsert: a claim that goes stale one
\* tick early, one that forgets the status, and the insert-only claim the
\* repository had before the lease.
ClaimableAtLease(e) == status[e] # "processed" /\ lease[e] <= 1
ClaimableWhateverStatus(e) == lease[e] = 0
ClaimableOnce(e) == status[e] = "absent"

\* The WHERE clause of the upsert: an unfinished event with no fresh claim.
Claimable(e) == status[e] # "processed" /\ lease[e] = 0

\* A request carrying e reaches an idle worker; the provider's timer restarts.
Arrives(e, w) ==
  /\ retryIn[e] = 0
  /\ ~Busy(w)
  /\ retryIn' = [retryIn EXCEPT ![e] = RetryGap[e]]

\* The upsert: insert, or re-claim of an abandoned event.  The claim is honoured for as
\* long as it is not MORE than Lease ticks old.
Upsert(e) ==
  /\ Claimable(e)
  /\ status' = [status EXCEPT ![e] = "received"]
  /\ lease' = [lease EXCEPT ![e] = Lease + 1]

\* claim() returns a row.
Claim(e, w) ==
  /\ Arrives(e, w)
  /\ Upsert(e)
  /\ wpc' = [wpc EXCEPT ![w] = "running"]
  /\ event' = [event EXCEPT ![w] = e]
  /\ left' = [left EXCEPT ![w] = HandlerLimit]
  /\ UNCHANGED <<provider, handled, faults>>

\* claim() returns null: the controller answers 200 with handled: false.
Skip(e, w) ==
  /\ Arrives(e, w)
  /\ ~Claimable(e)
  /\ provider' = [provider EXCEPT ![e] = "acked"]
  /\ UNCHANGED <<row, workers, handled, faults>>

\* claim() itself fails and rethrows: 500.  The upsert may have taken effect and only
\* its answer be lost; nobody works under that claim then.
ClaimError(e, w) ==
  /\ Arrives(e, w)
  /\ Fault
  /\ Upsert(e) \/ UNCHANGED row
  /\ UNCHANGED <<workers, provider, handled>>

-----------------------------------------------------------------------------
\* The steps of processOnce in worker w.
Goto(w, from, to) ==
  /\ wpc[w] = from
  /\ wpc' = [wpc EXCEPT ![w] = to]
  /\ UNCHANGED <<event, left>>

\* The request is over, answered or not.
Release(w) ==
  /\ wpc' = [wpc EXCEPT ![w] = "idle"]
  /\ event' = [event EXCEPT ![w] = NoEvent]
  /\ left' = [left EXCEPT ![w] = 0]

HandlerReturns(w) ==
  /\ Goto(w, "running", "succeeded")
  /\ handled' = handled \cup {event[w]}
  /\ UNCHANGED <<row, sender, faults>>

HandlerThrows(w) ==
  /\ Goto(w, "running", "threw")
  /\ Fault
  /\ UNCHANGED <<row, sender, handled>>

\* markProcessed, then the 2xx answer.
MarkProcessed(w) ==
  /\ wpc[w] = "succeeded"
  /\ Release(w)
  /\ status' = [status EXCEPT ![event[w]] = "processed"]
  /\ provider' = [provider EXCEPT ![event[w]] = "acked"]
  /\ UNCHANGED <<lease, retryIn, handled, faults>>

\* markProcessed is inside the try: its failure lands in the same catch, whose update
\* will overwrite `processed` when only the answer to this one was lost.
MarkProcessedError(w) ==
  /\ Goto(w, "succeeded", "threw")
  /\ Fault
  /\ UNCHANGED status \/ status' = [status EXCEPT ![event[w]] = "processed"]
  /\ UNCHANGED <<lease, sender, handled>>

\* A plausible error in the controller: the failure is swallowed with a 200.
MarkFailedAnswering200(w) ==
  /\ wpc[w] = "threw"
  /\ Release(w)
  /\ status' = [status EXCEPT ![event[w]] = "failed"]
  /\ provider' = [provider EXCEPT ![event[w]] = "acked"]
  /\ UNCHANGED <<lease, retryIn, handled, faults>>

\* markFailed writes the status and leaves claimed_at alone; the error is rethrown
\* and answered 500, so the provider still owes the event.
MarkFailed(w) ==
  /\ wpc[w] = "threw"
  /\ Release(w)
  /\ status' = [status EXCEPT ![event[w]] = "failed"]
  /\ UNCHANGED <<lease, sender, handled, faults>>

\* The process dies, or markFailed fails: nothing is written, nothing answered.
Crash(w) ==
  /\ Busy(w)
  /\ Release(w)
  /\ Fault
  /\ UNCHANGED <<row, sender, handled>>

\* A plausible error: a timer that does not stop at 0.
DownPastZero(n) == n - 1

Down(n) == IF n = 0 THEN 0 ELSE n - 1

\* One tick of every timer.  No handler outlives its limit.
Tick ==
  /\ \A w \in Workers : Busy(w) => left[w] > 0
  /\ \/ \E e \in Events : lease[e] > 0 \/ retryIn[e] > 0
     \/ \E w \in Workers : Busy(w)
  /\ lease' = [e \in Events |-> Down(lease[e])]
  /\ retryIn' = [e \in Events |-> Down(retryIn[e])]
  /\ left' = [w \in Workers |-> Down(left[w])]
  /\ UNCHANGED <<status, wpc, event, provider, handled, faults>>

Deliver(e, w) == Claim(e, w) \/ Skip(e, w)

\* The steps of processOnce that its own code takes, as opposed to faults.
Proceed(w) == HandlerReturns(w) \/ MarkProcessed(w) \/ MarkFailed(w)

Next ==
  \/ \E e \in Events, w \in Workers :
       Claim(e, w) \/ Skip(e, w) \/ ClaimError(e, w)
  \/ \E w \in Workers :
       \/ HandlerReturns(w) \/ HandlerThrows(w)
       \/ MarkProcessed(w) \/ MarkProcessedError(w)
       \/ MarkFailed(w) \/ Crash(w)
  \/ Tick

Spec == Init /\ [][Next]_vars

\* Code that has been reached runs, time passes, and a provider keeps retrying an
\* event it has no 2xx for, for as long as it takes.
Fairness ==
  /\ WF_vars(Tick)
  /\ \A w \in Workers : WF_vars(Proceed(w))
  /\ \A e \in Events :
       SF_vars(provider[e] = "owed" /\ \E w \in Workers : Deliver(e, w))

FairSpec == Spec /\ Fairness

-----------------------------------------------------------------------------
(* Properties *)

\* No two workers ever handle the same event at once (the "slow handler gets a
\* second worker running alongside it" of LEASE_MS's comment): it holds when the
\* platform kills a handler no later than its lease runs out.
OneHandlerPerEvent ==
  \A v, w \in Workers : Busy(v) /\ Busy(w) /\ event[v] = event[w] => v = w

\* Providers that deliver e again only after the lease of the last delivery.
Patient == {e \in Events : Lease < RetryGap[e]}

\* A 2xx stops the provider's retries, so it must stand for finished work: every
\* event of a patient provider that was answered 2xx has been handled to completion
\* by some worker.  (An impatient provider can be told 200 by Skip: FailedStaysOwed.)
AckedIsHandled == \A e \in Patient : provider[e] = "acked" => e \in handled

\* The table implements the exclusive hand-out its handlers rely on: a claim is
\* taken only when nobody holds it, and never again once the row is processed and let
\* go (until then, the catch of the worker that holds it may still write it failed).
Holding(e) == {w \in Workers : Busy(w) /\ event[w] = e}
Done == {e \in Events : status[e] = "processed" /\ Holding(e) = {}}

Exclusive == INSTANCE ExclusiveHandling WITH
  holders <- [e \in Events |-> Holding(e)],
  done <- Done

HandsOutExclusively == Exclusive!Spec

\* Whatever fails on the way, every event of a patient provider is processed in the
\* end, and stays so.
EventuallyProcessed == \A e \in Patient : <>[](status[e] = "processed")

-----------------------------------------------------------------------------
(* A claim of the documentation that the code keeps only if retries are slow *)

\* A failed event is re-claimed by its next delivery ("abandoned -- RE-CLAIM. Either
\* the handler failed, or ..."), so it is never answered 2xx while it stands failed.
FailedStaysOwed ==
  [][\A e \in Events :
       status[e] = "failed" /\ provider[e] = "owed" => provider'[e] = "owed"]_vars

==============================================================================
