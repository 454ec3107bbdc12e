---------------------------- MODULE ConsultPayment ----------------------------
(***************************************************************************)
(* Book-then-pay for one prospect: the checkout call that mints a Stripe   *)
(* session, Stripe itself, the webhook handler and the reconciliation      *)
(* sweep that both confirm a payment, and the agent working on the same    *)
(* booking and prospect meanwhile.                                         *)
(*                                                                         *)
(* Every `await` of the code is a boundary between two steps, so what one  *)
(* request reads another may change before it writes.  The one transaction *)
(* of the code, PaymentRepository.markPaidWithBooking, is one step.        *)
(*                                                                         *)
(* A checkout call, the payments row it inserts and the session it creates *)
(* carry the same name, a member of Attempts.  A session opened by hand in *)
(* the Stripe dashboard, with the prospect in its metadata and no row of   *)
(* ours, is an attempt too (ByHand).  All bookings and payments belong to  *)
(* one prospect: the checkout refuses a booking of another one.            *)
(*                                                                         *)
(* Claims of webhook events are not modelled here: a delivery is started   *)
(* only when no other worker holds it and it is not finished, which is     *)
(* what WebhookEvents is shown to guarantee (ExclusiveHandling).           *)
(***************************************************************************)
EXTENDS Naturals, FiniteSets

CONSTANTS
  Attempts,          \* checkout calls, with their row and their session
  ByHand,            \* the attempts that are sessions opened in the dashboard
  NoAttempt,
  MaxBookings,       \* bound: bookings the prospect ever makes
  Workers,           \* requests and timers that run confirmation code
  MaxFaults,         \* bound: crashes, outages, lost answers and lost events
  MaxInterventions   \* bound: things people do to the booking or the prospect

ASSUME AttemptsAreFinite == IsFiniteSet(Attempts) /\ ByHand \subseteq Attempts
ASSUME NoAttemptIsNone == NoAttempt \notin Attempts
ASSUME BoundsAreNat ==
  MaxBookings \in Nat /\ MaxFaults \in Nat /\ MaxInterventions \in Nat

VARIABLES
  booking,        \* booking[b]: consultation_bookings.status, in order of creation
  stage,          \* prospects.stage
  cleared,        \* statutory_eligible = true and client_fit = true
  agentStage,     \* the stage an agent's PATCH has decided on but not yet written
  rowStatus,      \* rowStatus[k]: payments.status
  rowSid,         \* rowSid[k]: provider_session_id is stored
  rowNo,          \* rowNo[k]: the order of created_at
  slot,           \* slot[k]: the booking k is for (booking_id), 0 for none
  age,            \* age[k]: of the row; "fresh" under 20 h, "stale" over 26 h
  stripe,         \* stripe[k]: the session, at Stripe
  hook,           \* hook[k]: the event that reports how the session ended
  call, found,    \* call[k]: where the checkout call stands; the row it found open
  wpc, job, at, target,  \* where worker w stands; for whom; which session; which booking
  faults, interventions,
  recorded        \* history: the sessions whose row has said paid

prospect == <<stage, cleared, agentStage>>
rows == <<rowStatus, rowSid, rowNo, slot, age>>
atStripe == <<stripe, hook>>
calls == <<call, found>>
workers == <<wpc, job, at, target>>
bounds == <<faults, interventions>>
state == <<booking, prospect, rows, atStripe, calls, workers, bounds>>
vars == <<state, recorded>>

Bookings == 1..MaxBookings
NoBooking == 0
BookingStatuses == {"none", "pending", "confirmed", "completed", "cancelled", "deleted"}
Stages == {"captured", "pre_screened", "booked", "consulted", "engaged", "disqualified"}
RowStatuses == {"none", "created", "paid", "failed", "expired"}
SessionStates == {"none", "open", "settling", "paid", "bounced", "lapsed"}
CallSteps == {"idle", "paidCheck", "pickSlot", "lookup", "probe", "close", "insert",
              "create", "record", "reject", "done"}
WorkerSteps == {"idle", "ask", "writeOff", "findPaid", "commit", "record", "screen",
                "slot", "confirm", "advance", "stage", "findUnpaid", "unpaid", "mark"}

Types ==
  /\ booking \in [Bookings -> BookingStatuses]
  /\ stage \in Stages /\ cleared \in BOOLEAN /\ agentStage \in Stages \cup {"none"}
  /\ rowStatus \in [Attempts -> RowStatuses]
  /\ rowSid \in [Attempts -> BOOLEAN]
  /\ rowNo \in [Attempts -> Nat]
  /\ slot \in [Attempts -> Bookings \cup {NoBooking}]
  /\ age \in [Attempts -> {"fresh", "aging", "stale"}]
  /\ stripe \in [Attempts -> SessionStates]
  /\ hook \in [Attempts -> {"none", "due", "done", "lost"}]
  /\ call \in [Attempts -> CallSteps]
  /\ found \in [Attempts -> Attempts \cup {NoAttempt}]
  /\ wpc \in [Workers -> WorkerSteps]
  /\ job \in [Workers -> {"none", "hook", "sweep"}]
  /\ at \in [Workers -> Attempts \cup {NoAttempt}]
  /\ target \in [Workers -> Bookings \cup {NoBooking}]
  /\ faults \in 0..MaxFaults /\ interventions \in 0..MaxInterventions

\* Every row a checkout inserted names a booking.
RowsNameBookings ==
  \A k \in Attempts \ ByHand : rowStatus[k] # "none" => slot[k] \in Bookings

TypeOK == Types /\ RowsNameBookings /\ recorded \subseteq Attempts

Init ==
  /\ booking = [b \in Bookings |-> "none"]
  /\ stage = "captured" /\ cleared = TRUE /\ agentStage = "none"
  /\ rowStatus = [k \in Attempts |-> "none"]
  /\ rowSid = [k \in Attempts |-> FALSE]
  /\ rowNo = [k \in Attempts |-> 0]
  /\ slot = [k \in Attempts |-> NoBooking]
  /\ age = [k \in Attempts |-> "fresh"]
  /\ stripe = [k \in Attempts |-> "none"]
  /\ hook = [k \in Attempts |-> "none"]
  /\ call = [k \in Attempts |-> "idle"]
  /\ found = [k \in Attempts |-> NoAttempt]
  /\ wpc = [w \in Workers |-> "idle"]
  /\ job = [w \in Workers |-> "none"]
  /\ at = [w \in Workers |-> NoAttempt]
  /\ target = [w \in Workers |-> NoBooking]
  /\ faults = 0 /\ interventions = 0
  /\ recorded = {}

Fault == faults < MaxFaults /\ faults' = faults + 1 /\ UNCHANGED interventions
Intervention ==
  interventions < MaxInterventions /\ interventions' = interventions + 1 /\ UNCHANGED faults

Exists(b) == b \in Bookings /\ booking[b] \notin {"none", "deleted"}

\* findLatestForProspect: the last booking created, whatever its status.
IsLatest(b) == Exists(b) /\ \A c \in Bookings : Exists(c) => c <= b
Latest ==
  IF \E b \in Bookings : IsLatest(b) THEN CHOOSE b \in Bookings : IsLatest(b) ELSE NoBooking

\* The screen the checkout, the handler and advanceStage('booked') all apply.
Bookable == cleared /\ stage # "disqualified"

HasRow(k) == rowStatus[k] # "none"
HasPaid == \E k \in Attempts : rowStatus[k] = "paid"

-----------------------------------------------------------------------------
(* The prospect and the agent *)

\* A slot was picked at Calendly, with payments enabled: a pending booking.  Its
\* handler screened the prospect (who starts cleared) before the awaits that lead to
\* this insert, so whatever has become of the prospect since does not hold it back.
Book(b) ==
  /\ booking[b] = "none" /\ \A c \in 1..(b - 1) : booking[c] # "none"
  /\ booking' = [booking EXCEPT ![b] = "pending"]
  /\ UNCHANGED <<prospect, rows, atStripe, calls, workers, bounds>>

\* handleCalendlyInviteeCanceled writes `cancelled` over any status.
CalendlyCancel(b) ==
  /\ Exists(b) /\ Intervention
  /\ booking' = [booking EXCEPT ![b] = "cancelled"]
  /\ UNCHANGED <<prospect, rows, atStripe, calls, workers>>

\* The agent delivers the strategy: `completed` over any status.
DeliverStrategy(b) ==
  /\ Exists(b) /\ Intervention
  /\ booking' = [booking EXCEPT ![b] = "completed"]
  /\ UNCHANGED <<prospect, rows, atStripe, calls, workers>>

DeleteBooking(b) ==
  /\ Exists(b) /\ Intervention
  /\ booking' = [booking EXCEPT ![b] = "deleted"]
  /\ UNCHANGED <<prospect, rows, atStripe, calls, workers>>

\* PATCH :id/review sets or clears the two eligibility flags.
Review ==
  /\ Intervention
  /\ cleared' = ~cleared
  /\ UNCHANGED <<booking, stage, agentStage, rows, atStripe, calls, workers>>

STAGE_ORDER ==
  [captured |-> 0, pre_screened |-> 1, booked |-> 2, consulted |-> 3,
   engaged |-> 4, disqualified |-> 5]

\* advanceStage reads the prospect first: would it write s?
Advances(s) == STAGE_ORDER[s] > STAGE_ORDER[stage]

\* PATCH :id/stage, its read ...
AgentDecide(s) ==
  /\ agentStage = "none"
  /\ Advances(s) /\ (s = "booked" => Bookable)
  /\ Intervention
  /\ agentStage' = s
  /\ UNCHANGED <<booking, stage, cleared, rows, atStripe, calls, workers>>

\* ... and its write.
AgentWrite ==
  /\ agentStage # "none"
  /\ stage' = agentStage
  /\ agentStage' = "none"
  /\ UNCHANGED <<booking, cleared, rows, atStripe, calls, workers, bounds>>

-----------------------------------------------------------------------------
(* createConsultationCheckout.  A request it refuses changes nothing. *)

Step(k, from, to) == call[k] = from /\ call' = [call EXCEPT ![k] = to]

StartCheckout(k) ==
  /\ k \notin ByHand /\ Bookable
  /\ Step(k, "idle", "paidCheck")
  /\ UNCHANGED <<booking, prospect, rows, atStripe, found, workers, bounds>>

CheckUnpaid(k) ==
  /\ Step(k, "paidCheck", IF HasPaid THEN "done" ELSE "pickSlot")
  /\ UNCHANGED <<booking, prospect, rows, atStripe, found, workers, bounds>>

\* A plausible error: a checkout with no booking yet is let through.
PickSlotOrNone(k) ==
  /\ Step(k, "pickSlot", "lookup")
  /\ slot' = [slot EXCEPT ![k] = Latest]
  /\ UNCHANGED <<booking, prospect, rowStatus, rowSid, rowNo, age, atStripe, found,
                 workers, bounds>>

\* The booking named in the request, or else the latest; refused when there is
\* none or it is cancelled.
PickSlot(k) ==
  /\ \/ /\ Step(k, "pickSlot", "lookup")
        /\ \E b \in Bookings :
             /\ Exists(b) /\ booking[b] # "cancelled"
             /\ slot' = [slot EXCEPT ![k] = b]
     \/ Step(k, "pickSlot", "done") /\ UNCHANGED slot
  /\ UNCHANGED <<booking, prospect, rowStatus, rowSid, rowNo, age, atStripe, found,
                 workers, bounds>>

\* findOpenSessionForBooking's candidates.
Reusable(k) ==
  {j \in Attempts : /\ slot[j] = slot[k] /\ rowStatus[j] = "created"
                    /\ rowSid[j] /\ age[j] = "fresh"}

LookUpOpen(k) ==
  /\ IF Reusable(k) = {}
     THEN Step(k, "lookup", "insert") /\ UNCHANGED found
     ELSE /\ Step(k, "lookup", "probe")
          /\ \E j \in Reusable(k) :
               /\ \A i \in Reusable(k) : rowNo[i] <= rowNo[j]
               /\ found' = [found EXCEPT ![k] = j]
  /\ UNCHANGED <<booking, prospect, rows, atStripe, workers, bounds>>

\* retrieveReusableSession: an open session's link is handed back as it is.
Probe(k) ==
  /\ Step(k, "probe", IF stripe[found[k]] = "open" THEN "done" ELSE "close")
  /\ UNCHANGED <<booking, prospect, rows, atStripe, found, workers, bounds>>

\* Stripe does not answer: treated as a dead link.
ProbeOutage(k) ==
  /\ Step(k, "probe", "close") /\ Fault
  /\ UNCHANGED <<booking, prospect, rows, atStripe, found, workers>>

CloseFound(k) ==
  /\ Step(k, "close", "insert")
  /\ rowStatus' = [rowStatus EXCEPT ![found[k]] = "expired"]
  /\ UNCHANGED <<booking, prospect, rowSid, rowNo, slot, age, atStripe, found,
                 workers, bounds>>

\* A plausible error: the row is left for the moment Stripe has answered.
InsertRowLater(k) ==
  /\ Step(k, "insert", "create")
  /\ UNCHANGED <<booking, prospect, rows, atStripe, found, workers, bounds>>

\* The row is written before Stripe is called.
InsertRow(k) ==
  /\ Step(k, "insert", "create")
  /\ rowStatus' = [rowStatus EXCEPT ![k] = "created"]
  /\ rowNo' = [rowNo EXCEPT ![k] = Cardinality({j \in Attempts : HasRow(j)}) + 1]
  /\ UNCHANGED <<booking, prospect, rowSid, slot, age, atStripe, found, workers, bounds>>

CreateSession(k) ==
  /\ Step(k, "create", "record")
  /\ stripe' = [stripe EXCEPT ![k] = "open"]
  /\ UNCHANGED <<booking, prospect, rows, hook, found, workers, bounds>>

\* The session is made and its answer lost: the row keeps no session id.
CreateLost(k) ==
  /\ Step(k, "create", "done") /\ Fault
  /\ stripe' = [stripe EXCEPT ![k] = "open"]
  /\ UNCHANGED <<booking, prospect, rows, hook, found, workers>>

\* A definite rejection by Stripe; the row is written off in the next step.
CreateRejected(k) ==
  /\ Step(k, "create", "reject") /\ Fault
  /\ UNCHANGED <<booking, prospect, rows, atStripe, found, workers>>

RejectRow(k) ==
  /\ Step(k, "reject", "done")
  /\ rowStatus' = [rowStatus EXCEPT ![k] = "failed"]
  /\ UNCHANGED <<booking, prospect, rowSid, rowNo, slot, age, atStripe, found,
                 workers, bounds>>

RecordSession(k) ==
  /\ Step(k, "record", "done")
  /\ rowSid' = [rowSid EXCEPT ![k] = TRUE]
  /\ UNCHANGED <<booking, prospect, rowStatus, rowNo, slot, age, atStripe, found,
                 workers, bounds>>

\* The request dies where it stands: a restart, a database error.
Abandon(k) ==
  /\ call[k] \notin {"idle", "done"} /\ Fault
  /\ call' = [call EXCEPT ![k] = "done"]
  /\ UNCHANGED <<booking, prospect, rows, atStripe, found, workers>>

Serve(k) ==
  \/ CheckUnpaid(k) \/ PickSlot(k) \/ LookUpOpen(k) \/ Probe(k) \/ CloseFound(k)
  \/ InsertRow(k) \/ CreateSession(k) \/ RejectRow(k) \/ RecordSession(k)

CheckoutFault(k) == ProbeOutage(k) \/ CreateLost(k) \/ CreateRejected(k) \/ Abandon(k)

-----------------------------------------------------------------------------
(* Stripe and the passing of time.  One event per session matters to us: it *)
(* is due once the session is paid, has bounced (a delayed method that did  *)
(* not settle) or has lapsed (nobody came back).                            *)

Ended(k, from, to) ==
  /\ stripe[k] = from
  /\ stripe' = [stripe EXCEPT ![k] = to]
  /\ hook' = [hook EXCEPT ![k] = "due"]
  /\ UNCHANGED <<booking, prospect, rows, calls, workers, bounds>>

\* An agent opens a session for a booking, or for none in particular.
OpenByHand(k) ==
  /\ k \in ByHand /\ stripe[k] = "none"
  /\ stripe' = [stripe EXCEPT ![k] = "open"]
  /\ \E b \in Bookings \cup {NoBooking} :
       /\ Exists(b) \/ b = NoBooking
       /\ slot' = [slot EXCEPT ![k] = b]
  /\ UNCHANGED <<booking, prospect, rowStatus, rowSid, rowNo, age, hook, calls,
                 workers, bounds>>

Pay(k) == Ended(k, "open", "paid")

\* A delayed method: `completed` arrives unpaid and its handler does nothing.
PayLater(k) ==
  /\ stripe[k] = "open"
  /\ stripe' = [stripe EXCEPT ![k] = "settling"]
  /\ UNCHANGED <<booking, prospect, rows, hook, calls, workers, bounds>>

Settle(k) == Ended(k, "settling", "paid")
Bounce(k) == Ended(k, "settling", "bounced")

\* A checkout call that found row k fresh is over within minutes.
FoundByCall(k) == \E j \in Attempts : call[j] \in {"probe", "close"} /\ found[j] = k

\* Stripe expires an open session 24 h after it was made, so between 20 and 26 h.
Lapse(k) ==
  /\ (age[k] = "aging" /\ ~FoundByCall(k)) \/ k \in ByHand
  /\ Ended(k, "open", "lapsed")

Age(k) ==
  /\ HasRow(k) /\ k \notin ByHand /\ call[k] = "done"
  /\ \/ age[k] = "fresh" /\ age' = [age EXCEPT ![k] = "aging"]
     \/ /\ age[k] = "aging" /\ stripe[k] # "open" /\ ~FoundByCall(k)
        /\ age' = [age EXCEPT ![k] = "stale"]
  /\ UNCHANGED <<booking, prospect, rowStatus, rowSid, rowNo, slot, atStripe, calls,
                 workers, bounds>>

-----------------------------------------------------------------------------
(* The confirmation path, in a worker that runs a webhook or a sweep. *)

Goto(w, from, to) == wpc[w] = from /\ wpc' = [wpc EXCEPT ![w] = to]
Stay(w) == UNCHANGED <<job, at, target>>

Finish(w) ==
  /\ wpc' = [wpc EXCEPT ![w] = "idle"]
  /\ job' = [job EXCEPT ![w] = "none"]
  /\ at' = [at EXCEPT ![w] = NoAttempt]
  /\ target' = [target EXCEPT ![w] = NoBooking]

Take(w, k, as, step) ==
  /\ wpc[w] = "idle"
  /\ wpc' = [wpc EXCEPT ![w] = step]
  /\ job' = [job EXCEPT ![w] = as]
  /\ at' = [at EXCEPT ![w] = k]
  /\ UNCHANGED <<booking, prospect, rows, atStripe, calls, target, bounds>>

\* A delivery nobody holds is claimed and handed to the case for its outcome.
StartHook(w, k) ==
  /\ hook[k] = "due"
  /\ ~ \E v \in Workers : job[v] = "hook" /\ at[v] = k
  /\ Take(w, k, "hook", IF stripe[k] = "paid" THEN "findPaid" ELSE "findUnpaid")

\* A plausible error: the age comparison of the sweep's query is turned round.
StartSweepFresh(w, k) ==
  /\ rowStatus[k] = "created" /\ rowSid[k] /\ age[k] # "stale"
  /\ Take(w, k, "sweep", "ask")

\* The sweep takes up a row findStaleOpenSessions returned, perhaps much earlier.
\* Several workers are one sweep with several rows to go, or several sweeps.
StartSweep(w, k) ==
  /\ rowStatus[k] = "created" /\ rowSid[k] /\ age[k] = "stale"
  /\ Take(w, k, "sweep", "ask")

\* A plausible error: a session that is complete counts as paid.
PaidOrComplete(k) == stripe[k] \in {"paid", "settling"}

IsPaid(k) == stripe[k] = "paid"

\* reconcileSession asks Stripe what became of the session.
Ask(w) ==
  /\ wpc[w] = "ask"
  /\ \/ IsPaid(at[w]) /\ Goto(w, "ask", "findPaid") /\ Stay(w)
     \/ ~IsPaid(at[w]) /\ stripe[at[w]] = "open" /\ Finish(w)
     \/ ~IsPaid(at[w]) /\ stripe[at[w]] # "open" /\ Goto(w, "ask", "writeOff") /\ Stay(w)
  /\ UNCHANGED <<booking, prospect, rows, atStripe, calls, bounds>>

\* A plausible error: one update for every row the sweep may come to.
WriteOffStale(w) ==
  /\ wpc[w] = "writeOff" /\ Finish(w)
  /\ rowStatus' = [k \in Attempts |-> IF k = at[w] \/ (HasRow(k) /\ age[k] = "stale")
                                      THEN "expired" ELSE rowStatus[k]]
  /\ UNCHANGED <<booking, prospect, rowSid, rowNo, slot, age, atStripe, calls, bounds>>

\* The row is expired by id, whatever it has become since Stripe answered.
WriteOff(w) ==
  /\ wpc[w] = "writeOff" /\ Finish(w)
  /\ rowStatus' = [rowStatus EXCEPT ![at[w]] = "expired"]
  /\ UNCHANGED <<booking, prospect, rowSid, rowNo, slot, age, atStripe, calls, bounds>>

\* A plausible error: the row is looked up by its session id alone.
FindPaidBySessionId(w) ==
  LET k == at[w] IN
  /\ Goto(w, "findPaid", IF ~rowSid[k] THEN "mark"
                         ELSE IF rowStatus[k] = "paid" THEN "screen" ELSE "commit")
  /\ Stay(w)
  /\ UNCHANGED <<booking, prospect, rows, atStripe, calls, bounds>>

\* A plausible error, and the code's past: a paid row ends the handler.
FindPaidOnce(w) ==
  LET k == at[w] IN
  /\ Goto(w, "findPaid", IF ~HasRow(k) THEN "record"
                         ELSE IF rowStatus[k] = "paid" THEN "mark" ELSE "commit")
  /\ Stay(w)
  /\ UNCHANGED <<booking, prospect, rows, atStripe, calls, bounds>>

\* markPaidFromSession looks for the row, by session id or through the metadata.
FindPaid(w) ==
  LET k == at[w] IN
  /\ Goto(w, "findPaid", IF ~HasRow(k) THEN "record"
                         ELSE IF rowStatus[k] = "paid" THEN "screen" ELSE "commit")
  /\ Stay(w)
  /\ UNCHANGED <<booking, prospect, rows, atStripe, calls, bounds>>

\* What the code relied on before the partial unique index.
NoIndex(k) == TRUE

\* uq_payments_one_paid_per_purpose lets row k become paid.
IndexAllows(k) == \A j \in Attempts \ {k} : rowStatus[j] # "paid"

\* A plausible error, and the code's past: the payment alone is written.
CommitPaymentOnly(w) ==
  LET k == at[w] IN
  /\ Goto(w, "commit", "screen") /\ Stay(w)
  /\ IndexAllows(k)
  /\ rowStatus' = [rowStatus EXCEPT ![k] = "paid"]
  /\ rowSid' = [rowSid EXCEPT ![k] = TRUE]
  /\ UNCHANGED <<booking, prospect, rowNo, slot, age, atStripe, calls, bounds>>

\* markPaidWithBooking: row and booking in one transaction, unconditionally.
CommitPaid(w) ==
  LET k == at[w] IN
  /\ Goto(w, "commit", "screen") /\ Stay(w)
  /\ IndexAllows(k)
  /\ rowStatus' = [rowStatus EXCEPT ![k] = "paid"]
  /\ rowSid' = [rowSid EXCEPT ![k] = TRUE]
  /\ booking' = IF Exists(slot[k]) THEN [booking EXCEPT ![slot[k]] = "confirmed"]
                ELSE booking
  /\ UNCHANGED <<prospect, rowNo, slot, age, atStripe, calls, bounds>>

\* No row of ours: one is inserted, paid, and the booking left to a later step.
RecordOrphan(w) ==
  LET k == at[w] IN
  /\ Goto(w, "record", "screen") /\ Stay(w)
  /\ IndexAllows(k)
  /\ rowStatus' = [rowStatus EXCEPT ![k] = "paid"]
  /\ rowSid' = [rowSid EXCEPT ![k] = TRUE]
  /\ rowNo' = [rowNo EXCEPT ![k] = Cardinality({j \in Attempts : HasRow(j)}) + 1]
  /\ UNCHANGED <<booking, prospect, slot, age, atStripe, calls, bounds>>

\* The index refuses the second paid row: the handler throws, and will again.
RefuseSecondPaid(w) ==
  /\ wpc[w] \in {"commit", "record"} /\ ~IndexAllows(at[w])
  /\ Finish(w)
  /\ UNCHANGED <<booking, prospect, rows, atStripe, calls, bounds>>

\* Not cleared: "booking requires manual review", and the handler returns.
Screen(w) ==
  /\ Goto(w, "screen", IF Bookable THEN "slot" ELSE "mark") /\ Stay(w)
  /\ UNCHANGED <<booking, prospect, rows, atStripe, calls, bounds>>

\* A plausible error: the booking the payment names is ignored.
ChosenLatest(k) == Latest

\* The booking the payment names, if it still exists; the latest if it names none.
Chosen(k) ==
  IF slot[k] = NoBooking THEN Latest ELSE IF Exists(slot[k]) THEN slot[k] ELSE NoBooking

\* The booking is read; one that is missing or already confirmed is left alone.
ReadSlot(w) ==
  LET b == Chosen(at[w]) IN
  /\ Goto(w, "slot", IF Exists(b) /\ booking[b] # "confirmed" THEN "confirm" ELSE "advance")
  /\ target' = [target EXCEPT ![w] = b]
  /\ UNCHANGED <<booking, prospect, rows, atStripe, calls, job, at, bounds>>

\* The lookup of a booking the payment names fails, which is taken for none: the
\* handler goes on to the stage, and nobody comes back for the booking.
ReadSlotFails(w) ==
  /\ Goto(w, "slot", "advance") /\ slot[at[w]] # NoBooking
  /\ Fault
  /\ target' = [target EXCEPT ![w] = NoBooking]
  /\ UNCHANGED <<booking, prospect, rows, atStripe, calls, job, at>>

\* Any other booking is confirmed; the update throws if it has gone meanwhile.
Confirm(w) ==
  LET b == target[w] IN
  /\ wpc[w] = "confirm"
  /\ IF Exists(b)
     THEN /\ Goto(w, "confirm", "advance") /\ Stay(w)
          /\ booking' = [booking EXCEPT ![b] = "confirmed"]
     ELSE Finish(w) /\ UNCHANGED booking
  /\ UNCHANGED <<prospect, rows, atStripe, calls, bounds>>

\* A plausible error: a stage that is already there counts as a failure.
AdvanceOrThrow(w) ==
  /\ wpc[w] = "advance"
  /\ IF Bookable /\ Advances("booked") THEN Goto(w, "advance", "stage") /\ Stay(w)
     ELSE Finish(w)
  /\ UNCHANGED <<booking, prospect, rows, atStripe, calls, bounds>>

\* advanceStage('booked'): it throws when the prospect is no longer cleared.
Advance(w) ==
  /\ wpc[w] = "advance"
  /\ IF Bookable
     THEN Goto(w, "advance", IF Advances("booked") THEN "stage" ELSE "mark") /\ Stay(w)
     ELSE Finish(w)
  /\ UNCHANGED <<booking, prospect, rows, atStripe, calls, bounds>>

WriteStage(w) ==
  /\ Goto(w, "stage", "mark") /\ Stay(w)
  /\ stage' = "booked"
  /\ UNCHANGED <<booking, cleared, agentStage, rows, atStripe, calls, bounds>>

\* markSessionUnpaid: only a row that has the session id and is not paid is closed.
FindUnpaid(w) ==
  LET k == at[w] IN
  /\ Goto(w, "findUnpaid", IF rowSid[k] /\ rowStatus[k] # "paid" THEN "unpaid" ELSE "mark")
  /\ Stay(w)
  /\ UNCHANGED <<booking, prospect, rows, atStripe, calls, bounds>>

CloseUnpaid(w) ==
  LET k == at[w] IN
  /\ Goto(w, "unpaid", "mark") /\ Stay(w)
  /\ rowStatus' =
       [rowStatus EXCEPT ![k] = IF stripe[k] = "bounced" THEN "failed" ELSE "expired"]
  /\ UNCHANGED <<booking, prospect, rowSid, rowNo, slot, age, atStripe, calls, bounds>>

\* The summary is refreshed, the agent alerted, and a webhook marked processed.
Mark(w) ==
  /\ wpc[w] = "mark" /\ Finish(w)
  /\ hook' = IF job[w] = "hook" THEN [hook EXCEPT ![at[w]] = "done"] ELSE hook
  /\ UNCHANGED <<booking, prospect, rows, stripe, calls, bounds>>

\* The worker dies or an await throws: a webhook is still due, a sweep moves on.
Fail(w) ==
  /\ wpc[w] # "idle" /\ Finish(w) /\ Fault
  /\ UNCHANGED <<booking, prospect, rows, atStripe, calls>>

\* The provider gives up on an event no worker is handling.
LoseHook(k) ==
  /\ hook[k] = "due" /\ ~ \E v \in Workers : job[v] = "hook" /\ at[v] = k
  /\ Fault
  /\ hook' = [hook EXCEPT ![k] = "lost"]
  /\ UNCHANGED <<booking, prospect, rows, stripe, calls, workers>>

Work(w) ==
  \/ Ask(w) \/ WriteOff(w) \/ FindPaid(w) \/ CommitPaid(w) \/ RecordOrphan(w)
  \/ RefuseSecondPaid(w) \/ Screen(w) \/ ReadSlot(w) \/ Confirm(w) \/ Advance(w)
  \/ WriteStage(w) \/ FindUnpaid(w) \/ CloseUnpaid(w) \/ Mark(w)

\* What each party may do.
People ==
  \/ \E b \in Bookings : Book(b) \/ CalendlyCancel(b) \/ DeliverStrategy(b) \/ DeleteBooking(b)
  \/ Review \/ (\E s \in Stages : AgentDecide(s)) \/ AgentWrite

Checkout(k) == StartCheckout(k) \/ Serve(k) \/ CheckoutFault(k)

Session(k) ==
  \/ OpenByHand(k) \/ Pay(k) \/ PayLater(k) \/ Settle(k) \/ Bounce(k) \/ Lapse(k)
  \/ Age(k) \/ LoseHook(k)

Confirmation(w) ==
  (\E k \in Attempts : StartHook(w, k) \/ StartSweep(w, k)) \/ Work(w) \/ ReadSlotFails(w) \/ Fail(w)

Moves ==
  \/ People
  \/ \E k \in Attempts : Checkout(k) \/ Session(k)
  \/ \E w \in Workers : Confirmation(w)

Next == Moves /\ recorded' = recorded \cup {k \in Attempts : rowStatus'[k] = "paid"}

Spec == Init /\ [][Next]_vars

-----------------------------------------------------------------------------
\* Code that has been reached runs; sessions settle, lapse and grow old; a due
\* event is delivered until it is done or the provider gives up; one instance
\* sweeps every hour.
Fairness ==
  /\ \A k \in Attempts :
       /\ WF_state(Serve(k)) /\ WF_state(Age(k))
       /\ WF_state(Lapse(k)) /\ WF_state(Settle(k) \/ Bounce(k))
       /\ SF_state(\E w \in Workers : StartHook(w, k))
       /\ SF_state(\E w \in Workers : StartSweep(w, k))
  /\ \A w \in Workers : WF_state(Work(w))

FairSpec == Spec /\ Fairness

-----------------------------------------------------------------------------
(* Properties that hold *)

\* No consultation is given away: a confirmed booking has a session that Stripe was
\* paid for and that has been on record, for that booking or for none in particular.
ConfirmedWasPaid ==
  \A b \in Bookings : booking[b] = "confirmed" =>
    \E k \in recorded : stripe[k] = "paid" /\ slot[k] \in {b, NoBooking}

\* A row says paid only when Stripe has the money.
PaidWasCharged == \A k \in Attempts : rowStatus[k] = "paid" => stripe[k] = "paid"

\* One paid row per prospect, whatever the two webhooks and the sweep overlap in.
OnePaid ==
  \A j, k \in Attempts : rowStatus[j] = "paid" /\ rowStatus[k] = "paid" => j = k

\* "Payment and booking move together": no paid row stands beside a pending booking.
PaidSlotNotPending ==
  \A k \in Attempts \ ByHand :
    rowStatus[k] = "paid" /\ slot[k] \in Bookings => booking[slot[k]] # "pending"

\* A session that a visitor can pay through always has a row to match it to.
EverySessionHasRow ==
  \A k \in Attempts \ ByHand : stripe[k] # "none" => HasRow(k)

\* A webhook of a charge is answered as processed only once the charge has been put
\* on record, even if the session id never was; a race may have expired the row since.
AnsweredChargeOnRecord ==
  \A k \in Attempts : hook[k] = "done" /\ stripe[k] = "paid" => k \in recorded

\* A paid row is undone only by a checkout that found it still open, or by a sweep that
\* asked Stripe before the payment.  markSessionUnpaid too reads the row in one step and
\* closes it in another; it never meets a paid row there because a session ends once.
OnlyStaleWritesUndo ==
  [][\A k \in Attempts : rowStatus[k] = "paid" /\ rowStatus'[k] # "paid" =>
       \/ \E j \in Attempts : call[j] = "close" /\ found[j] = k
       \/ \E w \in Workers : wpc[w] = "writeOff" /\ at[w] = k]_vars

\* What became of a session and its money, the booking it is for, the charges that
\* are on record and those whose webhook was answered.
Outcome(k) ==
  CASE stripe[k] = "none" -> "none"
    [] stripe[k] \in {"open", "settling"} -> "open"
    [] stripe[k] = "paid" -> "charged"
    [] OTHER -> "void"
Purpose(k) == IF stripe[k] = "none" THEN NoBooking ELSE slot[k]
Standing == {k \in Attempts : rowStatus[k] = "paid"}
Answered == {k \in Attempts : hook[k] = "done"}

Ledger == INSTANCE ChargeConfirmation WITH
  Sessions <- Attempts,
  Ours <- Attempts \ ByHand,
  outcome <- [k \in Attempts |-> Outcome(k)],
  purpose <- [k \in Attempts |-> Purpose(k)],
  standing <- Standing,
  answered <- Answered

\* Webhook, sweep and checkout implement the confirmation of charges: whatever they
\* interleave, crash and repeat, each of their steps is one of that story, or none.
ConfirmsCharges == Ledger!Spec

\* The charge of k came second: the prospect has a paid row for another session.
PaidElsewhere(k) == \E j \in Attempts \ {k} : rowStatus[j] = "paid"

\* Whatever crashes, the webhook of a charge is answered in the end, unless the
\* charge came second.
ChargeGetsAnswered ==
  \A k \in Attempts :
    (stripe[k] = "paid" /\ hook[k] = "due") ~> (hook[k] \in {"done", "lost"} \/ PaidElsewhere(k))

\* ... and a prospect people leave alone meanwhile ends up booked, again unless the
\* charge came second: the index refuses it for ever, and the handler of the first
\* charge may have died, and its event been lost, before the stage was written.
ChargeGetsBooked ==
  \A k \in Attempts :
    (stripe[k] = "paid" /\ Bookable)
      ~> \/ stage \notin {"captured", "pre_screened"} \/ ~Bookable
         \/ hook[k] = "lost" \/ PaidElsewhere(k)

\* The sweep decides every stale row that has a session id, even when its webhook
\* is lost; the row of a charge that came second it can only leave open.
SweepResolves ==
  \A k \in Attempts :
    (rowStatus[k] = "created" /\ rowSid[k] /\ age[k] = "stale")
      ~> (rowStatus[k] # "created" \/ (stripe[k] = "paid" /\ PaidElsewhere(k)))

-----------------------------------------------------------------------------
(* Claims of the documentation that the code does not keep *)

\* A row recorded as paid stays paid (markSessionUnpaid: an un-pay is "the one
\* write in this file that could lose money").
PaidIsFinal ==
  [][\A k \in Attempts : rowStatus[k] = "paid" => rowStatus'[k] = "paid"]_vars

\* The webhook of every charge is answered in the end: "the retry that follows must
\* be able to finish the job rather than trip over the part that already succeeded".
EveryChargeAnswered ==
  \A k \in Attempts :
    (stripe[k] = "paid" /\ hook[k] = "due") ~> hook[k] \in {"done", "lost"}

\* advanceStage "never moves it backward", and "disqualified ... is terminal".
StageMovesForward == [][STAGE_ORDER[stage'] >= STAGE_ORDER[stage]]_vars

\* "A cancelled paid consult is a human decision ..., not something a webhook should
\* make on its own": no cancelled booking becomes confirmed.
CancelledStands ==
  [][\A b \in Bookings : booking[b] = "cancelled" => booking'[b] # "confirmed"]_vars

==============================================================================
