---------------------------- MODULE CalendlyBooking ----------------------------
(***************************************************************************)
(* How the slots a prospect takes at Calendly become rows of               *)
(* consultation_bookings: the two invitee webhooks, which arrive late, in  *)
(* any order and again after a failure, and the browser, which reports the *)
(* slot it has just watched being confirmed (reportBooking).               *)
(*                                                                         *)
(* Every `await` is a boundary between two steps.  A handler is named by   *)
(* its event: an event has one worker at a time and none once it is done,  *)
(* which is what WebhookEvents is shown to guarantee (ExclusiveHandling).  *)
(* Times, links and contact details are left out, and so is the summary    *)
(* refresh, which ProspectIntake models.                                   *)
(***************************************************************************)
EXTENDS Naturals, FiniteSets

CONSTANTS
  Slots,             \* Calendly invitees (inviteeUri), all of one prospect
  NoSlot,
  Reports,           \* calls of reportBooking
  Deployments,       \* settings of `config` to start from
  GivenUp,           \* bound: slots that may be cancelled at Calendly
  MaxFaults,         \* bound: handlers that crash or whose await fails
  MaxInterventions   \* bound: what the agent, or a payment, does meanwhile

ASSUME SlotsAreFinite ==
  IsFiniteSet(Slots) /\ NoSlot \notin Slots /\ GivenUp \subseteq Slots
ASSUME ReportsAreFinite == IsFiniteSet(Reports)
ASSUME DeploymentsAreSettings ==
  /\ Deployments \subseteq
       [free : BOOLEAN, uriShown : BOOLEAN, linked : SUBSET Slots, astray : SUBSET Slots]
  /\ \A d \in Deployments : d.linked \cap d.astray = {}
ASSUME BoundsAreNat == MaxFaults \in Nat /\ MaxInterventions \in Nat

VARIABLES
  free,          \* ~PaymentsService.paymentsEnabled()
  uriShown,      \* the embed's message carries the invitee URI
  linked,        \* the slots whose link carried the prospect id
  astray,        \* those with something else in its place, that is no prospect's id
  cleared,       \* the prospect may book: both flags true and not disqualified
  booked,        \* prospects.stage has reached booked
  created,       \* created[i]: invitee.created of i, and where its handler stands
  canceled,      \* canceled[i]: the same of invitee.canceled
  row,           \* row[r]: consultation_bookings, in order of created_at
  rpc, saw,      \* where report k stands; the slot its browser saw
  target, cancels,  \* the row the created, the canceled handler of i has found
  paid,          \* the rows a payment has confirmed (history)
  settled,       \* rows cancelled or completed after their creation was handled (history)
  faults, interventions

config == <<free, uriShown, linked, astray>>
prospect == <<cleared, booked>>
events == <<created, canceled>>
reports == <<rpc, saw>>
targets == <<target, cancels>>
history == <<paid, settled>>
bounds == <<faults, interventions>>
vars == <<config, prospect, events, row, reports, targets, history, bounds>>

\* Enough rows for every report and every created event to insert one, and for every
\* row an agent deletes to be inserted again.
Rows == 1..(Cardinality(Reports) + Cardinality(Slots) + MaxInterventions)
NoRow == 0
BookingStatuses == {"none", "pending", "confirmed", "completed", "cancelled", "deleted"}
Rest == {"none", "due", "done"}
CreatedSteps == {"find", "adopt", "insert", "free", "confirm", "advance", "mark"}
CanceledSteps == {"cancel", "mark"}

Booking == [
  status : BookingStatuses,
  event : Slots \cup {NoSlot},   \* scheduler_event_id
  reported : BOOLEAN,            \* client_reported_at is set
  owned : BOOLEAN,               \* prospect_id is set
  shows : Slots \cup {NoSlot}]   \* the slot the browser saw, while event is null (history)

Absent == [status |-> "none", event |-> NoSlot, reported |-> FALSE, owned |-> FALSE,
           shows |-> NoSlot]

TypeOK ==
  /\ free \in BOOLEAN /\ uriShown \in BOOLEAN
  /\ linked \subseteq Slots /\ astray \subseteq Slots
  /\ cleared \in BOOLEAN /\ booked \in BOOLEAN
  /\ created \in [Slots -> Rest \cup CreatedSteps]
  /\ canceled \in [Slots -> Rest \cup CanceledSteps]
  /\ row \in [Rows -> Booking]
  /\ rpc \in [Reports -> {"idle", "insert", "done"}] /\ saw \in [Reports -> Slots \cup {NoSlot}]
  /\ target \in [Slots -> Rows \cup {NoRow}] /\ cancels \in [Slots -> Rows \cup {NoRow}]
  /\ \A i \in Slots :
       /\ created[i] \in {"adopt", "free", "confirm", "advance"} => target[i] \in Rows
       /\ canceled[i] = "cancel" => cancels[i] \in Rows
  /\ paid \subseteq Rows /\ settled \subseteq Rows
  /\ faults \in 0..MaxFaults /\ interventions \in 0..MaxInterventions

\* Whether payments are on, what the embed tells the browser and which links still
\* carry the prospect id are fixed by the deployment.  Which slots will be taken, and
\* which of them given up, is chosen here; when their events arrive is not.
Init ==
  /\ \E d \in Deployments :
       free = d.free /\ uriShown = d.uriShown /\ linked = d.linked /\ astray = d.astray
  /\ cleared = TRUE /\ booked = FALSE
  /\ created \in [Slots -> {"none", "due"}]
  /\ canceled \in {c \in [Slots -> {"none", "due"}] :
                     \A i \in Slots : c[i] = "due" => created[i] = "due" /\ i \in GivenUp}
  /\ row = [r \in Rows |-> Absent]
  /\ rpc = [k \in Reports |-> "idle"] /\ saw = [k \in Reports |-> NoSlot]
  /\ target = [i \in Slots |-> NoRow] /\ cancels = [i \in Slots |-> NoRow]
  /\ paid = {} /\ settled = {}
  /\ faults = 0 /\ interventions = 0

Fault == faults < MaxFaults /\ faults' = faults + 1 /\ UNCHANGED interventions
Intervention ==
  interventions < MaxInterventions /\ interventions' = interventions + 1 /\ UNCHANGED faults

Exists(r) == r \in Rows /\ row[r].status \notin {"none", "deleted"}
Taken == {i \in Slots : created[i] # "none"}

\* findBySchedulerEventId; the column has a unique index.
WithEvent(i) == {r \in Rows : Exists(r) /\ row[r].event = i}

\* A plausible error: any pending row of the prospect, whatever slot it stands for.
AnyPending == {r \in Rows : Exists(r) /\ row[r].owned /\ row[r].status = "pending"}

\* findClientReportedForProspect's candidates; it takes the latest.
ClientReported ==
  {r \in Rows : /\ Exists(r) /\ row[r].owned /\ row[r].status = "pending"
                /\ row[r].reported /\ row[r].event = NoSlot}

\* findLatestForProspect finds nothing.
NoBooking == \A r \in Rows : Exists(r) => ~row[r].owned

\* INSERT: the next row; `e` is the scheduler_event_id it is given.
Unique(e, r) == e = NoSlot \/ WithEvent(e) \subseteq {r}
IsNext(r) == row[r].status = "none" /\ \A q \in Rows : q < r => row[q].status # "none"

-----------------------------------------------------------------------------
(* The agent and payments *)

Write(r, status) ==
  /\ Exists(r) /\ Intervention
  /\ row' = [row EXCEPT ![r].status = status]
  /\ UNCHANGED <<config, prospect, events, reports, targets>>

Handled(r) == row[r].event \in Slots /\ created[row[r].event] = "done"

DeliverStrategy(r) ==
  /\ Write(r, "completed") /\ UNCHANGED paid
  /\ settled' = IF Handled(r) THEN settled \cup {r} ELSE settled

DeleteBooking(r) == Write(r, "deleted") /\ UNCHANGED history

\* markPaidWithBooking (ConsultPayment): `confirmed` over any status.
PaymentConfirms(r) ==
  /\ ~free /\ row[r].owned /\ Write(r, "confirmed")
  /\ paid' = paid \cup {r} /\ UNCHANGED settled

\* A review or a stage clears the prospect for booking, or no longer does.
Review ==
  /\ Intervention
  /\ cleared' = ~cleared
  /\ UNCHANGED <<config, booked, events, row, reports, targets, history>>

-----------------------------------------------------------------------------
(* reportBooking, called by the browser that saw slot i being confirmed *)

\* getPublicStatus, the screen, and the return when the prospect has any booking.
Report(k, i) ==
  /\ rpc[k] = "idle" /\ created[i] # "none"
  /\ IF cleared /\ NoBooking
     THEN rpc' = [rpc EXCEPT ![k] = "insert"] /\ saw' = [saw EXCEPT ![k] = i]
     ELSE rpc' = [rpc EXCEPT ![k] = "done"] /\ UNCHANGED saw
  /\ UNCHANGED <<config, prospect, events, row, targets, history, bounds>>

\* A second row with the same invitee URI is refused by the index: 500.
ReportInsert(k) ==
  LET e == IF uriShown THEN saw[k] ELSE NoSlot IN
  /\ rpc[k] = "insert"
  /\ rpc' = [rpc EXCEPT ![k] = "done"] /\ saw' = [saw EXCEPT ![k] = NoSlot]
  /\ \E r \in Rows :
       /\ IsNext(r)
       /\ row' = IF Unique(e, r)
                 THEN [row EXCEPT ![r] = [status |-> "pending", event |-> e, owned |-> TRUE,
                                          reported |-> TRUE,
                                          shows |-> IF uriShown THEN NoSlot ELSE saw[k]]]
                 ELSE row
  /\ UNCHANGED <<config, prospect, events, targets, history, bounds>>

-----------------------------------------------------------------------------
(* invitee.created *)

Goto(i, from, to) == created[i] = from /\ created' = [created EXCEPT ![i] = to]

\* The next step is about row r.
GotoRow(i, from, to, r) == Goto(i, from, to) /\ target' = [target EXCEPT ![i] = r]

\* A plausible error: no check that the lookup found a row.
MatchUnchecked(i) ==
  IF i \in linked THEN Goto(i, "find", "adopt") /\ UNCHANGED target
  ELSE Goto(i, "find", "insert") /\ UNCHANGED target

\* Of a known prospect, a row the browser reported without a URI is taken to be this
\* slot's, the latest one first.
MatchReported(i) ==
  \/ /\ i \notin linked \/ ClientReported = {}
     /\ Goto(i, "find", "insert") /\ UNCHANGED target
  \/ \E r \in ClientReported :
       /\ i \in linked /\ \A q \in ClientReported : q <= r
       /\ GotoRow(i, "find", "adopt", r)

\* An await threw, or the process died: the event is delivered again.
Throw(i) ==
  created' = [created EXCEPT ![i] = "due"] /\ target' = [target EXCEPT ![i] = NoRow]

\* A plausible error: an idempotency key that changes with every delivery.
StartCreatedAgain(i) ==
  /\ i \notin astray
  /\ \/ Goto(i, "due", IF i \in linked /\ ~cleared THEN "mark" ELSE "find")
     \/ Goto(i, "done", IF i \in linked /\ ~cleared THEN "mark" ELSE "find")
  /\ UNCHANGED <<config, prospect, canceled, row, reports, targets, history, bounds>>

\* The handler reads the prospect first; one who may not book is left to manual review.
\* For an id that is no prospect's the lookup throws, whenever the event is delivered.
StartCreated(i) ==
  /\ i \notin astray
  /\ Goto(i, "due", IF i \in linked /\ ~cleared THEN "mark" ELSE "find")
  /\ UNCHANGED <<config, prospect, canceled, row, reports, targets, history, bounds>>

\* A plausible error: a replay of a slot that has its row is skipped as finished.
FindSkippingReplays(i) ==
  /\ \/ \E r \in WithEvent(i) :
          GotoRow(i, "find", IF row[r].reported THEN "adopt" ELSE "mark", r)
     \/ WithEvent(i) = {} /\ MatchReported(i)
  /\ UNCHANGED <<config, prospect, canceled, row, reports, cancels, history, bounds>>

\* A plausible error: the lookup takes only rows that the browser did not report.
FindUnreported(i) ==
  LET known == {r \in WithEvent(i) : ~row[r].reported} IN
  /\ \/ \E r \in known : GotoRow(i, "find", "free", r)
     \/ known = {} /\ MatchReported(i)
  /\ UNCHANGED <<config, prospect, canceled, row, reports, cancels, history, bounds>>

\* The row that has this URI, or else one to match.  (Both reads in one step: no write
\* of another request between them can show itself to both.)
Find(i) ==
  /\ \/ \E r \in WithEvent(i) :
          GotoRow(i, "find", IF row[r].reported THEN "adopt" ELSE "free", r)
     \/ WithEvent(i) = {} /\ MatchReported(i)
  /\ UNCHANGED <<config, prospect, canceled, row, reports, cancels, history, bounds>>

\* The update by id throws when the row is gone or another one has the URI.
Adopt(i) ==
  LET r == target[i] IN
  /\ created[i] = "adopt"
  /\ IF Exists(r) /\ Unique(i, r)
     THEN /\ row' = [row EXCEPT ![r].event = i, ![r].reported = FALSE, ![r].shows = NoSlot]
          /\ Goto(i, "adopt", "free") /\ UNCHANGED target
     ELSE UNCHANGED row /\ Throw(i)
  /\ UNCHANGED <<config, prospect, canceled, reports, cancels, history, bounds>>

Insert(i) ==
  /\ created[i] = "insert"
  /\ \E r \in Rows :
       /\ IsNext(r)
       /\ IF Unique(i, r)
          THEN /\ row' = [row EXCEPT ![r] =
                            [status |-> "pending", event |-> i, owned |-> i \in linked,
                             reported |-> FALSE, shows |-> NoSlot]]
               /\ GotoRow(i, "insert", "free", r)
          ELSE UNCHANGED row /\ Throw(i)
  /\ UNCHANGED <<config, prospect, canceled, reports, cancels, history, bounds>>

\* A plausible error: bookings are confirmed although they are to be paid for.
ConfirmsPaying(i) == i \in linked

\* confirmFreeBooking is for a known prospect, while payments are off.
Confirms(i) == free /\ i \in linked

\* Its reads: a row that has gone throws, a cancelled one is left alone ...
ReadForFree(i) ==
  LET r == target[i] IN
  /\ created[i] = "free"
  /\ \/ /\ Confirms(i) => row[r].status = "cancelled"
        /\ Goto(i, "free", "mark") /\ UNCHANGED target
     \/ /\ Confirms(i) /\ Exists(r) /\ row[r].status # "cancelled"
        /\ Goto(i, "free", "confirm") /\ UNCHANGED target
     \/ Confirms(i) /\ ~Exists(r) /\ Throw(i)
  /\ UNCHANGED <<config, prospect, canceled, row, reports, cancels, history, bounds>>

\* ... its write, over whatever the status has become ...
ConfirmFree(i) ==
  LET r == target[i] IN
  /\ created[i] = "confirm"
  /\ IF Exists(r)
     THEN /\ row' = [row EXCEPT ![r].status = "confirmed"]
          /\ Goto(i, "confirm", "advance") /\ UNCHANGED target
     ELSE UNCHANGED row /\ Throw(i)
  /\ UNCHANGED <<config, prospect, canceled, reports, cancels, history, bounds>>

\* ... and advanceStage('booked'), which throws for a prospect no longer cleared.
Advance(i) ==
  /\ created[i] = "advance"
  /\ IF cleared THEN booked' = TRUE /\ Goto(i, "advance", "mark") /\ UNCHANGED target
     ELSE UNCHANGED booked /\ Throw(i)
  /\ UNCHANGED <<config, cleared, canceled, row, reports, cancels, history, bounds>>

\* markProcessed.
MarkCreated(i) ==
  /\ created[i] = "mark"
  /\ created' = [created EXCEPT ![i] = "done"] /\ target' = [target EXCEPT ![i] = NoRow]
  /\ UNCHANGED <<config, prospect, canceled, row, reports, cancels, history, bounds>>

-----------------------------------------------------------------------------
(* invitee.canceled *)

\* A cancellation of an unknown invitee is dropped with a warning.
StartCanceled(i) ==
  /\ canceled[i] = "due"
  /\ \/ /\ WithEvent(i) = {} /\ UNCHANGED cancels
        /\ canceled' = [canceled EXCEPT ![i] = "mark"]
     \/ \E r \in WithEvent(i) :
          /\ canceled' = [canceled EXCEPT ![i] = "cancel"]
          /\ cancels' = [cancels EXCEPT ![i] = r]
  /\ UNCHANGED <<config, prospect, created, row, reports, target, history, bounds>>

Cancel(i) ==
  LET r == cancels[i] IN
  /\ canceled[i] = "cancel"
  /\ IF Exists(r)
     THEN /\ row' = [row EXCEPT ![r].status = "cancelled"]
          /\ canceled' = [canceled EXCEPT ![i] = "mark"]
          /\ settled' = IF Handled(r) THEN settled \cup {r} ELSE settled
     ELSE canceled' = [canceled EXCEPT ![i] = "due"] /\ UNCHANGED <<row, settled>>
  /\ UNCHANGED <<config, prospect, created, reports, targets, paid, bounds>>

MarkCanceled(i) ==
  /\ canceled[i] = "mark"
  /\ canceled' = [canceled EXCEPT ![i] = "done"] /\ cancels' = [cancels EXCEPT ![i] = NoRow]
  /\ UNCHANGED <<config, prospect, created, row, reports, target, history, bounds>>

-----------------------------------------------------------------------------
\* A handler dies, or a read or write of its fails; its event is still due.
Fail(i) ==
  /\ Fault
  /\ \/ /\ created[i] \notin Rest /\ Throw(i) /\ UNCHANGED canceled
        /\ UNCHANGED cancels
     \/ /\ canceled[i] \notin Rest /\ UNCHANGED <<created, target>>
        /\ canceled' = [canceled EXCEPT ![i] = "due"]
        /\ cancels' = [cancels EXCEPT ![i] = NoRow]
  /\ UNCHANGED <<config, prospect, row, reports, history>>

HandleCreated(i) ==
  \/ Find(i) \/ Adopt(i) \/ Insert(i)
  \/ ReadForFree(i) \/ ConfirmFree(i) \/ Advance(i) \/ MarkCreated(i)

HandleCanceled(i) == Cancel(i) \/ MarkCanceled(i)

Next ==
  \/ \E r \in Rows : DeliverStrategy(r) \/ DeleteBooking(r) \/ PaymentConfirms(r)
  \/ Review
  \/ \E k \in Reports : (\E i \in Slots : Report(k, i)) \/ ReportInsert(k)
  \/ \E i \in Slots :
       \/ StartCreated(i) \/ HandleCreated(i)
       \/ StartCanceled(i) \/ HandleCanceled(i) \/ Fail(i)

Spec == Init /\ [][Next]_vars

\* Code that has been reached runs, and Calendly delivers an event until it is done.
Fairness ==
  \A i \in Slots :
    /\ WF_vars(StartCreated(i)) /\ WF_vars(HandleCreated(i))
    /\ WF_vars(StartCanceled(i)) /\ WF_vars(HandleCanceled(i))

FairSpec == Spec /\ Fairness

-----------------------------------------------------------------------------
(* Properties that hold *)

\* A row reported without a URI can be taken for another slot of the prospect; with
\* the URI, or with one slot in play, it cannot.
Unambiguous == uriShown \/ Cardinality(Taken) <= 1

\* No slot that was handled is invisible to the agent: its created event is marked
\* processed only when one row carries its URI with Calendly's own data, unless the
\* prospect was held back by the screen or the agent deleted a row.
HandledIsBooked ==
  Unambiguous /\ interventions = 0 =>
    \A i \in Slots : created[i] = "done" =>
      \E r \in WithEvent(i) : ~row[r].reported

\* "It cannot confirm anything -- that remains Stripe's webhook alone": with payments
\* on, whatever Calendly and the browser send, a confirmed row has been paid.
OnlyStripeConfirms ==
  ~free => \A r \in Rows : row[r].status = "confirmed" => r \in paid

\* A booking that was cancelled or completed after its slot was handled is settled: no
\* late, repeated or overtaking delivery brings it back into the agent's queue or onto
\* the prospect's page as held.  Only a payment can confirm it again.
SettledStays ==
  Unambiguous =>
    \A r \in settled : row[r].status \in {"completed", "cancelled", "deleted"} \/ r \in paid

\* Whatever deliveries, the browser and the agent have left behind, a retry of
\* invitee.created gets past it and is processed in the end.  The one poisoned event is
\* that of a slot gone astray, which fails at every delivery.
EventuallyAnswered ==
  \A i \in Slots : (created[i] = "due" /\ i \notin astray) ~> created[i] = "done"

\* With payments off, a slot that is kept by a prospect who may book ends up
\* confirmed, however often its handler is interrupted.
FreeSlotConfirmed ==
  \A i \in Slots :
    (free /\ i \in linked /\ created[i] = "due" /\ cleared)
      ~> \/ \E r \in WithEvent(i) : row[r].status \in {"confirmed", "completed"}
         \/ canceled[i] # "none" \/ interventions > 0 \/ ~Unambiguous

-----------------------------------------------------------------------------
(* A claim of the documentation that the code does not keep *)

\* "Creating a second one would leave the agent with two rows for one slot": at most
\* one row stands for a slot.
SlotOf(r) == IF row[r].event = NoSlot THEN row[r].shows ELSE row[r].event
OneRowPerSlot ==
  \A q, r \in Rows : Exists(q) /\ Exists(r) /\ SlotOf(q) = SlotOf(r) => q = r

==============================================================================
