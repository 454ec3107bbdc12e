------------------------- MODULE CalendlyBooking_proofs -------------------------
(***************************************************************************)
(* Proofs about CalendlyBooking, for any number of slots, reports, faults  *)
(* and interventions, and for every deployment.                            *)
(***************************************************************************)
EXTENDS CalendlyBooking, FiniteSetTheorems, TLAPS

-----------------------------------------------------------------------------
(* The inductive invariant *)

\* The unique index on scheduler_event_id: an invitee has at most one row.
OneRowPerInvitee ==
  \A q, r \in Rows :
    Exists(q) /\ Exists(r) /\ row[q].event # NoSlot /\ row[q].event = row[r].event => q = r

\* A report that is about to insert has seen a slot, and a row that a handler is about
\* has been inserted: no insertion can take its place.
Held ==
  /\ \A k \in Reports : rpc[k] = "insert" => saw[k] \in Taken
  /\ \A i \in Slots :
       created[i] \in {"adopt", "free", "confirm", "advance"} => row[target[i]].status # "none"

\* Only bookings that are free are confirmed by their handler.
FreeOnly == \A i \in Slots : created[i] \in {"confirm", "advance"} => free

\* The handler of a slot works on the row of that slot.  On its way to a row without an
\* invitee nobody can overtake it: such a row is there only when the embed shows no URI,
\* and then no other slot is in play.
OwnRow ==
  Unambiguous =>
    /\ uriShown => \A r \in Rows : row[r].status # "none" => row[r].event \in Slots
    /\ \A i \in Slots :
         /\ created[i] = "adopt" => row[target[i]].event \in {i, NoSlot}
         /\ created[i] \in {"free", "confirm", "advance"} => row[target[i]].event = i

\* A settled row keeps its slot, and the slot its handler, which is done with it.
SettledIsHandled ==
  Unambiguous => \A r \in settled : row[r].status # "none" /\ Handled(r)

\* While the agent has not stepped in, no row goes, and a handler that is past its write
\* has left the row of its slot with Calendly's own data.
Undisturbed ==
  interventions = 0 => cleared /\ \A r \in Rows : row[r].status # "deleted"
Written ==
  Unambiguous /\ interventions = 0 =>
    \A i \in Slots :
      created[i] \in {"free", "confirm", "advance", "mark", "done"} =>
        \E r \in WithEvent(i) : ~row[r].reported

Inv ==
  /\ TypeOK /\ OneRowPerInvitee /\ Held /\ FreeOnly /\ OwnRow /\ SettledIsHandled
  /\ Undisturbed /\ Written /\ OnlyStripeConfirms /\ SettledStays

-----------------------------------------------------------------------------
(* Types *)

LEMMA RowsAreNumbers == NoRow \notin Rows
BY DEF Rows, NoRow

LEMMA FaultType ==
  ASSUME TypeOK, Fault
  PROVE  faults' \in 0..MaxFaults /\ interventions' \in 0..MaxInterventions
BY BoundsAreNat DEF TypeOK, Fault

LEMMA InterventionType ==
  ASSUME TypeOK, Intervention
  PROVE  faults' \in 0..MaxFaults /\ interventions' \in 0..MaxInterventions
BY BoundsAreNat DEF TypeOK, Intervention

LEMMA TypesInit == Init => TypeOK
<1> SUFFICES ASSUME Init PROVE TypeOK
  OBVIOUS
<1>1. free \in BOOLEAN /\ uriShown \in BOOLEAN /\ linked \subseteq Slots /\ astray \subseteq Slots
  BY DeploymentsAreSettings DEF Init
<1>2. row \in [Rows -> Booking]
  BY DEF Init, Absent, Booking, BookingStatuses
<1>3. created \in [Slots -> {"none", "due"}] /\ canceled \in [Slots -> {"none", "due"}]
  BY DEF Init
<1>4. /\ created \in [Slots -> Rest \cup CreatedSteps]
      /\ canceled \in [Slots -> Rest \cup CanceledSteps]
      /\ \A i \in Slots :
           /\ created[i] \notin {"adopt", "free", "confirm", "advance"}
           /\ canceled[i] # "cancel"
  BY <1>3 DEF Rest, CreatedSteps, CanceledSteps
<1>5. /\ rpc \in [Reports -> {"idle", "insert", "done"}]
      /\ saw \in [Reports -> Slots \cup {NoSlot}]
      /\ target \in [Slots -> Rows \cup {NoRow}] /\ cancels \in [Slots -> Rows \cup {NoRow}]
  BY DEF Init
<1>6. faults \in 0..MaxFaults /\ interventions \in 0..MaxInterventions
  BY BoundsAreNat DEF Init
<1>7. cleared \in BOOLEAN /\ booked \in BOOLEAN /\ paid \subseteq Rows /\ settled \subseteq Rows
  BY DEF Init
<1>8. QED
  BY <1>1, <1>2, <1>4, <1>5, <1>6, <1>7 DEF TypeOK

LEMMA TypesStep ==
  ASSUME TypeOK, Next
  PROVE  TypeOK'
<1> USE DEF TypeOK, Rest, CreatedSteps, CanceledSteps, config, prospect, events, reports,
            targets, history, bounds
<1>1. ASSUME NEW r \in Rows, DeliverStrategy(r) \/ DeleteBooking(r) \/ PaymentConfirms(r)
      PROVE  TypeOK'
  BY <1>1, InterventionType
     DEF DeliverStrategy, DeleteBooking, PaymentConfirms, Write, Booking, BookingStatuses
<1>2. ASSUME Review PROVE TypeOK'
  BY <1>2, InterventionType DEF Review
<1>3. ASSUME NEW k \in Reports, NEW i \in Slots, Report(k, i) PROVE TypeOK'
  BY <1>3 DEF Report
<1>4. ASSUME NEW k \in Reports, ReportInsert(k) PROVE TypeOK'
  BY <1>4, SlotsAreFinite DEF ReportInsert, Booking, BookingStatuses
<1>5. ASSUME NEW i \in Slots, StartCreated(i) PROVE TypeOK'
  BY <1>5 DEF StartCreated, Goto
<1>6. ASSUME NEW i \in Slots, Find(i) PROVE TypeOK'
  BY <1>6 DEF Find, WithEvent, GotoRow, Goto, MatchReported, ClientReported
<1>7. ASSUME NEW i \in Slots, Adopt(i) PROVE TypeOK'
  <2> DEFINE r == target[i]
  <2>1. r \in Rows
    BY <1>7 DEF Adopt
  <2>2. row' \in [Rows -> Booking]
    BY <1>7, <2>1 DEF Adopt, Booking
  <2>3. QED
    BY <1>7, <2>2 DEF Adopt, Goto, Throw
<1>8. ASSUME NEW i \in Slots, Insert(i) PROVE TypeOK'
  <2> DEFINE new == [status |-> "pending", event |-> i, owned |-> i \in linked,
                     reported |-> FALSE, shows |-> NoSlot]
  <2>1. (i \in linked) \in BOOLEAN
    OBVIOUS
  <2>2. new \in Booking
    BY <2>1, Zenon DEF Booking, BookingStatuses
  <2> HIDE DEF new
  <2>3. row' \in [Rows -> Booking]
    BY <1>8, <2>2 DEF Insert, new
  <2>4. QED
    BY <1>8, <2>3 DEF Insert, GotoRow, Goto, Throw
<1>9. ASSUME NEW i \in Slots, ReadForFree(i) \/ Advance(i) \/ MarkCreated(i) PROVE TypeOK'
  BY <1>9 DEF ReadForFree, Advance, MarkCreated, Goto, Throw
<1>10. ASSUME NEW i \in Slots, ConfirmFree(i) PROVE TypeOK'
  BY <1>10 DEF ConfirmFree, Goto, Throw, Booking, BookingStatuses
<1>11. ASSUME NEW i \in Slots, StartCanceled(i) \/ MarkCanceled(i) PROVE TypeOK'
  <2>1. CASE StartCanceled(i)
    BY <2>1 DEF StartCanceled, WithEvent
  <2>2. CASE MarkCanceled(i)
    BY <2>2 DEF MarkCanceled
  <2>3. QED
    BY <1>11, <2>1, <2>2
<1>12. ASSUME NEW i \in Slots, Cancel(i) PROVE TypeOK'
  BY <1>12 DEF Cancel, Booking, BookingStatuses, Exists
<1>13. ASSUME NEW i \in Slots, Fail(i) PROVE TypeOK'
  BY <1>13, FaultType DEF Fail, Throw
<1>14. QED
  BY <1>1, <1>2, <1>3, <1>4, <1>5, <1>6, <1>7, <1>8, <1>9, <1>10, <1>11, <1>12, <1>13
     DEF Next, HandleCreated, HandleCanceled

-----------------------------------------------------------------------------
(* What any step may do *)

\* Two slots in play are the same one when the embed shows no URI.
LEMMA OnlyOneTaken ==
  ASSUME TypeOK, Unambiguous, ~uriShown, NEW i \in Taken, NEW j \in Taken
  PROVE  i = j
<1> SUFFICES ASSUME i # j PROVE FALSE
  OBVIOUS
<1>1. IsFiniteSet(Taken)
  BY SlotsAreFinite, FS_Subset DEF Taken
<1>2. IsFiniteSet({i}) /\ Cardinality({i}) = 1 /\ j \notin {i}
  BY FS_Singleton
<1>3. Cardinality({i} \cup {j}) = 2
  BY <1>2, FS_AddElement
<1>4. Cardinality({i} \cup {j}) <= Cardinality(Taken)
  BY <1>1, FS_Subset
<1>5. Cardinality(Taken) \in Nat /\ Cardinality(Taken) <= 1
  BY <1>1, FS_CardinalityType DEF Unambiguous
<1>6. QED
  BY <1>3, <1>4, <1>5

\* The deployment stays as it was, and so does the set of slots that were taken; an event
\* that is done stays done, and a payment or an intervention is not taken back.
LEMMA SettingStays ==
  ASSUME TypeOK, Next
  PROVE  /\ UNCHANGED config /\ Taken' = Taken /\ Unambiguous' = Unambiguous
         /\ \A i \in Slots : created[i] = "done" => created'[i] = "done"
         /\ paid \subseteq paid' /\ (interventions' = 0 => UNCHANGED <<interventions, cleared>>)
<1> DEFINE Stays ==
      /\ UNCHANGED config
      /\ \A i \in Slots : /\ created[i] = "done" => created'[i] = "done"
                          /\ created'[i] = "none" <=> created[i] = "none"
      /\ paid \subseteq paid' /\ (interventions' = 0 => UNCHANGED <<interventions, cleared>>)
<1>1. Stays
  <2>1. ASSUME Intervention PROVE interventions' # 0
    BY <2>1 DEF Intervention, TypeOK
  <2> USE DEF TypeOK, Rest, CreatedSteps, config, events, targets, prospect, history, bounds
  <2>2. ASSUME NEW r \in Rows, DeliverStrategy(r) \/ DeleteBooking(r) \/ PaymentConfirms(r)
        PROVE  Stays
    BY <2>1, <2>2 DEF DeliverStrategy, DeleteBooking, PaymentConfirms, Write
  <2>3. ASSUME Review \/ \E k \in Reports : (\E i \in Slots : Report(k, i)) \/ ReportInsert(k)
        PROVE  Stays
    BY <2>1, <2>3 DEF Review, Report, ReportInsert
  <2>4. ASSUME NEW i \in Slots, StartCreated(i) \/ Find(i) \/ Adopt(i) \/ Insert(i)
        PROVE  Stays
    BY <2>4 DEF StartCreated, Find, MatchReported, Adopt, Insert, GotoRow, Goto, Throw
  <2>5. ASSUME NEW i \in Slots,
               ReadForFree(i) \/ ConfirmFree(i) \/ Advance(i) \/ MarkCreated(i)
        PROVE  Stays
    BY <2>5 DEF ReadForFree, ConfirmFree, Advance, MarkCreated, Goto, Throw
  <2>6. ASSUME NEW i \in Slots, StartCanceled(i) \/ HandleCanceled(i) \/ Fail(i)
        PROVE  Stays
    BY <2>6 DEF StartCanceled, HandleCanceled, Cancel, MarkCanceled, Fail, Fault, Throw
  <2>7. QED
    BY <2>2, <2>3, <2>4, <2>5, <2>6 DEF Next, HandleCreated
<1>2. QED
  BY <1>1 DEF Taken, Unambiguous, config

\* A row changes its status: it is deleted by the agent only, and confirmed by a payment
\* or by the handler that is about to; ...
StatusWritten(r) ==
  /\ Exists(r)
  /\ \E s \in {"completed", "deleted", "confirmed", "cancelled"} :
       /\ row' = [row EXCEPT ![r].status = s]
       /\ s = "deleted" => Intervention
       /\ s = "confirmed" =>
            r \in paid' \/ \E i \in Slots : created[i] = "confirm" /\ target[i] = r
\* ... it takes the invitee of the handler that adopts it; ...
Adopted(r, i) ==
  /\ Exists(r) /\ Unique(i, r) /\ created[i] = "adopt" /\ target[i] = r
  /\ row' = [row EXCEPT ![r].event = i, ![r].reported = FALSE, ![r].shows = NoSlot]
\* ... or it is new.
Inserted(r, b) ==
  /\ row[r].status = "none" /\ b.status = "pending" /\ Unique(b.event, r)
  /\ uriShown => b.event \in Slots
  /\ row' = [row EXCEPT ![r] = b]

LEMMA RowStep ==
  ASSUME TypeOK, Held, Next
  PROVE  \/ UNCHANGED row
         \/ \E r \in Rows : StatusWritten(r)
         \/ \E r \in Rows, i \in Slots : Adopted(r, i)
         \/ \E r \in Rows, b \in Booking : Inserted(r, b)
<1> DEFINE Goal == \/ UNCHANGED row
                   \/ \E r \in Rows : StatusWritten(r)
                   \/ \E r \in Rows, i \in Slots : Adopted(r, i)
                   \/ \E r \in Rows, b \in Booking : Inserted(r, b)
<1>1. ASSUME NEW r \in Rows, DeliverStrategy(r) \/ DeleteBooking(r) \/ PaymentConfirms(r)
      PROVE  Goal
  BY <1>1 DEF DeliverStrategy, DeleteBooking, PaymentConfirms, Write, StatusWritten
<1>2. ASSUME Review \/ \E k \in Reports, i \in Slots : Report(k, i) PROVE Goal
  BY <1>2 DEF Review, Report
<1>3. ASSUME NEW k \in Reports, ReportInsert(k) PROVE Goal
  <2> DEFINE e == IF uriShown THEN saw[k] ELSE NoSlot
             new == [status |-> "pending", event |-> e, owned |-> TRUE, reported |-> TRUE,
                     shows |-> IF uriShown THEN NoSlot ELSE saw[k]]
  <2>1. new \in Booking /\ new.status = "pending" /\ new.event = e
    BY DEF TypeOK, Booking, BookingStatuses
  <2>2. uriShown => e \in Slots
    BY <1>3 DEF ReportInsert, Held, Taken
  <2> HIDE DEF new
  <2>3. PICK r \in Rows :
          IsNext(r) /\ row' = IF Unique(e, r) THEN [row EXCEPT ![r] = new] ELSE row
    BY <1>3 DEF ReportInsert, new
  <2>4. CASE Unique(e, r)
    BY <2>1, <2>2, <2>3, <2>4 DEF Inserted, IsNext
  <2>5. QED
    BY <2>3, <2>4
<1>4. ASSUME NEW i \in Slots, StartCreated(i) \/ Find(i) PROVE Goal
  BY <1>4 DEF StartCreated, Find
<1>5. ASSUME NEW i \in Slots, Adopt(i) PROVE Goal
  BY <1>5 DEF Adopt, Adopted, TypeOK
<1>6. ASSUME NEW i \in Slots, Insert(i) PROVE Goal
  <2> DEFINE new == [status |-> "pending", event |-> i, owned |-> i \in linked,
                     reported |-> FALSE, shows |-> NoSlot]
  <2>1. (i \in linked) \in BOOLEAN
    OBVIOUS
  <2>2. new \in Booking /\ new.status = "pending" /\ new.event = i
    BY <2>1, Zenon DEF Booking, BookingStatuses
  <2> HIDE DEF new
  <2>3. PICK r \in Rows : IsNext(r) /\ (IF Unique(i, r) THEN row' = [row EXCEPT ![r] = new]
                                        ELSE UNCHANGED row)
    BY <1>6 DEF Insert, new
  <2>4. CASE Unique(i, r)
    BY <2>2, <2>3, <2>4 DEF Inserted, IsNext
  <2>5. QED
    BY <2>3, <2>4
<1>7. ASSUME NEW i \in Slots, ReadForFree(i) \/ Advance(i) \/ MarkCreated(i) PROVE Goal
  BY <1>7 DEF ReadForFree, Advance, MarkCreated
<1>8. ASSUME NEW i \in Slots, ConfirmFree(i) PROVE Goal
  BY <1>8 DEF ConfirmFree, StatusWritten, TypeOK
<1>9. ASSUME NEW i \in Slots, StartCanceled(i) \/ MarkCanceled(i) \/ Fail(i) PROVE Goal
  BY <1>9 DEF StartCanceled, MarkCanceled, Fail
<1>10. ASSUME NEW i \in Slots, Cancel(i) PROVE Goal
  BY <1>10 DEF Cancel, StatusWritten, TypeOK
<1>11. QED
  BY <1>1, <1>2, <1>3, <1>4, <1>5, <1>6, <1>7, <1>8, <1>9, <1>10
     DEF Next, HandleCreated, HandleCanceled

\* The handler of i stands still; it finds its row or one to adopt; it has just written the
\* row; it goes on to confirm it; or it is past it.
StandsStill(i) == created'[i] = created[i] /\ target'[i] = target[i]
FindsRow(i) ==
  /\ created[i] = "find" /\ created'[i] \in {"adopt", "free"} /\ UNCHANGED row
  /\ target'[i] \in Rows /\ Exists(target'[i])
  /\ LET b == row[target'[i]] IN
       \/ b.event = i /\ (b.reported => created'[i] = "adopt")
       \/ b.event = NoSlot /\ created'[i] = "adopt"
WritesRow(i) ==
  /\ created'[i] = "free" /\ target'[i] \in Rows
  /\ LET b == row'[target'[i]] IN
       b.event = i /\ ~b.reported /\ b.status \notin {"none", "deleted"}
GoesOn(i) ==
  /\ target'[i] = target[i]
  /\ \/ created[i] = "free" /\ created'[i] = "confirm" /\ free
     \/ created[i] = "confirm" /\ created'[i] = "advance"
IsPast(i) ==
  \/ created'[i] \in {"due", "find", "insert"}
  \/ created'[i] = "mark" /\ (created[i] \in {"free", "advance"} \/ ~cleared)
  \/ created'[i] = "done" /\ created[i] = "mark"

LEMMA HandlerStep ==
  ASSUME TypeOK, Next, NEW i \in Slots
  PROVE  StandsStill(i) \/ FindsRow(i) \/ WritesRow(i) \/ GoesOn(i) \/ IsPast(i)
<1> DEFINE Goal == StandsStill(i) \/ FindsRow(i) \/ WritesRow(i) \/ GoesOn(i) \/ IsPast(i)
<1> USE DEF TypeOK, Rest, CreatedSteps, events, targets
<1>1. ASSUME \/ Review \/ \E r \in Rows : DeliverStrategy(r) \/ DeleteBooking(r) \/ PaymentConfirms(r)
             \/ \E k \in Reports : (\E j \in Slots : Report(k, j)) \/ ReportInsert(k)
             \/ \E j \in Slots : StartCanceled(j) \/ HandleCanceled(j)
      PROVE  Goal
  BY <1>1 DEF DeliverStrategy, DeleteBooking, PaymentConfirms, Write, Review, Report,
     ReportInsert, StartCanceled, HandleCanceled, Cancel, MarkCanceled, StandsStill
<1>2. ASSUME NEW j \in Slots, j # i, StartCreated(j) \/ HandleCreated(j) \/ Fail(j) PROVE Goal
  <2>1. CASE StartCreated(j) \/ Find(j) \/ Adopt(j) \/ Insert(j)
    BY <1>2, <2>1 DEF StartCreated, Find, MatchReported, Adopt, Insert, GotoRow, Goto, Throw,
       StandsStill
  <2>2. CASE ReadForFree(j) \/ ConfirmFree(j) \/ Advance(j) \/ MarkCreated(j) \/ Fail(j)
    BY <1>2, <2>2 DEF ReadForFree, ConfirmFree, Advance, MarkCreated, Fail, Goto, Throw,
       StandsStill
  <2>3. QED
    BY <1>2, <2>1, <2>2 DEF HandleCreated
<1>3. CASE StartCreated(i)
  BY <1>3 DEF StartCreated, Goto, IsPast
<1>4. CASE Find(i)
  BY <1>4 DEF Find, WithEvent, MatchReported, ClientReported, GotoRow, Goto, FindsRow, IsPast
<1>5. CASE Adopt(i)
  <2>1. target[i] \in Rows /\ created[i] = "adopt"
    BY <1>5 DEF Adopt
  <2>2. CASE Exists(target[i]) /\ Unique(i, target[i])
    <3>1. /\ created'[i] = "free" /\ target'[i] = target[i]
          /\ row' = [row EXCEPT ![target[i]].event = i, ![target[i]].reported = FALSE,
                                ![target[i]].shows = NoSlot]
      BY <1>5, <2>2 DEF Adopt, Goto
    <3>2. QED
      BY <2>1, <2>2, <3>1 DEF Exists, WritesRow, Booking
  <2>3. CASE ~(Exists(target[i]) /\ Unique(i, target[i]))
    BY <1>5, <2>3 DEF Adopt, Throw, IsPast
  <2>4. QED
    BY <2>2, <2>3
<1>6. CASE Insert(i)
  <2> DEFINE new == [status |-> "pending", event |-> i, owned |-> i \in linked,
                     reported |-> FALSE, shows |-> NoSlot]
  <2>1. new.event = i /\ ~new.reported /\ new.status = "pending"
    OBVIOUS
  <2> HIDE DEF new
  <2>2. PICK r \in Rows :
          IF Unique(i, r) THEN row' = [row EXCEPT ![r] = new] /\ GotoRow(i, "insert", "free", r)
          ELSE UNCHANGED row /\ Throw(i)
    BY <1>6 DEF Insert, new
  <2>3. QED
    BY <2>1, <2>2 DEF GotoRow, Goto, Throw, WritesRow, IsPast
<1>7. CASE ReadForFree(i) \/ ConfirmFree(i)
  BY <1>7 DEF ReadForFree, Confirms, ConfirmFree, Goto, Throw, GoesOn, IsPast
<1>8. CASE Advance(i) \/ MarkCreated(i) \/ Fail(i)
  BY <1>8 DEF Advance, MarkCreated, Fail, Goto, Throw, IsPast, StandsStill
<1>9. QED
  BY <1>1, <1>2, <1>3, <1>4, <1>5, <1>6, <1>7, <1>8 DEF Next, HandleCreated

-----------------------------------------------------------------------------
(* The conjuncts of the invariant *)

LEMMA UniqueStep ==
  ASSUME TypeOK, Held, OneRowPerInvitee, Next
  PROVE  OneRowPerInvitee'
<1> USE DEF OneRowPerInvitee, Exists, TypeOK
<1>1. CASE UNCHANGED row
  BY <1>1
<1>2. ASSUME NEW r \in Rows, StatusWritten(r) PROVE OneRowPerInvitee'
  BY <1>2 DEF StatusWritten, Booking
<1>3. ASSUME NEW r \in Rows, NEW i \in Slots, Adopted(r, i) PROVE OneRowPerInvitee'
  BY <1>3 DEF Adopted, Unique, WithEvent, Booking
<1>4. ASSUME NEW r \in Rows, NEW b \in Booking, Inserted(r, b) PROVE OneRowPerInvitee'
  BY <1>4 DEF Inserted, Unique, WithEvent
<1>5. QED
  BY <1>1, <1>2, <1>3, <1>4, RowStep

\* A row that was inserted is never free for another insertion.
LEMMA RowsStay ==
  ASSUME TypeOK, Held, Next, NEW r \in Rows, row[r].status # "none"
  PROVE  row'[r].status # "none"
<1> USE DEF TypeOK, Booking
<1>1. ASSUME NEW q \in Rows, StatusWritten(q) PROVE row'[r].status # "none"
  BY <1>1 DEF StatusWritten
<1>2. ASSUME NEW q \in Rows, NEW i \in Slots, Adopted(q, i) PROVE row'[r].status # "none"
  BY <1>2 DEF Adopted
<1>3. ASSUME NEW q \in Rows, NEW b \in Booking, Inserted(q, b) PROVE row'[r].status # "none"
  BY <1>3 DEF Inserted
<1>4. QED
  BY <1>1, <1>2, <1>3, RowStep

LEMMA HeldStep ==
  ASSUME TypeOK, Held, Next
  PROVE  Held'
<1>1. ASSUME NEW k \in Reports, rpc'[k] = "insert" PROVE saw'[k] \in Taken'
  <2>1. Taken' = Taken
    BY SettingStays
  <2>2. saw'[k] \in Taken
    <3> USE DEF reports, TypeOK, Held
    <3>1. ASSUME UNCHANGED reports PROVE saw'[k] \in Taken
      BY <1>1, <3>1
    <3>2. ASSUME NEW j \in Reports, NEW i \in Slots, Report(j, i) PROVE saw'[k] \in Taken
      BY <1>1, <3>2 DEF Report, Taken
    <3>3. ASSUME NEW j \in Reports, ReportInsert(j) PROVE saw'[k] \in Taken
      BY <1>1, <3>3 DEF ReportInsert
    <3>4. ASSUME NEW i \in Slots, HandleCreated(i) PROVE UNCHANGED reports
      BY <3>4 DEF HandleCreated, Find, Adopt, Insert, ReadForFree, ConfirmFree, Advance,
         MarkCreated
    <3>5. QED
      BY <3>1, <3>2, <3>3, <3>4 DEF Next, DeliverStrategy, DeleteBooking, PaymentConfirms,
         Write, Review, StartCreated, StartCanceled, HandleCanceled, Cancel, MarkCanceled, Fail
  <2>3. QED
    BY <2>1, <2>2
<1>2. ASSUME NEW i \in Slots, created'[i] \in {"adopt", "free", "confirm", "advance"}
      PROVE  row'[target'[i]].status # "none"
  <2>1. ASSUME created[i] \in {"adopt", "free", "confirm", "advance"}, target'[i] = target[i]
        PROVE  row'[target'[i]].status # "none"
    BY <2>1, RowsStay DEF Held, TypeOK
  <2>2. CASE FindsRow(i)
    BY <2>2 DEF FindsRow, Exists
  <2>3. CASE WritesRow(i)
    BY <2>3 DEF WritesRow
  <2>4. QED
    BY <1>2, <2>1, <2>2, <2>3, HandlerStep DEF StandsStill, GoesOn, IsPast
<1>3. QED
  BY <1>1, <1>2 DEF Held

LEMMA FreeOnlyStep ==
  ASSUME TypeOK, FreeOnly, Next
  PROVE  FreeOnly'
<1>1. free' = free
  BY SettingStays DEF config
<1>2. ASSUME NEW i \in Slots, created'[i] \in {"confirm", "advance"} PROVE free
  BY <1>2, HandlerStep DEF FreeOnly, StandsStill, FindsRow, WritesRow, GoesOn, IsPast
<1>3. QED
  BY <1>1, <1>2 DEF FreeOnly

\* A row that names an invitee keeps it; one that names none takes the only slot in play.
LEMMA EventStays ==
  ASSUME TypeOK, Held, OwnRow, Unambiguous, Next, NEW r \in Rows, row[r].status # "none"
  PROVE  \/ row'[r].event = row[r].event
         \/ row[r].event = NoSlot /\ \A j \in Taken : row'[r].event = j
<1> USE DEF TypeOK, Booking
<1>1. ASSUME NEW q \in Rows, StatusWritten(q) PROVE row'[r].event = row[r].event
  BY <1>1 DEF StatusWritten
<1>2. ASSUME NEW q \in Rows, NEW b \in Booking, Inserted(q, b) PROVE row'[r].event = row[r].event
  BY <1>2 DEF Inserted
<1>3. ASSUME NEW i \in Slots, Adopted(r, i)
      PROVE  \/ row'[r].event = row[r].event
             \/ row[r].event = NoSlot /\ \A j \in Taken : row'[r].event = j
  <2>1. row[r].event \in {i, NoSlot} /\ row'[r].event = i /\ i \in Taken
    BY <1>3 DEF Adopted, OwnRow, Taken
  <2>2. CASE row[r].event = NoSlot
    <3>1. ~uriShown
      BY <2>2, SlotsAreFinite DEF OwnRow
    <3>2. QED
      BY <2>1, <2>2, <3>1, OnlyOneTaken
  <2>3. QED
    BY <2>1, <2>2
<1>4. ASSUME NEW q \in Rows, NEW i \in Slots, Adopted(q, i), q # r
      PROVE  row'[r].event = row[r].event
  BY <1>4 DEF Adopted
<1>5. QED
  BY <1>1, <1>2, <1>3, <1>4, RowStep

LEMMA OwnRowStep ==
  ASSUME TypeOK, Held, OwnRow, Next
  PROVE  OwnRow'
<1> SUFFICES ASSUME Unambiguous
             PROVE  /\ uriShown => \A r \in Rows : row'[r].status # "none" => row'[r].event \in Slots
                    /\ \A i \in Slots :
                         /\ created'[i] = "adopt" => row'[target'[i]].event \in {i, NoSlot}
                         /\ created'[i] \in {"free", "confirm", "advance"} =>
                              row'[target'[i]].event = i
  BY SettingStays DEF OwnRow, config
<1>1. ASSUME uriShown, NEW r \in Rows, row'[r].status # "none" PROVE row'[r].event \in Slots
  <2>1. CASE row[r].status # "none"
    BY <1>1, <2>1, EventStays, SlotsAreFinite DEF OwnRow
  <2>2. CASE row[r].status = "none"
    <3> USE DEF TypeOK, Booking
    <3>1. ASSUME NEW q \in Rows, StatusWritten(q) \/ \E i \in Slots : Adopted(q, i)
          PROVE  q # r /\ row'[r] = row[r]
      BY <2>2, <3>1 DEF StatusWritten, Adopted, Exists
    <3>2. ASSUME NEW q \in Rows, NEW b \in Booking, Inserted(q, b)
          PROVE  row'[r].event \in Slots
      BY <1>1, <2>2, <3>2 DEF Inserted
    <3>3. QED
      BY <1>1, <2>2, <3>1, <3>2, RowStep
  <2>3. QED
    BY <2>1, <2>2
<1>2. ASSUME NEW i \in Slots
      PROVE  /\ created'[i] = "adopt" => row'[target'[i]].event \in {i, NoSlot}
             /\ created'[i] \in {"free", "confirm", "advance"} => row'[target'[i]].event = i
  <2>1. ASSUME created[i] \in {"adopt", "free", "confirm", "advance"}, target'[i] = target[i]
        PROVE  \/ row'[target'[i]].event = row[target[i]].event
               \/ row[target[i]].event = NoSlot /\ row'[target'[i]].event = i
    BY <2>1, EventStays DEF Held, TypeOK, Taken
  <2>2. CASE StandsStill(i) \/ GoesOn(i)
    BY <2>1, <2>2, SlotsAreFinite DEF StandsStill, GoesOn, OwnRow
  <2>3. CASE FindsRow(i)
    BY <2>3 DEF FindsRow
  <2>4. CASE WritesRow(i) \/ IsPast(i)
    BY <2>4 DEF WritesRow, IsPast
  <2>5. QED
    BY <2>2, <2>3, <2>4, HandlerStep
<1>3. QED
  BY <1>1, <1>2

\* Whoever does not write a status leaves it as it was, save that of a new row, and turns no
\* row that Calendly has described into a reported one.
LEMMA StatusKept ==
  ASSUME TypeOK, NEW q \in Rows,
         (\E i \in Slots : Adopted(q, i)) \/ (\E b \in Booking : Inserted(q, b)),
         NEW r \in Rows
  PROVE  \/ row'[r].status = row[r].status /\ (~row[r].reported => ~row'[r].reported)
         \/ row[r].status = "none" /\ row'[r].status = "pending"
<1> USE DEF TypeOK, Booking
<1>1. ASSUME NEW i \in Slots, Adopted(q, i)
      PROVE  row'[r].status = row[r].status /\ (~row[r].reported => ~row'[r].reported)
  <2>1. CASE q = r
    <3>1. row'[r] = [row[r] EXCEPT !.event = i, !.reported = FALSE, !.shows = NoSlot]
      BY <1>1, <2>1 DEF Adopted
    <3>2. row'[r].status = row[r].status /\ ~row'[r].reported
      BY <3>1
    <3>3. QED
      BY <3>2
  <2>2. CASE q # r
    BY <1>1, <2>2 DEF Adopted
  <2>3. QED
    BY <2>1, <2>2
<1>2. ASSUME NEW b \in Booking, Inserted(q, b)
      PROVE  \/ row'[r] = row[r]
             \/ row[r].status = "none" /\ row'[r].status = "pending"
  BY <1>2 DEF Inserted
<1>3. QED
  BY <1>1, <1>2

\* A row is settled by the step that cancels or completes it.
LEMMA SettledGrows ==
  ASSUME TypeOK, Next, NEW r \in settled', r \notin settled
  PROVE  /\ r \in Rows /\ Exists(r) /\ Handled(r)
         /\ row'[r].status \in {"completed", "cancelled"}
<1> DEFINE Goal == /\ r \in Rows /\ Exists(r) /\ Handled(r)
                   /\ row'[r].status \in {"completed", "cancelled"}
<1> USE DEF TypeOK, history, Booking
<1>1. ASSUME NEW q \in Rows, DeliverStrategy(q) PROVE Goal
  BY <1>1 DEF DeliverStrategy, Write, Exists
<1>2. ASSUME NEW i \in Slots, Cancel(i) PROVE Goal
  BY <1>2 DEF Cancel, Exists
<1>3. ASSUME UNCHANGED settled PROVE FALSE
  BY <1>3
<1>4. ASSUME NEW i \in Slots,
             HandleCreated(i) \/ StartCreated(i) \/ StartCanceled(i) \/ MarkCanceled(i) \/ Fail(i)
      PROVE  UNCHANGED settled
  BY <1>4 DEF HandleCreated, Find, Adopt, Insert, ReadForFree, ConfirmFree, Advance,
     MarkCreated, StartCreated, StartCanceled, MarkCanceled, Fail
<1>5. QED
  BY <1>1, <1>2, <1>3, <1>4 DEF Next, HandleCanceled, DeleteBooking, PaymentConfirms, Review,
     Report, ReportInsert

LEMMA SettledIsHandledStep ==
  ASSUME TypeOK, Held, OwnRow, SettledIsHandled, Next
  PROVE  SettledIsHandled'
<1> SUFFICES ASSUME Unambiguous, NEW r \in settled'
             PROVE  row'[r].status # "none" /\ Handled(r)'
  BY SettingStays DEF SettledIsHandled
<1>1. r \in Rows /\ row[r].status # "none" /\ Handled(r)
  BY SettledGrows DEF SettledIsHandled, Exists, TypeOK
<1>2. row'[r].status # "none" /\ row'[r].event = row[r].event
  BY <1>1, RowsStay, EventStays, SlotsAreFinite DEF Handled
<1>3. QED
  BY <1>1, <1>2, SettingStays DEF Handled

LEMMA SettledStaysStep ==
  ASSUME TypeOK, Held, OwnRow, SettledIsHandled, SettledStays, Next
  PROVE  SettledStays'
<1> SUFFICES ASSUME Unambiguous, NEW r \in settled'
             PROVE  row'[r].status \in {"completed", "cancelled", "deleted"} \/ r \in paid'
  BY SettingStays DEF SettledStays
<1>1. CASE r \notin settled
  BY <1>1, SettledGrows
<1>2. CASE r \in settled
  <2> USE DEF TypeOK, Booking
  <2>1. r \in Rows /\ row[r].status # "none" /\ Handled(r)
    BY <1>2 DEF SettledIsHandled
  <2>2. row[r].status \in {"completed", "cancelled", "deleted"} \/ r \in paid'
    BY <1>2, SettingStays DEF SettledStays
  <2>3. ASSUME NEW i \in Slots, created[i] = "confirm" PROVE target[i] # r
    BY <2>1, <2>3 DEF OwnRow, Handled
  <2>4. ASSUME NEW q \in Rows, StatusWritten(q)
        PROVE  row'[r].status \in {"completed", "cancelled", "deleted"} \/ r \in paid'
    <3>1. CASE q = r
      BY <2>1, <2>3, <2>4, <3>1 DEF StatusWritten
    <3>2. CASE q # r
      BY <2>2, <2>4, <3>2 DEF StatusWritten
    <3>3. QED
      BY <3>1, <3>2
  <2>5. ASSUME NEW q \in Rows, (\E i \in Slots : Adopted(q, i)) \/ (\E b \in Booking : Inserted(q, b))
        PROVE  row'[r].status = row[r].status
    BY <2>1, <2>5, StatusKept
  <2>6. QED
    BY <2>2, <2>4, <2>5, RowStep
<1>3. QED
  BY <1>1, <1>2

LEMMA StripeStep ==
  ASSUME TypeOK, Held, FreeOnly, OnlyStripeConfirms, Next
  PROVE  OnlyStripeConfirms'
<1> SUFFICES ASSUME ~free, NEW r \in Rows, row'[r].status = "confirmed" PROVE r \in paid'
  BY SettingStays DEF OnlyStripeConfirms, config
<1> USE DEF TypeOK, Booking
<1>1. row[r].status = "confirmed" => r \in paid'
  BY SettingStays DEF OnlyStripeConfirms
<1>2. ASSUME NEW q \in Rows, StatusWritten(q) PROVE r \in paid'
  <2>1. CASE q = r
    BY <1>2, <2>1 DEF StatusWritten, FreeOnly
  <2>2. CASE q # r
    BY <1>1, <1>2, <2>2 DEF StatusWritten
  <2>3. QED
    BY <2>1, <2>2
<1>3. ASSUME NEW q \in Rows, (\E i \in Slots : Adopted(q, i)) \/ (\E b \in Booking : Inserted(q, b))
      PROVE  r \in paid'
  BY <1>1, <1>3, StatusKept
<1>4. QED
  BY <1>1, <1>2, <1>3, RowStep

LEMMA UndisturbedStep ==
  ASSUME TypeOK, Held, Undisturbed, Next
  PROVE  Undisturbed'
<1> SUFFICES ASSUME interventions' = 0, NEW r \in Rows
             PROVE  cleared' /\ row'[r].status # "deleted"
  BY SettingStays DEF Undisturbed
<1> USE DEF TypeOK, Booking
<1>1. interventions = 0 /\ cleared' /\ row[r].status # "deleted"
  BY SettingStays DEF Undisturbed
<1>2. ~Intervention
  BY <1>1 DEF Intervention
<1>3. ASSUME NEW q \in Rows, StatusWritten(q) PROVE row'[r].status # "deleted"
  BY <1>1, <1>2, <1>3 DEF StatusWritten
<1>4. ASSUME NEW q \in Rows, (\E i \in Slots : Adopted(q, i)) \/ (\E b \in Booking : Inserted(q, b))
      PROVE  row'[r].status # "deleted"
  BY <1>1, <1>4, StatusKept
<1>5. QED
  BY <1>1, <1>3, <1>4, RowStep

\* A row that Calendly has described is not taken for a report again.
LEMMA ReportedStays ==
  ASSUME TypeOK, Held, Next, NEW r \in Rows, row[r].status # "none", ~row[r].reported
  PROVE  ~row'[r].reported
<1> USE DEF TypeOK, Booking
<1>1. ASSUME NEW q \in Rows, StatusWritten(q) PROVE ~row'[r].reported
  BY <1>1 DEF StatusWritten
<1>2. ASSUME NEW q \in Rows, (\E i \in Slots : Adopted(q, i)) \/ (\E b \in Booking : Inserted(q, b))
      PROVE  ~row'[r].reported
  BY <1>2, StatusKept
<1>3. QED
  BY <1>1, <1>2, RowStep

LEMMA WrittenStep ==
  ASSUME TypeOK, Held, OwnRow, Undisturbed, Written, Next
  PROVE  Written'
<1> SUFFICES ASSUME Unambiguous, interventions' = 0, NEW i \in Slots,
                    created'[i] \in {"free", "confirm", "advance", "mark", "done"}
             PROVE  \E r \in Rows : /\ row'[r].status \notin {"none", "deleted"}
                                    /\ row'[r].event = i /\ ~row'[r].reported
  BY SettingStays DEF Written, WithEvent, Exists
<1>1. interventions = 0 /\ cleared /\ Undisturbed'
  BY SettingStays, UndisturbedStep DEF Undisturbed
<1>2. CASE created[i] \in {"free", "confirm", "advance", "mark", "done"}
  <2>1. PICK r \in Rows : row[r].status # "none" /\ row[r].event = i /\ ~row[r].reported
    BY <1>1, <1>2 DEF Written, WithEvent, Exists
  <2>2. row'[r].status \notin {"none", "deleted"}
    BY <1>1, <2>1, RowsStay DEF Undisturbed
  <2>3. row'[r].event = i /\ ~row'[r].reported
    BY <2>1, EventStays, ReportedStays, SlotsAreFinite
  <2>4. QED
    BY <2>2, <2>3
<1>3. CASE WritesRow(i)
  BY <1>3 DEF WritesRow
<1>4. CASE FindsRow(i)
  BY <1>4, SlotsAreFinite DEF FindsRow, Exists
<1>5. QED
  BY <1>1, <1>2, <1>3, <1>4, HandlerStep DEF StandsStill, GoesOn, IsPast

-----------------------------------------------------------------------------
(* The theorems *)

LEMMA Invariance == Spec => []Inv
<1>1. Init => Inv
  <2> SUFFICES ASSUME Init PROVE Inv
    OBVIOUS
  <2>1. TypeOK
    BY TypesInit
  <2>2. /\ \A r \in Rows : row[r].status = "none"
        /\ \A i \in Slots : created[i] \in {"none", "due"}
        /\ \A k \in Reports : rpc[k] = "idle"
        /\ settled = {} /\ cleared
    BY DEF Init, Absent
  <2>3. QED
    BY <2>1, <2>2 DEF Inv, OneRowPerInvitee, Exists, Held, FreeOnly, OwnRow, SettledIsHandled,
       Undisturbed, Written, OnlyStripeConfirms, SettledStays
<1>2. Inv /\ [Next]_vars => Inv'
  <2> SUFFICES ASSUME Inv, [Next]_vars PROVE Inv'
    OBVIOUS
  <2>1. CASE Next
    BY <2>1, TypesStep, UniqueStep, HeldStep, FreeOnlyStep, OwnRowStep, SettledIsHandledStep,
       SettledStaysStep, StripeStep, UndisturbedStep, WrittenStep DEF Inv
  <2>2. CASE UNCHANGED vars
    BY <2>2 DEF Inv, vars, config, prospect, events, reports, targets, history, bounds, TypeOK,
       OneRowPerInvitee, Exists, Held, Taken, FreeOnly, OwnRow, Unambiguous, SettledIsHandled,
       Handled, Undisturbed, Written, WithEvent, OnlyStripeConfirms, SettledStays
  <2>3. QED
    BY <2>1, <2>2
<1>3. QED
  BY <1>1, <1>2, PTL DEF Spec

\* Every variable keeps its type: a handler about to write a row has one, and there are no
\* more faults and interventions than the bounds allow.
THEOREM TypeCorrect == Spec => []TypeOK
<1>1. Inv => TypeOK
  BY DEF Inv
<1>2. QED
  BY <1>1, Invariance, PTL

\* handleInviteeCreated and reportBooking: whatever the reports, the deliveries and the
\* retries of an event do side by side, an invitee has at most one booking.
THEOREM OneBookingPerInvitee == Spec => []OneRowPerInvitee
<1>1. Inv => OneRowPerInvitee
  BY DEF Inv
<1>2. QED
  BY <1>1, Invariance, PTL

\* reportBooking and handleInviteeCreated: where the embed's message carries the invitee URI,
\* the documentation's claim does hold, however the two interleave; it is the report without
\* the URI that gives a slot its second row.
THEOREM OneRowWhereUriIsShown == Spec => [](uriShown => OneRowPerSlot)
<1>1. Inv => (uriShown => OneRowPerSlot)
  <2> SUFFICES ASSUME Inv, uriShown, NEW q \in Rows, NEW r \in Rows, Exists(q), Exists(r),
                      SlotOf(q) = SlotOf(r)
               PROVE  q = r
    BY DEF OneRowPerSlot
  <2>1. row[q].event \in Slots /\ row[r].event \in Slots
    BY DEF Inv, OwnRow, Unambiguous, Exists
  <2>2. row[q].event # NoSlot /\ row[q].event = row[r].event
    BY <2>1, SlotsAreFinite DEF SlotOf
  <2>3. QED
    BY <2>2 DEF Inv, OneRowPerInvitee
<1>2. QED
  BY <1>1, Invariance, PTL

\* confirmFreeBooking: with payments on, nothing that Calendly or the browser sends, in any
\* order, confirms a booking; a confirmed booking was paid for.
THEOREM StripeAlone == Spec => []OnlyStripeConfirms
<1>1. Inv => OnlyStripeConfirms
  BY DEF Inv
<1>2. QED
  BY <1>1, Invariance, PTL

\* handleInviteeCreated, handleInviteeCanceled and the agent: a booking that was cancelled or
\* completed after its slot was handled is not revived by a late or repeated delivery.
THEOREM SettledIsFinal == Spec => []SettledStays
<1>1. Inv => SettledStays
  BY DEF Inv
<1>2. QED
  BY <1>1, Invariance, PTL

\* handleInviteeCreated: an event is marked processed only when the slot has its row with
\* Calendly's own data, as long as the agent has not deleted or held back anything.
THEOREM NoSlotIsLost == Spec => []HandledIsBooked
<1>1. Inv => HandledIsBooked
  BY DEF Inv, Written, HandledIsBooked
<1>2. QED
  BY <1>1, Invariance, PTL

==============================================================================
