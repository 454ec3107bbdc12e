------------------------- MODULE ConsultPayment_proofs -------------------------
(***************************************************************************)
(* Proofs about ConsultPayment, for any number of checkouts, workers,      *)
(* bookings, faults and interventions.                                     *)
(***************************************************************************)
EXTENDS ConsultPayment, FiniteSetTheorems, TLAPS

-----------------------------------------------------------------------------
(* The inductive invariant *)

BeforeSession == {"idle", "paidCheck", "pickSlot", "lookup", "probe", "close", "insert",
                  "create", "reject"}
WithSlot == {"lookup", "probe", "close", "insert", "create", "record", "reject"}
WithRow == {"create", "record", "reject"}

\* Where a checkout call stands says what exists of its row and its session.
CallInv ==
  \A k \in Attempts :
    /\ k \in ByHand => call[k] = "idle"
    /\ call[k] \in WithSlot => slot[k] \in Bookings
    /\ call[k] \in {"probe", "close"} => found[k] \in Attempts /\ HasRow(found[k])
    /\ call[k] \in WithRow => HasRow(k)
    /\ call[k] \in BeforeSession /\ k \notin ByHand => stripe[k] = "none"

\* A booking that something is for has been made.
SlotInv == \A k \in Attempts : slot[k] \in Bookings => booking[slot[k]] # "none"

\* There is an event only for a session that has ended.
HookInv == \A k \in Attempts : hook[k] # "none" => stripe[k] \in {"paid", "bounced", "lapsed"}

\* The record is of charges, and holds every row that says paid.
RecordInv ==
  /\ recorded \subseteq Attempts
  /\ \A k \in Attempts : rowStatus[k] = "paid" => k \in recorded
  /\ \A k \in recorded : stripe[k] = "paid"

Confirming == {"findPaid", "commit", "record", "screen", "slot", "confirm", "advance", "stage"}
Recorded == {"screen", "slot", "confirm", "advance", "stage", "mark"}

\* Where a worker stands says what it has learnt of its session and done to its row.
WorkerInv ==
  \A w \in Workers :
    /\ wpc[w] # "idle" => at[w] \in Attempts
    /\ wpc[w] \in Confirming => stripe[at[w]] = "paid"
    /\ wpc[w] \in {"findUnpaid", "unpaid"} => stripe[at[w]] \in {"bounced", "lapsed"}
    /\ wpc[w] = "mark" => stripe[at[w]] \in {"paid", "bounced", "lapsed"}
    /\ wpc[w] = "record" => at[w] \in ByHand
    /\ wpc[w] \in {"ask", "writeOff", "commit"} => HasRow(at[w])
    /\ wpc[w] \in Recorded /\ stripe[at[w]] = "paid" => at[w] \in recorded
    /\ wpc[w] = "confirm" => slot[at[w]] \in {target[w], NoBooking}

\* Where everybody stands ...
Places == RowsNameBookings /\ CallInv /\ SlotInv /\ HookInv /\ RecordInv /\ WorkerInv

\* ... and what that means for the money and the booking.
Money ==
  /\ ConfirmedWasPaid /\ PaidWasCharged /\ OnePaid /\ PaidSlotNotPending
  /\ EverySessionHasRow /\ AnsweredChargeOnRecord

Inv == Types /\ Places /\ Money

-----------------------------------------------------------------------------
(* Types *)

LEMMA FaultType ==
  ASSUME Types, Fault
  PROVE  faults' \in 0..MaxFaults /\ interventions' \in 0..MaxInterventions
BY BoundsAreNat DEF Types, Fault

LEMMA InterventionType ==
  ASSUME Types, Intervention
  PROVE  faults' \in 0..MaxFaults /\ interventions' \in 0..MaxInterventions
BY BoundsAreNat DEF Types, Intervention

LEMMA RowCount == Cardinality({j \in Attempts : HasRow(j)}) \in Nat
<1>1. IsFiniteSet({j \in Attempts : HasRow(j)})
  BY AttemptsAreFinite, FS_Subset
<1>2. QED
  BY <1>1, FS_CardinalityType

LEMMA LatestType == Latest \in Bookings \cup {NoBooking}
BY DEF Latest

LEMMA TypesStep ==
  ASSUME Types, WorkerInv, Next
  PROVE  Types'
<1> USE DEF Types, BookingStatuses, Stages, RowStatuses, SessionStates, CallSteps,
               WorkerSteps, WorkerInv, prospect, rows, atStripe, calls, workers,
               bounds
<1>1. ASSUME NEW b \in Bookings, Book(b) PROVE Types'
  BY <1>1 DEF Book, Exists
<1>2. ASSUME NEW b \in Bookings,
             CalendlyCancel(b) \/ DeliverStrategy(b) \/ DeleteBooking(b)
      PROVE  Types'
  BY <1>2, InterventionType DEF CalendlyCancel, Exists, DeliverStrategy, DeleteBooking
<1>3. ASSUME Review PROVE Types'
  BY <1>3, InterventionType DEF Review
<1>4. ASSUME (\E s \in Stages : AgentDecide(s)) PROVE Types'
  BY <1>4, InterventionType DEF AgentDecide
<1>5. ASSUME AgentWrite PROVE Types'
  BY <1>5 DEF AgentWrite
<1>6. ASSUME NEW k \in Attempts,
             StartCheckout(k) \/ CheckUnpaid(k) \/ Probe(k)
      PROVE  Types'
  BY <1>6 DEF StartCheckout, Step, CheckUnpaid, Probe
<1>7. ASSUME NEW k \in Attempts, LookUpOpen(k) PROVE Types'
  BY <1>7 DEF LookUpOpen, Step, Reusable
<1>8. ASSUME NEW k \in Attempts,
             ProbeOutage(k) \/ CreateRejected(k) \/ Abandon(k)
      PROVE  Types'
  BY <1>8, FaultType DEF ProbeOutage, Step, CreateRejected, Abandon
<1>9. ASSUME NEW k \in Attempts, PickSlot(k) PROVE Types'
  BY <1>9 DEF PickSlot, Step, Exists
<1>10. ASSUME NEW k \in Attempts, CloseFound(k) PROVE Types'
  BY <1>10 DEF CloseFound, Step
<1>11. ASSUME NEW k \in Attempts, InsertRow(k) PROVE Types'
  BY <1>11, RowCount DEF InsertRow, Step
<1>12. ASSUME NEW k \in Attempts,
              CreateSession(k) \/ CreateLost(k)
       PROVE  Types'
  BY <1>12, FaultType DEF CreateSession, Step, CreateLost
<1>13. ASSUME NEW k \in Attempts, RejectRow(k) PROVE Types'
  BY <1>13 DEF RejectRow, Step
<1>14. ASSUME NEW k \in Attempts, RecordSession(k) PROVE Types'
  BY <1>14 DEF RecordSession, Step
<1>15. ASSUME NEW k \in Attempts, OpenByHand(k) PROVE Types'
  BY <1>15 DEF OpenByHand, Exists
<1>16. ASSUME NEW k \in Attempts,
              Pay(k) \/ Settle(k) \/ Bounce(k) \/ Lapse(k)
       PROVE  Types'
  BY <1>16 DEF Pay, Ended, Settle, Bounce, Lapse
<1>17. ASSUME NEW k \in Attempts, PayLater(k) PROVE Types'
  BY <1>17 DEF PayLater
<1>18. ASSUME NEW k \in Attempts, Age(k) PROVE Types'
  BY <1>18 DEF Age
<1>19. ASSUME NEW k \in Attempts, LoseHook(k) PROVE Types'
  BY <1>19, FaultType DEF LoseHook
<1>20. ASSUME NEW w \in Workers, NEW k \in Attempts,
              StartHook(w, k) \/ StartSweep(w, k)
       PROVE  Types'
  BY <1>20 DEF StartHook, Take, StartSweep
<1>21. ASSUME NEW w \in Workers,
              Ask(w) \/ RefuseSecondPaid(w) \/ Screen(w) \/ Advance(w)
                \/ ReadSlotFails(w) \/ Fail(w)
       PROVE  Types'
  BY <1>21, FaultType DEF Ask, IsPaid, Goto, Stay, Finish, RefuseSecondPaid, Screen,
        Advance, ReadSlotFails, Fail
<1>22. ASSUME NEW w \in Workers, WriteOff(w) PROVE Types'
  BY <1>22 DEF WriteOff, Finish
<1>23. ASSUME NEW w \in Workers, FindPaid(w) PROVE Types'
  BY <1>23 DEF FindPaid, Goto, Stay
<1>24. ASSUME NEW w \in Workers, CommitPaid(w) PROVE Types'
  BY <1>24 DEF CommitPaid, Goto, Stay, IndexAllows, Exists
<1>25. ASSUME NEW w \in Workers, RecordOrphan(w) PROVE Types'
  BY <1>25, RowCount DEF RecordOrphan, Goto, Stay, IndexAllows
<1>26. ASSUME NEW w \in Workers, ReadSlot(w) PROVE Types'
  BY <1>26, LatestType DEF ReadSlot, Goto, Chosen, Exists
<1>27. ASSUME NEW w \in Workers, Confirm(w) PROVE Types'
  BY <1>27 DEF Confirm, Goto, Stay, Finish, Exists
<1>28. ASSUME NEW w \in Workers, WriteStage(w) PROVE Types'
  BY <1>28 DEF WriteStage, Goto, Stay
<1>29. ASSUME NEW w \in Workers, FindUnpaid(w) PROVE Types'
  BY <1>29 DEF FindUnpaid, Goto, Stay
<1>30. ASSUME NEW w \in Workers, CloseUnpaid(w) PROVE Types'
  BY <1>30 DEF CloseUnpaid, Goto, Stay
<1>31. ASSUME NEW w \in Workers, Mark(w) PROVE Types'
  BY <1>31 DEF Mark, Finish
<1>32. QED
  BY <1>1, <1>2, <1>3, <1>4, <1>5, <1>6, <1>7, <1>8, <1>9, <1>10, <1>11, <1>12, <1>13,
     <1>14, <1>15, <1>16, <1>17, <1>18, <1>19, <1>20, <1>21, <1>22, <1>23, <1>24,
     <1>25, <1>26, <1>27, <1>28, <1>29, <1>30, <1>31 DEF Next, Moves, People,
     Checkout, Serve, CheckoutFault, Session, Confirmation, Work

-----------------------------------------------------------------------------
(* Where everybody stands *)

LEMMA PlacesStep ==
  ASSUME Types, Places, EverySessionHasRow, PaidWasCharged, Next
  PROVE  Places'
<1>r. /\ recorded' \subseteq Attempts
      /\ \A k \in Attempts : k \in recorded' <=> k \in recorded \/ rowStatus'[k] = "paid"
  BY DEF Places, RecordInv, Next
<1> USE <1>r
<1> USE DEF Types, Places, RowsNameBookings, CallInv, SlotInv, HookInv, RecordInv,
               WorkerInv, BeforeSession, WithSlot, WithRow, Confirming, Recorded, HasRow,
               prospect, rows, atStripe, calls, workers, bounds
<1>1. ASSUME NEW b \in Bookings, Book(b) PROVE Places'
  BY <1>1 DEF Book, Exists
<1>2. ASSUME NEW b \in Bookings,
             CalendlyCancel(b) \/ DeliverStrategy(b) \/ DeleteBooking(b)
      PROVE  Places'
  BY <1>2 DEF CalendlyCancel, Intervention, Exists, DeliverStrategy, DeleteBooking
<1>3. ASSUME Review PROVE Places'
  BY <1>3 DEF Review, Intervention
<1>4. ASSUME (\E s \in Stages : AgentDecide(s)) PROVE Places'
  BY <1>4 DEF AgentDecide, Intervention
<1>5. ASSUME AgentWrite PROVE Places'
  BY <1>5 DEF AgentWrite
<1>6. ASSUME NEW k \in Attempts,
             StartCheckout(k) \/ CheckUnpaid(k) \/ Probe(k)
      PROVE  Places'
  BY <1>6 DEF StartCheckout, Step, CheckUnpaid, Probe
<1>7. ASSUME NEW k \in Attempts, LookUpOpen(k) PROVE Places'
  BY <1>7 DEF LookUpOpen, Step, Reusable
<1>8. ASSUME NEW k \in Attempts,
             ProbeOutage(k) \/ CreateRejected(k) \/ Abandon(k)
      PROVE  Places'
  BY <1>8 DEF ProbeOutage, Step, Fault, CreateRejected, Abandon
<1>9. ASSUME NEW k \in Attempts, PickSlot(k) PROVE Places'
  BY <1>9 DEF PickSlot, Step, Exists
<1>10. ASSUME NEW k \in Attempts, CloseFound(k) PROVE Places'
  BY <1>10 DEF CloseFound, Step
<1>11. ASSUME NEW k \in Attempts, InsertRow(k) PROVE Places'
  BY <1>11 DEF InsertRow, Step
<1>12. ASSUME NEW k \in Attempts,
              CreateSession(k) \/ CreateLost(k)
       PROVE  Places'
  BY <1>12 DEF CreateSession, Step, CreateLost, Fault
<1>13. ASSUME NEW k \in Attempts, RejectRow(k) PROVE Places'
  BY <1>13 DEF RejectRow, Step
<1>14. ASSUME NEW k \in Attempts, RecordSession(k) PROVE Places'
  BY <1>14 DEF RecordSession, Step
<1>15. ASSUME NEW k \in Attempts, OpenByHand(k) PROVE Places'
  BY <1>15 DEF OpenByHand, Exists, NoBooking, Bookings
<1>16. ASSUME NEW k \in Attempts,
              Pay(k) \/ Settle(k) \/ Bounce(k) \/ Lapse(k)
       PROVE  Places'
  BY <1>16 DEF Pay, Ended, Settle, Bounce, Lapse
<1>17. ASSUME NEW k \in Attempts, PayLater(k) PROVE Places'
  BY <1>17 DEF PayLater
<1>18. ASSUME NEW k \in Attempts, Age(k) PROVE Places'
  BY <1>18 DEF Age
<1>19. ASSUME NEW k \in Attempts, LoseHook(k) PROVE Places'
  BY <1>19 DEF LoseHook, Fault
<1>20. ASSUME NEW w \in Workers, NEW k \in Attempts,
              StartHook(w, k) \/ StartSweep(w, k)
       PROVE  Places'
  BY <1>20 DEF StartHook, Take, StartSweep
<1>21. ASSUME NEW w \in Workers,
              Ask(w) \/ RefuseSecondPaid(w) \/ Screen(w) \/ Advance(w)
                \/ ReadSlotFails(w) \/ Fail(w)
       PROVE  Places'
  BY <1>21 DEF Ask, IsPaid, Goto, Stay, Finish, RefuseSecondPaid, Screen, Advance,
        ReadSlotFails, Fail, Fault
<1>22. ASSUME NEW w \in Workers, WriteOff(w) PROVE Places'
  BY <1>22 DEF WriteOff, Finish
<1>23. ASSUME NEW w \in Workers, FindPaid(w) PROVE Places'
  BY <1>23 DEF FindPaid, Goto, Stay, EverySessionHasRow
<1>24. ASSUME NEW w \in Workers, CommitPaid(w) PROVE Places'
  BY <1>24 DEF CommitPaid, Goto, Stay, IndexAllows, Exists
<1>25. ASSUME NEW w \in Workers, RecordOrphan(w) PROVE Places'
  BY <1>25 DEF RecordOrphan, Goto, Stay, IndexAllows
<1>26. ASSUME NEW w \in Workers, ReadSlot(w) PROVE Places'
  BY <1>26 DEF ReadSlot, Goto, Chosen, Exists, NoBooking, Bookings
<1>27. ASSUME NEW w \in Workers, Confirm(w) PROVE Places'
  BY <1>27 DEF Confirm, Goto, Stay, Finish, Exists
<1>28. ASSUME NEW w \in Workers, WriteStage(w) PROVE Places'
  BY <1>28 DEF WriteStage, Goto, Stay
<1>29. ASSUME NEW w \in Workers, FindUnpaid(w) PROVE Places'
  BY <1>29 DEF FindUnpaid, Goto, Stay
<1>30. ASSUME NEW w \in Workers, CloseUnpaid(w) PROVE Places'
  BY <1>30 DEF CloseUnpaid, Goto, Stay, EverySessionHasRow
<1>31. ASSUME NEW w \in Workers, Mark(w) PROVE Places'
  BY <1>31 DEF Mark, Finish
<1>32. QED
  BY <1>1, <1>2, <1>3, <1>4, <1>5, <1>6, <1>7, <1>8, <1>9, <1>10, <1>11, <1>12, <1>13,
     <1>14, <1>15, <1>16, <1>17, <1>18, <1>19, <1>20, <1>21, <1>22, <1>23, <1>24,
     <1>25, <1>26, <1>27, <1>28, <1>29, <1>30, <1>31 DEF Next, Moves, People,
     Checkout, Serve, CheckoutFault, Session, Confirmation, Work

-----------------------------------------------------------------------------
(* The money and the booking *)

LEMMA MoneyStep ==
  ASSUME Types, Places, Money, Next
  PROVE  Money'
<1>r. /\ recorded' \subseteq Attempts
      /\ \A k \in Attempts : k \in recorded' <=> k \in recorded \/ rowStatus'[k] = "paid"
  BY DEF Places, RecordInv, Next
<1> USE <1>r
<1> USE DEF Money, ConfirmedWasPaid, PaidWasCharged, OnePaid, PaidSlotNotPending,
               EverySessionHasRow, AnsweredChargeOnRecord, Types, Places,
               RowsNameBookings, CallInv, SlotInv, HookInv, RecordInv, WorkerInv,
               BeforeSession,
               WithSlot, WithRow, Confirming, Recorded, HasRow, prospect, rows,
               atStripe, calls, workers, bounds
<1>1. ASSUME NEW b \in Bookings, Book(b) PROVE Money'
  BY <1>1 DEF Book, Exists
<1>2. ASSUME NEW b \in Bookings,
             CalendlyCancel(b) \/ DeliverStrategy(b) \/ DeleteBooking(b)
      PROVE  Money'
  BY <1>2 DEF CalendlyCancel, Intervention, Exists, DeliverStrategy, DeleteBooking
<1>3. ASSUME Review PROVE Money'
  BY <1>3 DEF Review, Intervention
<1>4. ASSUME (\E s \in Stages : AgentDecide(s)) PROVE Money'
  BY <1>4 DEF AgentDecide, Intervention
<1>5. ASSUME AgentWrite PROVE Money'
  BY <1>5 DEF AgentWrite
<1>6. ASSUME NEW k \in Attempts,
             StartCheckout(k) \/ CheckUnpaid(k) \/ Probe(k)
      PROVE  Money'
  BY <1>6 DEF StartCheckout, Step, CheckUnpaid, Probe
<1>7. ASSUME NEW k \in Attempts, LookUpOpen(k) PROVE Money'
  BY <1>7 DEF LookUpOpen, Step, Reusable
<1>8. ASSUME NEW k \in Attempts,
             ProbeOutage(k) \/ CreateRejected(k) \/ Abandon(k)
      PROVE  Money'
  BY <1>8 DEF ProbeOutage, Step, Fault, CreateRejected, Abandon
<1>9. ASSUME NEW k \in Attempts, PickSlot(k) PROVE Money'
  BY <1>9 DEF PickSlot, Step, Exists
<1>10. ASSUME NEW k \in Attempts, CloseFound(k) PROVE Money'
  BY <1>10 DEF CloseFound, Step
<1>11. ASSUME NEW k \in Attempts, InsertRow(k) PROVE Money'
  BY <1>11 DEF InsertRow, Step
<1>12. ASSUME NEW k \in Attempts,
              CreateSession(k) \/ CreateLost(k)
       PROVE  Money'
  BY <1>12 DEF CreateSession, Step, CreateLost, Fault
<1>13. ASSUME NEW k \in Attempts, RejectRow(k) PROVE Money'
  BY <1>13 DEF RejectRow, Step
<1>14. ASSUME NEW k \in Attempts, RecordSession(k) PROVE Money'
  BY <1>14 DEF RecordSession, Step
<1>15. ASSUME NEW k \in Attempts, OpenByHand(k) PROVE Money'
  BY <1>15 DEF OpenByHand, Exists
<1>16. ASSUME NEW k \in Attempts,
              Pay(k) \/ Settle(k) \/ Bounce(k) \/ Lapse(k)
       PROVE  Money'
  BY <1>16 DEF Pay, Ended, Settle, Bounce, Lapse
<1>17. ASSUME NEW k \in Attempts, PayLater(k) PROVE Money'
  BY <1>17 DEF PayLater
<1>18. ASSUME NEW k \in Attempts, Age(k) PROVE Money'
  BY <1>18 DEF Age
<1>19. ASSUME NEW k \in Attempts, LoseHook(k) PROVE Money'
  BY <1>19 DEF LoseHook, Fault
<1>20. ASSUME NEW w \in Workers, NEW k \in Attempts,
              StartHook(w, k) \/ StartSweep(w, k)
       PROVE  Money'
  BY <1>20 DEF StartHook, Take, StartSweep
<1>21. ASSUME NEW w \in Workers,
              Ask(w) \/ RefuseSecondPaid(w) \/ Screen(w) \/ Advance(w)
                \/ ReadSlotFails(w) \/ Fail(w)
       PROVE  Money'
  BY <1>21 DEF Ask, IsPaid, Goto, Stay, Finish, RefuseSecondPaid, Screen, Advance,
        ReadSlotFails, Fail, Fault
<1>22. ASSUME NEW w \in Workers, WriteOff(w) PROVE Money'
  BY <1>22 DEF WriteOff, Finish
<1>23. ASSUME NEW w \in Workers, FindPaid(w) PROVE Money'
  BY <1>23 DEF FindPaid, Goto, Stay
<1>24. ASSUME NEW w \in Workers, CommitPaid(w) PROVE Money'
  BY <1>24 DEF CommitPaid, Goto, Stay, IndexAllows, Exists
<1>25. ASSUME NEW w \in Workers, RecordOrphan(w) PROVE Money'
  BY <1>25 DEF RecordOrphan, Goto, Stay, IndexAllows
<1>26. ASSUME NEW w \in Workers, ReadSlot(w) PROVE Money'
  BY <1>26 DEF ReadSlot, Goto, Chosen, Exists
<1>27. ASSUME NEW w \in Workers, Confirm(w) PROVE Money'
  BY <1>27 DEF Confirm, Goto, Stay, Finish, Exists
<1>28. ASSUME NEW w \in Workers, WriteStage(w) PROVE Money'
  BY <1>28 DEF WriteStage, Goto, Stay
<1>29. ASSUME NEW w \in Workers, FindUnpaid(w) PROVE Money'
  BY <1>29 DEF FindUnpaid, Goto, Stay
<1>30. ASSUME NEW w \in Workers, CloseUnpaid(w) PROVE Money'
  BY <1>30 DEF CloseUnpaid, Goto, Stay
<1>31. ASSUME NEW w \in Workers, Mark(w) PROVE Money'
  BY <1>31 DEF Mark, Finish
<1>32. QED
  BY <1>1, <1>2, <1>3, <1>4, <1>5, <1>6, <1>7, <1>8, <1>9, <1>10, <1>11, <1>12, <1>13,
     <1>14, <1>15, <1>16, <1>17, <1>18, <1>19, <1>20, <1>21, <1>22, <1>23, <1>24,
     <1>25, <1>26, <1>27, <1>28, <1>29, <1>30, <1>31 DEF Next, Moves, People,
     Checkout, Serve, CheckoutFault, Session, Confirmation, Work

-----------------------------------------------------------------------------
(* The theorems *)

LEMMA InvInit == Init => Inv
<1> USE DEF Init
<1>1. Init => Types
  BY BoundsAreNat DEF Types, BookingStatuses, Stages, RowStatuses, SessionStates,
     CallSteps, WorkerSteps
<1>2. Init => Places
  BY DEF Places, RowsNameBookings, CallInv, SlotInv, HookInv, RecordInv,
     WorkerInv, BeforeSession, WithSlot, WithRow, Confirming, Recorded, NoBooking, Bookings
<1>3. Init => Money
  BY DEF Money, ConfirmedWasPaid, PaidWasCharged, OnePaid, PaidSlotNotPending,
     EverySessionHasRow, AnsweredChargeOnRecord
<1>4. QED
  BY <1>1, <1>2, <1>3 DEF Inv

LEMMA InvStutter == ASSUME Inv, UNCHANGED vars PROVE Inv'
<1> USE DEF vars, state, prospect, rows, atStripe, calls, workers, bounds
<1>1. Types'
  BY DEF Inv, Types
<1>2. Places'
  BY DEF Inv, Places, RowsNameBookings, CallInv, SlotInv, HookInv, RecordInv,
     WorkerInv, HasRow
<1>3. Money'
  BY DEF Inv, Money, ConfirmedWasPaid, PaidWasCharged, OnePaid, PaidSlotNotPending,
     EverySessionHasRow, AnsweredChargeOnRecord, HasRow
<1>4. QED
  BY <1>1, <1>2, <1>3 DEF Inv

LEMMA InvAlways == Spec => []Inv
<1>1. Inv /\ Next => Inv'
  BY TypesStep, PlacesStep, MoneyStep DEF Inv, Places, Money
<1>2. Inv /\ [Next]_vars => Inv'
  BY <1>1, InvStutter
<1>3. QED
  BY <1>2, InvInit, PTL DEF Spec

\* Every variable keeps its type, and every row a checkout inserted names a booking.
THEOREM TypeCorrect == Spec => []TypeOK
<1>1. Inv => TypeOK
  BY DEF Inv, Places, RecordInv, TypeOK
<1>2. QED
  BY <1>1, InvAlways, PTL

\* No booking is ever confirmed without a session of its own that Stripe was paid for.
THEOREM NoFreeBooking == Spec => []ConfirmedWasPaid
<1>1. Inv => ConfirmedWasPaid
  BY DEF Inv, Money
<1>2. QED
  BY <1>1, InvAlways, PTL

\* A paid row always stands for money that is at Stripe.
THEOREM PaidRowsAreCharges == Spec => []PaidWasCharged
<1>1. Inv => PaidWasCharged
  BY DEF Inv, Money
<1>2. QED
  BY <1>1, InvAlways, PTL

\* A prospect never has two paid rows, however many of its sessions are paid.
THEOREM OnePaidRow == Spec => []OnePaid
<1>1. Inv => OnePaid
  BY DEF Inv, Money
<1>2. QED
  BY <1>1, InvAlways, PTL

\* The transaction closes the gap between payment and booking for good.
THEOREM PaymentAndBookingTogether == Spec => []PaidSlotNotPending
<1>1. Inv => PaidSlotNotPending
  BY DEF Inv, Money
<1>2. QED
  BY <1>1, InvAlways, PTL

\* Every session a checkout made has a row, whatever failed after Stripe created it.
THEOREM SessionsHaveRows == Spec => []EverySessionHasRow
<1>1. Inv => EverySessionHasRow
  BY DEF Inv, Money
<1>2. QED
  BY <1>1, InvAlways, PTL

\* Every charge whose webhook was answered is on record.
THEOREM ChargesAreOnRecord == Spec => []AnsweredChargeOnRecord
<1>1. Inv => AnsweredChargeOnRecord
  BY DEF Inv, Money
<1>2. QED
  BY <1>1, InvAlways, PTL

-----------------------------------------------------------------------------
(* Who undoes a paid row *)

\* The handlers that close a row because nobody paid never meet a paid one.
LEMMA StandingMoves ==
  ASSUME Inv, Moves
  PROVE  \/ Standing' = Standing
         \/ \E k \in Attempts : CloseFound(k)
         \/ \E w \in Workers : WriteOff(w) \/ CommitPaid(w) \/ RecordOrphan(w)
<1> USE DEF Standing, rows
<1>1. ASSUME NEW k \in Attempts, InsertRow(k) \/ RejectRow(k) PROVE Standing' = Standing
  <2>1. rowStatus[k] # "paid"
    BY <1>1 DEF InsertRow, RejectRow, Step, Inv, Types, Places, CallInv, BeforeSession,
                Money, PaidWasCharged
  <2>2. /\ \A j \in Attempts \ {k} : rowStatus'[j] = rowStatus[j]
        /\ rowStatus'[k] # "paid"
    BY <1>1 DEF InsertRow, RejectRow, Inv, Types
  <2>3. QED
    BY <2>1, <2>2
<1>2. ASSUME NEW w \in Workers, CloseUnpaid(w) PROVE Standing' = Standing
  <2>1. at[w] \in Attempts /\ rowStatus[at[w]] # "paid"
    BY <1>2 DEF CloseUnpaid, Goto, Inv, Types, Places, WorkerInv, Money, PaidWasCharged
  <2>2. /\ \A j \in Attempts \ {at[w]} : rowStatus'[j] = rowStatus[j]
        /\ rowStatus'[at[w]] # "paid"
    BY <1>2, <2>1 DEF CloseUnpaid, Inv, Types
  <2>3. QED
    BY <2>1, <2>2
<1>3. People => Standing' = Standing
  BY DEF People, Book, CalendlyCancel, DeliverStrategy, DeleteBooking, Review,
         AgentDecide, AgentWrite
<1>4. ASSUME NEW k \in Attempts, Checkout(k) PROVE Standing' = Standing \/ CloseFound(k)
  BY <1>1, <1>4 DEF Checkout, StartCheckout, Serve, CheckUnpaid, PickSlot, LookUpOpen,
         Probe, CreateSession, RecordSession, CheckoutFault, ProbeOutage, CreateLost,
         CreateRejected, Abandon
<1>5. ASSUME NEW k \in Attempts, Session(k) PROVE Standing' = Standing
  BY <1>5 DEF Session, OpenByHand, Pay, PayLater, Settle, Bounce, Lapse, Ended, Age,
         LoseHook
<1>6. ASSUME NEW w \in Workers, Confirmation(w)
      PROVE  Standing' = Standing \/ WriteOff(w) \/ CommitPaid(w) \/ RecordOrphan(w)
  BY <1>2, <1>6 DEF Confirmation, StartHook, StartSweep, Take, Work, Ask, FindPaid,
         RefuseSecondPaid, Screen, ReadSlot, ReadSlotFails, Confirm, Advance, WriteStage,
         FindUnpaid, Mark, Fail
<1>7. QED
  BY <1>3, <1>4, <1>5, <1>6 DEF Moves

\* The row a checkout closes is the one it found, the one a sweep closes is its own.
LEMMA UndoneByWhom ==
  ASSUME Inv, Moves, NEW k \in Standing, k \notin Standing'
  PROVE  \/ \E j \in Attempts : call[j] = "close" /\ found[j] = k
         \/ \E w \in Workers : wpc[w] = "writeOff" /\ at[w] = k
<1> USE DEF Standing, Inv, Types
<1>1. ASSUME NEW j \in Attempts, CloseFound(j) PROVE call[j] = "close" /\ found[j] = k
  BY <1>1 DEF CloseFound, Step
<1>2. ASSUME NEW w \in Workers, WriteOff(w) PROVE wpc[w] = "writeOff" /\ at[w] = k
  BY <1>2 DEF WriteOff
<1>3. ASSUME NEW w \in Workers, CommitPaid(w) \/ RecordOrphan(w) PROVE FALSE
  BY <1>3 DEF CommitPaid, RecordOrphan
<1>4. QED
  BY <1>1, <1>2, <1>3, StandingMoves

\* A paid row is undone only on stale information: by the checkout that found it open
\* or the sweep that asked too early, never by the webhook of an unpaid session.
THEOREM OnlyStaleWrites == Spec => OnlyStaleWritesUndo
<1>1. ASSUME Inv, [Next]_vars, NEW k \in Attempts,
             rowStatus[k] = "paid", rowStatus'[k] # "paid"
      PROVE  \/ \E j \in Attempts : call[j] = "close" /\ found[j] = k
             \/ \E w \in Workers : wpc[w] = "writeOff" /\ at[w] = k
  <2>1. Moves
    BY <1>1 DEF Next, vars, state, rows
  <2>2. QED
    BY <1>1, <2>1, UndoneByWhom DEF Standing
<1>2. Inv /\ [Next]_vars =>
        [\A k \in Attempts : rowStatus[k] = "paid" /\ rowStatus'[k] # "paid" =>
           \/ \E j \in Attempts : call[j] = "close" /\ found[j] = k
           \/ \E w \in Workers : wpc[w] = "writeOff" /\ at[w] = k]_vars
  BY <1>1
<1>3. QED
  BY <1>2, InvAlways, PTL DEF Spec, OnlyStaleWritesUndo

-----------------------------------------------------------------------------
(* Refinement of ChargeConfirmation *)

LEMMA RefinementInit == Init => Ledger!Init
BY DEF Init, Ledger!Init, Outcome, Purpose, Standing, Answered

\* What is on record grows by the rows that say paid, and by nothing else.
LEMMA RecordGrows ==
  ASSUME Inv, Next
  PROVE  /\ recorded' = recorded \cup Standing'
         /\ Standing' \subseteq Standing => recorded' = recorded
BY DEF Inv, Places, RecordInv, Next, Standing

\* A session's outcome, purpose and answer are what Stripe and the two columns say.
LEMMA SameSession ==
  ASSUME stripe' = stripe
  PROVE  /\ \A k \in Attempts : Outcome(k)' = Outcome(k)
         /\ slot' = slot => \A k \in Attempts : Purpose(k)' = Purpose(k)
BY DEF Outcome, Purpose

\* A session is opened by a checkout that has its booking, or by hand.
LEMMA OpenStep ==
  ASSUME Inv, Next, NEW k \in Attempts,
         CreateSession(k) \/ CreateLost(k) \/ OpenByHand(k)
  PROVE  Ledger!Next
<1> USE DEF Inv, Types, Standing, Answered, rows
<1>1. /\ stripe[k] = "none" /\ stripe' = [stripe EXCEPT ![k] = "open"]
      /\ \A j \in Attempts \ {k} : slot'[j] = slot[j]
      /\ UNCHANGED <<rowStatus, hook, booking>>
  BY DEF CreateSession, CreateLost, OpenByHand, Step, Places, CallInv, BeforeSession
<1>2. PICK b \in Bookings \cup {NoBooking} :
        /\ b = slot'[k]
        /\ (b \in Bookings /\ booking[b] # "none") \/ (b = NoBooking /\ k \in ByHand)
  BY DEF CreateSession, CreateLost, OpenByHand, Step, Exists, Places, CallInv, WithSlot,
         SlotInv
<1>3. /\ Outcome(k) = "none" /\ Outcome(k)' = "open" /\ Purpose(k)' = b
      /\ \A j \in Attempts \ {k} : Outcome(j)' = Outcome(j) /\ Purpose(j)' = Purpose(j)
  BY <1>1, <1>2 DEF Outcome, Purpose
<1>4. UNCHANGED <<recorded, Standing, Answered, booking>>
  BY <1>1, RecordGrows
<1>5. /\ [j \in Attempts |-> Outcome(j)]'
             = [[j \in Attempts |-> Outcome(j)] EXCEPT ![k] = "open"]
      /\ [j \in Attempts |-> Purpose(j)]'
             = [[j \in Attempts |-> Purpose(j)] EXCEPT ![k] = b]
  BY <1>3
<1>6. Ledger!Open(k, b)
  BY <1>2, <1>3, <1>4, <1>5 DEF Ledger!Open
<1>7. QED
  BY <1>6 DEF Ledger!Next

\* Stripe ends an open session once: paid, bounced or lapsed.
LEMMA EndStep ==
  ASSUME Inv, Next, NEW k \in Attempts,
         Pay(k) \/ Settle(k) \/ Bounce(k) \/ Lapse(k)
  PROVE  Ledger!Next
<1> USE DEF Inv, Types, Standing, Answered, rows
<1>1. PICK from \in {"open", "settling"}, to \in {"paid", "bounced", "lapsed"} :
        Ended(k, from, to)
  BY DEF Pay, Settle, Bounce, Lapse
<1>2. /\ Outcome(k) = "open" /\ Outcome(k)' \in {"charged", "void"}
      /\ Purpose(k)' = Purpose(k)
      /\ \A j \in Attempts \ {k} : Outcome(j)' = Outcome(j) /\ Purpose(j)' = Purpose(j)
  BY <1>1 DEF Ended, Outcome, Purpose
<1>3. hook[k] = "none" /\ hook' = [hook EXCEPT ![k] = "due"]
  BY <1>1 DEF Ended, Places, HookInv
<1>4. UNCHANGED <<recorded, Standing, Answered, booking>>
  BY <1>1, <1>3, RecordGrows DEF Ended
<1>5. /\ [j \in Attempts |-> Outcome(j)]'
             = [[j \in Attempts |-> Outcome(j)] EXCEPT ![k] = Outcome(k)']
      /\ UNCHANGED [j \in Attempts |-> Purpose(j)]
  BY <1>2
<1>6. Ledger!End(k)
  BY <1>2, <1>4, <1>5 DEF Ledger!End
<1>7. QED
  BY <1>6 DEF Ledger!Next

\* The transaction records the charge and confirms its booking; a session opened by
\* hand is recorded alone.
LEMMA RecordStep ==
  ASSUME Inv, Next, NEW w \in Workers, CommitPaid(w) \/ RecordOrphan(w)
  PROVE  Ledger!Next
<1> USE DEF Inv, Types, Standing, Answered, rows, atStripe
<1>1. PICK k \in Attempts : k = at[w] /\ stripe[k] = "paid"
  BY DEF CommitPaid, RecordOrphan, Goto, Places, WorkerInv, Confirming
<1>2. /\ IndexAllows(k) /\ rowStatus' = [rowStatus EXCEPT ![k] = "paid"]
      /\ UNCHANGED <<stripe, slot, hook>>
  BY <1>1 DEF CommitPaid, RecordOrphan
<1>3. Standing \subseteq {k} /\ Standing' = {k} /\ recorded' = recorded \cup {k}
  BY <1>2, RecordGrows DEF IndexAllows
<1>4. /\ Outcome(k) = "charged" /\ Purpose(k) = slot[k] /\ UNCHANGED Answered
      /\ \A j \in Attempts : Outcome(j)' = Outcome(j) /\ Purpose(j)' = Purpose(j)
  BY <1>1, <1>2, SameSession DEF Outcome, Purpose
<1>5. \/ Exists(slot[k]) /\ booking' = [booking EXCEPT ![slot[k]] = "confirmed"]
      \/ (Exists(slot[k]) => k \in ByHand) /\ UNCHANGED booking
  BY <1>1 DEF CommitPaid, RecordOrphan, Goto, Places, WorkerInv
<1>6. Ledger!Record(k)
  BY <1>3, <1>4, <1>5 DEF Ledger!Record, Ledger!Exists, Ledger!Confirmed, Exists
<1>7. QED
  BY <1>6 DEF Ledger!Next

\* A row that is written off withdraws a charge from the record, or never held one.
LEMMA WithdrawStep ==
  ASSUME Inv, Next, NEW k \in Attempts,
         rowStatus' = [rowStatus EXCEPT ![k] = "expired"],
         UNCHANGED <<stripe, slot, hook, booking>>
  PROVE  [Ledger!Next]_(Ledger!vars)
<1> USE DEF Inv, Types, Standing, Answered
<1>1. Standing' = Standing \ {k} /\ UNCHANGED <<recorded, Answered>>
  BY RecordGrows
<1>2. CASE k \in Standing
  <2>1. Ledger!Withdraw(k)
    BY <1>1, <1>2, SameSession DEF Ledger!Withdraw
  <2>2. QED
    BY <2>1 DEF Ledger!Next
<1>3. CASE k \notin Standing
  BY <1>1, <1>3, SameSession DEF Ledger!vars
<1>4. QED
  BY <1>2, <1>3

\* Whoever confirms a booking later has a recorded charge for it in hand.
LEMMA ConfirmStep ==
  ASSUME Inv, Next, NEW w \in Workers, Confirm(w)
  PROVE  [Ledger!Next]_(Ledger!vars)
<1> USE DEF Inv, Types, Standing, Answered, rows, atStripe
<1>1. UNCHANGED <<stripe, slot, hook, rowStatus, recorded, Standing, Answered>>
  BY RecordGrows DEF Confirm
<1>2. CASE Exists(target[w])
  <2>1. PICK b \in Bookings : b = target[w] /\ Exists(b)
    BY <1>2 DEF Exists
  <2>2. booking' = [booking EXCEPT ![b] = "confirmed"]
    BY <1>2, <2>1 DEF Confirm
  <2>3. at[w] \in recorded /\ at[w] \in Attempts /\ Purpose(at[w]) \in {b, NoBooking}
    BY <2>1 DEF Confirm, Places, WorkerInv, Confirming, Recorded, Purpose
  <2>4. Ledger!Confirm(b)
    BY <1>1, <2>1, <2>2, <2>3, SameSession
       DEF Ledger!Confirm, Ledger!Exists, Ledger!Confirmed, Exists
  <2>5. QED
    BY <2>4 DEF Ledger!Next
<1>3. CASE ~Exists(target[w])
  BY <1>1, <1>3, SameSession DEF Confirm, Ledger!vars
<1>4. QED
  BY <1>2, <1>3

\* A webhook that is marked processed answers a recorded charge or a session unpaid.
LEMMA MarkStep ==
  ASSUME Inv, Next, NEW w \in Workers, Mark(w)
  PROVE  [Ledger!Next]_(Ledger!vars)
<1> USE DEF Inv, Types, Standing, Answered, rows
<1>1. UNCHANGED <<stripe, slot, rowStatus, booking, recorded, Standing>>
  BY RecordGrows DEF Mark
<1>2. CASE job[w] = "hook"
  <2>1. PICK k \in Attempts : k = at[w] /\ hook' = [hook EXCEPT ![k] = "done"]
    BY <1>2 DEF Mark, Places, WorkerInv
  <2>2. Outcome(k) = "void" \/ k \in recorded
    BY <2>1 DEF Mark, Places, WorkerInv, Recorded, Outcome
  <2>3. Answered' = Answered \cup {k}
    BY <2>1
  <2>4. Ledger!Answer(k)
    BY <1>1, <2>2, <2>3, SameSession DEF Ledger!Answer
  <2>5. QED
    BY <2>4 DEF Ledger!Next
<1>3. CASE job[w] # "hook"
  BY <1>1, <1>3, SameSession DEF Mark, Ledger!vars
<1>4. QED
  BY <1>2, <1>3

\* Bookings are made, cancelled, delivered and deleted by people.
LEMMA ArrangeStep ==
  ASSUME Inv, Next, NEW b \in Bookings,
         Book(b) \/ CalendlyCancel(b) \/ DeliverStrategy(b) \/ DeleteBooking(b)
  PROVE  Ledger!Next
<1> USE DEF Inv, Types, Standing, Answered, rows, atStripe
<1>1. UNCHANGED <<stripe, slot, hook, rowStatus, recorded, Standing, Answered>>
  BY RecordGrows DEF Book, CalendlyCancel, DeliverStrategy, DeleteBooking
<1>2. \/ booking[b] = "none" /\ booking' = [booking EXCEPT ![b] = "pending"]
      \/ /\ Exists(b)
         /\ \E s \in {"completed", "cancelled", "deleted"} :
              booking' = [booking EXCEPT ![b] = s]
  BY DEF Book, CalendlyCancel, DeliverStrategy, DeleteBooking
<1>3. Ledger!Arrange(b)
  BY <1>1, <1>2, SameSession DEF Ledger!Arrange, Ledger!Exists, Exists
<1>4. QED
  BY <1>3 DEF Ledger!Next

\* Everything else a checkout, a worker, Stripe or an agent does is not in the story.
LEMMA CheckoutSilent ==
  ASSUME Inv, NEW k \in Attempts, Checkout(k)
  PROVE  \/ CreateSession(k) \/ CreateLost(k) \/ CloseFound(k)
         \/ UNCHANGED <<stripe, slot, hook, booking>>
         \/ PickSlot(k)
BY DEF Checkout, StartCheckout, Serve, CheckUnpaid, LookUpOpen, Probe, InsertRow,
       RejectRow, RecordSession, CheckoutFault, ProbeOutage, CreateRejected, Abandon, rows,
       atStripe

LEMMA SessionSilent ==
  ASSUME NEW k \in Attempts, Session(k)
  PROVE  \/ OpenByHand(k) \/ Pay(k) \/ Settle(k) \/ Bounce(k) \/ Lapse(k)
         \/ UNCHANGED <<stripe, slot, hook, booking>>
         \/ PayLater(k) \/ LoseHook(k)
BY DEF Session, Age, atStripe

LEMMA WorkerSilent ==
  ASSUME NEW w \in Workers, Confirmation(w)
  PROVE  \/ WriteOff(w) \/ CommitPaid(w) \/ RecordOrphan(w) \/ Confirm(w) \/ Mark(w)
         \/ UNCHANGED <<stripe, slot, hook, booking>>
BY DEF Confirmation, StartHook, StartSweep, Take, Work, Ask, FindPaid, RefuseSecondPaid,
       Screen, ReadSlot, ReadSlotFails, Advance, WriteStage, FindUnpaid, CloseUnpaid, Fail,
       rows, atStripe

LEMMA PeopleSilent ==
  ASSUME People
  PROVE  \/ \E b \in Bookings :
               Book(b) \/ CalendlyCancel(b) \/ DeliverStrategy(b) \/ DeleteBooking(b)
         \/ UNCHANGED <<stripe, slot, hook, booking>>
BY DEF People, Review, AgentDecide, AgentWrite, rows, atStripe

LEMMA SilentStep ==
  ASSUME Inv, Next, Standing' = Standing,
         \/ UNCHANGED <<stripe, slot, hook, booking>>
         \/ \E k \in Attempts : PickSlot(k) \/ PayLater(k) \/ LoseHook(k)
  PROVE  UNCHANGED Ledger!vars
<1> USE DEF Inv, Types, rows, atStripe
<1>1. \A k \in Attempts : Outcome(k)' = Outcome(k)
  BY DEF Outcome, PickSlot, PayLater, LoseHook
<1>2. \A k \in Attempts : Purpose(k)' = Purpose(k)
  BY DEF Purpose, PickSlot, Step, PayLater, LoseHook, Places, CallInv, BeforeSession
<1>3. Answered' = Answered
  BY DEF Answered, PickSlot, PayLater, LoseHook
<1>4. UNCHANGED <<booking, recorded>>
  BY RecordGrows DEF PickSlot, PayLater, LoseHook
<1>5. QED
  BY <1>1, <1>2, <1>3, <1>4 DEF Ledger!vars

LEMMA RefinementStep ==
  ASSUME Inv, [Next]_vars
  PROVE  [Ledger!Next]_(Ledger!vars)
<1>1. CASE UNCHANGED vars
  BY <1>1 DEF vars, state, rows, atStripe, Outcome, Purpose, Standing, Answered, Ledger!vars
<1>2. CASE Next
  <2> USE <1>2
  <2>1. ASSUME NEW k \in Attempts, CloseFound(k) PROVE [Ledger!Next]_(Ledger!vars)
    <3>1. found[k] \in Attempts
      BY <2>1 DEF CloseFound, Step, Inv, Places, CallInv
    <3>2. QED
      BY <2>1, <3>1, WithdrawStep DEF CloseFound, atStripe
  <2>2. ASSUME NEW w \in Workers, WriteOff(w) PROVE [Ledger!Next]_(Ledger!vars)
    <3>1. at[w] \in Attempts
      BY <2>2 DEF WriteOff, Inv, Places, WorkerInv
    <3>2. QED
      BY <2>2, <3>1, WithdrawStep DEF WriteOff, atStripe
  <2>3. CASE \/ UNCHANGED <<stripe, slot, hook, booking>>
             \/ \E k \in Attempts : PickSlot(k) \/ PayLater(k) \/ LoseHook(k)
    <3>1. CASE Standing' = Standing
      BY <2>3, <3>1, SilentStep
    <3>2. CASE Standing' # Standing
      BY <2>1, <2>2, <3>2, StandingMoves, RecordStep DEF Next
    <3>3. QED
      BY <3>1, <3>2
  <2>4. QED
    BY <2>1, <2>2, <2>3, CheckoutSilent, SessionSilent, WorkerSilent, PeopleSilent,
       OpenStep, EndStep, RecordStep, ConfirmStep, MarkStep, ArrangeStep DEF Next, Moves
<1>3. QED
  BY <1>1, <1>2

\* For any number of checkouts, webhooks, sweeps and agents, the code implements the
\* confirmation of charges.
THEOREM Refinement == Spec => ConfirmsCharges
<1>1. Inv /\ [Next]_vars => [Ledger!Next]_(Ledger!vars)
  BY RefinementStep
<1>2. QED
  BY <1>1, RefinementInit, InvAlways, PTL DEF Spec, ConfirmsCharges, Ledger!Spec

==============================================================================
