------------------------- MODULE ProspectRepairs_proofs -------------------------
(***************************************************************************)
(* Proofs about what ProspectIntake derives from its tables: what the      *)
(* refresh of a summary may lose and that it repairs, and that resolving   *)
(* an occupation's visas puts its links right.                             *)
(***************************************************************************)
EXTENDS ProspectIntake_proofs

-----------------------------------------------------------------------------
(* Steps of the summary *)

\* Only the save at the end of a refresh changes a summary.
LEMMA SummariesStay ==
  ASSUME NEW r \in Requests, Step(r) \/ Fails(r), ~SaveSummary(r)
  PROVE  summaries' = summaries
<1>1. Summary(r) => summaries' = summaries
  BY DEF Summary, RefreshStep, ReadProspect, ReadBooking, ReadPayment, LookUpSummary, rows
<1>2. QED
  BY <1>1, Frames DEF Step, rows

\* What a prospect answered, and what the engine made of it, get lost only when a refresh saves
\* over a summary that another one changed after it was read.
THEOREM HomeworkIsKept == Spec => HomeworkKept
<1> DEFINE Homework(p) == /\ summaries[p].answers => summaries'[p].answers
                          /\ summaries[p].result => summaries'[p].result
           Outrun(p) == \E r \in Requests :
                         At(r, "merge") /\ Target(r) = p /\ local[r].base # Found(p)
<1>1. ASSUME [Next]_vars, NEW p \in DOMAIN summaries PROVE Homework(p) \/ Outrun(p)
  <2>1. CASE summaries' = summaries
    BY <2>1
  <2>2. ASSUME NEW r \in Requests, SaveSummary(r) PROVE Homework(p) \/ Outrun(p)
    <3> DEFINE base == local[r].base
    <3>1. At(r, "merge")
      BY <2>2 DEF SaveSummary
    <3>2. CASE base = <<>>
      <4>1. \/ summaries' = summaries
            \/ /\ Target(r) \notin DOMAIN summaries
               /\ summaries' = summaries ++ [q \in {Target(r)} |-> Merged(r, Blank)]
        BY <2>2, <3>2 DEF SaveSummary
      <4> DEFINE new == [q \in {Target(r)} |-> Merged(r, Blank)]
      <4>2. (summaries ++ new)[p] = summaries[p]
        BY Laid
      <4> HIDE DEF new
      <4>3. summaries' = summaries \/ summaries' = summaries ++ new
        BY <4>1 DEF new
      <4>4. QED
        BY <4>2, <4>3
    <3>3. CASE base # <<>> /\ Target(r) # p
      <4>1. summaries' = [summaries EXCEPT ![Target(r)] = Merged(r, Head(base))]
        BY <2>2, <3>3 DEF SaveSummary
      <4>2. summaries'[p] = summaries[p]
        BY <3>3, <4>1
      <4>3. QED
        BY <4>2
    <3>4. CASE base # <<>> /\ Target(r) = p /\ base = Found(p)
      <4>1. summaries' = [summaries EXCEPT ![p] = Merged(r, summaries[p])]
        BY <2>2, <3>4 DEF SaveSummary, Found
      <4>2. summaries'[p] = Merged(r, summaries[p])
        BY <4>1
      <4>3. /\ Merged(r, summaries[p]).answers = (GivesAnswers(r) \/ summaries[p].answers)
            /\ Merged(r, summaries[p]).result = (GivesResult(r) \/ summaries[p].result)
        BY DEF Merged
      <4>4. QED
        BY Zenon, <4>2, <4>3
    <3>5. CASE Target(r) = p /\ base # Found(p)
      BY <3>1, <3>5
    <3>6. QED
      BY <3>2, <3>3, <3>4, <3>5
  <2>3. CASE UNCHANGED vars
    BY <2>1, <2>3 DEF vars, rows
  <2>4. ASSUME Next PROVE summaries' = summaries \/ \E r \in Requests : SaveSummary(r)
    <3>1. ASSUME NEW r \in Requests, Step(r) \/ Fails(r)
          PROVE  summaries' = summaries \/ SaveSummary(r)
      BY <3>1, SummariesStay
    <3>2. \A i : Stops(i) \/ InstanceStarts(i) \/ InstanceFailsToStart(i) => summaries' = summaries
      BY DEF Stops, InstanceStarts, InstanceFailsToStart, rows
    <3>3. \A t : InviteFallsDue(t) => summaries' = summaries
      BY DEF InviteFallsDue
    <3>4. QED
      BY <2>4, <3>1, <3>2, <3>3 DEF Next
  <2>5. QED
    BY <1>1, <2>1, <2>2, <2>3, <2>4
<1>2. [Next]_vars =>
        [\A p \in DOMAIN summaries :
           \/ /\ summaries[p].answers => summaries'[p].answers
              /\ summaries[p].result => summaries'[p].result
           \/ \E r \in Requests :
                At(r, "merge") /\ Target(r) = p /\ local[r].base # Found(p)]_vars
  BY <1>1
<1>3. QED
  BY <1>2, PTL DEF Spec, HomeworkKept

-----------------------------------------------------------------------------
(* What a refresh sees of the tables *)

Status == {"pending", "confirmed", "cancelled", "expired", "paid"}

\* Bookings and payments of a prospect are columns of statuses, oldest first.
Statuses ==
  /\ bookings \in [Requests -> Seq(Status)]
  /\ payments \in [Requests -> Seq(Status)]

LEMMA RemovedStays ==
  ASSUME NEW S, NEW s \in Seq(S), NEW k \in DOMAIN s
  PROVE  RemoveAt(s, k) \in Seq(S)
<1>1. k \in 1..Len(s) /\ Len(s) \in Nat
  BY LenProperties
<1>2. SubSeq(s, 1, k - 1) \in Seq(S) /\ SubSeq(s, k + 1, Len(s)) \in Seq(S)
  BY <1>1, SubSeqProperties
<1>3. QED
  BY <1>2, ConcatProperties DEF RemoveAt

\* A column of statuses of which one row is replaced.
LEMMA OneReplaced ==
  ASSUME NEW f \in [Requests -> Seq(Status)], NEW p \in Requests, NEW g, NEW t \in Seq(Status),
         g = [f EXCEPT ![p] = t]
  PROVE  g \in [Requests -> Seq(Status)]
  OBVIOUS

LEMMA OneSet ==
  ASSUME NEW f \in [Requests -> Seq(Status)], NEW p \in Requests, NEW k \in DOMAIN f[p],
         NEW status \in Status, NEW g, g = [f EXCEPT ![p][k] = status]
  PROVE  g \in [Requests -> Seq(Status)]
<1>1. [f[p] EXCEPT ![k] = status] \in Seq(Status)
  BY ExceptSeq, LenProperties
<1>2. g = [f EXCEPT ![p] = [f[p] EXCEPT ![k] = status]]
  OBVIOUS
<1>3. QED
  BY <1>1, <1>2, OneReplaced

LEMMA NextStatuses ==
  ASSUME Rows, Statuses, [Next]_vars
  PROVE  Statuses'
<1>1. ASSUME NEW r \in Requests, Write(r) PROVE Statuses'
  <2> DEFINE p == Target(r)
  <2>1. p \in Requests /\ bookings[p] \in Seq(Status) /\ payments[p] \in Seq(Status)
    BY <1>1 DEF Rows, Statuses, Write, Touch, Review, BookSlot, CancelSlot, DeleteSlot,
                OpenCheckout, LapseCheckout, PayCheckout
  <2>2. CASE Review(r)
    BY <2>2 DEF Review, Statuses
  <2>3. CASE BookSlot(r)
    <3>1. Append(bookings[p], "pending") \in Seq(Status)
      BY Zenon, <2>1, AppendProperties DEF Status
    <3>2. bookings' = [bookings EXCEPT ![p] = Append(bookings[p], "pending")] /\ payments' = payments
      BY <2>3 DEF BookSlot
    <3>3. QED
      BY <2>1, <3>1, <3>2, OneReplaced DEF Statuses
  <2>4. CASE CancelSlot(r)
    <3>1. PICK k \in DOMAIN bookings[p] : bookings' = [bookings EXCEPT ![p][k] = "cancelled"]
      BY <2>4 DEF CancelSlot, SetBooking
    <3>2. QED
      BY <2>1, <2>4, <3>1, OneSet DEF Status, CancelSlot, Statuses
  <2>5. CASE DeleteSlot(r)
    <3>1. PICK k \in DOMAIN bookings[p] :
            bookings' = [bookings EXCEPT ![p] = RemoveAt(bookings[p], k)]
      BY <2>5 DEF DeleteSlot
    <3>2. QED
      BY <2>1, <2>5, <3>1, RemovedStays, OneReplaced DEF DeleteSlot, Statuses
  <2>6. CASE OpenCheckout(r)
    <3>1. Append(payments[p], "pending") \in Seq(Status)
      BY Zenon, <2>1, AppendProperties DEF Status
    <3>2. payments' = [payments EXCEPT ![p] = Append(payments[p], "pending")] /\ bookings' = bookings
      BY <2>6 DEF OpenCheckout
    <3>3. QED
      BY <2>1, <3>1, <3>2, OneReplaced DEF Statuses
  <2>7. CASE LapseCheckout(r)
    <3>1. PICK k \in DOMAIN payments[p] : payments' = [payments EXCEPT ![p][k] = "expired"]
      BY <2>7 DEF LapseCheckout
    <3>2. QED
      BY <2>1, <2>7, <3>1, OneSet DEF Status, LapseCheckout, Statuses
  <2>8. CASE PayCheckout(r)
    <3>1. PICK k \in DOMAIN payments[p] : payments' = [payments EXCEPT ![p][k] = "paid"]
      BY <2>8 DEF PayCheckout
    <3>2. payments' \in [Requests -> Seq(Status)]
      BY <2>1, <3>1, OneSet DEF Status, Statuses
    <3>3. \/ bookings' = bookings
          \/ \E b \in DOMAIN bookings[p] : bookings' = [bookings EXCEPT ![p][b] = "confirmed"]
      BY <2>8 DEF PayCheckout, SetBooking
    <3>4. bookings' \in [Requests -> Seq(Status)]
      BY <2>1, <3>3, OneSet DEF Status, Statuses
    <3>5. QED
      BY <3>2, <3>4 DEF Statuses
  <2>9. QED
    BY <1>1, <2>2, <2>3, <2>4, <2>5, <2>6, <2>7, <2>8 DEF Write
<1>2. ASSUME NEW r \in Requests,
             Creation(r) \/ Admin(r) \/ Invitation(r) \/ Engine(r) \/ EnterInstance(r)
               \/ GetServed(r) \/ Fails(r) \/ Summary(r)
      PROVE  bookings' = bookings /\ payments' = payments
  BY <1>2, Frames DEF rows
<1>3. CASE bookings' = bookings /\ payments' = payments
  BY <1>3 DEF Statuses
<1>4. QED
  BY <1>1, <1>2, <1>3
     DEF Next, Step, vars, rows, Stops, InstanceStarts, InstanceFailsToStart, InviteFallsDue

-----------------------------------------------------------------------------
(* What a refresh that was handed nothing holds of the tables *)

\* A review and a checkout that lapses hand the refresh neither a booking nor a payment.
Refreshes(r) == Kind(r) \in {"review", "lapse"}

\* What r holds of the prospect p: nothing before it reads, and what the tables and the summary
\* say afterwards, if nobody wrote them meanwhile.
Current(r, p) ==
  /\ "booking" \in Left(r) => local[r].booking = None
  /\ "payment" \in Left(r) => local[r].payment = None
  /\ alone[r] /\ "merge" \in Left(r) =>
       /\ "read" \notin Left(r) => local[r].row = prospects[p]
       /\ "booking" \notin Left(r) => local[r].booking = LatestBooking(p)
       /\ "payment" \notin Left(r) => local[r].payment = ShownPayment(p)
       /\ "look" \notin Left(r) => local[r].base = Found(p)

AreCurrent == \A r \in Requests : Refreshes(r) => Current(r, Target(r))

LEMMA RefreshScript ==
  ASSUME Basic, NEW r \in Requests, Refreshes(r)
  PROVE  /\ Left(r) \subseteq {"enter", "await", "write"} \cup AllOfRefresh
         /\ {"write"} \cup AllOfRefresh \subseteq ToSet(Script(job[r]))
<1>1. ToSet(Script(job[r])) =
        (IF job[r].on \in Cold THEN {"enter", "await"} ELSE {}) \cup {"write"} \cup AllOfRefresh
  BY ScriptIs DEF Refreshes, Kind, WorkSteps, Touches
<1>2. QED
  BY <1>1, HeadIsFirst

LEMMA InitCurrent == Init => AreCurrent
<1> SUFFICES ASSUME Init, NEW r \in Requests, Refreshes(r) PROVE Current(r, Target(r))
  BY DEF AreCurrent
<1>1. Basic
  BY InitBasic
<1>2. AllOfRefresh \subseteq Left(r)
  BY <1>1, RefreshScript DEF Init, Left
<1>3. local[r].booking = None /\ local[r].payment = None
  BY DEF Init, NoLocal
<1>4. QED
  BY <1>2, <1>3 DEF Current, AllOfRefresh

\* What the others do, and the instances, leaves a request current or no longer alone.
LEMMA OthersLeave ==
  ASSUME Basic, OnRecord, [Next]_vars, NEW q \in Requests, NEW p, p = Target(q), Refreshes(q),
         Current(q, p), ~((Step(q) \/ Fails(q)) /\ Witnessed(q))
  PROVE  Current(q, p)'
<1>1. \A x \in {"booking", "payment", "row", "base"} : local'[q][x] = local[q][x]
  <2>1. ASSUME NEW r \in Requests, Step(r) \/ Fails(r), r # q PROVE local'[q] = local[q]
    BY <2>1, StepGains, LocalStays DEF OwnMemory
  <2>2. QED
    BY <2>1 DEF Next, vars, Stops, InstanceStarts, InstanceFailsToStart, InviteFallsDue
<1>2. todo'[q] \in {todo[q], <<>>}
  <2>1. ASSUME NEW r \in Requests, Step(r) \/ Fails(r), r # q PROVE todo'[q] = todo[q]
    BY <2>1, StepAdvances DEF Advances, FetchPolicy, Basic
  <2>2. QED
    BY <2>1 DEF Next, vars, Stops, InstanceStarts, InstanceFailsToStart, InviteFallsDue, Basic, Domains
<1>3. job' = job
  BY NextMoves DEF Basic
<1>4. alone'[q] => alone[q] /\ DataOf(p)' = DataOf(p)
  <2>1. ASSUME NEW r \in Requests, r # q, Witnessed(r), alone'[q]
        PROVE  alone[q] /\ DataOf(p)' = DataOf(p)
    <3>1. Kind(q) \in Touches
      BY DEF Refreshes, Touches
    <3>2. alone[q] /\ DataOf(Target(q))' = DataOf(Target(q))
      BY <2>1, <3>1 DEF Witnessed
    <3>3. Target(q)' = Target(q)
      BY <1>3 DEF Target, Kind
    <3>4. QED
      BY <3>2, <3>3 DEF DataOf, Found
  <2>2. CASE UNCHANGED <<alone, prospects, bookings, payments, summaries>>
    BY <2>2 DEF DataOf, Found
  <2>3. \/ \E r \in Requests : r # q /\ Witnessed(r)
        \/ UNCHANGED <<alone, prospects, bookings, payments, summaries>>
    BY DEF Next, vars, rows, Stops, InstanceStarts, InstanceFailsToStart, InviteFallsDue
  <2>4. QED
    BY <2>1, <2>2, <2>3
<1>5. CASE todo'[q] = <<>>
  <2>1. Left(q)' = {}
    BY <1>5, ShortScripts DEF Left
  <2>2. QED
    BY <2>1 DEF Current
<1>6. CASE todo'[q] = todo[q] /\ todo[q] # <<>>
  <2>1. Left(q)' = Left(q)
    BY <1>6 DEF Left
  <2>2. ASSUME alone'[q], "merge" \in Left(q), "read" \notin Left(q) PROVE prospects'[p] = prospects[p]
    <3>1. "insert" \notin Left(q) /\ "write" \notin Left(q)
      <4>1. Head(todo[q]) # "write"
        <5>1. "read" \in ToSet(Script(job[q]))
          BY RefreshScript DEF AllOfRefresh
        <5>2. QED
          BY <1>6, <2>2, <5>1, HeadIsFirst DEF Phase
      <4>2. Head(todo[q]) \notin {"enter", "await"}
        <5>1. "read" \in ToSet(Script(job[q]))
          BY RefreshScript DEF AllOfRefresh
        <5>2. QED
          BY <1>6, <2>2, <5>1, HeadIsFirst DEF Phase
      <4>3. Head(todo[q]) \in AllOfRefresh
        BY <1>6, <4>1, <4>2, RefreshScript, HeadIsFirst
      <4>4. QED
        BY <1>6, <4>3, HeadIsFirst DEF AllOfRefresh, Phase
    <3>2. p \in DOMAIN prospects
      BY <1>6, <3>1 DEF OnRecord, Refreshes, Touches
    <3>3. QED
      BY <1>4, <2>2, <3>2 DEF DataOf
  <2>3. ASSUME alone'[q]
        PROVE  /\ LatestBooking(p)' = LatestBooking(p) /\ ShownPayment(p)' = ShownPayment(p)
               /\ Found(p)' = Found(p)
    <3>1. bookings'[p] = bookings[p] /\ payments'[p] = payments[p] /\ Found(p)' = Found(p)
      BY <1>4, <2>3 DEF DataOf
    <3>2. QED
      BY <3>1 DEF LatestBooking, ShownPayment
  <2>4. QED
    BY <1>1, <1>4, <2>1, <2>2, <2>3 DEF Current
<1>7. QED
  BY <1>2, <1>5, <1>6

\* What the request itself does keeps it current.
LEMMA OwnRefresh ==
  ASSUME Basic, NEW q \in Requests, NEW p, p = Target(q), Refreshes(q),
         Current(q, p), Step(q), Witnessed(q)
  PROVE  Current(q, p)'
<1>1. todo[q] # <<>> /\ Head(todo[q]) \in {"enter", "await", "write"} \cup AllOfRefresh
  BY GroupSteps, RefreshScript, HeadIsFirst
<1>2. ASSUME Goes(q) PROVE Left(q)' = Left(q) \ {Head(todo[q])}
  BY <1>1, <1>2, HeadIsFirst DEF Goes, Left, Basic, Domains
<1>3. CASE Head(todo[q]) \in {"enter", "await", "write"}
  <2>1. Goes(q) /\ local' = local
    <3>1. EnterInstance(q) \/ GetServed(q) \/ Write(q)
      BY <1>1, <1>3, GroupSteps DEF Step, At, AllOfRefresh
    <3>2. ASSUME Write(q) PROVE Review(q) \/ LapseCheckout(q)
      BY <3>2 DEF Write, Touch, BookSlot, CancelSlot, DeleteSlot, OpenCheckout, PayCheckout, Refreshes
    <3>3. QED
      BY <3>1, <3>2 DEF EnterInstance, GetServed, Review, LapseCheckout, Touch
  <2>2. AllOfRefresh \subseteq Left(q)
    BY <1>1, <1>3, RefreshScript, HeadIsFirst DEF AllOfRefresh, Phase
  <2>3. AllOfRefresh \subseteq Left(q)'
    BY <1>2, <1>3, <2>1, <2>2 DEF AllOfRefresh
  <2>4. QED
    BY <2>1, <2>2, <2>3 DEF Current, AllOfRefresh
<1>4. CASE Head(todo[q]) \in AllOfRefresh
  <2>1. Summary(q)
    BY <1>1, <1>4, GroupSteps DEF Step, At, AllOfRefresh
  <2>2. alone'[q] => alone[q]
    <3>1. "write" \notin Left(q)
      BY <1>1, <1>4, HeadIsFirst DEF AllOfRefresh, Phase
    <3>2. todo[q] # Script(job[q])
      BY <3>1, RefreshScript DEF Left
    <3>3. QED
      BY <3>2 DEF Witnessed
  <2>3. UNCHANGED <<prospects, bookings, payments>>
    BY <2>1, Frames
  <2>4. LatestBooking(p)' = LatestBooking(p) /\ ShownPayment(p)' = ShownPayment(p)
    BY <2>3 DEF LatestBooking, ShownPayment
  <2>5. CASE SaveSummary(q)
    <3>1. Left(q)' = {}
      <4>1. Left(q) \subseteq {"enter", "await", "write"} \cup AllOfRefresh
        BY RefreshScript
      <4>2. Head(todo[q]) = "merge" /\ \A x \in Left(q) \ {"merge"} : 14 < Phase[x]
        BY <2>5, HeadIsFirst DEF SaveSummary, At, Phase
      <4>3. \A x \in {"enter", "await", "write"} \cup AllOfRefresh : ~(14 < Phase[x])
        BY DEF AllOfRefresh, Phase
      <4>4. QED
        BY <1>2, <2>5, <4>1, <4>2, <4>3 DEF SaveSummary
    <3>2. QED
      BY <3>1 DEF Current
  <2>6. ASSUME NEW step, RefreshStep(q, step)
        PROVE  /\ Left(q)' = Left(q) \ {step} /\ Found(p)' = Found(p) /\ step \in Left(q)
    BY <1>2, <2>6, HeadIsFirst DEF RefreshStep, At, rows, Found
  <2>7. /\ DOMAIN NoLocal \subseteq DOMAIN local[q]
        /\ {"row", "booking", "payment", "base"} \subseteq DOMAIN NoLocal
    BY DEF Basic, NoLocal
  <2>8. ASSUME NEW new, Holds(q, new)
        PROVE  \A x \in {"row", "booking", "payment", "base"} :
                 local'[q][x] = IF x \in DOMAIN new THEN new[x] ELSE local[q][x]
    BY <2>7, <2>8 DEF Holds, Basic, Domains, ++
  <2>9. CASE ReadProspect(q)
    <3>1. RefreshStep(q, "read") /\ Holds(q, [row |-> prospects[p]])
      BY <2>9 DEF ReadProspect
    <3>2. /\ local'[q].row = prospects[p]
          /\ \A x \in {"booking", "payment", "base"} : local'[q][x] = local[q][x]
      BY <2>8, <3>1
    <3>3. QED
      BY <2>2, <2>3, <2>4, <2>6, <3>1, <3>2 DEF Current
  <2>10. CASE ReadBooking(q)
    <3>1. RefreshStep(q, "booking") /\ Holds(q, [booking |-> LatestBooking(p)])
      BY <2>6, <2>10 DEF ReadBooking, Current
    <3>2. /\ local'[q].booking = LatestBooking(p)
          /\ \A x \in {"row", "payment", "base"} : local'[q][x] = local[q][x]
      BY <2>8, <3>1
    <3>3. QED
      BY <2>2, <2>3, <2>4, <2>6, <3>1, <3>2 DEF Current
  <2>11. CASE ReadPayment(q)
    <3>1. RefreshStep(q, "payment") /\ Holds(q, [payment |-> ShownPayment(p)])
      BY <2>6, <2>11 DEF ReadPayment, Current
    <3>2. /\ local'[q].payment = ShownPayment(p)
          /\ \A x \in {"row", "booking", "base"} : local'[q][x] = local[q][x]
      BY <2>8, <3>1
    <3>3. QED
      BY <2>2, <2>3, <2>4, <2>6, <3>1, <3>2 DEF Current
  <2>12. CASE LookUpSummary(q)
    <3>1. RefreshStep(q, "look") /\ Holds(q, [base |-> Found(p)])
      BY <2>12 DEF LookUpSummary
    <3>2. /\ local'[q].base = Found(p)
          /\ \A x \in {"row", "booking", "payment"} : local'[q][x] = local[q][x]
      BY <2>8, <3>1
    <3>3. QED
      BY <2>2, <2>3, <2>4, <2>6, <3>1, <3>2 DEF Current
  <2>13. QED
    BY <2>1, <2>5, <2>9, <2>10, <2>11, <2>12 DEF Summary
<1>5. QED
  BY <1>1, <1>3, <1>4

LEMMA NextCurrent ==
  ASSUME Basic, OnRecord, AreCurrent, [Next]_vars
  PROVE  AreCurrent'
<1>1. job' = job
  BY NextMoves DEF Basic
<1>2. ASSUME NEW q \in Requests, NEW p, p = Target(q), Refreshes(q) PROVE Current(q, p)'
  <2>1. Current(q, p)
    BY <1>2 DEF AreCurrent
  <2>2. CASE ~((Step(q) \/ Fails(q)) /\ Witnessed(q))
    BY <1>2, <2>1, <2>2, OthersLeave
  <2>3. CASE Step(q) /\ Witnessed(q)
    BY <1>2, <2>1, <2>3, OwnRefresh
  <2>4. CASE Fails(q)
    <3>1. Throws(q) /\ Head(todo[q]) \in {"enter", "await", "write"} \cup AllOfRefresh
      BY <1>2, <2>4, RefreshScript, HeadIsFirst DEF Fails
    <3>2. todo'[q] = <<>>
      BY <3>1, ThrowsEnds DEF AllOfRefresh, Basic
    <3>3. Left(q)' = {}
      BY <3>2, ShortScripts DEF Left
    <3>4. QED
      BY <3>3 DEF Current
  <2>5. QED
    BY <2>2, <2>3, <2>4
<1>3. \A q \in Requests : Refreshes(q)' = Refreshes(q) /\ Target(q)' = Target(q)
  BY <1>1 DEF Refreshes, Target, Kind
<1>4. QED
  BY <1>2, <1>3 DEF AreCurrent

\* The last of a sequence of statuses, and the payment that is shown of them.
LEMMA ShownIsLast ==
  ASSUME NEW s \in Seq(Status), s # <<>>
  PROVE  /\ Last(s) \in Status
         /\ LET unpaid == {k \in DOMAIN s : s[k] # "paid"} IN
              /\ unpaid = {} => Last(s) = "paid"
              /\ unpaid = DOMAIN s => Max(unpaid) = Len(s)
         /\ ("paid" \in ToSet(s) => ToSet(s) = {"paid"}) =>
              \A k \in DOMAIN s : (s[k] = "paid" <=> \A n \in DOMAIN s : s[n] = "paid")
<1>1. Len(s) \in Nat \ {0} /\ DOMAIN s = 1..Len(s) /\ \A k \in 1..Len(s) : s[k] \in Status
  BY LenProperties, EmptySeq
<1>2. Last(s) = s[Len(s)]
  BY DEF Last
<1> DEFINE unpaid == {k \in DOMAIN s : s[k] # "paid"}
<1>3. ASSUME unpaid = DOMAIN s PROVE Max(unpaid) = Len(s)
  <2> DEFINE top == Max(unpaid)
  <2>1. \A y \in unpaid : Len(s) >= y
    BY <1>1, <1>3
  <2>2. Len(s) \in unpaid
    BY <1>1, <1>3
  <2>3. top \in unpaid /\ \A y \in unpaid : top >= y
    BY <2>1, <2>2 DEF Max
  <2>4. top \in 1..Len(s)
    BY <1>1, <1>3, <2>3
  <2> DEFINE n == Len(s)
  <2>5. n \in Nat /\ top \in 1..n /\ top >= n
    BY <1>1, <2>2, <2>3, <2>4
  <2> HIDE DEF top, unpaid, n
  <2>6. top = n
    BY <2>5
  <2>7. QED
    BY <2>6 DEF top, unpaid, n
<1>4. ToSet(s) = {s[k] : k \in DOMAIN s}
  BY DEF ToSet
<1>5. QED
  BY <1>1, <1>2, <1>3, <1>4

\* Where a paid attempt does not stand beside an unpaid one, the payment shown is the last.
LEMMA PaymentIsLast ==
  ASSUME Statuses, NEW p \in Requests, payments[p] # <<>>,
         "paid" \in ToSet(payments[p]) => ToSet(payments[p]) = {"paid"}
  PROVE  ShownPayment(p) = Last(payments[p]) /\ ShownPayment(p) \in Status
<1> DEFINE s == payments[p]
           unpaid == {k \in DOMAIN s : s[k] # "paid"}
<1>1. s \in Seq(Status) /\ s # <<>>
  BY DEF Statuses
<1>2. unpaid = {} \/ unpaid = DOMAIN s
  BY <1>1, ShownIsLast
<1>3. /\ Last(s) \in Status /\ Last(s) = s[Len(s)]
      /\ unpaid = {} => Last(s) = "paid"
      /\ unpaid = DOMAIN s => Max(unpaid) = Len(s)
  BY <1>1, ShownIsLast DEF Last
<1>4. DOMAIN s # {}
  <2>1. Len(s) \in Nat /\ Len(s) # 0 /\ DOMAIN s = 1..Len(s)
    BY <1>1, LenProperties, EmptySeq
  <2>2. 1 \in DOMAIN s
    BY <2>1
  <2>3. QED
    BY <2>2
<1>5. ShownPayment(p) = IF unpaid # {} THEN s[Max(unpaid)] ELSE IF s # <<>> THEN "paid" ELSE None
  BY DEF ShownPayment
<1> HIDE DEF s, unpaid
<1>6. ShownPayment(p) = Last(s)
  BY <1>1, <1>2, <1>3, <1>4, <1>5
<1>7. QED
  BY <1>3, <1>6 DEF s

\* What a refresh saves of a prospect whose tables it holds.
LEMMA SavedAgrees ==
  ASSUME Basic, Rows, OnRecord, Statuses, AreCurrent, NEW r \in Requests, Refreshes(r), alone[r],
         SaveSummary(r), NEW p, p = Target(r)
  PROVE  Agrees(p)'
<1>1. At(r, "merge") /\ UNCHANGED <<prospects, bookings, payments>>
  BY DEF SaveSummary
<1>2. /\ local[r].row = prospects[p] /\ local[r].booking = LatestBooking(p)
      /\ local[r].payment = ShownPayment(p) /\ local[r].base = Found(p)
  <2>1. "merge" \in Left(r) /\ Left(r) \cap {"read", "booking", "payment", "look"} = {}
    BY <1>1, HeadIsFirst DEF At, Phase
  <2>2. QED
    BY <2>1 DEF AreCurrent, Current
<1>3. p \in DOMAIN prospects /\ p \in Requests
  <2>1. todo[r] # <<>> /\ "insert" \notin Left(r) /\ "write" \notin Left(r)
    BY <1>1, HeadIsFirst DEF At, Phase
  <2>2. QED
    BY <2>1 DEF OnRecord, Rows, Refreshes, Touches
<1>4. PICK base : p \in DOMAIN summaries' /\ summaries'[p] = Merged(r, base)
  <2>1. CASE p \in DOMAIN summaries
    <3>1. Found(p) # <<>> /\ Head(Found(p)) = summaries[p]
      BY <2>1 DEF Found
    <3>2. summaries' = [summaries EXCEPT ![p] = Merged(r, summaries[p])]
      BY <1>2, <3>1 DEF SaveSummary
    <3>3. QED
      BY <2>1, <3>2
  <2>2. CASE p \notin DOMAIN summaries
    <3>1. summaries' = summaries ++ [q \in {p} |-> Merged(r, Blank)]
      BY <1>2, <2>2 DEF SaveSummary, Found
    <3> DEFINE new == [q \in {p} |-> Merged(r, Blank)]
    <3>2. DOMAIN new = {p} /\ new[p] = Merged(r, Blank)
      OBVIOUS
    <3>3. summaries' = summaries ++ new
      BY <3>1
    <3> HIDE DEF new
    <3>4. p \in DOMAIN summaries' /\ summaries'[p] = new[p]
      BY <2>2, <3>2, <3>3 DEF ++
    <3>5. QED
      BY <3>2, <3>4
  <2>3. QED
    BY <2>1, <2>2
<1>5. ~GivesAssessment(r)
  BY DEF GivesAssessment, Refreshes, Quizzes
<1>6. /\ summaries'[p].eligibility.statutory = prospects[p].statutory
      /\ summaries'[p].eligibility.fit = prospects[p].fit
  BY <1>2, <1>4, <1>5 DEF Merged, Eligibility
<1>7. prospects[p].sponsor # None => summaries'[p].sponsorship
  <2>1. Merged(r, base).sponsorship = (local[r].row.sponsor # None \/ base.sponsorship)
    BY DEF Merged
  <2>2. QED
    BY Zenon, <1>2, <1>4, <2>1
<1>8. LatestBooking(p) # None => summaries'[p].booking = LatestBooking(p)
  BY <1>2, <1>4 DEF Merged
<1>9. ShownPayment(p) # None => summaries'[p].payment = ShownPayment(p)
  BY <1>2, <1>4 DEF Merged
<1>10. None \notin Status
  BY NoneIsNoStatus DEF Status
<1>11. bookings[p] # <<>> => summaries'[p].booking = LatestBooking(p)
  <2>1. bookings[p] # <<>> => LatestBooking(p) \in Status
    BY <1>3, ShownIsLast DEF LatestBooking, Statuses
  <2>2. QED
    BY <1>8, <1>10, <2>1
<1>12. /\ payments[p] # <<>>
       /\ "paid" \in ToSet(payments[p]) => ToSet(payments[p]) = {"paid"}
       => summaries'[p].payment = Last(payments[p])
  BY <1>3, <1>9, <1>10, PaymentIsLast
<1>13. prospects' = prospects /\ payments' = payments /\ bookings' = bookings
  BY <1>1
<1>14. LatestBooking(p)' = LatestBooking(p)
  BY <1>13 DEF LatestBooking
<1>15. QED
  BY <1>4, <1>6, <1>7, <1>11, <1>12, <1>13, <1>14 DEF Agrees

\* A refresh that ends without a failure has saved.
LEMMA EndOfRefresh ==
  ASSUME Basic, Kept, [Next]_vars, NEW r \in Requests, At(r, "merge"), todo'[r] = <<>>,
         faults' = faults
  PROVE  SaveSummary(r)
<1>1. faults + 1 # faults
  BY DEF Kept
<1>2. todo'[r] # todo[r]
  BY DEF At
<1>3. ASSUME NEW q \in Requests, Step(q) \/ Fails(q) PROVE q = r /\ Step(r)
  <2>1. q = r
    BY <1>2, <1>3, StepAdvances DEF Advances, FetchPolicy, Basic
  <2>2. ~Fails(q)
    BY <1>1 DEF Fails
  <2>3. QED
    BY <1>3, <2>1, <2>2
<1>4. Step(r)
  BY <1>1, <1>2, <1>3
     DEF Next, vars, Stops, InstanceStarts, InstanceFailsToStart, InviteFallsDue
<1>5. Summary(r)
  BY <1>4, GroupSteps DEF Step, At
<1>6. QED
  BY <1>5 DEF Summary, RefreshStep, ReadProspect, ReadBooking, ReadPayment, LookUpSummary, At

\* "If it is ever wrong, the fix is to call refresh() again": a refresh that was handed nothing,
\* and that nobody else wrote beside, leaves a summary that agrees with the tables, whatever
\* earlier refreshes and failures had made of it (ProspectSummaryService.refresh and upsert).
THEOREM RefreshDoesRepair == Spec => RefreshRepairs
<1> DEFINE IInv == Basic /\ Memory /\ Rows /\ OnRecord /\ Kept /\ Statuses /\ AreCurrent
<1>1. Init => IInv
  <2>1. Init => Rows /\ Kept
    BY MaxFaultsIsNat DEF Init, Rows, Kept
  <2>2. Init => Statuses
    BY DEF Init, Statuses
  <2>3. QED
    BY <2>1, <2>2, InitBasic, InitMemory, InitOnRecord, InitCurrent
<1>2. IInv /\ [Next]_vars => IInv'
  BY NextBasic, NextMemory, NextRows, NextOnRecord, NextKept, NextStatuses, NextCurrent
<1>3. IInv /\ [Next]_vars =>
        [\A r \in Requests :
           Kind(r) \in {"review", "lapse"} /\ alone[r] /\ At(r, "merge") /\ todo'[r] = <<>>
             /\ faults' = faults => Agrees(Target(r))']_vars
  <2> SUFFICES ASSUME IInv, [Next]_vars, NEW r \in Requests,
                      Refreshes(r), alone[r], At(r, "merge"), todo'[r] = <<>>, faults' = faults
               PROVE  Agrees(Target(r))'
    BY DEF Refreshes
  <2>1. SaveSummary(r)
    BY EndOfRefresh
  <2>2. PICK p : p = Target(r)
    OBVIOUS
  <2>3. Agrees(p)'
    BY <2>1, <2>2, SavedAgrees
  <2>4. Target(r)' = p
    BY <2>2, NextMoves DEF Target, Kind, Basic
  <2>5. QED
    BY <2>3, <2>4 DEF Agrees, LatestBooking
<1>4. QED
  BY <1>1, <1>2, <1>3, PTL DEF Spec, RefreshRepairs

-----------------------------------------------------------------------------
(* Resolving an occupation's visas *)

Resolves(r) == Kind(r) \in Resolvers

\* What r holds of the occupation c on its way to the transaction, if nobody else has changed
\* the catalogue meanwhile.
Knows(r, c) ==
  alone[r] /\ "resolve" \in Left(r) =>
    /\ Kind(r) # "update" /\ Left(r) \cap {"add", "upsert", "survey"} = {} =>
         c \in DOMAIN listed /\ local[r].lists = ListsOf(c)
    /\ Kind(r) = "update" /\ "load" \notin Left(r) => c \in DOMAIN listed
    /\ Kind(r) = "update" /\ Left(r) \cap {"load", "drop"} = {} =>
         local[r].lists = job[r].lists /\ local[r].dropped = ListsOf(c)
    /\ "compare" \notin Left(r) => local[r].seen = LinksOf(c)

Know == \A r \in Requests : Resolves(r) => Knows(r, Code(r))

\* What comes before the comparison in the script of a request.
Before(r) ==
  CASE Kind(r) = "create" -> {"add"}
    [] Kind(r) = "update" -> {"load", "drop"}
    [] Kind(r) = "import" -> {"upsert", "survey"}
    [] OTHER              -> {"survey"}

LEMMA ResolveScript ==
  ASSUME Basic, NEW r \in Requests, Resolves(r), "resolve" \in Left(r)
  PROVE  /\ ToSet(Script(job[r])) =
              (IF job[r].on \in Cold THEN {"enter", "await"} ELSE {})
                \cup Before(r) \cup {"compare", "resolve"}
         /\ Left(r) \subseteq {"enter", "await", "compare", "resolve"} \cup Before(r)
<1>1. ToSet(Script(job[r])) =
        (IF job[r].on \in Cold THEN {"enter", "await"} ELSE {}) \cup WorkSteps(job[r])
  BY ScriptIs
<1>2. "resolve" \in ToSet(Script(job[r])) /\ Left(r) \subseteq ToSet(Script(job[r]))
  BY HeadIsFirst
<1>3. "resolve" \in WorkSteps(job[r])
  BY <1>1, <1>2
<1>4. WorkSteps(job[r]) = Before(r) \cup {"compare", "resolve"}
  BY <1>3, SyncIs DEF WorkSteps, Before, Resolves, Resolvers, Kind, Touches
<1>5. QED
  BY <1>1, <1>2, <1>4

LEMMA InitKnow == Init => Know
  BY DEF Init, Know, Knows

\* What the others do, and the instances, leaves a request as it is or no longer alone.
LEMMA OthersLeaveIt ==
  ASSUME Basic, [Next]_vars, NEW q \in Requests, NEW c, c = Code(q), Resolves(q),
         Knows(q, c), ~((Step(q) \/ Fails(q)) /\ Witnessed(q))
  PROVE  Knows(q, c)'
<1>1. \A x \in {"lists", "dropped", "seen"} : local'[q][x] = local[q][x]
  <2>1. ASSUME NEW r \in Requests, Step(r) \/ Fails(r), r # q PROVE local'[q] = local[q]
    BY <2>1, StepGains, LocalStays DEF OwnMemory
  <2>2. QED
    BY <2>1 DEF Next, vars, Stops, InstanceStarts, InstanceFailsToStart, InviteFallsDue
<1>2. todo'[q] \in {todo[q], <<>>}
  <2>1. ASSUME NEW r \in Requests, Step(r) \/ Fails(r), r # q PROVE todo'[q] = todo[q]
    BY <2>1, StepAdvances DEF Advances, FetchPolicy, Basic
  <2>2. QED
    BY <2>1 DEF Next, vars, Stops, InstanceStarts, InstanceFailsToStart, InviteFallsDue, Basic, Domains
<1>3. job' = job
  BY NextMoves DEF Basic
<1>4. alone'[q] => alone[q] /\ listed' = listed /\ links' = links
  <2>1. ASSUME NEW r \in Requests, r # q, Witnessed(r), alone'[q]
        PROVE  alone[q] /\ listed' = listed /\ links' = links
    <3>1. Kind(q) \in Resolvers /\ Kind(q) \notin Touches
      BY DEF Resolves, Resolvers, Touches
    <3>2. QED
      BY <2>1, <3>1 DEF Witnessed, catalogueVars
  <2>2. \/ \E r \in Requests : r # q /\ Witnessed(r)
        \/ UNCHANGED <<alone, listed, links>>
    BY DEF Next, vars, config, catalogueVars, Stops, InstanceStarts, InstanceFailsToStart,
           InviteFallsDue
  <2>3. QED
    BY <2>1, <2>2
<1>5. CASE todo'[q] = <<>>
  <2>1. Left(q)' = {}
    BY <1>5, ShortScripts DEF Left
  <2>2. QED
    BY <2>1 DEF Knows
<1>6. CASE todo'[q] = todo[q]
  <2>1. Left(q)' = Left(q)
    BY <1>6 DEF Left
  <2>2. alone'[q] => ListsOf(c)' = ListsOf(c) /\ LinksOf(c)' = LinksOf(c)
    BY <1>4 DEF ListsOf, LinksOf
  <2>3. Kind(q)' = Kind(q)
    BY <1>3 DEF Kind
  <2>4. QED
    BY <1>1, <1>3, <1>4, <2>1, <2>2, <2>3 DEF Knows
<1>7. QED
  BY <1>2, <1>5, <1>6

\* What the request itself does.
LEMMA OwnResolution ==
  ASSUME Basic, [Next]_vars, NEW q \in Requests, NEW c, c = Code(q), Resolves(q),
         Knows(q, c), Step(q), Witnessed(q)
  PROVE  Knows(q, c)'
<1>1. todo[q] # <<>> /\ job' = job /\ Kind(q)' = Kind(q)
  BY GroupSteps, NextMoves DEF Basic, Kind
<1>2. SUFFICES ASSUME "resolve" \in Left(q)', alone'[q] PROVE Knows(q, c)'
  BY DEF Knows
<1>3. Moves(q) /\ todo'[q] # <<>> /\ "resolve" \in Left(q)
  <2>1. Moves(q)
    BY NextMoves DEF Basic
  <2>2. QED
    BY <1>2, <2>1, LeftShrinks, ShortScripts DEF Left
<1>4. ~Throws(q)
  <2>1. ASSUME Throws(q) PROVE todo'[q] = Refresh
    BY <1>3, <2>1, ThrowsEnds DEF Basic
  <2>2. "resolve" \notin AllOfRefresh
    BY DEF AllOfRefresh
  <2>3. QED
    BY <1>2, <2>1, <2>2, RefreshIs DEF Left
<1>5. \A answer : ~Ends(q, answer)
  BY <1>3 DEF Ends, Basic, Domains
<1>6. Head(todo[q]) \in {"enter", "await", "compare", "resolve"} \cup Before(q)
  BY <1>1, <1>3, ResolveScript, HeadIsFirst
<1>7. ASSUME Goes(q) PROVE Left(q)' = Left(q) \ {Head(todo[q])}
  BY <1>1, <1>7, HeadIsFirst DEF Goes, Left, Basic, Domains
<1>8. /\ DOMAIN NoLocal \subseteq DOMAIN local[q]
      /\ {"lists", "dropped", "seen"} \subseteq DOMAIN NoLocal
  BY DEF Basic, NoLocal
<1>9. ASSUME NEW new, Holds(q, new)
      PROVE  \A x \in {"lists", "dropped", "seen"} :
               local'[q][x] = IF x \in DOMAIN new THEN new[x] ELSE local[q][x]
  BY <1>8, <1>9 DEF Holds, Basic, Domains, ++
\* Whoever is past its first step was alone before.
<1>10. ASSUME NEW x \in Before(q), x \notin Left(q) PROVE alone[q]
  <2>1. todo[q] # Script(job[q])
    BY <1>3, <1>10, ResolveScript DEF Left
  <2>2. QED
    BY <1>2, <2>1 DEF Witnessed
<1>11. CASE Head(todo[q]) \in {"enter", "await"}
  <2>1. Goes(q)
    <3>1. EnterInstance(q) \/ GetServed(q)
      BY <1>1, <1>11, GroupSteps DEF Step, At, AllOfRefresh
    <3>2. QED
      BY <3>1 DEF EnterInstance, GetServed
  <2>2. Before(q) \cup {"compare"} \subseteq Left(q)
    <3>1. Before(q) \cup {"compare"} \subseteq {"add", "upsert", "survey", "load", "drop", "compare"}
      BY DEF Before
    <3>2. \A x \in {"add", "upsert", "survey", "load", "drop", "compare"} :
            Phase[Head(todo[q])] <= Phase[x]
      BY <1>11 DEF Phase
    <3>3. QED
      BY <1>1, <1>3, <3>1, <3>2, ResolveScript, HeadIsFirst
  <2>3. Left(q)' = Left(q) \ {Head(todo[q])} /\ Head(todo[q]) \notin Before(q) \cup {"compare"}
    BY <1>7, <1>11, <2>1 DEF Before
  <2>4. QED
    BY <1>1, <2>2, <2>3 DEF Knows, Before, Resolves, Resolvers
<1>12. CASE Head(todo[q]) \notin {"enter", "await"}
  <2>1. Admin(q)
    <3>1. Head(todo[q]) \in {"compare", "resolve", "add", "upsert", "survey", "load", "drop"}
      BY <1>6, <1>12 DEF Before
    <3>2. QED
      BY <1>1, <3>1, GroupSteps DEF Step, At, AllOfRefresh
  <2>2. ASSUME Phase[Head(todo[q])] < 4 PROVE "compare" \in Left(q)
    <3>1. Phase[Head(todo[q])] <= Phase["compare"]
      BY <1>1, <2>2, HeadIsFirst DEF Phase
    <3>2. QED
      BY <1>1, <1>3, <3>1, ResolveScript, HeadIsFirst
  <2>3. CASE CreateOccupation(q)
    <3>1. /\ Head(todo[q]) = "add" /\ Goes(q) /\ AddOccupation(c, job[q].lists)
          /\ Holds(q, [lists |-> job[q].lists])
      BY <1>4, <2>3 DEF CreateOccupation, CatalogueStep, At
    <3>2. c \in DOMAIN listed' /\ ListsOf(c)' = job[q].lists
      <4> DEFINE new == [x \in {c} |-> Legacy(job[q].lists)]
      <4>1. DOMAIN new = {c} /\ DOMAIN new[c] = job[q].lists
        BY DEF Legacy
      <4>2. listed' = new ++ listed
        BY <3>1 DEF AddOccupation
      <4> HIDE DEF new
      <4>3. c \in DOMAIN listed' /\ listed'[c] = new[c]
        BY <4>1, <4>2 DEF ++
      <4>4. QED
        BY <4>1, <4>3 DEF ListsOf
    <3>3. local'[q].lists = job[q].lists
      BY <1>9, <3>1
    <3>4. Kind(q) = "create" /\ "compare" \in Left(q)'
      <4>1. Kind(q) = "create"
        BY <1>6, <3>1 DEF Before, Resolves, Resolvers
      <4>2. "compare" \in Left(q)
        BY <2>2, <3>1 DEF Phase
      <4>3. QED
        BY <1>7, <3>1, <4>1, <4>2
    <3>5. QED
      BY <1>1, <3>2, <3>3, <3>4 DEF Knows
  <2>4. CASE UpsertLists(q)
    <3>1. Head(todo[q]) = "upsert" /\ Goes(q)
      BY <2>4 DEF UpsertLists, CatalogueStep, At
    <3>2. Kind(q) = "import"
      BY <1>6, <3>1 DEF Before, Resolves, Resolvers
    <3>3. "compare" \in Left(q) /\ "survey" \in Left(q)
      <4>1. "survey" \in Before(q) /\ Phase["upsert"] <= Phase["survey"]
        BY <3>2 DEF Before, Phase
      <4>2. QED
        BY <1>1, <1>3, <2>2, <3>1, <4>1, ResolveScript, HeadIsFirst DEF Phase
    <3>4. QED
      BY <1>1, <1>7, <3>1, <3>2, <3>3 DEF Knows
  <2>5. CASE LoadOccupation(q)
    <3>1. /\ Head(todo[q]) = "load" /\ Goes(q) /\ c \in DOMAIN listed /\ listed' = listed
      BY <1>5, <2>5 DEF LoadOccupation, CatalogueStep, At, catalogueVars
    <3>2. Kind(q) = "update"
      BY <1>6, <3>1 DEF Before, Resolves, Resolvers
    <3>3. "compare" \in Left(q) /\ "drop" \in Left(q)
      <4>1. "drop" \in Before(q) /\ Phase["load"] <= Phase["drop"]
        BY <3>2 DEF Before, Phase
      <4>2. QED
        BY <1>1, <1>3, <2>2, <3>1, <4>1, ResolveScript, HeadIsFirst DEF Phase
    <3>4. QED
      BY <1>1, <1>7, <3>1, <3>2, <3>3 DEF Knows
  <2>6. CASE DropLists(q)
    <3>1. /\ Head(todo[q]) = "drop" /\ Goes(q) /\ listed' = listed
          /\ Holds(q, [lists |-> job[q].lists,
                       dropped |-> IF c \in DOMAIN listed THEN ListsOf(c) ELSE {}])
      BY <1>4, <2>6 DEF DropLists, CatalogueStep, At, catalogueVars
    <3>2. Kind(q) = "update"
      BY <1>6, <3>1 DEF Before, Resolves, Resolvers
    <3>3. "load" \notin Left(q) /\ "load" \in Before(q)
      BY <1>1, <3>1, <3>2, HeadIsFirst DEF Before, Phase
    <3>4. c \in DOMAIN listed
      BY <1>3, <1>10, <3>2, <3>3 DEF Knows
    <3>5. local'[q].lists = job[q].lists /\ local'[q].dropped = ListsOf(c)
      BY <1>9, <3>1, <3>4
    <3>6. "compare" \in Left(q)'
      BY <1>7, <2>2, <3>1 DEF Phase
    <3>7. QED
      BY <1>1, <3>1, <3>2, <3>4, <3>5, <3>6 DEF Knows, ListsOf
  <2>7. CASE SurveyLists(q)
    <3>1. /\ Head(todo[q]) = "survey" /\ Goes(q) /\ listed' = listed /\ c \in DOMAIN listed
          /\ Holds(q, [lists |-> ListsOf(c)])
      BY <1>5, <2>7 DEF SurveyLists, CatalogueStep, At, catalogueVars
    <3>2. Kind(q) # "update"
      BY <1>6, <3>1 DEF Before
    <3>3. local'[q].lists = ListsOf(c)
      BY <1>9, <3>1
    <3>4. "compare" \in Left(q)'
      BY <1>7, <2>2, <3>1 DEF Phase
    <3>5. QED
      BY <1>1, <3>1, <3>2, <3>3, <3>4 DEF Knows, ListsOf
  <2>8. CASE CompareLinks(q)
    <3>1. /\ Head(todo[q]) = "compare" /\ Goes(q) /\ listed' = listed /\ links' = links
          /\ Holds(q, [seen |-> LinksOf(c)])
      BY <2>8 DEF CompareLinks, CatalogueStep, At, catalogueVars
    <3>2. /\ local'[q].seen = LinksOf(c) /\ local'[q].lists = local[q].lists
          /\ local'[q].dropped = local[q].dropped
      BY <1>9, <3>1
    <3>3. Before(q) \cap Left(q) = {} /\ Before(q) # {}
      <4>1. \A x \in Before(q) : Phase[x] < 4
        BY DEF Before, Phase
      <4>2. \A x \in Left(q) \ {"compare"} : 4 < Phase[x]
        BY <1>1, <3>1, HeadIsFirst DEF Phase
      <4>3. "compare" \notin Before(q) /\ Before(q) # {} /\ \A x \in Before(q) : Phase[x] \in Nat
        BY DEF Before, Phase
      <4>4. QED
        BY <4>1, <4>2, <4>3
    <3>4. alone[q]
      BY <1>10, <3>3
    <3>5. Left(q)' = Left(q) \ {"compare"}
      BY <1>7, <3>1
    <3>6. /\ Kind(q) # "update" => Left(q) \cap {"add", "upsert", "survey"} = {}
          /\ Kind(q) = "update" => Left(q) \cap {"load", "drop"} = {}
      BY <1>3, <3>3, ResolveScript DEF Before
    <3>7. /\ Kind(q) # "update" => c \in DOMAIN listed /\ local[q].lists = ListsOf(c)
          /\ Kind(q) = "update" =>
               c \in DOMAIN listed /\ local[q].lists = job[q].lists /\ local[q].dropped = ListsOf(c)
      BY <1>3, <3>4, <3>6 DEF Knows
    <3>8. ListsOf(c)' = ListsOf(c) /\ LinksOf(c)' = LinksOf(c)
      BY <3>1 DEF ListsOf, LinksOf
    <3>9. QED
      BY <1>1, <3>1, <3>2, <3>7, <3>8 DEF Knows
  <2>9. CASE ResolveVisas(q)
    <3>1. Head(todo[q]) = "resolve" /\ Goes(q)
      BY <1>4, <2>9 DEF ResolveVisas, CatalogueStep, At
    <3>2. QED
      BY <1>2, <1>7, <3>1
  <2>10. ~DeleteOccupation(q)
    BY <1>6 DEF DeleteOccupation, CatalogueStep, At, Before
  <2>11. QED
    BY <2>1, <2>3, <2>4, <2>5, <2>6, <2>7, <2>8, <2>9, <2>10 DEF Admin
<1>13. QED
  BY <1>11, <1>12

LEMMA NextKnow ==
  ASSUME Basic, Know, [Next]_vars
  PROVE  Know'
<1>1. job' = job
  BY NextMoves DEF Basic
<1>2. ASSUME NEW q \in Requests, NEW c, c = Code(q), Resolves(q) PROVE Knows(q, c)'
  <2>1. Knows(q, c)
    BY <1>2 DEF Know
  <2>2. CASE ~((Step(q) \/ Fails(q)) /\ Witnessed(q))
    BY <1>2, <2>1, <2>2, OthersLeaveIt
  <2>3. CASE Step(q) /\ Witnessed(q)
    BY <1>2, <2>1, <2>3, OwnResolution
  <2>4. CASE Fails(q)
    <3>1. "resolve" \notin Left(q)'
      <4>1. todo'[q] = <<>> \/ todo'[q] = Refresh
        BY <2>4, ThrowsEnds DEF Fails, Basic
      <4>2. QED
        BY <4>1, ShortScripts, RefreshIs DEF Left, AllOfRefresh
    <3>2. QED
      BY <3>1 DEF Knows
  <2>5. QED
    BY <2>2, <2>3, <2>4
<1>3. \A q \in Requests : Resolves(q)' = Resolves(q) /\ Code(q)' = Code(q)
  BY <1>1 DEF Resolves, Code, Kind
<1>4. QED
  BY <1>2, <1>3 DEF Know

\* What the matrix asks for and what is there, once the missing links are added, those that
\* were switched off are switched on, and the stale ones are switched off if so asked.
LEMMA ResolvedFollows ==
  ASSUME NEW seen, NEW lists, NEW off, NEW now,
         \A v \in DOMAIN (Resolved(seen, lists, off) ++ seen) :
           now[v] = (Resolved(seen, lists, off) ++ seen)[v],
         DOMAIN now = DOMAIN (Resolved(seen, lists, off) ++ seen)
  PROVE  /\ EligibleVisas(lists) \subseteq {v \in DOMAIN now : now[v]}
         /\ off => {v \in DOMAIN now : now[v]} = EligibleVisas(lists)
<1> DEFINE visas == EligibleVisas(lists)
           on == Missing(seen, lists) \cup Inactive(seen, lists)
           stale == IF off THEN Stale(seen, lists) ELSE {}
           written == Resolved(seen, lists, off)
           all == written ++ seen
<1>1. /\ \A v : v \in on <=> v \in visas /\ (v \notin DOMAIN seen \/ ~seen[v])
      /\ \A v : v \in stale <=> off /\ v \in DOMAIN seen /\ v \notin visas /\ seen[v]
  BY DEF Missing, Inactive, Stale
<1>2. /\ DOMAIN written = on \cup stale
      /\ \A v \in on : written[v] = TRUE
      /\ \A v \in stale \ on : written[v] = FALSE
  BY DEF Resolved, ++
<1>3. /\ DOMAIN now = DOMAIN written \cup DOMAIN seen
      /\ \A v \in DOMAIN written : now[v] = written[v]
      /\ \A v \in DOMAIN seen \ DOMAIN written : now[v] = seen[v]
  <2>1. /\ DOMAIN all = DOMAIN written \cup DOMAIN seen
        /\ \A v \in DOMAIN written : all[v] = written[v]
        /\ \A v \in DOMAIN seen \ DOMAIN written : all[v] = seen[v]
    BY Zenon, Laid
  <2>2. DOMAIN now = DOMAIN all /\ \A v \in DOMAIN all : now[v] = all[v]
    OBVIOUS
  <2> HIDE DEF written, all
  <2>3. QED
    BY <2>1, <2>2
<1> HIDE DEF visas, on, stale, written
<1>4. ASSUME NEW v \in visas PROVE v \in DOMAIN now /\ now[v]
  BY <1>1, <1>2, <1>3
<1>5. ASSUME off, NEW v \in DOMAIN now, now[v] PROVE v \in visas
  BY <1>1, <1>2, <1>3, <1>5
<1>6. QED
  BY <1>4, <1>5 DEF visas

\* What the commit of a request that knows the catalogue leaves there.
LEMMA CommitFollows ==
  ASSUME Basic, Know, NEW r \in Requests, Resolves(r), alone[r], ResolveVisas(r), ~Throws(r),
         NEW c, c = Code(r)
  PROVE  LET visas == EligibleVisas(ListsOf(c)') IN
         /\ visas \subseteq ActiveLinks(c)'
         /\ job[r].deactivateStale => ActiveLinks(c)' = visas
         /\ Kind(r) = "update" => ListsOf(c)' = job[r].lists
<1> DEFINE written == Resolved(local[r].seen, local[r].lists, job[r].deactivateStale)
<1>1. /\ At(r, "resolve") /\ CommitLinks(c, written)
      /\ IF Kind(r) = "update"
         THEN listed' = [x \in {c} |-> Replaced(x, local[r].dropped, local[r].lists)] ++ listed
         ELSE listed' = listed
  BY DEF ResolveVisas, CatalogueStep
<1>2. "resolve" \in Left(r) /\ "compare" \notin Left(r) /\ Before(r) \cap Left(r) = {}
  <2>1. "resolve" \in Left(r) /\ \A x \in Left(r) \ {"resolve"} : 5 < Phase[x]
    BY <1>1, HeadIsFirst DEF At, Phase
  <2>2. \A x \in Before(r) \cup {"compare"} : Phase[x] <= 4 /\ x # "resolve" /\ Phase[x] \in Nat
    BY DEF Before, Phase
  <2>3. QED
    BY <2>1, <2>2
<1>3. /\ local[r].seen = LinksOf(c)
      /\ Kind(r) # "update" => local[r].lists = ListsOf(c)
      /\ Kind(r) = "update" =>
           c \in DOMAIN listed /\ local[r].lists = job[r].lists /\ local[r].dropped = ListsOf(c)
  <2>1. /\ Kind(r) # "update" => Left(r) \cap {"add", "upsert", "survey"} = {}
        /\ Kind(r) = "update" => Left(r) \cap {"load", "drop"} = {}
    BY <1>2, ResolveScript DEF Before
  <2>2. QED
    BY <1>2, <2>1 DEF Know, Knows
<1>4. ListsOf(c)' = local[r].lists
  <2>1. CASE Kind(r) # "update"
    BY <1>1, <1>3, <2>1 DEF ListsOf
  <2>2. CASE Kind(r) = "update"
    <3> DEFINE new == [x \in {c} |-> Replaced(x, local[r].dropped, local[r].lists)]
    <3>1. DOMAIN new = {c} /\ DOMAIN new[c] = (ListsOf(c) \ local[r].dropped) \cup local[r].lists
      BY <1>3, <2>2 DEF Replaced
    <3>2. listed' = new ++ listed
      BY <1>1, <2>2
    <3> HIDE DEF new
    <3>3. listed'[c] = new[c]
      BY <3>1, <3>2 DEF ++
    <3>4. QED
      BY <1>3, <2>2, <3>1, <3>3 DEF ListsOf
  <2>3. QED
    BY <2>1, <2>2
<1>5. /\ DOMAIN LinksOf(c)' = DOMAIN (written ++ LinksOf(c))
      /\ \A v \in DOMAIN LinksOf(c)' : LinksOf(c)'[v] = (written ++ LinksOf(c))[v]
  <2> HIDE DEF written
  <2>1. CASE DOMAIN written = {}
    <3>1. links' = links
      BY <1>1, <2>1 DEF CommitLinks
    <3>2. LinksOf(c)' = LinksOf(c)
      BY <3>1 DEF LinksOf
    <3> DEFINE old == LinksOf(c)
               all == written ++ old
    <3>3. DOMAIN all = DOMAIN written \cup DOMAIN old /\ \A v \in DOMAIN old \ DOMAIN written : all[v] = old[v]
      BY Zenon, Laid
    <3> HIDE DEF all
    <3>4. DOMAIN all = DOMAIN old /\ \A v \in DOMAIN old : all[v] = old[v]
      BY <2>1, <3>3
    <3>5. QED
      BY <3>2, <3>4 DEF all
  <2>2. CASE DOMAIN written # {}
    <3> DEFINE new == [x \in {c} |-> written ++ LinksOf(c)]
    <3>1. DOMAIN new = {c} /\ new[c] = written ++ LinksOf(c)
      OBVIOUS
    <3>2. links' = new ++ links
      BY <1>1, <2>2 DEF CommitLinks
    <3> HIDE DEF new
    <3>3. c \in DOMAIN links' /\ links'[c] = new[c]
      BY <3>1, <3>2 DEF ++
    <3>4. QED
      BY <3>1, <3>3 DEF LinksOf
  <2>3. QED
    BY <2>1, <2>2
<1>6. /\ EligibleVisas(local[r].lists) \subseteq {v \in DOMAIN LinksOf(c)' : LinksOf(c)'[v]}
      /\ job[r].deactivateStale =>
           {v \in DOMAIN LinksOf(c)' : LinksOf(c)'[v]} = EligibleVisas(local[r].lists)
  BY <1>3, <1>5, ResolvedFollows
<1>7. ActiveLinks(c)' = {v \in DOMAIN LinksOf(c)' : LinksOf(c)'[v]}
  BY DEF ActiveLinks
<1>8. QED
  BY <1>3, <1>4, <1>6, <1>7

\* Whoever is told that the visas are resolved has committed them.
LEMMA ResolvedIsCommitted ==
  ASSUME Basic, [Next]_vars, NEW r \in Requests, At(r, "resolve"), told'[r] = "ok"
  PROVE  ResolveVisas(r) /\ ~Throws(r)
<1>1. told[r] = "none"
  BY DEF At, Basic
<1>2. ASSUME NEW q \in Requests, Step(q) \/ Fails(q) PROVE q = r
  BY <1>1, <1>2, StepAdvances DEF Advances, FetchPolicy, Basic
<1>3. ~Throws(r)
  <2>1. Throws(r) => told' = [told EXCEPT ![r] = "failed"]
    BY RefreshIs DEF Throws, At, Ends, AllOfRefresh
  <2>2. QED
    BY <2>1 DEF Basic, Domains
<1>4. Step(r)
  <2>1. ~Fails(r)
    BY <1>3 DEF Fails
  <2>2. QED
    BY <1>1, <1>2, <2>1
       DEF Next, vars, Stops, InstanceStarts, InstanceFailsToStart, InviteFallsDue, Basic, Domains
<1>5. Admin(r)
  BY <1>4, GroupSteps DEF Step, At, AllOfRefresh
<1>6. QED
  BY <1>3, <1>5
     DEF Admin, CatalogueStep, CreateOccupation, UpsertLists, DeleteOccupation, LoadOccupation,
         DropLists, SurveyLists, CompareLinks, At

\* Whoever resolves an occupation's visas, with nobody else at the catalogue meanwhile, leaves it
\* linked to the visas of its lists, and to no other unless asked to keep them: whatever a
\* creation that failed half-way, an import without a sync or two transactions at once had left
\* (resolveVisasForOccupation, as create, update, importLists and syncVisas call it).
THEOREM SyncDoesRepair == Spec => SyncRepairs
<1>1. Basic /\ Know /\ [Next]_vars => Know'
  BY NextKnow
<1>2. Basic /\ Know /\ [Next]_vars =>
        [\A r \in Requests :
           Kind(r) \in Resolvers /\ alone[r] /\ At(r, "resolve") /\ told'[r] = "ok" =>
             LET visas == EligibleVisas(ListsOf(Code(r)))' IN
             /\ visas \subseteq ActiveLinks(Code(r))'
             /\ job[r].deactivateStale => ActiveLinks(Code(r))' = visas
             /\ Kind(r) = "update" => ListsOf(Code(r))' = job[r].lists]_vars
  <2> SUFFICES ASSUME Basic, Know, [Next]_vars, NEW r \in Requests,
                      Resolves(r), alone[r], At(r, "resolve"), told'[r] = "ok"
               PROVE  LET visas == EligibleVisas(ListsOf(Code(r)))' IN
                      /\ visas \subseteq ActiveLinks(Code(r))'
                      /\ job[r].deactivateStale => ActiveLinks(Code(r))' = visas
                      /\ Kind(r) = "update" => ListsOf(Code(r))' = job[r].lists
    BY DEF Resolves
  <2>1. ResolveVisas(r) /\ ~Throws(r)
    BY ResolvedIsCommitted
  <2>2. PICK c : c = Code(r)
    OBVIOUS
  <2>3. LET visas == EligibleVisas(ListsOf(c)') IN
        /\ visas \subseteq ActiveLinks(c)'
        /\ job[r].deactivateStale => ActiveLinks(c)' = visas
        /\ Kind(r) = "update" => ListsOf(c)' = job[r].lists
    BY <2>1, <2>2, CommitFollows
  <2>4. Code(r)' = c
    BY <2>2, NextMoves DEF Code, Basic
  <2>5. /\ ListsOf(Code(r))' = ListsOf(c)' /\ ActiveLinks(Code(r))' = ActiveLinks(c)'
        /\ EligibleVisas(ListsOf(Code(r)))' = EligibleVisas(ListsOf(c)')
    BY <2>4 DEF ListsOf, ActiveLinks, LinksOf, EligibleVisas
  <2>6. QED
    BY <2>3, <2>5
<1>3. QED
  BY InitKnow, AlwaysBasic, <1>1, <1>2, PTL DEF Spec, SyncRepairs

==============================================================================
