------------------------- MODULE WebhookEvents_proofs -------------------------
(***************************************************************************)
(* Proofs about WebhookEvents for any events, workers and durations.       *)
(*                                                                         *)
(* Two hypotheses on the durations separate what the lease guarantees from *)
(* what it does not: a handler must be killed no later than its lease runs *)
(* out, and a provider must not deliver again before it has run out.       *)
(***************************************************************************)
EXTENDS WebhookEvents, TLAPS

-----------------------------------------------------------------------------
(* Type correctness *)

LEMMA DownType == ASSUME NEW n \in Nat PROVE Down(n) \in Nat
BY DEF Down

LEMMA TypeInit == Init => TypeOK
BY TimesAreNat, NoEventIsNone DEF Init, TypeOK, Statuses, Busy

\* The worker-local part of every step of processOnce but the last.
LEMMA GotoType ==
  ASSUME TypeOK, NEW w \in Workers,
         NEW from \in {"running", "succeeded"}, NEW to \in {"succeeded", "threw"},
         Goto(w, from, to)
  PROVE  /\ wpc' \in [Workers -> {"idle", "running", "succeeded", "threw"}]
         /\ event' \in [Workers -> Events \cup {NoEvent}]
         /\ \A v \in Workers : wpc'[v] # "idle" <=> event'[v] # NoEvent
         /\ left' \in [Workers -> Nat]
         /\ event[w] \in Events
BY DEF Goto, TypeOK, Busy

LEMMA ReleaseType ==
  ASSUME TypeOK, NEW w \in Workers, Release(w)
  PROVE  /\ wpc' \in [Workers -> {"idle", "running", "succeeded", "threw"}]
         /\ event' \in [Workers -> Events \cup {NoEvent}]
         /\ \A v \in Workers : wpc'[v] # "idle" <=> event'[v] # NoEvent
         /\ left' \in [Workers -> Nat]
BY DEF Release, TypeOK, Busy

\* A delivery restarts its own provider's timer only.
LEMMA ArrivesType ==
  ASSUME TypeOK, NEW e \in Events, NEW w \in Workers, Arrives(e, w)
  PROVE  /\ retryIn' \in [Events -> Nat]
         /\ retryIn'[e] = RetryGap[e]
         /\ \A d \in Events \ {e} : retryIn'[d] = retryIn[d]
         /\ retryIn[e] = 0
         /\ wpc[w] = "idle"
<1>1. RetryGap[e] \in Nat
  BY TimesAreNat
<1>2. QED
  BY <1>1 DEF Arrives, TypeOK, Busy

LEMMA FaultType == ASSUME TypeOK, Fault PROVE faults' \in 0..MaxFaults
BY TimesAreNat DEF TypeOK, Fault

LEMMA TypeStep == TypeOK /\ [Next]_vars => TypeOK'
<1> SUFFICES ASSUME TypeOK, [Next]_vars PROVE TypeOK'
  OBVIOUS
<1> USE DEF row, workers, sender
<1>1. ASSUME NEW e \in Events, NEW w \in Workers, Claim(e, w) PROVE TypeOK'
  <2>1. Arrives(e, w)
    BY <1>1 DEF Claim
  <2>2. QED
    BY <1>1, <2>1, ArrivesType, TimesAreNat, NoEventIsNone DEF Claim, Upsert, TypeOK, Statuses, Busy
<1>2. ASSUME NEW e \in Events, NEW w \in Workers, Skip(e, w) PROVE TypeOK'
  <2>1. Arrives(e, w)
    BY <1>2 DEF Skip
  <2>2. QED
    BY <1>2, <2>1, ArrivesType DEF Skip, TypeOK, Statuses, Busy
<1>3. ASSUME NEW e \in Events, NEW w \in Workers, ClaimError(e, w) PROVE TypeOK'
  <2>1. Arrives(e, w)
    BY <1>3 DEF ClaimError
  <2>2. QED
    BY <1>3, <2>1, ArrivesType, FaultType, TimesAreNat DEF ClaimError, Upsert, TypeOK, Statuses, Busy
<1>4. ASSUME NEW w \in Workers, HandlerReturns(w) PROVE TypeOK'
  <2>1. Goto(w, "running", "succeeded")
    BY <1>4 DEF HandlerReturns
  <2>2. QED
    BY <1>4, <2>1, GotoType DEF HandlerReturns, TypeOK, Statuses, Busy
<1>5. ASSUME NEW w \in Workers, HandlerThrows(w) PROVE TypeOK'
  <2>1. Goto(w, "running", "threw")
    BY <1>5 DEF HandlerThrows
  <2>2. QED
    BY <1>5, <2>1, GotoType, FaultType DEF HandlerThrows, TypeOK, Statuses, Busy
<1>6. ASSUME NEW w \in Workers, MarkProcessed(w) PROVE TypeOK'
  <2>1. event[w] \in Events
    BY <1>6 DEF MarkProcessed, TypeOK, Busy
  <2>2. QED
    BY <1>6, <2>1, ReleaseType DEF MarkProcessed, TypeOK, Statuses, Busy
<1>7. ASSUME NEW w \in Workers, MarkProcessedError(w) PROVE TypeOK'
  <2>1. Goto(w, "succeeded", "threw")
    BY <1>7 DEF MarkProcessedError
  <2>2. QED
    BY <1>7, <2>1, GotoType, FaultType DEF MarkProcessedError, TypeOK, Statuses, Busy
<1>8. ASSUME NEW w \in Workers, MarkFailed(w) PROVE TypeOK'
  <2>1. event[w] \in Events
    BY <1>8 DEF MarkFailed, TypeOK, Busy
  <2>2. QED
    BY <1>8, <2>1, ReleaseType DEF MarkFailed, TypeOK, Statuses, Busy
<1>9. ASSUME NEW w \in Workers, Crash(w) PROVE TypeOK'
  BY <1>9, ReleaseType, FaultType DEF Crash, TypeOK, Statuses, Busy
<1>10. ASSUME Tick PROVE TypeOK'
  BY <1>10, DownType DEF Tick, TypeOK, Statuses, Busy
<1>11. ASSUME UNCHANGED vars PROVE TypeOK'
  BY <1>11 DEF vars, TypeOK, Statuses, Busy
<1>12. QED
  BY <1>1, <1>2, <1>3, <1>4, <1>5, <1>6, <1>7, <1>8, <1>9, <1>10, <1>11 DEF Next

\* Every variable keeps its type, and a worker has an event exactly while busy.
THEOREM TypeCorrect == Spec => []TypeOK
BY TypeInit, TypeStep, PTL DEF Spec

-----------------------------------------------------------------------------
(* An acknowledged event has been handled *)

\* While an event's claim is fresh a patient provider is still waiting; what is marked
\* processed, or about to be, has been handled.
AckInv ==
  /\ \A e \in Patient : lease[e] <= retryIn[e]
  /\ \A e \in Events : status[e] = "processed" => e \in handled
  /\ \A w \in Workers : wpc[w] = "succeeded" => event[w] \in handled
  /\ AckedIsHandled

LEMMA AckInit == Init => AckInv
BY DEF Init, AckInv, AckedIsHandled, Patient

LEMMA AckStep ==
  ASSUME TypeOK, AckInv, [Next]_vars
  PROVE  AckInv'
<1> USE DEF row, workers, sender, AckedIsHandled, Patient
<1>1. ASSUME NEW e \in Events, NEW w \in Workers, Claim(e, w) PROVE AckInv'
  <2>1. Arrives(e, w)
    BY <1>1 DEF Claim
  <2>2. \A d \in Patient : lease'[d] <= retryIn'[d]
    <3> SUFFICES ASSUME NEW d \in Patient PROVE lease'[d] <= retryIn'[d]
      OBVIOUS
    <3>1. CASE d = e
      BY <1>1, <2>1, <3>1, ArrivesType, TimesAreNat DEF Claim, Upsert, TypeOK
    <3>2. CASE d # e
      BY <1>1, <2>1, <3>2, ArrivesType DEF Claim, Upsert, AckInv, TypeOK
    <3>3. QED
      BY <3>1, <3>2
  <2>3. QED
    BY <1>1, <2>2 DEF Claim, Upsert, AckInv, TypeOK
<1>2. ASSUME NEW e \in Events, NEW w \in Workers, Skip(e, w) PROVE AckInv'
  <2>1. e \in Patient => lease[e] = 0
    BY <1>2 DEF Skip, Arrives, AckInv, TypeOK
  <2>2. e \in Patient => status[e] = "processed"
    BY <1>2, <2>1 DEF Skip, Claimable
  <2>3. Arrives(e, w)
    BY <1>2 DEF Skip
  <2>4. \A d \in Patient : lease'[d] <= retryIn'[d]
    BY <1>2, <2>1, <2>3, ArrivesType, TimesAreNat DEF Skip, AckInv, TypeOK
  <2>5. QED
    BY <1>2, <2>2, <2>4 DEF Skip, AckInv, TypeOK
<1>3. ASSUME NEW e \in Events, NEW w \in Workers, ClaimError(e, w) PROVE AckInv'
  <2>1. Arrives(e, w)
    BY <1>3 DEF ClaimError
  <2>2. /\ lease'[e] \in {lease[e], Lease + 1}
        /\ \A d \in Events \ {e} : lease'[d] = lease[d]
        /\ \A d \in Events : status'[d] = "processed" => status[d] = "processed"
    BY <1>3 DEF ClaimError, Upsert, TypeOK
  <2>3. \A d \in Patient : lease'[d] <= retryIn'[d]
    <3> SUFFICES ASSUME NEW d \in Patient PROVE lease'[d] <= retryIn'[d]
      OBVIOUS
    <3>1. CASE d = e
      <4>1. lease[d] <= 0
        BY <2>1, <3>1, ArrivesType DEF AckInv, TypeOK
      <4>2. RetryGap[d] \in Nat /\ Lease \in Nat
        BY <3>1, TimesAreNat
      <4>3. lease[d] \in Nat /\ retryIn'[d] = RetryGap[d]
        BY <2>1, <3>1, ArrivesType DEF TypeOK
      <4>4. QED
        BY <2>2, <3>1, <4>1, <4>2, <4>3
    <3>2. CASE d # e
      BY <2>1, <2>2, <3>2, ArrivesType DEF AckInv, TypeOK
    <3>3. QED
      BY <3>1, <3>2
  <2>4. QED
    BY <1>3, <2>2, <2>3 DEF ClaimError, AckInv
<1>4. ASSUME NEW w \in Workers, HandlerReturns(w) PROVE AckInv'
  BY <1>4 DEF HandlerReturns, Goto, AckInv, TypeOK
<1>5. ASSUME NEW w \in Workers, HandlerThrows(w) PROVE AckInv'
  BY <1>5 DEF HandlerThrows, Goto, AckInv, TypeOK
<1>6. ASSUME NEW w \in Workers, MarkProcessed(w) PROVE AckInv'
  BY <1>6 DEF MarkProcessed, Release, AckInv, TypeOK, Busy
<1>7. ASSUME NEW w \in Workers, MarkProcessedError(w) PROVE AckInv'
  BY <1>7 DEF MarkProcessedError, Goto, AckInv, TypeOK
<1>8. ASSUME NEW w \in Workers, MarkFailed(w) PROVE AckInv'
  BY <1>8 DEF MarkFailed, Release, AckInv, TypeOK, Busy
<1>9. ASSUME NEW w \in Workers, Crash(w) PROVE AckInv'
  BY <1>9 DEF Crash, Release, AckInv, TypeOK
<1>10. ASSUME Tick PROVE AckInv'
  BY <1>10 DEF Tick, Down, AckInv, TypeOK
<1>11. ASSUME UNCHANGED vars PROVE AckInv'
  BY <1>11 DEF vars, AckInv
<1>12. QED
  BY <1>1, <1>2, <1>3, <1>4, <1>5, <1>6, <1>7, <1>8, <1>9, <1>10, <1>11 DEF Next

\* For a provider that does not deliver an event twice within one lease, a 2xx always
\* stands for finished work, whatever the other providers do.
THEOREM AckSafety == Spec => []AckedIsHandled
<1>1. TypeOK /\ AckInv /\ [Next]_vars => (TypeOK /\ AckInv)'
  BY TypeStep, AckStep
<1>2. Init => TypeOK /\ AckInv
  BY TypeInit, AckInit
<1>3. AckInv => AckedIsHandled
  BY DEF AckInv
<1>4. QED
  BY <1>1, <1>2, <1>3, PTL DEF Spec

-----------------------------------------------------------------------------
(* One handler per event *)

\* A busy worker is killed before its claim goes stale, so nobody else claims its event.
HoldInv ==
  /\ \A w \in Workers : Busy(w) => left[w] < lease[event[w]]
  /\ OneHandlerPerEvent

LEMMA HoldInit == Init => HoldInv
BY DEF Init, HoldInv, OneHandlerPerEvent, Busy

LEMMA HoldStep ==
  ASSUME HandlerLimit <= Lease, TypeOK, HoldInv, [Next]_vars
  PROVE  HoldInv'
<1> USE DEF row, workers, sender, OneHandlerPerEvent, Busy
<1>1. ASSUME NEW e \in Events, NEW w \in Workers, Claim(e, w) PROVE HoldInv'
  <2>1. \A v \in Workers : Busy(v) => event[v] # e
    BY <1>1 DEF Claim, Upsert, Claimable, HoldInv, TypeOK
  <2>2. \A v \in Workers \ {w} : wpc'[v] = wpc[v] /\ event'[v] = event[v] /\ left'[v] = left[v]
    BY <1>1 DEF Claim, TypeOK
  <2>3. wpc'[w] = "running" /\ event'[w] = e /\ left'[w] = HandlerLimit
    BY <1>1 DEF Claim, TypeOK
  <2>4. lease'[e] = Lease + 1
    BY <1>1 DEF Claim, Upsert, TypeOK
  <2>5. \A d \in Events \ {e} : lease'[d] = lease[d]
    BY <1>1 DEF Claim, Upsert, TypeOK
  <2>6. HandlerLimit < Lease + 1
    BY TimesAreNat
  <2>7. QED
    BY <2>1, <2>2, <2>3, <2>4, <2>5, <2>6 DEF HoldInv, TypeOK
<1>2. ASSUME NEW e \in Events, NEW w \in Workers, Skip(e, w) PROVE HoldInv'
  BY <1>2 DEF Skip, HoldInv
<1>3. ASSUME NEW e \in Events, NEW w \in Workers, ClaimError(e, w) PROVE HoldInv'
  <2>1. CASE Upsert(e)
    <3>1. \A v \in Workers : Busy(v) => event[v] # e /\ event[v] \in Events
      BY <2>1 DEF Upsert, Claimable, HoldInv, TypeOK
    <3>2. \A d \in Events \ {e} : lease'[d] = lease[d]
      BY <2>1 DEF Upsert, TypeOK
    <3>3. QED
      BY <1>3, <3>1, <3>2 DEF ClaimError, HoldInv
  <2>2. CASE UNCHANGED row
    BY <1>3, <2>2 DEF ClaimError, HoldInv
  <2>3. QED
    BY <1>3, <2>1, <2>2 DEF ClaimError
<1>4. ASSUME NEW w \in Workers, HandlerReturns(w) PROVE HoldInv'
  BY <1>4 DEF HandlerReturns, Goto, HoldInv, TypeOK
<1>5. ASSUME NEW w \in Workers, HandlerThrows(w) PROVE HoldInv'
  BY <1>5 DEF HandlerThrows, Goto, HoldInv, TypeOK
<1>6. ASSUME NEW w \in Workers, MarkProcessed(w) PROVE HoldInv'
  BY <1>6 DEF MarkProcessed, Release, HoldInv, TypeOK
<1>7. ASSUME NEW w \in Workers, MarkProcessedError(w) PROVE HoldInv'
  BY <1>7 DEF MarkProcessedError, Goto, HoldInv, TypeOK
<1>8. ASSUME NEW w \in Workers, MarkFailed(w) PROVE HoldInv'
  BY <1>8 DEF MarkFailed, Release, HoldInv, TypeOK
<1>9. ASSUME NEW w \in Workers, Crash(w) PROVE HoldInv'
  BY <1>9 DEF Crash, Release, HoldInv, TypeOK
<1>10. ASSUME Tick PROVE HoldInv'
  <2>1. \A w \in Workers : Busy(w) => left'[w] = left[w] - 1
    BY <1>10 DEF Tick, Down, TypeOK
  <2>2. \A w \in Workers : Busy(w) => event[w] \in Events
    BY DEF TypeOK
  <2>3. \A w \in Workers : Busy(w) => lease'[event[w]] = lease[event[w]] - 1
    BY <1>10, <2>2 DEF Tick, Down, HoldInv, TypeOK
  <2>4. QED
    <3>1. /\ wpc' = wpc /\ event' = event
          /\ \A w \in Workers : Busy(w) => left[w] \in Nat /\ lease[event[w]] \in Nat
      BY <1>10, <2>2 DEF Tick, TypeOK
    <3>2. \A w \in Workers : Busy(w) => left'[w] < lease'[event[w]]
      BY <2>1, <2>3, <3>1 DEF HoldInv
    <3>3. QED
      BY <3>1, <3>2 DEF HoldInv
<1>11. ASSUME UNCHANGED vars PROVE HoldInv'
  BY <1>11 DEF vars, HoldInv
<1>12. QED
  BY <1>1, <1>2, <1>3, <1>4, <1>5, <1>6, <1>7, <1>8, <1>9, <1>10, <1>11 DEF Next

LEMMA HoldAlways ==
  ASSUME HandlerLimit <= Lease
  PROVE  Spec => [](TypeOK /\ HoldInv)
<1>1. TypeOK /\ HoldInv /\ [Next]_vars => (TypeOK /\ HoldInv)'
  BY TypeStep, HoldStep
<1>2. QED
  BY <1>1, TypeInit, HoldInit, PTL DEF Spec

\* If the platform kills a handler no later than its lease runs out, an event never
\* has two workers.
THEOREM Exclusion ==
  ASSUME HandlerLimit <= Lease
  PROVE  Spec => []OneHandlerPerEvent
<1>1. HoldInv => OneHandlerPerEvent
  BY DEF HoldInv
<1>2. QED
  BY <1>1, HoldAlways, PTL

-----------------------------------------------------------------------------
(* Refinement of ExclusiveHandling *)

\* The one worker that holds e stops holding it; nobody else changes.
LEMMA ReleaseLets ==
  ASSUME TypeOK, HoldInv, NEW w \in Workers, Busy(w), Release(w)
  PROVE  /\ event[w] \in Events
         /\ w \in Holding(event[w])
         /\ \A d \in Events : Holding(d)' = IF d = event[w] THEN {} ELSE Holding(d)
BY DEF Release, Holding, HoldInv, OneHandlerPerEvent, TypeOK, Busy

LEMMA RefinementInit == Init => Exclusive!Init
BY DEF Init, Exclusive!Init, Holding, Done, Busy

LEMMA RefinementStep ==
  ASSUME TypeOK, HoldInv, [Next]_vars
  PROVE  [Exclusive!Next]_(Exclusive!vars)
<1> USE DEF row, workers, sender
<1> DEFINE holders == [e \in Events |-> Holding(e)]
<1>a. Exclusive!vars = <<holders, Done>>
  BY DEF Exclusive!vars, Holding, Done
<1>b. ASSUME NEW w \in Workers, Busy(w), Release(w),
             \A d \in Events \ {event[w]} : status'[d] = status[d]
      PROVE  Exclusive!Next
  <2>1. holders' = [holders EXCEPT ![event[w]] = {}]
    BY <1>b, ReleaseLets
  <2>2. PICK e \in Events : e = event[w]
    BY <1>b, ReleaseLets
  <2>3. Done' = IF status'[e] = "processed" THEN Done \cup {e} ELSE Done
    BY <1>b, <2>2, ReleaseLets DEF Done
  <2>4. Exclusive!Drop(e, w) \/ Exclusive!Finish(e, w)
    BY <1>b, <2>1, <2>2, <2>3, ReleaseLets DEF Exclusive!Drop, Exclusive!Finish
  <2>5. QED
    BY <2>4 DEF Exclusive!Next
<1>1. ASSUME NEW e \in Events, NEW w \in Workers, Claim(e, w) PROVE Exclusive!Next
  <2>1. Holding(e) = {}
    BY <1>1 DEF Claim, Upsert, Claimable, Holding, HoldInv, TypeOK, Busy
  <2>2. Holding(e)' = {w}
    BY <1>1, <2>1 DEF Claim, Arrives, Holding, TypeOK, Busy
  <2>3. \A d \in Events \ {e} : Holding(d)' = Holding(d)
    BY <1>1 DEF Claim, Arrives, Holding, TypeOK, Busy
  <2>4. holders' = [holders EXCEPT ![e] = {w}]
    BY <2>2, <2>3
  <2>5. Done' = Done /\ e \notin Done
    BY <1>1, <2>3 DEF Claim, Upsert, Claimable, Done, TypeOK
  <2>6. Exclusive!Take(e, w)
    BY <2>1, <2>4, <2>5 DEF Exclusive!Take
  <2>7. QED
    BY <2>6 DEF Exclusive!Next
<1>2. ASSUME NEW w \in Workers, MarkProcessed(w) \/ MarkFailed(w) \/ Crash(w)
      PROVE  Exclusive!Next
  <2>1. Busy(w) /\ Release(w)
    BY <1>2 DEF MarkProcessed, MarkFailed, Crash, Busy
  <2>2. \A d \in Events \ {event[w]} : status'[d] = status[d]
    BY <1>2 DEF MarkProcessed, MarkFailed, Crash, TypeOK
  <2>3. QED
    BY <1>b, <2>1, <2>2
<1>3. ASSUME NEW w \in Workers, MarkProcessedError(w) PROVE UNCHANGED Exclusive!vars
  <2>1. event' = event /\ \A v \in Workers : Busy(v)' = Busy(v)
    BY <1>3 DEF MarkProcessedError, Goto, TypeOK, Busy
  <2>2. \A d \in Events : Holding(d)' = Holding(d)
    BY <2>1 DEF Holding
  <2>3. w \in Holding(event[w])
    BY <1>3 DEF MarkProcessedError, Goto, Holding, Busy
  <2>4. \A d \in Events \ {event[w]} : status'[d] = status[d]
    BY <1>3 DEF MarkProcessedError, TypeOK
  <2>5. Done' = Done
    BY <2>2, <2>3, <2>4 DEF Done
  <2>6. QED
    BY <2>2, <2>5 DEF Exclusive!vars
<1>4. ASSUME NEW e \in Events, NEW w \in Workers, ClaimError(e, w)
      PROVE  UNCHANGED Exclusive!vars
  <2>1. \A d \in Events : Holding(d)' = Holding(d)
    BY <1>4 DEF ClaimError, Holding, Busy
  <2>2. \A d \in Events : status'[d] = "processed" <=> status[d] = "processed"
    BY <1>4 DEF ClaimError, Upsert, Claimable, TypeOK
  <2>3. Done' = Done
    BY <2>1, <2>2 DEF Done
  <2>4. QED
    BY <2>1, <2>3 DEF Exclusive!vars
<1>5. ASSUME \/ \E e \in Events, w \in Workers : Skip(e, w)
             \/ \E w \in Workers : HandlerReturns(w) \/ HandlerThrows(w)
             \/ Tick
             \/ UNCHANGED vars
      PROVE  UNCHANGED Exclusive!vars
  <2>1. /\ status' = status /\ event' = event
        /\ \A w \in Workers : Busy(w)' = Busy(w)
    BY <1>5 DEF Skip, HandlerReturns, HandlerThrows, Goto, Tick, vars, Busy, TypeOK
  <2>2. QED
    BY <2>1 DEF Exclusive!vars, Holding, Done
<1>6. QED
  BY <1>1, <1>2, <1>3, <1>4, <1>5 DEF Next

\* With that bound on handlers, the table and processOnce implement exclusive
\* hand-out: every claim, return, failure and crash is a step of it or a stutter.
THEOREM Refinement ==
  ASSUME HandlerLimit <= Lease
  PROVE  Spec => HandsOutExclusively
<1>1. TypeOK /\ HoldInv /\ [Next]_vars => [Exclusive!Next]_(Exclusive!vars)
  BY RefinementStep
<1>2. QED
  BY <1>1, RefinementInit, HoldAlways, PTL DEF Spec, HandsOutExclusively, Exclusive!Spec

==============================================================================
