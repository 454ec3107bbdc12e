-------------------------- MODULE ChargeConfirmation --------------------------
(***************************************************************************)
(* What checkout, webhook and sweep promise together, with no awaits, no   *)
(* workers and no failures in sight: a session is opened for a purpose     *)
(* that stays, it ends as a charge or not, a charge is put on record       *)
(* together with its booking, nothing else confirms a booking, and the     *)
(* end of a charge is answered only when it has been on record.            *)
(* ConsultPayment is shown to implement this.                              *)
(***************************************************************************)

CONSTANTS
  Sessions,
  Ours,         \* the sessions a checkout opens
  Bookings,
  NoBooking

VARIABLES
  outcome,      \* outcome[k]: "none", "open", "charged" or "void"
  purpose,      \* purpose[k]: the booking the session is for, or NoBooking
  recorded,     \* the charges that have been on record
  standing,     \* those that still are
  answered,     \* the sessions whose end was reported and is dealt with
  booking       \* booking[b]: the status of a booking

vars == <<outcome, purpose, recorded, standing, answered, booking>>

Init ==
  /\ outcome = [k \in Sessions |-> "none"]
  /\ purpose = [k \in Sessions |-> NoBooking]
  /\ recorded = {} /\ standing = {} /\ answered = {}
  /\ booking = [b \in Bookings |-> "none"]

Exists(b) == b \in Bookings /\ booking[b] \notin {"none", "deleted"}
Confirmed(b) == booking' = [booking EXCEPT ![b] = "confirmed"]

\* A checkout opens a session for a booking that has been made.
Open(k, b) ==
  /\ outcome[k] = "none"
  /\ \/ b \in Bookings /\ booking[b] # "none"
     \/ b = NoBooking /\ k \notin Ours
  /\ outcome' = [outcome EXCEPT ![k] = "open"]
  /\ purpose' = [purpose EXCEPT ![k] = b]
  /\ UNCHANGED <<recorded, standing, answered, booking>>

\* The session is paid, or never will be.
End(k) ==
  /\ outcome[k] = "open"
  /\ \E how \in {"charged", "void"} : outcome' = [outcome EXCEPT ![k] = how]
  /\ UNCHANGED <<purpose, recorded, standing, answered, booking>>

\* A charge is put on record while no other one is.  The booking of a session of ours is
\* confirmed with it, if it still exists.
Record(k) ==
  /\ outcome[k] = "charged" /\ standing \subseteq {k}
  /\ standing' = {k} /\ recorded' = recorded \cup {k}
  /\ \/ Exists(purpose[k]) /\ Confirmed(purpose[k])
     \/ (Exists(purpose[k]) => k \notin Ours) /\ UNCHANGED booking
  /\ UNCHANGED <<outcome, purpose, answered>>

\* The record is withdrawn, with nothing to say why: the code can do it.
Withdraw(k) ==
  /\ k \in standing /\ standing' = standing \ {k}
  /\ UNCHANGED <<outcome, purpose, recorded, answered, booking>>

\* A booking is confirmed later, for a charge that has been on record and was made for it
\* or for none in particular.
Confirm(b) ==
  /\ Exists(b) /\ Confirmed(b)
  /\ \E k \in recorded : purpose[k] \in {b, NoBooking}
  /\ UNCHANGED <<outcome, purpose, recorded, standing, answered>>

Answer(k) ==
  /\ outcome[k] = "void" \/ k \in recorded
  /\ answered' = answered \cup {k}
  /\ UNCHANGED <<outcome, purpose, recorded, standing, booking>>

\* People make, cancel, deliver and delete bookings.
Arrange(b) ==
  /\ \/ booking[b] = "none" /\ booking' = [booking EXCEPT ![b] = "pending"]
     \/ /\ Exists(b)
        /\ \E s \in {"completed", "cancelled", "deleted"} :
             booking' = [booking EXCEPT ![b] = s]
  /\ UNCHANGED <<outcome, purpose, recorded, standing, answered>>

Next ==
  \/ \E k \in Sessions :
       \/ \E b \in Bookings \cup {NoBooking} : Open(k, b)
       \/ End(k) \/ Record(k) \/ Withdraw(k) \/ Answer(k)
  \/ \E b \in Bookings : Confirm(b) \/ Arrange(b)

Spec == Init /\ [][Next]_vars

==============================================================================
