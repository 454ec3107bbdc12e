-------------------------- MODULE ExclusiveHandling --------------------------
(***************************************************************************)
(* What the webhook_events table promises to the handlers behind it, with  *)
(* no lease, no retry and no failure in sight: at any moment at most one   *)
(* worker is handling an event, and an event that has been finished is     *)
(* never handed out again.  WebhookEvents is shown to implement this, and  *)
(* ConsultPayment relies on it for the webhook deliveries it starts.       *)
(***************************************************************************)

CONSTANTS Events,      \* the identities (provider, external_id) of deliveries
          Workers      \* the requests being served

VARIABLES holders,     \* holders[e]: the workers handling e
          done         \* the events whose handling is over

vars == <<holders, done>>

Init ==
  /\ holders = [e \in Events |-> {}]
  /\ done = {}

Take(e, w) ==
  /\ e \notin done
  /\ holders[e] = {}
  /\ holders' = [holders EXCEPT ![e] = {w}]
  /\ UNCHANGED done

\* The handler threw, or its process died.
Drop(e, w) ==
  /\ w \in holders[e]
  /\ holders' = [holders EXCEPT ![e] = {}]
  /\ UNCHANGED done

Finish(e, w) ==
  /\ w \in holders[e]
  /\ holders' = [holders EXCEPT ![e] = {}]
  /\ done' = done \cup {e}

Next == \E e \in Events, w \in Workers : Take(e, w) \/ Drop(e, w) \/ Finish(e, w)

Spec == Init /\ [][Next]_vars

==============================================================================
