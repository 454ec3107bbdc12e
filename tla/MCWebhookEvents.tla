--------------------------- MODULE MCWebhookEvents ---------------------------
(***************************************************************************)
(* Finite instances of WebhookEvents.                                      *)
(***************************************************************************)
EXTENDS WebhookEvents

CONSTANTS e1, e2

\* e1 comes from a provider that repeats it at every tick, e2 from one that waits
\* out the lease.
MCEvents == {e1, e2}
MCRetryGap == [e \in MCEvents |-> IF e = e1 THEN 1 ELSE 3]

==============================================================================
