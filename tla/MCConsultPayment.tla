--------------------------- MODULE MCConsultPayment ---------------------------
(***************************************************************************)
(* Finite instances of ConsultPayment.                                     *)
(***************************************************************************)
EXTENDS ConsultPayment, TLC

\* Workers are interchangeable, and so are checkouts when none is by hand; used only
\* in the run that checks no liveness.
Symmetry == Permutations(Workers) \cup Permutations(Attempts)

==============================================================================
