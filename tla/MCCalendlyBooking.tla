-------------------------- MODULE MCCalendlyBooking --------------------------
(***************************************************************************)
(* Finite instances of CalendlyBooking.                                    *)
(***************************************************************************)
EXTENDS CalendlyBooking

CONSTANTS s1, s2

MCSlots == {s1, s2}
Setting(f, u, l, a) == [free |-> f, uriShown |-> u, linked |-> l, astray |-> a]

\* Payments on and off, embeds with and without the invitee URI, a slot whose link lost
\* the prospect id and one whose link carried something else instead.
MCDeployments ==
  {Setting(TRUE, TRUE, MCSlots, {}), Setting(TRUE, FALSE, MCSlots, {}),
   Setting(FALSE, TRUE, {s2}, {}), Setting(TRUE, FALSE, {s2}, {s1})}

\* The setting in which a browser's report names no invitee.
OldEmbed == {Setting(FALSE, FALSE, MCSlots, {})}

==============================================================================
