------------------------ MODULE PartnerEligibilityEngine ------------------------
(***************************************************************************)
(* The quiz for partner visas: a gate, a risk flag, a "not yet" flag and   *)
(* an effort level, combined into the ending a couple is shown.            *)
(*                                                                         *)
(* Questions that decide alone and alike are collected: `bars` are the     *)
(* answers any one of which refuses, `risks` those any one of which is a   *)
(* high risk.  Dates are day numbers; Unknown is a question not asked.     *)
(***************************************************************************)
EXTENDS Integers

CONSTANT Unknown

Bars == {"under 18", "not exclusive",
         "sponsor visiting", "sponsor none of the above", "sponsorship not ended",
         "sponsored 2 or more", "still with PMV sponsor", "PMV ceased before marriage"}
Risks == {"health", "sponsored before", "criminal", "visa issues", "country",
          "PMV circumstances", "married before PMV ceased", "no substantive visa",
          "sponsor's PR pathway"}

\* The five labels of the quiz; validation lets any other string through as well, and the
\* engine counts it neither way.
Statuses == {"Married", "Engaged", "De facto", "Dating", "None of the above", "another"}

\* The answers of a quiz that passed validation; a question not asked has none.
ValidAnswers(a) ==
  LET orUnknown(S) == S \cup {Unknown} IN
  /\ a.status \in Statuses /\ a.bars \subseteq Bars /\ a.risks \subseteq Risks
  /\ {a.lodged, a.sponsorApplied, a.dating, a.together, a.expiry} \subseteq orUnknown(Int)
  /\ {a.liveTogether, a.livedBefore, a.visaExpired, a.planning} \subseteq orUnknown({"Yes", "No"})
  /\ a.arranged \in orUnknown({"Yes", "No", "Not sure"})
  /\ a.members \in 0..2

Committed(a) == a.status \in {"Married", "Engaged"}
NonCommitted(a) == a.status \in {"De facto", "Dating", "None of the above"}

SPONSORSHIP_LIMITATION_DAYS == 1825
RECENT_RELATIONSHIP_DAYS == 182

\* A plausible error: the comparison turned round, old dates for recent ones.
OnOrBeforeCutoff(date, cutoff) == date # Unknown /\ date <= cutoff

OnOrAfter(date, cutoff) == date # Unknown /\ date >= cutoff
OnOrBefore(date, cutoff) == date # Unknown /\ date <= cutoff

\* Never lived together, and would rather forgo the visa than marry.
ApartAndUnmarried(a) ==
  /\ NonCommitted(a) /\ a.liveTogether = "No" /\ a.livedBefore = "No"
  /\ a.marry = "No"

\* A plausible error: a protected reason is not looked at.
IneligibleUnprotected(a, today) ==
  \/ a.bars # {} \/ a.status = "None of the above"
  \/ OnOrAfter(a.lodged, today - SPONSORSHIP_LIMITATION_DAYS)
  \/ OnOrAfter(a.sponsorApplied, today - SPONSORSHIP_LIMITATION_DAYS)
  \/ ApartAndUnmarried(a) /\ a.moveIn = "No"
  \/ a.neverMet /\ NonCommitted(a) /\ a.arranged \in {"No", "Not sure"}
  \/ a.noPMVCircumstance

Ineligible(a, today) ==
  \/ a.bars # {} \/ a.status = "None of the above"
  \/ OnOrAfter(a.lodged, today - SPONSORSHIP_LIMITATION_DAYS)
  \/ OnOrAfter(a.sponsorApplied, today - SPONSORSHIP_LIMITATION_DAYS)
  \/ ApartAndUnmarried(a) /\ ~a.protected /\ a.moveIn = "No"
  \/ a.neverMet /\ NonCommitted(a) /\ a.arranged \in {"No", "Not sure"}
  \/ a.noPMVCircumstance

HighRisk(a) ==
  \/ a.risks # {}
  \/ ApartAndUnmarried(a) /\ (a.protected \/ a.moveIn = "Yes")

BecomingEligible(a, today) ==
  LET recent == today - RECENT_RELATIONSHIP_DAYS IN
  \/ OnOrAfter(a.dating, recent)
  \/ /\ NonCommitted(a) /\ (a.liveTogether = "Yes" \/ a.livedBefore = "Yes")
     /\ OnOrAfter(a.together, recent)
  \/ (Committed(a) \/ a.marry = "Yes") /\ a.liveTogether = "No"
  \/ a.neverMet /\ (Committed(a) \/ a.arranged = "Yes")

Effort(a, today) ==
  IF \/ a.tech = "Not comfortable" \/ a.interpreter = "Yes" \/ a.visaExpired = "Yes"
     \/ a.planning = "No" \/ OnOrBefore(a.expiry, today + 5)
  THEN "High Effort"
  ELSE IF \/ a.tech = "Somewhat comfortable" \/ a.members > 0
          \/ a.interpreter \in {"Maybe", "No"} \/ a.planning = "Yes"
          \/ OnOrBefore(a.expiry, today + 60)
  THEN "Medium Effort"
  ELSE "Low Effort"

Outcome(a, today) ==
  IF Ineligible(a, today) THEN "ineligible"
  ELSE IF Effort(a, today) = "High Effort" THEN "high_effort" ELSE "eligible"

\* What the prospect's statutory flag becomes.
Statutory(a, today) == Outcome(a, today) = "eligible" /\ ~BecomingEligible(a, today)

==============================================================================
