--------------------------- MODULE PartnerAuditEngine ---------------------------
(***************************************************************************)
(* The readiness audit of a partner visa: four pillars of evidence, each   *)
(* scored by weights an administrator may edit, and the advice drawn from  *)
(* them.  `has` is the set of evidence a couple has, `form888` the number  *)
(* of statutory declarations, `values` the policy rows with the weights.   *)
(***************************************************************************)
EXTENDS PolicyValues

Weight(values, name, fallback) == Num(values, <<"partner", name>>, fallback)

\* The evidence of a pillar with its default weight.
Financial == [jointBankAccounts |-> 30, jointLeaseOrMortgage |-> 40, sharedUtilityBills |-> 30]
Household ==
  [sharedDomesticBills |-> 40, jointChildResponsibility |-> 30, matchingAddressHistory |-> 30]
Social == [sharedTravelItineraries |-> 30, form888Points |-> 40, jointSocialInvitations |-> 30]
Commitment == [livedTogether12Months |-> 50, registeredRelationshipBDM |-> 50]
Pillars ==
  [financial |-> Financial, household |-> Household, social |-> Social,
   commitment |-> Commitment]

ValidEvidence(has, form888) ==
  /\ has \subseteq (UNION {DOMAIN Pillars[p] : p \in DOMAIN Pillars}) \ {"form888Points"}
  /\ form888 \in 0..50

\* Enough statutory declarations count as one more piece of evidence.
Shown(values, has, form888) ==
  has \cup (IF form888 >= Weight(values, "form888Required", 2) THEN {"form888Points"} ELSE {})

Score(pillar, values, has, form888) ==
  LET points(e) ==
        IF e \in Shown(values, has, form888) THEN Weight(values, e, Pillars[pillar][e]) ELSE 0
      sum ==
        CASE pillar = "financial" ->
               points("jointBankAccounts") + points("jointLeaseOrMortgage")
                 + points("sharedUtilityBills")
          [] pillar = "household" ->
               points("sharedDomesticBills") + points("jointChildResponsibility")
                 + points("matchingAddressHistory")
          [] pillar = "social" ->
               points("sharedTravelItineraries") + points("form888Points")
                 + points("jointSocialInvitations")
          [] pillar = "commitment" ->
               points("livedTogether12Months") + points("registeredRelationshipBDM")
      pillarMax == Weight(values, "pillarMax", 100)
      capped == IF sum > pillarMax THEN pillarMax ELSE sum
  IN IF capped < 0 THEN 0 ELSE capped

\* A plausible error: the threshold of half the marks.
WeakBelowHalf(pillar, values, has, form888) == Score(pillar, values, has, form888) < 50

Weak(pillar, values, has, form888) ==
  Score(pillar, values, has, form888) < Weight(values, "weakThreshold", 75)

\* The 12 months of cohabitation are waived for a registered relationship.
WaiverApplies(has) ==
  "registeredRelationshipBDM" \in has /\ "livedTogether12Months" \notin has

\* Advice on a weak pillar names each piece of evidence it lacks.  On commitment it
\* is given only to a couple without either piece; the branch for one that lacks the
\* cohabitation alone is never reached, the waiver having been announced instead.
Advice(values, has, form888) ==
  LET weak == {p \in DOMAIN Pillars : Weak(p, values, has, form888)}
      lacking(p) == DOMAIN Pillars[p] \ Shown(values, has, form888)
  IN (UNION {{p} \X lacking(p) : p \in weak \ {"commitment"}})
       \cup (IF WaiverApplies(has) THEN {<<"commitment", "waived">>}
             ELSE IF "commitment" \in weak /\ lacking("commitment") = DOMAIN Commitment
             THEN {<<"commitment", "registeredRelationshipBDM">>} ELSE {})

\* "Your evidence is strong across all four pillars."
CalledStrong(values, has, form888) == Advice(values, has, form888) = {}

==============================================================================
