------------------------ MODULE EmployerSponsoredEngine ------------------------
(***************************************************************************)
(* The rules of the employer-sponsored pre-screen: five pathways are       *)
(* assessed against the verified policy rows, the best is picked, and the  *)
(* practice's commercial screen is put beside it.                          *)
(*                                                                         *)
(* A fact is a value or Unknown (an answer left out, or null).  The texts  *)
(* the engine produces are left out; what remains of `passes`, `unknowns`  *)
(* and `blockers` is which test passed, is undecided or failed.            *)
(***************************************************************************)
EXTENDS Naturals, FiniteSets

CONSTANT Unknown

ASSUME UnknownIsNoAnswer == Unknown \notin Nat \cup BOOLEAN \cup STRING

\* The answers a form may leave out, beside those about the sponsor.
Facts ==
  {"age", "years", "sponsoredYears", "visa", "overall", "band", "salary", "regional", "occupation"}

\* The answers of a form that passed validation, as far as the rules look at them.
ValidFacts(f) ==
  LET orUnknown(S) == S \cup {Unknown} IN
  /\ Facts \cup {"exemption", "labourAgreement", "sponsor"} \subseteq DOMAIN f
  /\ f.party \in {"applicant", "business"}
  /\ f.age \in orUnknown(15..99) /\ f.years \in orUnknown(0..60)
  /\ f.sponsoredYears \in orUnknown(0..60)
  /\ {f.overall, f.band} \subseteq orUnknown(0..9)
  /\ f.salary \in orUnknown(Nat) /\ f.regional \in orUnknown(BOOLEAN)
  /\ f.sponsor.adverse \in orUnknown(BOOLEAN) /\ f.sponsor.training \in orUnknown(BOOLEAN)

Considered == <<"186-de", "186-trt", "494-es", "482-core", "482-specialist">>
Subclasses == {Considered[k] : k \in 1..5}
Position(s) == CHOOSE k \in 1..5 : Considered[k] = s

OnTemporary(s) == s \in {"482-core", "482-specialist"}
DirectResidence(s) == s \in {"186-de", "186-trt"}

-----------------------------------------------------------------------------
(* Policy: a function from the keys of the rows in force to their values *)

YearsKey(s) ==
  CASE s = "186-trt" -> <<"employer", "trtMinSponsoredYears">>
    [] s = "494-es"  -> <<"employer", "regionalMinExperienceYears">>
    [] s = "186-de"  -> <<"employer", "deMinExperienceYears">>
    [] OTHER         -> <<"employer", "coreMinExperienceYears">>
SalaryKey(s) ==
  <<"employer", IF s = "482-specialist" THEN "specialistIncome" ELSE "coreSkillsIncome">>
AgeKey == <<"employer", "maxAge">>

KeysOf(s) ==
  {YearsKey(s), SalaryKey(s), <<s, "englishOverall">>, <<s, "englishPerBand">>}
    \cup (IF OnTemporary(s) THEN {} ELSE {AgeKey})
PolicyKeys == UNION {KeysOf(s) : s \in Subclasses}

Verified(s, policy) == KeysOf(s) \subseteq DOMAIN policy

\* employerSnapshot: a row counts when it has a source, is in effect and is positive.
EmployerSnapshot(rows) ==
  [k \in {q \in DOMAIN rows : rows[q].sourced /\ rows[q].inEffect /\ rows[q].value > 0} |->
     rows[k].value]

-----------------------------------------------------------------------------
(* The decisive tests of one pathway *)

\* A plausible error: an answer that is missing is let through.
AtLeastIfGiven(v, bound) ==
  IF v = Unknown THEN "pass" ELSE IF v >= bound THEN "pass" ELSE "fail"

AtLeast(v, bound) ==
  IF v = Unknown THEN "unknown" ELSE IF v >= bound THEN "pass" ELSE "fail"
Under(v, bound) ==
  IF v = Unknown THEN "unknown" ELSE IF v < bound THEN "pass" ELSE "fail"
OneOf(v, S) ==
  IF v = Unknown THEN "unknown" ELSE IF v \in S THEN "pass" ELSE "fail"

Lists(s) == IF s = "494-es" THEN {"MLTSSL", "ROL"} ELSE {"CSOL"}

\* isOnAnyList: only memberships with a source and a date decide; without any,
\* nothing is known.
VerifiedMemberships(occupation) == {m \in occupation.memberships : m.verified}
OnAnyList(occupation, lists) ==
  LET members == VerifiedMemberships(occupation) IN
  IF members = {} THEN Unknown ELSE \E m \in members : m.list \in lists

\* `occupation` is Unknown, or what is known of the code that was given: its major group
\* (Unknown unless it has six digits), and its memberships in the catalogue.
OccupationTest(s, occupation) ==
  IF occupation = Unknown THEN "unknown"
  ELSE IF s = "482-specialist" THEN OneOf(occupation.majorGroup, {1, 2, 4, 5, 6})
  ELSE OneOf(OnAnyList(occupation, Lists(s)), {TRUE})

Findings(s, f, policy) ==
  LET noEnglish == f.overall = Unknown \/ f.band = Unknown IN
  [age        |-> IF OnTemporary(s) THEN "none" ELSE Under(f.age, policy[AgeKey]),
   review     |-> IF f.exemption \/ f.labourAgreement THEN "unknown" ELSE "pass",
   visa       |-> IF s = "186-trt" THEN OneOf(f.visa, {"457", "482"}) ELSE "none",
   experience |-> AtLeast(IF s = "186-trt" THEN f.sponsoredYears ELSE f.years,
                          policy[YearsKey(s)]),
   overall    |-> IF noEnglish THEN "unknown"
                  ELSE AtLeast(f.overall, policy[<<s, "englishOverall">>]),
   band       |-> IF noEnglish THEN "none"
                  ELSE AtLeast(f.band, policy[<<s, "englishPerBand">>]),
   occupation |-> IF s = "186-trt" THEN "none" ELSE OccupationTest(s, f.occupation),
   salary     |-> AtLeast(f.salary, policy[SalaryKey(s)]),
   regional   |-> IF s = "494-es" THEN OneOf(f.regional, {TRUE}) ELSE "none"]

GapCode(s) ==
  [age        |-> "age_limit",
   visa       |-> "qualifying_visa_missing",
   experience |-> IF s = "186-trt" THEN "sponsored_work_short" ELSE "experience_short",
   overall    |-> "english_short",
   band       |-> "english_short",
   occupation |-> IF s = "482-specialist" THEN "occupation_group_excluded"
                  ELSE "occupation_not_listed",
   salary     |-> "income_short",
   regional   |-> "regional_location_required"]

\* assessSubclass, or the early exit when the pathway's policy is not verified.
AssessSubclass(s, f, policy) ==
  IF ~Verified(s, policy)
  THEN [failed |-> {}, undecided |-> {"policy"}, gaps |-> {"policy_unverified"}]
  ELSE LET found == Findings(s, f, policy)
           failed == {t \in DOMAIN found : found[t] = "fail"}
           undecided == {t \in DOMAIN found : found[t] = "unknown"}
       IN [failed |-> failed, undecided |-> undecided,
           gaps |-> {GapCode(s)[t] : t \in failed}
                      \cup (IF "review" \in undecided THEN {"professional_review"} ELSE {})]

\* "Nothing failed AND nothing was left undecided."
IsEligible(a) == a.failed = {} /\ a.undecided = {}

-----------------------------------------------------------------------------
(* The result *)

FirstOf(S) == CHOOSE s \in S : \A r \in S : Position(s) <= Position(r)

Unverified(a) == IF "policy_unverified" \in a.gaps THEN 1 ELSE 0

\* A plausible error: what is undecided weighs more than what failed.
DistanceByUnknowns(s, a) ==
  1000 * Unverified(a) + 100 * Cardinality(a.undecided) + 10 * Cardinality(a.failed)
    + Position(s)

\* How far a pathway is from being open: verified before unverified, then fewest failures,
\* then fewest undecided tests, then the order of the list.
Distance(s, a) ==
  1000 * Unverified(a) + 100 * Cardinality(a.failed) + 10 * Cardinality(a.undecided)
    + Position(s)

\* Direct permanent residence among the eligible, the first eligible one, the closest.
Best(all) ==
  LET eligible == {s \in Subclasses : IsEligible(all[s])}
      direct == {s \in eligible : DirectResidence(s)}
  IN IF direct # {} THEN FirstOf(direct)
     ELSE IF eligible # {} THEN FirstOf(eligible)
     ELSE CHOOSE s \in Subclasses :
            \A r \in Subclasses : Distance(s, all[s]) <= Distance(r, all[r])

SponsorBlocks(sponsor) == sponsor.adverse = TRUE \/ sponsor.training = FALSE

\* computeClientFit; a commercial setting that is missing never lets anyone through.
ClientFit(f, s, commercial) ==
  /\ Unknown \notin {f.salary, commercial.minSalary} /\ f.salary >= commercial.minSalary
  /\ Unknown \notin {f.age, commercial.ageCeiling} /\ f.age <= commercial.ageCeiling
  /\ f.party = "business" /\ commercial.requireAbn # 0 => f.sponsor.abn
  /\ s \in commercial.services

Assess(f, policy, commercial) ==
  LET all == [s \in Subclasses |-> AssessSubclass(s, f, policy)]
      best == Best(all)
      blocked == SponsorBlocks(f.sponsor)
      eligible == IsEligible(all[best])
      gaps == all[best].gaps
                \cup (IF blocked \/ f.exemption \/ f.labourAgreement
                      THEN {"professional_review"} ELSE {})
  IN [pathway |-> best,
      recommended |-> IF eligible THEN best ELSE Unknown,
      statutory |-> eligible /\ ~blocked,
      fit |-> ClientFit(f, best, commercial),
      blocked |-> all[best].failed # {} \/ blocked \/ f.sponsor.refused,
      tag |-> IF gaps \cap {"policy_unverified", "professional_review"} # {}
                THEN "review_required"
              ELSE IF eligible /\ ~blocked THEN "may_be_eligible"
              ELSE IF all[best].undecided # {} THEN "incomplete"
              ELSE IF gaps = {"income_short"} THEN "income_below_threshold"
              ELSE "requirements_not_met"]

==============================================================================
