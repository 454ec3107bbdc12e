------------------------------ MODULE PointsEngine ------------------------------
(***************************************************************************)
(* The points test of the skilled visas: what each category scores by the  *)
(* rules table, the cap on work experience, and where the three featured  *)
(* subclasses stand.                                                       *)
(***************************************************************************)
EXTENDS Naturals

Featured == {"189", "190", "491"}

\* A range rule, and a rule for a label; `is_active` is what findActive selects on.
InRange(category, from, to, points) ==
  [category |-> category, from |-> from, to |-> to, label |-> "null", points |-> points]
ForLabel(category, label, points) ==
  [category |-> category, from |-> 1, to |-> 0, label |-> label, points |-> points]

\* STRUCTURED_POINTS_RULES and the rubric of a later migration, the rows of the table.
SeededRules ==
  {InRange("AGE", 18, 24, 25), InRange("AGE", 25, 32, 30), InRange("AGE", 33, 39, 25),
   InRange("AGE", 40, 44, 15), InRange("AGE", 45, 120, 0),
   ForLabel("ENGLISH", "superior", 20), ForLabel("ENGLISH", "proficient", 10),
   ForLabel("ENGLISH", "competent", 0),
   InRange("OVERSEAS_WORK", 0, 2, 0), InRange("OVERSEAS_WORK", 3, 4, 5),
   InRange("OVERSEAS_WORK", 5, 7, 10), InRange("OVERSEAS_WORK", 8, 120, 15),
   InRange("AUSTRALIAN_WORK", 0, 0, 0), InRange("AUSTRALIAN_WORK", 1, 2, 5),
   InRange("AUSTRALIAN_WORK", 3, 4, 10), InRange("AUSTRALIAN_WORK", 5, 7, 15),
   InRange("AUSTRALIAN_WORK", 8, 120, 20),
   ForLabel("QUALIFICATIONS", "doctorate", 20),
   ForLabel("QUALIFICATIONS", "bachelor_masters", 15),
   ForLabel("QUALIFICATIONS", "diploma_trade", 10),
   ForLabel("QUALIFICATIONS", "other_recognised", 10),
   ForLabel("REGIONAL_STUDY", "regional", 5), ForLabel("AUSTRALIAN_STUDY", "standard", 5),
   ForLabel("SPECIALIST_EDUCATION", "stem_research", 10),
   ForLabel("PROFESSIONAL_YEAR", "standard", 5), ForLabel("COMMUNITY_LANGUAGE", "ccl", 5),
   ForLabel("PARTNER_SKILLS", "single_spouse", 10),
   ForLabel("PARTNER_SKILLS", "skills_english", 10),
   ForLabel("PARTNER_SKILLS", "english_only", 5), ForLabel("PARTNER_SKILLS", "none", 0)}

\* The further categories, and the labels each is claimed under.
ExtraLabels ==
  [REGIONAL_STUDY |-> {"regional"}, AUSTRALIAN_STUDY |-> {"standard"},
   SPECIALIST_EDUCATION |-> {"stem_research"}, PROFESSIONAL_YEAR |-> {"standard"},
   COMMUNITY_LANGUAGE |-> {"ccl"},
   PARTNER_SKILLS |-> {"single_spouse", "skills_english", "english_only", "none"}]

\* What UserProfileDto lets through.
ValidProfile(p) ==
  /\ DOMAIN p = {"age", "overseas", "australian", "english", "qualification", "extras"}
  /\ p.age \in 18..120 /\ p.overseas \in 0..50 /\ p.australian \in 0..50
  /\ p.english \in {"competent", "proficient", "superior"}
  /\ p.qualification \in
       {"doctorate", "bachelor_masters", "diploma_trade", "other_recognised"}
  /\ DOMAIN p.extras \subseteq DOMAIN ExtraLabels
  /\ \A category \in DOMAIN p.extras : p.extras[category] \in ExtraLabels[category]

\* A plausible error: the upper end of a range does not belong to it.
RangePointsHalfOpen(rules, category, v) ==
  LET hits == {r \in rules : r.category = category /\ r.label = "null"
                             /\ r.from <= v /\ v < r.to}
  IN IF hits = {} THEN 0 ELSE (CHOOSE r \in hits : TRUE).points

\* A category without a matching rule scores nothing.
RangePoints(rules, category, v) ==
  LET hits == {r \in rules : r.category = category /\ r.label = "null"
                             /\ r.from <= v /\ v <= r.to}
  IN IF hits = {} THEN 0 ELSE (CHOOSE r \in hits : TRUE).points
LabelPoints(rules, category, label) ==
  LET hits == {r \in rules : r.category = category /\ r.label = label}
  IN IF hits = {} THEN 0 ELSE (CHOOSE r \in hits : TRUE).points

WorkPoints(rules, profile) ==
  RangePoints(rules, "OVERSEAS_WORK", profile.overseas)
    + RangePoints(rules, "AUSTRALIAN_WORK", profile.australian)

\* `profile.extras`: the further categories claimed, each with the label it claims.
ExtraPoints(rules, profile, category) ==
  IF category \in DOMAIN profile.extras
  THEN LabelPoints(rules, category, profile.extras[category]) ELSE 0
Additional(rules, profile) ==
  ExtraPoints(rules, profile, "REGIONAL_STUDY") + ExtraPoints(rules, profile, "AUSTRALIAN_STUDY")
    + ExtraPoints(rules, profile, "SPECIALIST_EDUCATION")
    + ExtraPoints(rules, profile, "PROFESSIONAL_YEAR")
    + ExtraPoints(rules, profile, "COMMUNITY_LANGUAGE")
    + ExtraPoints(rules, profile, "PARTNER_SKILLS")

\* calculateTotalPoints.
TotalPoints(profile, rules, workCap) ==
  LET work == WorkPoints(rules, profile) IN
    RangePoints(rules, "AGE", profile.age)
      + LabelPoints(rules, "ENGLISH", profile.english)
      + LabelPoints(rules, "QUALIFICATIONS", profile.qualification)
      + (IF work > workCap THEN workCap ELSE work)
      + Additional(rules, profile)

\* A plausible error: nobody looks at the age again.
StandingWhateverAge(total, age, policy) ==
  [s \in Featured |-> total + (CASE s = "190" -> policy.stateBonus
                                 [] s = "491" -> policy.regionalBonus
                                 [] OTHER -> 0) >= policy.passMark]

\* buildStanding: which subclasses meet the pass mark.
Standing(total, age, policy) ==
  [s \in Featured |->
     /\ age < policy.maxAge
     /\ total + (CASE s = "190" -> policy.stateBonus
                   [] s = "491" -> policy.regionalBonus
                   [] OTHER -> 0) >= policy.passMark]

==============================================================================
