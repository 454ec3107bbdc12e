-------------------- MODULE EmployerSponsoredEngine_proofs --------------------
(***************************************************************************)
(* What the pre-screen's engine makes of answers that are still missing,   *)
(* for every form, every set of policy rows and every completion.          *)
(***************************************************************************)
EXTENDS EmployerSponsoredEngine, FiniteSetTheorems, TLAPS

\* Form g completes form f: what f answers, g answers alike.
Completes(g, f) ==
  /\ \A x \in {"exemption", "labourAgreement", "sponsor"} : g[x] = f[x]
  /\ \A x \in Facts : f[x] # Unknown => g[x] = f[x]

-----------------------------------------------------------------------------
(* One pathway *)

\* A test that failed fails on every completion; one that passed passes, and one that does
\* not apply does not apply, unless the test of English was undecided.
LEMMA FindingStays ==
  ASSUME NEW s, NEW f, NEW g, NEW policy, Completes(g, f),
         NEW t \in DOMAIN Findings(s, f, policy)
  PROVE  LET before == Findings(s, f, policy)
             after == Findings(s, g, policy)
         IN /\ before[t] \in {"pass", "fail"} => after[t] = before[t]
            /\ before[t] = "none" =>
                 after[t] = "none" \/ (t = "band" /\ before["overall"] = "unknown")
<1> DEFINE before == Findings(s, f, policy)
           after == Findings(s, g, policy)
<1> USE DEF Completes, Facts
<1>1. before.age \in {"pass", "fail", "none"} => after.age = before.age
  BY DEF Findings, Under
<1>2. before.review = after.review
  BY DEF Findings
<1>3. before.visa \in {"pass", "fail", "none"} => after.visa = before.visa
  BY DEF Findings, OneOf
<1>4. before.experience \in {"pass", "fail", "none"} => after.experience = before.experience
  BY DEF Findings, AtLeast
<1>5. before.overall \in {"pass", "fail", "none"} => after.overall = before.overall
  BY DEF Findings, AtLeast
<1>6. before.band \in {"pass", "fail"} => after.band = before.band
  BY DEF Findings, AtLeast
<1>7. before.band = "none" => before.overall = "unknown"
  BY DEF Findings, AtLeast
<1>8. before.occupation \in {"pass", "fail", "none"} => after.occupation = before.occupation
  BY DEF Findings, OccupationTest, OneOf
<1>9. before.salary \in {"pass", "fail", "none"} => after.salary = before.salary
  BY DEF Findings, AtLeast
<1>10. before.regional \in {"pass", "fail", "none"} => after.regional = before.regional
  BY DEF Findings, OneOf
<1>11. t \in {"age", "review", "visa", "experience", "overall", "band", "occupation", "salary",
              "regional"}
  BY DEF Findings
<1> HIDE DEF before, after
<1>12. /\ before[t] \in {"pass", "fail"} => after[t] = before[t]
       /\ before[t] = "none" => after[t] = "none" \/ (t = "band" /\ before["overall"] = "unknown")
  BY <1>1, <1>2, <1>3, <1>4, <1>5, <1>6, <1>7, <1>8, <1>9, <1>10, <1>11
<1>13. QED
  BY <1>12 DEF before, after

\* What fails on a form fails on each of its completions ...
LEMMA FailureStays ==
  ASSUME NEW s, NEW f, NEW g, NEW policy, Completes(g, f), Verified(s, policy)
  PROVE  AssessSubclass(s, f, policy).failed \subseteq AssessSubclass(s, g, policy).failed
<1>1. DOMAIN Findings(s, f, policy) = DOMAIN Findings(s, g, policy)
  BY DEF Findings
<1>2. QED
  BY <1>1, FindingStays DEF AssessSubclass

\* ... and a pathway that is open on a form is open on each of them.
LEMMA EligibilityStays ==
  ASSUME NEW s, NEW f, NEW g, NEW policy, Completes(g, f),
         IsEligible(AssessSubclass(s, f, policy))
  PROVE  IsEligible(AssessSubclass(s, g, policy))
<1>1. Verified(s, policy)
  BY DEF IsEligible, AssessSubclass
<1> DEFINE before == Findings(s, f, policy)
           after == Findings(s, g, policy)
<1>2. /\ DOMAIN before = DOMAIN after
      /\ DOMAIN before = {"age", "review", "visa", "experience", "overall", "band", "occupation",
                          "salary", "regional"}
  BY DEF Findings
<1>3. \A t \in DOMAIN before : before[t] \notin {"fail", "unknown"}
  BY <1>1 DEF IsEligible, AssessSubclass
<1>4. \A t \in DOMAIN before : before[t] \in {"pass", "fail", "unknown", "none"}
  <2>1. /\ before.age \in {"pass", "fail", "unknown", "none"}
        /\ before.review \in {"pass", "unknown"}
        /\ before.visa \in {"pass", "fail", "unknown", "none"}
    BY DEF Findings, Under, OneOf
  <2>2. /\ before.experience \in {"pass", "fail", "unknown"}
        /\ before.overall \in {"pass", "fail", "unknown"}
        /\ before.band \in {"pass", "fail", "unknown", "none"}
        /\ before.salary \in {"pass", "fail", "unknown"}
    BY DEF Findings, AtLeast
  <2>3. /\ before.occupation \in {"pass", "fail", "unknown", "none"}
        /\ before.regional \in {"pass", "fail", "unknown", "none"}
    BY DEF Findings, OneOf, OccupationTest
  <2> HIDE DEF before
  <2>4. QED
    BY <1>2, <2>1, <2>2, <2>3
<1>5. ASSUME NEW t \in DOMAIN before PROVE after[t] \notin {"fail", "unknown"}
  BY <1>2, <1>3, <1>4, FindingStays
<1>6. QED
  BY <1>1, <1>2, <1>5 DEF IsEligible, AssessSubclass

-----------------------------------------------------------------------------
(* The best pathway *)

LEMMA SubclassesAre ==
  Subclasses = {"186-de", "186-trt", "494-es", "482-core", "482-specialist"}
BY DEF Subclasses, Considered

LEMMA PositionType ==
  ASSUME NEW s \in Subclasses
  PROVE  Position(s) \in 1..5
BY DEF Subclasses, Position

\* Of any five numbers one is the smallest.
LEMMA Smallest ==
  ASSUME NEW D \in [Subclasses -> Nat]
  PROVE  \E s \in Subclasses : \A r \in Subclasses : D[s] <= D[r]
BY SubclassesAre

LEMMA FirstOfIsMember ==
  ASSUME NEW S \in SUBSET Subclasses, S # {}
  PROVE  FirstOf(S) \in S
<1> DEFINE D == [s \in Subclasses |-> IF s \in S THEN Position(s) ELSE 6]
<1>1. D \in [Subclasses -> Nat]
  BY PositionType
<1>2. PICK s \in Subclasses : \A r \in Subclasses : D[s] <= D[r]
  BY <1>1, Smallest
<1>3. s \in S /\ \A r \in S : Position(s) <= Position(r)
  BY <1>2, PositionType
<1>4. QED
  BY <1>3 DEF FirstOf

\* There are nine tests, so that what is undecided never outweighs one that failed.
LEMMA AssessmentIsSmall ==
  ASSUME NEW s, NEW f, NEW policy
  PROVE  LET a == AssessSubclass(s, f, policy) IN
         /\ Cardinality(a.failed) \in Nat /\ Cardinality(a.undecided) \in 0..9
         /\ Cardinality(a.failed) = 0 <=> a.failed = {}
<1> DEFINE a == AssessSubclass(s, f, policy)
           Tests == {"age", "review", "visa", "experience", "overall", "band", "occupation",
                     "salary"} \cup {"regional"}
<1>1. IsFiniteSet(Tests) /\ Cardinality(Tests) <= 9
  <2> DEFINE names == <<"age", "review", "visa", "experience", "overall", "band", "occupation",
                        "salary", "regional">>
             f9 == [k \in 1..9 |-> names[k]]
  <2>1. f9 \in Surjection(1..9, Tests)
    BY DEF Surjection
  <2>2. IsFiniteSet(1..9) /\ Cardinality(1..9) = 9
    <3>1. 1 \in Int /\ 9 \in Int
      OBVIOUS
    <3>2. IsFiniteSet(1..9) /\ Cardinality(1..9) = IF 1 > 9 THEN 0 ELSE 9 - 1 + 1
      BY <3>1, FS_Interval, Zenon
    <3>3. QED
      BY <3>2
  <2>3. QED
    BY <2>1, <2>2, FS_Surjection
<1>2. IsFiniteSet({"policy"}) /\ Cardinality({"policy"}) = 1
  BY FS_Singleton
<1>3. /\ a.failed \subseteq Tests
      /\ a.undecided \subseteq Tests \/ a.undecided = {"policy"}
  BY DEF AssessSubclass, Findings
<1> HIDE DEF a, Tests
<1>4. IsFiniteSet(a.failed) /\ Cardinality(a.failed) \in Nat
  BY <1>1, <1>3, FS_Subset, FS_CardinalityType
<1>5. Cardinality(a.undecided) \in 0..9
  BY <1>1, <1>2, <1>3, FS_Subset, FS_CardinalityType
<1>6. Cardinality(a.failed) = 0 <=> a.failed = {}
  BY <1>4, FS_EmptySet
<1>7. QED
  BY <1>4, <1>5, <1>6 DEF a

AllOf(f, policy) == [s \in Subclasses |-> AssessSubclass(s, f, policy)]

LEMMA DistanceType ==
  ASSUME NEW f, NEW policy, NEW s \in Subclasses
  PROVE  Distance(s, AllOf(f, policy)[s]) \in Nat
<1> DEFINE a == AssessSubclass(s, f, policy)
<1>1. Cardinality(a.failed) \in Nat /\ Cardinality(a.undecided) \in Nat
  BY AssessmentIsSmall
<1>2. Unverified(a) \in Nat
  BY DEF Unverified
<1>3. Position(s) \in Nat
  BY PositionType
<1>4. AllOf(f, policy)[s] = a
  BY DEF AllOf
<1> HIDE DEF a
<1>5. QED
  BY <1>1, <1>2, <1>3, <1>4 DEF Distance

\* The best pathway is an open one if any is open, and otherwise the closest.
LEMMA BestIsBest ==
  ASSUME NEW f, NEW policy
  PROVE  LET all == AllOf(f, policy) IN
         /\ Best(all) \in Subclasses
         /\ \/ IsEligible(all[Best(all)])
            \/ /\ \A s \in Subclasses : ~IsEligible(all[s])
               /\ \A s \in Subclasses : Distance(Best(all), all[Best(all)]) <= Distance(s, all[s])
<1> DEFINE all == AllOf(f, policy)
           eligible == {s \in Subclasses : IsEligible(all[s])}
           direct == {s \in eligible : DirectResidence(s)}
           D == [s \in Subclasses |-> Distance(s, all[s])]
<1>1. CASE direct # {}
  <2>1. Best(all) = FirstOf(direct)
    BY <1>1 DEF Best
  <2>2. FirstOf(direct) \in direct
    BY <1>1, FirstOfIsMember
  <2>3. QED
    BY <2>1, <2>2
<1>2. CASE direct = {} /\ eligible # {}
  <2>1. Best(all) = FirstOf(eligible)
    BY <1>2 DEF Best
  <2>2. FirstOf(eligible) \in eligible
    BY <1>2, FirstOfIsMember
  <2>3. QED
    BY <2>1, <2>2
<1>3. CASE eligible = {}
  <2>1. Best(all) = CHOOSE s \in Subclasses :
                      \A r \in Subclasses : Distance(s, all[s]) <= Distance(r, all[r])
    BY <1>3 DEF Best
  <2>2. D \in [Subclasses -> Nat]
    BY DistanceType
  <2>3. \E s \in Subclasses : \A r \in Subclasses : D[s] <= D[r]
    BY <2>2, Smallest
  <2>4. \E s \in Subclasses : \A r \in Subclasses : Distance(s, all[s]) <= Distance(r, all[r])
    BY <2>3
  <2>5. QED
    BY <1>3, <2>1, <2>4
<1>4. QED
  BY <1>1, <1>2, <1>3

-----------------------------------------------------------------------------
(* The result *)

Refusals == {"requirements_not_met", "income_below_threshold"}

\* When the best pathway is verified, closed and decided, every pathway that is verified
\* has failed: one without a failure would have been closer.
LEMMA AllHaveFailed ==
  ASSUME NEW f, NEW policy, NEW s \in Subclasses, Verified(s, policy),
         LET a == AllOf(f, policy)[Best(AllOf(f, policy))] IN
           ~IsEligible(a) /\ a.undecided = {} /\ "policy_unverified" \notin a.gaps
  PROVE  AssessSubclass(s, f, policy).failed # {}
<1> DEFINE best == Best(AllOf(f, policy))
           a == AssessSubclass(best, f, policy)
           b == AssessSubclass(s, f, policy)
<1>1. best \in Subclasses
  BY BestIsBest
<1>2. AllOf(f, policy)[best] = a /\ AllOf(f, policy)[s] = b
  BY <1>1 DEF AllOf
<1>3. Distance(best, a) <= Distance(s, b) /\ ~IsEligible(a) /\ a.undecided = {}
  <2>1. ~IsEligible(a) /\ a.undecided = {}
    BY <1>2
  <2>2. QED
    BY <1>2, <2>1, BestIsBest
<1>4. a.failed # {}
  BY <1>3 DEF IsEligible
<1>5. Cardinality(a.failed) \in Nat \ {0} /\ Cardinality(a.undecided) \in Nat
  BY <1>4, AssessmentIsSmall
<1>6. Cardinality(b.undecided) \in 0..9 /\ (b.failed = {} => Cardinality(b.failed) = 0)
  BY AssessmentIsSmall
<1>7. Unverified(a) \in Nat /\ (b.failed = {} => Unverified(b) = 0)
  BY DEF Unverified, AssessSubclass
<1>8. Position(best) \in 1..5 /\ Position(s) \in 1..5
  BY <1>1, PositionType
<1> HIDE DEF a, b, best
<1>9. Distance(best, a) >= 101
  <2> DEFINE u == Unverified(a)
             m == Cardinality(a.failed)
             v == Cardinality(a.undecided)
             k == Position(best)
  <2>1. Distance(best, a) = 1000 * u + 100 * m + 10 * v + k
    BY DEF Distance
  <2>2. u \in Nat /\ m \in Nat /\ m # 0 /\ v \in Nat /\ k \in 1..5
    BY <1>5, <1>7, <1>8
  <2> HIDE DEF u, m, v, k
  <2>3. 1000 * u + 100 * m + 10 * v + k >= 101
    BY <2>2
  <2>4. QED
    BY <2>1, <2>3
<1>10. b.failed = {} => Distance(s, b) <= 95
  BY <1>6, <1>7, <1>8 DEF Distance
<1>11. b.failed = {} => Distance(s, b) \in Nat
  BY <1>6, <1>7, <1>8 DEF Distance
<1>12. Distance(best, a) \in Nat
  BY <1>5, <1>7, <1>8 DEF Distance
<1>13. b.failed # {}
  BY <1>3, <1>9, <1>10, <1>11, <1>12
<1>14. QED
  BY <1>13 DEF b

\* Whoever is told that the requirements are not met could not have met them by answering
\* more.
LEMMA RefusalStays ==
  ASSUME NEW f, NEW g, NEW policy, NEW commercial, Completes(g, f),
         Assess(f, policy, commercial).tag \in Refusals
  PROVE  ~Assess(g, policy, commercial).statutory
<1> DEFINE best == Best(AllOf(f, policy))
           a == AllOf(f, policy)[best]
           after == Best(AllOf(g, policy))
<1>1. Assess(g, policy, commercial).statutory <=>
        IsEligible(AllOf(g, policy)[after]) /\ ~SponsorBlocks(g.sponsor)
  BY DEF Assess, AllOf
<1>2. CASE SponsorBlocks(f.sponsor)
  BY <1>1, <1>2 DEF Completes
<1>3. CASE ~SponsorBlocks(f.sponsor)
  <2>1. ~IsEligible(a) /\ a.undecided = {} /\ "policy_unverified" \notin a.gaps
    BY <1>3 DEF Assess, AllOf, Refusals
  <2>2. after \in Subclasses
    BY BestIsBest
  <2>3. ~IsEligible(AssessSubclass(after, g, policy))
    <3>1. CASE Verified(after, policy)
      <4>1. AssessSubclass(after, f, policy).failed # {}
        BY <2>1, <2>2, <3>1, AllHaveFailed
      <4>2. AssessSubclass(after, g, policy).failed # {}
        BY <3>1, <4>1, FailureStays
      <4>3. QED
        BY <4>2 DEF IsEligible
    <3>2. CASE ~Verified(after, policy)
      BY <3>2 DEF IsEligible, AssessSubclass
    <3>3. QED
      BY <3>1, <3>2
  <2>4. QED
    BY <1>1, <2>2, <2>3 DEF AllOf
<1>4. QED
  BY <1>2, <1>3

==============================================================================
