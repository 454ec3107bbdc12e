-------------------------- MODULE ProspectAudit_proofs --------------------------
(***************************************************************************)
(* Proofs about the readiness audit of ProspectIntake: what it means that  *)
(* the audit has no advice to give.                                        *)
(***************************************************************************)
EXTENDS ProspectIntake_proofs

\* What the advice rests on, whoever has edited the rows: the threshold was not lowered,
\* and a couple that shows every piece of evidence is weak on no pillar.
Everything ==
  (UNION {DOMAIN Audit!Pillars[p] : p \in DOMAIN Audit!Pillars}) \ {"form888Points"}

AllEvidenceSuffices(values) ==
  /\ Audit!Weight(values, "weakThreshold", 75) >= 75
  /\ \A pillar \in DOMAIN Audit!Pillars :
       ~Audit!Weak(pillar, values, Everything, Audit!Weight(values, "form888Required", 2))

-----------------------------------------------------------------------------
(* Weights and scores *)

LEMMA PillarsAre ==
  /\ DOMAIN Audit!Pillars = {"financial", "household", "social", "commitment"}
  /\ Audit!Pillars["financial"] = Audit!Financial
  /\ Audit!Pillars["household"] = Audit!Household
  /\ Audit!Pillars["social"] = Audit!Social
  /\ Audit!Pillars["commitment"] = Audit!Commitment
BY DEF Audit!Pillars

LEMMA EvidenceIs ==
  /\ DOMAIN Audit!Financial =
       {"jointBankAccounts", "jointLeaseOrMortgage", "sharedUtilityBills"}
  /\ DOMAIN Audit!Household =
       {"sharedDomesticBills", "jointChildResponsibility", "matchingAddressHistory"}
  /\ DOMAIN Audit!Social =
       {"sharedTravelItineraries", "form888Points", "jointSocialInvitations"}
  /\ DOMAIN Audit!Commitment = {"livedTogether12Months", "registeredRelationshipBDM"}
BY DEF Audit!Financial, Audit!Household, Audit!Social, Audit!Commitment

LEMMA FallbacksAreNumbers ==
  \A pillar \in DOMAIN Audit!Pillars :
    \A e \in DOMAIN Audit!Pillars[pillar] : Audit!Pillars[pillar][e] \in Int
BY PillarsAre, EvidenceIs
   DEF Audit!Financial, Audit!Household, Audit!Social, Audit!Commitment

LEMMA WeightsAreNumbers ==
  ASSUME NEW values, \A key \in DOMAIN values : values[key] \in Int,
         NEW name, NEW fallback \in Int
  PROVE  Audit!Weight(values, name, fallback) \in Int
BY DEF Audit!Weight, Audit!Num, Audit!Usable

LEMMA ScoresAreIntegers ==
  ASSUME NEW values, \A key \in DOMAIN values : values[key] \in Int,
         NEW has, NEW form888, NEW pillar \in DOMAIN Audit!Pillars
  PROVE  Audit!Score(pillar, values, has, form888) \in Int
<1> DEFINE points(e) ==
      IF e \in Audit!Shown(values, has, form888)
      THEN Audit!Weight(values, e, Audit!Pillars[pillar][e]) ELSE 0
<1>1. \A e \in DOMAIN Audit!Pillars[pillar] : points(e) \in Int
  BY WeightsAreNumbers, FallbacksAreNumbers
<1>2. Audit!Weight(values, "pillarMax", 100) \in Int
  BY WeightsAreNumbers
<1>3. QED
  BY <1>1, <1>2, PillarsAre, EvidenceIs DEF Audit!Score

\* A couple that shows all the evidence of a pillar scores as one that shows everything.
LEMMA AllOfAPillar ==
  ASSUME NEW values, NEW has, NEW form888, NEW every, NEW enough,
         NEW pillar \in DOMAIN Audit!Pillars,
         DOMAIN Audit!Pillars[pillar] \subseteq Audit!Shown(values, has, form888),
         DOMAIN Audit!Pillars[pillar] \subseteq Audit!Shown(values, every, enough)
  PROVE  Audit!Score(pillar, values, has, form888) = Audit!Score(pillar, values, every, enough)
BY PillarsAre, EvidenceIs DEF Audit!Score

LEMMA EverythingIsShown ==
  ASSUME NEW values, \A key \in DOMAIN values : values[key] \in Int,
         NEW pillar \in DOMAIN Audit!Pillars
  PROVE  DOMAIN Audit!Pillars[pillar] \subseteq
           Audit!Shown(values, Everything, Audit!Weight(values, "form888Required", 2))
<1>1. Audit!Weight(values, "form888Required", 2) \in Int
  BY WeightsAreNumbers
<1>2. DOMAIN Audit!Pillars[pillar] \subseteq Everything \cup {"form888Points"}
  BY DEF Everything
<1>3. QED
  BY <1>1, <1>2 DEF Audit!Shown

\* A pillar of which a couple shows every piece is not weak.
LEMMA CompletePillarIsStrong ==
  ASSUME NEW values, \A key \in DOMAIN values : values[key] \in Int,
         AllEvidenceSuffices(values), NEW has, NEW form888,
         NEW pillar \in DOMAIN Audit!Pillars,
         DOMAIN Audit!Pillars[pillar] \subseteq Audit!Shown(values, has, form888)
  PROVE  ~Audit!Weak(pillar, values, has, form888)
<1> DEFINE enough == Audit!Weight(values, "form888Required", 2)
<1>1. Audit!Score(pillar, values, has, form888)
        = Audit!Score(pillar, values, Everything, enough)
  BY AllOfAPillar, EverythingIsShown
<1>2. ~Audit!Weak(pillar, values, Everything, enough)
  BY DEF AllEvidenceSuffices
<1>3. QED
  BY <1>1, <1>2 DEF Audit!Weak

LEMMA NotWeakIsStrong ==
  ASSUME NEW values, \A key \in DOMAIN values : values[key] \in Int,
         AllEvidenceSuffices(values), NEW has, NEW form888,
         NEW pillar \in DOMAIN Audit!Pillars, ~Audit!Weak(pillar, values, has, form888)
  PROVE  Audit!Score(pillar, values, has, form888) >= 75
<1>1. /\ Audit!Score(pillar, values, has, form888) \in Int
      /\ Audit!Weight(values, "weakThreshold", 75) \in Int
  BY ScoresAreIntegers, WeightsAreNumbers
<1>2. QED
  BY <1>1 DEF Audit!Weak, AllEvidenceSuffices

-----------------------------------------------------------------------------
(* Silence of the audit *)

\* Without advice, a pillar is strong, or it is the commitment of a couple that has lived
\* together and is not registered.
LEMMA SilenceMeansStrong ==
  ASSUME NEW values, \A key \in DOMAIN values : values[key] \in Int,
         AllEvidenceSuffices(values), NEW has, NEW form888,
         Audit!CalledStrong(values, has, form888), NEW pillar \in DOMAIN Audit!Pillars
  PROVE  \/ Audit!Score(pillar, values, has, form888) >= 75
         \/ /\ pillar = "commitment" /\ "livedTogether12Months" \in has
            /\ "registeredRelationshipBDM" \notin has
<1> DEFINE weak == {p \in DOMAIN Audit!Pillars : Audit!Weak(p, values, has, form888)}
           lacking(p) == DOMAIN Audit!Pillars[p] \ Audit!Shown(values, has, form888)
<1>1. /\ \A p \in weak \ {"commitment"} : lacking(p) = {}
      /\ ~Audit!WaiverApplies(has)
      /\ "commitment" \in weak => lacking("commitment") # DOMAIN Audit!Commitment
  <2> DEFINE commitment ==
        IF Audit!WaiverApplies(has) THEN {<<"commitment", "waived">>}
        ELSE IF "commitment" \in weak /\ lacking("commitment") = DOMAIN Audit!Commitment
        THEN {<<"commitment", "registeredRelationshipBDM">>} ELSE {}
  <2>1. (UNION {{p} \X lacking(p) : p \in weak \ {"commitment"}}) \cup commitment = {}
    BY DEF Audit!CalledStrong, Audit!Advice
  <2> HIDE DEF weak, lacking
  <2>2. ASSUME NEW p \in weak \ {"commitment"}, NEW e \in lacking(p) PROVE FALSE
    <3>1. <<p, e>> \in {p} \X lacking(p)
      OBVIOUS
    <3>2. QED
      BY <2>1, <2>2, <3>1
  <2>3. commitment = {}
    BY <2>1
  <2>4. /\ ~Audit!WaiverApplies(has)
        /\ "commitment" \in weak => lacking("commitment") # DOMAIN Audit!Commitment
    BY <2>3
  <2>5. QED
    BY <2>2, <2>4
<1>2. SUFFICES ASSUME pillar \in weak
               PROVE  /\ pillar = "commitment" /\ "livedTogether12Months" \in has
                      /\ "registeredRelationshipBDM" \notin has
  BY NotWeakIsStrong
<1>3. lacking(pillar) # {}
  BY <1>2, CompletePillarIsStrong
<1>4. pillar = "commitment"
  BY <1>1, <1>2, <1>3
<1>5. /\ {"livedTogether12Months", "registeredRelationshipBDM"} \cap has # {}
      /\ ~({"livedTogether12Months", "registeredRelationshipBDM"} \subseteq has)
  BY <1>1, <1>2, <1>3, <1>4, PillarsAre, EvidenceIs DEF Audit!Shown
<1>6. QED
  BY <1>1, <1>4, <1>5 DEF Audit!WaiverApplies

\* The weights that the migrations put there are such weights.
LEMMA SeededWeightsSuffice == AllEvidenceSuffices(SeededPolicy)
<1>1. \A name \in DOMAIN SeededPartner, fallback \in Int :
        Audit!Weight(SeededPolicy, name, fallback) = SeededPartner[name]
  <2> TAKE name \in DOMAIN SeededPartner, fallback \in Int
  <2>1. <<"partner", name>> \in DOMAIN SeededPolicy /\ <<"partner", name>> \notin Audit!MustBePositive
    BY DEF SeededPolicy, Audit!MustBePositive
  <2>2. SeededPolicy[<<"partner", name>>] = SeededPartner[name]
    BY <2>1 DEF SeededPolicy
  <2>3. SeededPartner[name] \in Int /\ SeededPartner[name] >= 0
    BY DEF SeededPartner
  <2>4. QED
    BY <2>1, <2>2, <2>3 DEF Audit!Weight, Audit!Num, Audit!Usable
<1> DEFINE W(name, fallback) == Audit!Weight(SeededPolicy, name, fallback)
<1>2. /\ W("weakThreshold", 75) = 75 /\ W("pillarMax", 100) = 100 /\ W("form888Required", 2) = 2
      /\ W("jointBankAccounts", 30) = 30 /\ W("jointLeaseOrMortgage", 40) = 40
      /\ W("sharedUtilityBills", 30) = 30 /\ W("sharedDomesticBills", 40) = 40
      /\ W("jointChildResponsibility", 30) = 30 /\ W("matchingAddressHistory", 30) = 30
      /\ W("sharedTravelItineraries", 30) = 30 /\ W("form888Points", 40) = 40
      /\ W("jointSocialInvitations", 30) = 30 /\ W("livedTogether12Months", 50) = 50
      /\ W("registeredRelationshipBDM", 50) = 50
  BY <1>1 DEF SeededPartner
<1>3. Everything \cup {"form888Points"} \subseteq Audit!Shown(SeededPolicy, Everything, 2)
  BY <1>2 DEF Audit!Shown
<1>4. ASSUME NEW pillar \in DOMAIN Audit!Pillars
      PROVE  Audit!Score(pillar, SeededPolicy, Everything, 2) = 100
  <2>1. DOMAIN Audit!Pillars[pillar] \subseteq Audit!Shown(SeededPolicy, Everything, 2)
    BY <1>3 DEF Everything
  <2>2. CASE pillar = "financial"
    BY <1>2, <2>1, <2>2, PillarsAre, EvidenceIs DEF Audit!Score, Audit!Financial
  <2>3. CASE pillar = "household"
    BY <1>2, <2>1, <2>3, PillarsAre, EvidenceIs DEF Audit!Score, Audit!Household
  <2>4. CASE pillar = "social"
    BY <1>2, <2>1, <2>4, PillarsAre, EvidenceIs DEF Audit!Score, Audit!Social
  <2>5. CASE pillar = "commitment"
    BY <1>2, <2>1, <2>5, PillarsAre, EvidenceIs DEF Audit!Score, Audit!Commitment
  <2>6. QED
    BY <2>2, <2>3, <2>4, <2>5, PillarsAre
<1>5. QED
  BY <1>2, <1>4 DEF AllEvidenceSuffices, Audit!Weak

\* Whoever is told that the evidence is strong across all four pillars has 75 marks on each,
\* whatever the weights, save the commitment the advice forgets.
THEOREM StrongIsStrong ==
  ASSUME AllEvidenceSuffices(PolicyRows)
  PROVE  Spec => []StrongMeansStrong
<1>1. StrongMeansStrong
  BY SilenceMeansStrong, RowsAreNumbers DEF StrongMeansStrong
<1>2. QED
  BY <1>1, PTL

\* With the rows that the migrations put there the assumption holds.
THEOREM StrongAsSeeded ==
  ASSUME PolicyRows = SeededPolicy
  PROVE  Spec => []StrongMeansStrong
BY StrongIsStrong, SeededWeightsSuffice

==============================================================================
