---------------------------- MODULE MCProspectIntake ----------------------------
(***************************************************************************)
(* Workloads for ProspectIntake.  Those of one request vary what it is     *)
(* asked, those of several interleave them.                                *)
(***************************************************************************)
EXTENDS ProspectIntake

CONSTANTS r1, r2, r3, r4, i1, i2, i3, t1

Idle == [kind |-> "idle", on |-> i1, role |-> FALSE]
Jobs(a, b, c, d) == r1 :> a @@ r2 :> b @@ r3 :> c @@ r4 :> d
Alone(S) == {Jobs(j, Idle, Idle, Idle) : j \in S}

\* The records that differ from `base` in at most two fields.
Varied(base, values) ==
  UNION {{[base EXCEPT ![x] = v, ![y] = w] : v \in values[x], w \in values[y]} :
           x \in DOMAIN values, y \in DOMAIN values}

-----------------------------------------------------------------------------

MCEmployerRows ==
  [k \in PolicyKeys |->
     [sourced |-> TRUE, inEffect |-> k # <<"494-es", "englishOverall">>,
      value |-> CASE k = AgeKey -> 45
                  [] k = SalaryKey("482-specialist") -> 135
                  [] k = SalaryKey("482-core") -> 73
                  [] k[2] \in {"englishOverall", "englishPerBand"} -> 5
                  [] OTHER -> 3]]
MCCommercial ==
  [minSalary |-> 70, ageCeiling |-> 50, requireAbn |-> 1, services |-> Subclasses \ {"494-es"}]

\* Occupations, by what the catalogue has on them.
Listed == <<3, "listed">>
Manager == <<2, "listed">>
Rural == <<3, "rural">>
Typed == <<3, "typed">>
New == <<3, "new">>
MCCatalogue ==
  Listed :> Official({"CSOL"}) @@ Manager :> Official({"CSOL"}) @@ Rural :> Official({"ROL"})
    @@ Typed :> Legacy({"CSOL"})

MCFactValues ==
  [age |-> {30, 45}, years |-> {2, 3}, sponsoredYears |-> {2, 3}, visa |-> {"482", "500"},
   overall |-> {4, 5}, band |-> {4, 5}, salary |-> {72, 73, 135}, regional |-> BOOLEAN,
   occupation |-> {Manager, Listed, Rural, Typed, New}]
Applicant ==
  [party |-> "applicant", age |-> 30, years |-> 3, sponsoredYears |-> 3, visa |-> "482",
   overall |-> 5, band |-> 5, exemption |-> FALSE, labourAgreement |-> FALSE, salary |-> 73,
   regional |-> FALSE, occupation |-> Listed,
   sponsor |-> [abn |-> FALSE, adverse |-> FALSE, training |-> Unknown, refused |-> FALSE]]
Business ==
  [Applicant EXCEPT !.party = "business", !.occupation = Rural,
     !.sponsor = [abn |-> TRUE, adverse |-> FALSE, training |-> TRUE, refused |-> FALSE]]
Troubled == [Business EXCEPT !.sponsor.adverse = TRUE, !.exemption = TRUE]

PreScreen(facts) ==
  [kind |-> "prescreen", on |-> i1, facts |-> facts, employer |-> facts.party = "business",
   role |-> facts.party = "business"]
FactsOrUnknown == [x \in DOMAIN MCFactValues |-> MCFactValues[x] \cup {Unknown}]

Couple ==
  [status |-> "De facto", bars |-> {}, risks |-> {}, lodged |-> Unknown,
   sponsorApplied |-> Unknown, dating |-> 0, together |-> 0, expiry |-> Unknown,
   marry |-> "Yes", moveIn |-> "Yes", liveTogether |-> "Yes", livedBefore |-> "No",
   protected |-> FALSE, neverMet |-> FALSE, arranged |-> "No", noPMVCircumstance |-> FALSE,
   tech |-> "Comfortable", interpreter |-> "No", visaExpired |-> "No", planning |-> Unknown,
   members |-> 0]
Apart ==
  [Couple EXCEPT !.liveTogether = "No", !.marry = "No", !.moveIn = "No", !.protected = TRUE]
Days == {Unknown, 0, 2000 - 1825, 2000 - 182, 2000 - 183, 2000 + 5}
AnswerValues ==
  [status |-> Partner!Statuses, bars |-> {{}, {"under 18"}}, risks |-> {{}, {"country"}},
   lodged |-> Days, sponsorApplied |-> Days, dating |-> Days, together |-> Days,
   expiry |-> Days, marry |-> {"Yes", "No"}, moveIn |-> {"Yes", "No"},
   liveTogether |-> {"Yes", "No"}, livedBefore |-> {"Yes", "No"}, protected |-> BOOLEAN,
   neverMet |-> BOOLEAN, arranged |-> {"Yes", "No", "Not sure"},
   noPMVCircumstance |-> BOOLEAN, tech |-> {"Not comfortable", "Comfortable"}]
PartnerQuiz(answers) ==
  [kind |-> "partner", on |-> i1, answers |-> answers, today |-> 2000, role |-> FALSE]

Skilled ==
  [age |-> 32, english |-> "proficient", qualification |-> "bachelor_masters", overseas |-> 3,
   australian |-> 1, extras |-> <<>>]
Veteran ==
  [Skilled EXCEPT !.age = 45, !.english = "superior", !.australian = 8,
     !.extras = [PARTNER_SKILLS |-> "skills_english"]]
ProfileValues ==
  [age |-> {18, 24, 32, 44, 45}, english |-> {"superior", "proficient", "competent"},
   qualification |-> {"doctorate", "diploma_trade", "other_recognised"}, overseas |-> {0, 3, 8},
   australian |-> {0, 3, 8},
   extras |-> {<<>>, [PARTNER_SKILLS |-> "skills_english", REGIONAL_STUDY |-> "regional"]}]
Calculation(profile, i) ==
  [kind |-> "points", on |-> i, profile |-> profile, role |-> FALSE]

Readiness(has, form888) ==
  [kind |-> "audit", on |-> i1, has |-> has, form888 |-> form888, role |-> FALSE]
Pieces ==
  (UNION {DOMAIN Audit!Pillars[p] : p \in DOMAIN Audit!Pillars}) \ {"form888Points"}

-----------------------------------------------------------------------------

Touching(kind, p, i) ==
  [kind |-> kind, on |-> i, target |-> p, role |-> FALSE,
   flags |-> [statutory |-> TRUE, fit |-> TRUE]]
Capture == [kind |-> "capture", on |-> i1, answered |-> FALSE, role |-> FALSE]
Accept(t) == [kind |-> "accept", on |-> i1, token |-> t, role |-> FALSE]
Invite == [kind |-> "invite", on |-> i2, role |-> FALSE]
Edit(i, value) ==
  [kind |-> "edit", on |-> i, key |-> PassMark, value |-> value, role |-> FALSE]

Asks(kind, code, lists) ==
  [kind |-> kind, on |-> i1, code |-> code, lists |-> lists, resync |-> TRUE,
   deactivateStale |-> TRUE, role |-> FALSE]
Careful(j) == [j EXCEPT !.resync = FALSE, !.deactivateStale = FALSE]

MCWorkloads ==
  Alone({PreScreen(f) : f \in Varied(Applicant, FactsOrUnknown)
                                \cup Varied(Business, FactsOrUnknown) \cup {Troubled}})
    \cup Alone({PartnerQuiz(a) : a \in Varied(Couple, AnswerValues) \cup Varied(Apart, AnswerValues)})
    \cup Alone({Calculation(x, i1) : x \in Varied(Skilled, ProfileValues) \cup {Veteran}})
    \cup Alone({[Edit(i2, v) EXCEPT !.key = WorkCap] : v \in {-5, 0}})
    \cup Alone({Readiness(has, n) : has \in SUBSET Pieces, n \in {0, 2}})
    \cup {Jobs(Calculation(Skilled, i1), Edit(i1, 70), Edit(i2, 60), Edit(i2, 0)),
          Jobs(Calculation(Skilled, i1), Calculation(Skilled, i1), Edit(i1, 70), Idle),
          Jobs(Accept(t1), Accept(t1), Invite, Idle), Jobs(Accept(r2), Invite, Capture, Idle),
          Jobs(PreScreen(Business), Touching("review", r1, i2), Touching("book", r1, i1), Idle),
          Jobs(PartnerQuiz(Couple), Calculation(Skilled, i2), Touching("review", r1, i1), Idle),
          Jobs(Capture, Touching("book", r1, i1), Touching("checkout", r1, i1),
               Touching("pay", r1, i2))}
    \cup {Jobs(Capture, Touching("book", r1, i1), Touching(b, r1, i2), Idle) :
            b \in {"cancel", "delete", "review"}}
    \cup {Jobs(Capture, Touching("checkout", r1, i1), Touching("lapse", r1, i2), b) :
            b \in {Touching("checkout", r1, i1)}}
    \cup {Jobs(Asks("create", New, {"CSOL"}), Asks("update", New, {"ROL"}),
               Asks("update", New, {"CSOL"}), Idle),
          Jobs(Asks("update", Listed, {"ROL"}), Asks("update", Listed, {"MLTSSL"}),
               Asks("sync", Listed, {}), Idle),
          Jobs(Asks("import", Rural, {"CSOL"}), Asks("update", Rural, {}),
               Careful(Asks("import", Rural, {"MLTSSL", "ROL"})), Asks("sync", Rural, {})),
          Jobs(Asks("remove", Typed, {}), Asks("update", Typed, {"STSOL"}),
               Careful(Asks("sync", Typed, {})), Asks("sync", Typed, {})),
          Jobs([Capture EXCEPT !.on = i3], Calculation(Skilled, i3), Edit(i3, 70), Idle),
          Jobs(PreScreen(Applicant), Asks("update", Listed, {"ROL"}), Idle, Idle)}

ScoredThenReviewed == {Jobs(Calculation(Skilled, i1), Touching("review", r1, i2), Idle, Idle)}

==============================================================================
