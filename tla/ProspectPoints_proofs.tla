-------------------------- MODULE ProspectPoints_proofs --------------------------
(***************************************************************************)
(* Proofs about the points calculator of ProspectIntake: its arithmetic    *)
(* over the rules table, and the verdict it shows.                         *)
(***************************************************************************)
EXTENDS ProspectIntake_proofs

-----------------------------------------------------------------------------
(* Scores *)

\* A range scores what its only matching rule gives.
LEMMA OneRule ==
  ASSUME NEW rules, NEW category, NEW v, NEW rule \in rules,
         rule.category = category, rule.label = "null", rule.from <= v, v <= rule.to,
         \A r \in rules : r.category = category /\ r.label = "null" /\ r.from <= v /\ v <= r.to
                            => r = rule
  PROVE  Points!RangePoints(rules, category, v) = rule.points
<1> DEFINE hits == {r \in rules : r.category = category /\ r.label = "null"
                                  /\ r.from <= v /\ v <= r.to}
<1>1. hits = {rule}
  OBVIOUS
<1>2. Points!RangePoints(rules, category, v) =
        IF hits = {} THEN 0 ELSE (CHOOSE r \in hits : TRUE).points
  BY DEF Points!RangePoints
<1> HIDE DEF hits
<1>3. hits # {} /\ (CHOOSE r \in hits : TRUE) \in hits
  BY Zenon, <1>1
<1>4. (CHOOSE r \in hits : TRUE) = rule
  BY <1>1, <1>3
<1>5. QED
  BY <1>2, <1>3, <1>4

LEMMA RulesAreNumbers == \A r \in Points!SeededRules : r.points \in Nat
<1> TAKE r \in Points!SeededRules
<1>1. \/ \E c, f, t : \E p \in {0, 5, 10, 15, 20, 25, 30} : r = Points!InRange(c, f, t, p)
      \/ \E c, l : \E p \in {0, 5, 10, 15, 20, 25, 30} : r = Points!ForLabel(c, l, p)
  BY DEF Points!SeededRules
<1>2. QED
  BY <1>1 DEF Points!InRange, Points!ForLabel

LEMMA ScoresAreNumbers ==
  /\ \A category, v : Points!RangePoints(Points!SeededRules, category, v) \in Nat
  /\ \A category, label : Points!LabelPoints(Points!SeededRules, category, label) \in Nat
<1>1. ASSUME NEW hits \in SUBSET Points!SeededRules
      PROVE  (IF hits = {} THEN 0 ELSE (CHOOSE r \in hits : TRUE).points) \in Nat
  <2>1. hits # {} => (CHOOSE r \in hits : TRUE) \in Points!SeededRules
    BY Zenon
  <2>2. QED
    BY <2>1, RulesAreNumbers
<1>2. QED
  BY <1>1 DEF Points!RangePoints, Points!LabelPoints

LEMMA WorkScores ==
  \A v \in 0..120 :
    /\ Points!RangePoints(Points!SeededRules, "OVERSEAS_WORK", v) =
         IF v <= 2 THEN 0 ELSE IF v <= 4 THEN 5 ELSE IF v <= 7 THEN 10 ELSE 15
    /\ Points!RangePoints(Points!SeededRules, "AUSTRALIAN_WORK", v) =
         IF v = 0 THEN 0 ELSE IF v <= 2 THEN 5 ELSE IF v <= 4 THEN 10
           ELSE IF v <= 7 THEN 15 ELSE 20
<1> TAKE v \in 0..120
<1> DEFINE rules == Points!SeededRules
           overseas == {Points!InRange("OVERSEAS_WORK", 0, 2, 0),
                        Points!InRange("OVERSEAS_WORK", 3, 4, 5),
                        Points!InRange("OVERSEAS_WORK", 5, 7, 10),
                        Points!InRange("OVERSEAS_WORK", 8, 120, 15)}
           australian == {Points!InRange("AUSTRALIAN_WORK", 0, 0, 0),
                          Points!InRange("AUSTRALIAN_WORK", 1, 2, 5),
                          Points!InRange("AUSTRALIAN_WORK", 3, 4, 10),
                          Points!InRange("AUSTRALIAN_WORK", 5, 7, 15),
                          Points!InRange("AUSTRALIAN_WORK", 8, 120, 20)}
<1>1. ASSUME NEW r \in rules
      PROVE  /\ r.category = "OVERSEAS_WORK" => r \in overseas
             /\ r.category = "AUSTRALIAN_WORK" => r \in australian
  <2> DEFINE others == {"ENGLISH", "QUALIFICATIONS", "REGIONAL_STUDY", "AUSTRALIAN_STUDY",
                        "SPECIALIST_EDUCATION", "PROFESSIONAL_YEAR", "COMMUNITY_LANGUAGE",
                        "PARTNER_SKILLS"}
  <2>1. \/ r \in overseas \/ r \in australian
        \/ \E f, t, p : r = Points!InRange("AGE", f, t, p)
        \/ \E c \in others : \E l, p : r = Points!ForLabel(c, l, p)
    BY DEF Points!SeededRules
  <2>2. r \in overseas => r.category = "OVERSEAS_WORK"
    BY DEF Points!InRange
  <2>3. r \in australian => r.category = "AUSTRALIAN_WORK"
    BY DEF Points!InRange
  <2> HIDE DEF overseas, australian
  <2>4. QED
    BY <2>1, <2>2, <2>3 DEF Points!InRange, Points!ForLabel
<1>2. overseas \subseteq rules /\ australian \subseteq rules
  BY DEF Points!SeededRules
<1> HIDE DEF rules
<1>3. ASSUME NEW rule \in overseas, rule.from <= v, v <= rule.to
      PROVE  Points!RangePoints(Points!SeededRules, "OVERSEAS_WORK", v) = rule.points
  <2>1. rule.category = "OVERSEAS_WORK" /\ rule.label = "null"
    BY DEF Points!InRange
  <2>2. \A r \in overseas : r.from <= v /\ v <= r.to => r = rule
    BY <1>3 DEF Points!InRange
  <2> HIDE DEF overseas, australian
  <2>3. QED
    BY <1>1, <1>2, <1>3, <2>1, <2>2, OneRule DEF rules
<1>4. ASSUME NEW rule \in australian, rule.from <= v, v <= rule.to
      PROVE  Points!RangePoints(Points!SeededRules, "AUSTRALIAN_WORK", v) = rule.points
  <2>1. rule.category = "AUSTRALIAN_WORK" /\ rule.label = "null"
    BY DEF Points!InRange
  <2>2. \A r \in australian : r.from <= v /\ v <= r.to => r = rule
    BY <1>4 DEF Points!InRange
  <2> HIDE DEF overseas, australian
  <2>3. QED
    BY <1>1, <1>2, <1>4, <2>1, <2>2, OneRule DEF rules
<1>5. QED
  BY <1>3, <1>4 DEF Points!InRange

LEMMA ExtrasAreNumbers ==
  ASSUME NEW profile
  PROVE  Points!Additional(Points!SeededRules, profile) \in Nat
<1>1. \A category : Points!ExtraPoints(Points!SeededRules, profile, category) \in Nat
  BY ScoresAreNumbers DEF Points!ExtraPoints
<1>2. QED
  BY <1>1 DEF Points!Additional

\* The cap on work experience in the rows at the start.
LEMMA CapIsNumber == PolicyRows[WorkCap] \in Int
<1>1. "combinedWorkCap" \in DOMAIN SeededPoints
  BY DEF SeededPoints
<1>2. WorkCap \in DOMAIN SeededPolicy
  BY <1>1 DEF SeededPolicy, WorkCap
<1>3. QED
  BY <1>2, SeedsAreThere, RowsAreNumbers

\* A score grows with the points of the work experience.
LEMMA WorkCounts ==
  ASSUME NEW old, NEW new, NEW cap \in Int,
         new.age = old.age, new.english = old.english, new.qualification = old.qualification,
         new.extras = old.extras,
         Points!WorkPoints(Points!SeededRules, new) >= Points!WorkPoints(Points!SeededRules, old)
  PROVE  Points!TotalPoints(new, Points!SeededRules, cap)
           >= Points!TotalPoints(old, Points!SeededRules, cap)
<1> DEFINE work(x) == Points!WorkPoints(Points!SeededRules, x)
           capped(x) == IF work(x) > cap THEN cap ELSE work(x)
           first == Points!RangePoints(Points!SeededRules, "AGE", old.age)
                      + Points!LabelPoints(Points!SeededRules, "ENGLISH", old.english)
                      + Points!LabelPoints(Points!SeededRules, "QUALIFICATIONS", old.qualification)
           last == Points!Additional(Points!SeededRules, old)
<1>1. \A x : work(x) \in Nat
  BY ScoresAreNumbers DEF Points!WorkPoints
<1>2. first \in Nat /\ last \in Nat
  BY ScoresAreNumbers, ExtrasAreNumbers
<1>3. capped(new) >= capped(old) /\ capped(new) \in Int /\ capped(old) \in Int
  BY <1>1
<1>4. Points!Additional(Points!SeededRules, new) = last
  BY DEF Points!Additional, Points!ExtraPoints
<1>5. /\ Points!TotalPoints(old, Points!SeededRules, cap) = first + capped(old) + last
      /\ Points!TotalPoints(new, Points!SeededRules, cap) = first + capped(new) + last
  BY <1>4 DEF Points!TotalPoints
<1> HIDE DEF first, last, capped
<1>6. QED
  BY <1>2, <1>3, <1>5

LEMMA WhoIsAsked ==
  ASSUME Basic, NEW r \in Requests, Left(r) \cap {"age", "marks", "standing"} # {}
  PROVE  Kind(r) = "points" /\ Points!ValidProfile(job[r].profile)
<1>1. ToSet(Script(job[r])) \cap {"age", "marks", "standing"} # {}
  BY HeadIsFirst
<1>2. Kind(r) = "points"
  BY <1>1, ScriptIs, SyncIs DEF WorkSteps, SponsorshipSteps, Kind, Touches, AllOfRefresh
<1>3. QED
  BY <1>2, FormsAreValid

\* More years of work never cost points (calculateTotalPoints): each range of the rules table
\* gives at least what the one before it gives, and the cap cuts all of them alike, whatever the
\* cap is.
THEOREM WorkNeverCosts == Spec => []ExperienceNeverCosts
<1>1. Basic => ExperienceNeverCosts
  <2> SUFFICES ASSUME Basic, NEW r \in Requests, At(r, "age"), NEW more \in 1..8
               PROVE  LET profile == job[r].profile
                          score(x) == Points!TotalPoints(x, Points!SeededRules, PolicyRows[WorkCap])
                      IN  /\ score([profile EXCEPT !.overseas = @ + more]) >= score(profile)
                          /\ score([profile EXCEPT !.australian = @ + more]) >= score(profile)
    BY DEF ExperienceNeverCosts
  <2> DEFINE profile == job[r].profile
             longer == [profile EXCEPT !.overseas = @ + more]
             later == [profile EXCEPT !.australian = @ + more]
  <2>1. "age" \in Left(r)
    BY HeadIsFirst DEF At
  <2>2. /\ profile.overseas \in 0..50 /\ profile.australian \in 0..50
        /\ DOMAIN profile = {"age", "overseas", "australian", "english", "qualification", "extras"}
    BY <2>1, WhoIsAsked DEF Points!ValidProfile
  <2>3. ASSUME NEW x, DOMAIN x = DOMAIN profile,
               \A f \in DOMAIN profile \ {"overseas", "australian"} : x[f] = profile[f],
               Points!WorkPoints(Points!SeededRules, x)
                 >= Points!WorkPoints(Points!SeededRules, profile)
        PROVE  Points!TotalPoints(x, Points!SeededRules, PolicyRows[WorkCap])
                 >= Points!TotalPoints(profile, Points!SeededRules, PolicyRows[WorkCap])
    <3>1. /\ x.age = profile.age /\ x.english = profile.english
          /\ x.qualification = profile.qualification /\ x.extras = profile.extras
      BY <2>2, <2>3
    <3>2. QED
      BY <2>3, <3>1, CapIsNumber, WorkCounts
  <2>4. /\ DOMAIN longer = DOMAIN profile /\ DOMAIN later = DOMAIN profile
        /\ \A f \in DOMAIN profile \ {"overseas", "australian"} :
             longer[f] = profile[f] /\ later[f] = profile[f]
        /\ longer.overseas = profile.overseas + more /\ longer.australian = profile.australian
        /\ later.australian = profile.australian + more /\ later.overseas = profile.overseas
    BY <2>2
  <2> DEFINE overseas(v) == Points!RangePoints(Points!SeededRules, "OVERSEAS_WORK", v)
             australian(v) == Points!RangePoints(Points!SeededRules, "AUSTRALIAN_WORK", v)
             work(x) == Points!WorkPoints(Points!SeededRules, x)
  <2> HIDE DEF profile, longer, later
  <2>5. \A v \in 0..120 :
          /\ overseas(v) = IF v <= 2 THEN 0 ELSE IF v <= 4 THEN 5 ELSE IF v <= 7 THEN 10 ELSE 15
          /\ australian(v) = IF v = 0 THEN 0 ELSE IF v <= 2 THEN 5 ELSE IF v <= 4 THEN 10
                             ELSE IF v <= 7 THEN 15 ELSE 20
    BY WorkScores
  <2>6. \A x : work(x) = overseas(x.overseas) + australian(x.australian)
    BY DEF Points!WorkPoints
  <2> HIDE DEF overseas, australian, work
  <2>7. /\ profile.overseas + more \in 0..120 /\ profile.australian + more \in 0..120
        /\ profile.overseas \in 0..120 /\ profile.australian \in 0..120
    BY <2>2
  <2>8. work(longer) >= work(profile)
    <3>1. overseas(profile.overseas + more) >= overseas(profile.overseas)
      BY <2>2, <2>5, <2>7
    <3>2. overseas(profile.overseas + more) \in Int /\ overseas(profile.overseas) \in Int
          /\ australian(profile.australian) \in Int
      BY <2>5, <2>7
    <3>3. QED
      BY <2>4, <2>6, <3>1, <3>2
  <2>9. work(later) >= work(profile)
    <3>1. australian(profile.australian + more) >= australian(profile.australian)
      BY <2>2, <2>5, <2>7
    <3>2. australian(profile.australian + more) \in Int /\ australian(profile.australian) \in Int
          /\ overseas(profile.overseas) \in Int
      BY <2>5, <2>7
    <3>3. QED
      BY <2>4, <2>6, <3>1, <3>2
  <2>10. QED
    BY <2>3, <2>4, <2>8, <2>9 DEF work, profile, longer, later
<1>2. QED
  BY AlwaysBasic, <1>1, PTL

-----------------------------------------------------------------------------
(* The verdict *)

\* `h` is a history of the rows: the values of every edition so far.
Edition(h, e) == [edition |-> e, values |-> h[e]]
Known(h) ==
  /\ table.edition \in Nat /\ DOMAIN h = 0..table.edition
  /\ table = Edition(h, table.edition)
  /\ \A e \in DOMAIN h : \A key \in DOMAIN h[e] : h[e][key] \in Int
  /\ \A i \in Instances : cache[i] # None => \E e \in DOMAIN h : cache[i] = Edition(h, e)
  /\ \A r \in Requests : fetched[r] # None => \E e \in DOMAIN h : fetched[r] = Edition(h, e)

TooOld(profile, values) == profile.age >= values[MaxAge]
Below(total, values) == total < values[PassMark]

\* What the calculator has read of the edition e, if it has read that one only, is what that
\* edition says.
Judged(h, r) ==
  /\ IsFiniteSet(local[r].editions) /\ local[r].editions \subseteq DOMAIN h
  /\ "age" \in Left(r) => local[r].editions = {}
  /\ "standing" \in Left(r) => local[r].meets = None
  /\ "standing" \in Left(r) /\ "age" \notin Left(r) => local[r].editions # {}
  /\ "standing" \in Left(r) /\ "marks" \notin Left(r) => local[r].total \in Int
  /\ \A e \in DOMAIN h : local[r].editions = {e} =>
       /\ "standing" \in Left(r) /\ "age" \notin Left(r) => local[r].aged = TooOld(job[r].profile, h[e])
       /\ "standing" \in Left(r) /\ "marks" \notin Left(r) =>
            local[r].belowPassMark = Below(local[r].total, h[e])
       /\ local[r].meets # None =>
            (local[r].meets["189"] <=> ~local[r].belowPassMark /\ ~local[r].aged)

Calculators == {r \in Requests : Kind(r) = "points"}
Past(h) == Known(h) /\ \A r \in Calculators : Judged(h, r)
Verdicts ==
  (\E h : Past(h)) /\ \A r \in Requests \ Calculators : local[r].meets = None

LEMMA InitVerdicts == Init => Verdicts
<1> SUFFICES ASSUME Init PROVE Verdicts
  OBVIOUS
<1> DEFINE h == [e \in {0} |-> PolicyRows]
<1>1. h[0] = PolicyRows /\ DOMAIN h = {0} /\ table.edition = 0 /\ table.values = PolicyRows
  BY DEF Init, PolicyInit
<1>2. table = Edition(h, table.edition)
  BY <1>1 DEF Init, PolicyInit, Edition
<1>3. /\ \A i \in Instances : cache[i] = None
      /\ \A r \in Requests : fetched[r] = None
  BY RequestsRead DEF Init, PolicyInit
<1>4. Known(h)
  BY <1>1, <1>2, <1>3, RowsAreNumbers DEF Known
<1>5. ASSUME NEW r \in Calculators PROVE Judged(h, r)
  <2>1. local[r] = NoLocal /\ todo[r] = Script(job[r])
    BY DEF Init, Calculators
  <2>2. local[r].editions = {} /\ local[r].meets = None
    BY <2>1 DEF NoLocal
  <2>3. "age" \in Left(r) /\ "marks" \in Left(r)
    BY <2>1, ScriptIs DEF Left, Calculators, Kind, WorkSteps, Touches
  <2>4. \A e : local[r].editions # {e}
    BY <2>2
  <2>5. IsFiniteSet(local[r].editions)
    BY <2>2, FS_EmptySet
  <2>6. QED
    BY <2>2, <2>3, <2>4, <2>5 DEF Judged
<1>6. ASSUME NEW r \in Requests PROVE local[r].meets = None
  BY DEF Init, NoLocal
<1>7. QED
  BY <1>4, <1>5, <1>6 DEF Verdicts, Past

\* Nobody works with rows that were never in the table.
LEMMA CopiesAreKnown ==
  ASSUME Basic, NEW h, Known(h), NEW r \in Requests, NEW v, Reads(r, job[r].on, v)
  PROVE  \E e \in DOMAIN h : v = Edition(h, e)
  BY FormsAreValid DEF Reads, Known

LEMMA NextKnown ==
  ASSUME Basic, Editions, [Next]_vars, NEW h, Known(h)
  PROVE  \E new : /\ Known(new)' /\ DOMAIN h \subseteq DOMAIN new
                  /\ \A e \in DOMAIN h : new[e] = h[e]
<1>1. CASE UNCHANGED policyVars
  BY <1>1 DEF policyVars, Known
<1>2. ASSUME NEW r \in Requests, Step(r) \/ Fails(r), UNCHANGED table, ~UNCHANGED policyVars
      PROVE  Known(h)'
  <2>1. CASE FetchPolicy(r)
    <3>1. cache' = cache /\ \A q \in Requests : fetched'[q] = fetched[q] \/ fetched'[q] = table
      BY <2>1, RequestsRead DEF FetchPolicy, Fetch, Editions
    <3>2. table.edition \in DOMAIN h
      BY DEF Known
    <3>3. QED
      BY <1>2, <3>1, <3>2 DEF Known
  <2>2. CASE ClearAfterEdit(r)
    <3>1. fetched' = fetched /\ \A i \in Instances : cache'[i] \in {cache[i], None}
      BY <2>2 DEF ClearAfterEdit, ClearCache, Editions
    <3>2. QED
      BY <1>2, <3>1 DEF Known
  <2>3. ASSUME NEW v, Reads(r, job[r].on, v) PROVE Known(h)'
    <3>1. PICK e \in DOMAIN h : v = Edition(h, e)
      BY <2>3, CopiesAreKnown
    <3>2. /\ \A i \in Instances : cache'[i] \in {cache[i], v}
          /\ \A q \in Requests : fetched'[q] \in {fetched[q], None}
      BY <2>3, RequestsRead DEF Reads, Editions
    <3>3. QED
      BY <1>2, <3>1, <3>2 DEF Known
  <2>4. CASE SaveEdit(r)
    <3>1. table' # table
      <4>1. SaveRow(job[r].key, job[r].value)
        BY <1>2, <2>4 DEF SaveEdit
      <4>2. table'.edition = table.edition + 1
        BY <4>1 DEF SaveRow
      <4>3. QED
        BY <4>2 DEF Known
    <3>2. QED
      BY <1>2, <3>1
  <2>5. QED
    BY <1>2, <2>1, <2>2, <2>3, <2>4, PolicySteps
<1>3. ASSUME NEW r \in Requests, SaveEdit(r), ~UNCHANGED policyVars
      PROVE  \E new : /\ Known(new)' /\ DOMAIN h \subseteq DOMAIN new
                      /\ \A e \in DOMAIN h : new[e] = h[e]
  <2> DEFINE n == table.edition + 1
             key == job[r].key
             values == [table.values EXCEPT ![key] = job[r].value]
  <2>1. At(r, "save") /\ SaveRow(key, job[r].value)
    BY <1>3 DEF SaveEdit
  <2>2. job[r].value \in Int
    <3>1. "save" \in ToSet(Script(job[r]))
      BY <2>1, HeadIsFirst DEF At
    <3>2. Kind(r) = "edit"
      BY <3>1, ScriptIs, SyncIs DEF WorkSteps, SponsorshipSteps, Kind, Touches, AllOfRefresh
    <3>3. QED
      BY <3>2, FormsAreValid
  <2>3. /\ table' = [edition |-> n, values |-> values]
        /\ UNCHANGED <<cache, fetched>>
    BY <2>1 DEF SaveRow
  <2>4. n \in Nat /\ n \notin DOMAIN h /\ DOMAIN h \subseteq 0..n /\ 0..n = DOMAIN h \cup {n}
    BY DEF Known
  <2>5. \A k \in DOMAIN values : values[k] \in Int
    <3>1. table.values = h[table.edition] /\ table.edition \in DOMAIN h
      BY DEF Known, Edition
    <3>2. QED
      BY <2>2, <3>1 DEF Known
  <2> HIDE DEF values, n
  <2>6. PICK more : more = [e \in 0..n |-> IF e = n THEN values ELSE h[e]]
    OBVIOUS
  <2>7. /\ DOMAIN more = 0..n /\ more[n] = values
        /\ \A e \in DOMAIN h : more[e] = h[e]
    BY <2>4, <2>6
  <2>8. \A e \in DOMAIN h : Edition(more, e) = Edition(h, e)
    BY <2>7 DEF Edition
  <2>9. table' = Edition(more, n) /\ table'.edition = n
    BY <2>3, <2>7 DEF Edition
  <2>10. Known(more)'
    <3>1. \A e \in DOMAIN more : \A k \in DOMAIN more[e] : more[e][k] \in Int
      BY <2>4, <2>5, <2>7 DEF Known
    <3>2. \A i \in Instances : cache[i] # None => \E e \in DOMAIN more : cache[i] = Edition(more, e)
      BY <2>4, <2>7, <2>8 DEF Known
    <3>3. \A q \in Requests :
            fetched[q] # None => \E e \in DOMAIN more : fetched[q] = Edition(more, e)
      BY <2>4, <2>7, <2>8 DEF Known
    <3>4. QED
      BY <2>3, <2>4, <2>7, <2>9, <3>1, <3>2, <3>3 DEF Known
  <2>11. QED
    BY <2>4, <2>7, <2>10
<1>4. ASSUME NEW i \in Instances, Stops(i) PROVE Known(h)'
  <2>1. /\ table' = table /\ \A j \in Instances : cache'[j] \in {cache[j], None}
        /\ \A q \in Requests : fetched'[q] \in {fetched[q], None}
    BY <1>4, RequestsRead DEF Stops, Restart, Editions
  <2>2. QED
    BY <2>1 DEF Known
<1>5. ASSUME Known(h)'
      PROVE  \E new : /\ Known(new)' /\ DOMAIN h \subseteq DOMAIN new
                      /\ \A e \in DOMAIN h : new[e] = h[e]
  BY <1>5
<1>6. ASSUME NEW r \in Requests, Step(r) \/ Fails(r), ~UNCHANGED table PROVE SaveEdit(r)
  BY <1>6, PolicySteps DEF policyVars, FetchPolicy, Fetch, ClearAfterEdit, ClearCache, Reads
<1>7. QED
  BY <1>1, <1>2, <1>3, <1>4, <1>5, <1>6
     DEF Next, vars, config, policyVars, InstanceStarts, InstanceFailsToStart, InviteFallsDue

\* The calculator q takes a step, with the copy v of the rows.
Takes(q, step, v, keys, new) ==
  /\ At(q, step) /\ todo'[q] = Tail(todo[q]) /\ Reads(q, job[q].on, v)
  /\ \A key \in keys : Usable(v.values, key)
  /\ local'[q] = ([editions |-> local[q].editions \cup {v.edition}] ++ new) ++ local[q]

LEMMA TakesStep ==
  ASSUME Basic, NEW q \in Requests, NEW step, NEW v, NEW keys, NEW new,
         step \in {"age", "marks", "standing"},
         ReadsPolicy(q, step, v, keys, new), todo'[q] # <<>> \/ local'[q] # local[q]
  PROVE  Takes(q, step, v, keys, new)
<1>1. CASE \A key \in keys : Usable(v.values, key)
  BY <1>1 DEF ReadsPolicy, Takes, Goes, Holds, Basic, Domains
<1>2. CASE ~\A key \in keys : Usable(v.values, key)
  <2>1. Throws(q) /\ local' = local /\ Head(todo[q]) = step
    BY <1>2 DEF ReadsPolicy, At
  <2>2. todo'[q] = <<>>
    BY <2>1, ThrowsEnds DEF Basic
  <2>3. QED
    BY <2>1, <2>2
<1>3. QED
  BY <1>1, <1>2

Ages(q, v) == Takes(q, "age", v, {MaxAge}, [aged |-> TooOld(job[q].profile, v.values)])
Marks(q, v) ==
  LET total == Points!TotalPoints(job[q].profile, Points!SeededRules, v.values[WorkCap]) IN
  Takes(q, "marks", v, {WorkCap, PassMark},
        [total |-> total, belowPassMark |-> Below(total, v.values)])
Policy(values) ==
  [passMark |-> values[PassMark], maxAge |-> values[MaxAge],
   stateBonus |-> values[StateBonus], regionalBonus |-> values[RegionalBonus]]
Stands(q, v) ==
  LET meets == Points!Standing(local[q].total, job[q].profile.age, Policy(v.values)) IN
  Takes(q, "standing", v, {PassMark, StateBonus, RegionalBonus, MaxAge},
        [meets |-> meets, statutory |-> \E s \in Points!Featured : meets[s]])

Opinions == {"editions", "aged", "total", "belowPassMark", "meets"}

\* A calculator that keeps going has taken its step; otherwise its opinions stay.
LEMMA CalculatorSteps ==
  ASSUME Basic, [Next]_vars, NEW q \in Calculators
  PROVE  \/ \E v : Ages(q, v) \/ Marks(q, v) \/ Stands(q, v)
         \/ /\ \A x \in Opinions : local'[q][x] = local[q][x]
            /\ ToSet(todo'[q]) \subseteq Left(q)
            /\ "standing" \in ToSet(todo'[q]) =>
                 /\ "age" \in Left(q) => "age" \in ToSet(todo'[q])
                 /\ "marks" \in Left(q) => "marks" \in ToSet(todo'[q])
<1> DEFINE steps == {"age", "marks", "standing"}
           taken == \E v : Ages(q, v) \/ Marks(q, v) \/ Stands(q, v)
<1>1. q \in Requests /\ Kind(q) = "points"
  BY DEF Calculators
<1>2. ASSUME Step(q), Head(todo[q]) \in steps,
             (todo'[q] # <<>> /\ todo'[q] # todo[q]) \/ local'[q] # local[q]
      PROVE  taken
  <2>1. Engine(q)
    BY <1>1, <1>2, GroupSteps DEF Step, At, AllOfRefresh
  <2>2. ReadAgeLimit(q) \/ ReadMarks(q) \/ ReadStanding(q)
    <3>1. ~FetchPolicy(q)
      BY <1>2 DEF FetchPolicy
    <3>2. QED
      BY <1>2, <2>1, <3>1 DEF Engine, AssessPreScreen, SaveSubmission, Weigh, ReadsPolicy, SaveEdit,
                              ClearAfterEdit, At
  <2>3. ASSUME ReadAgeLimit(q) PROVE taken
    <3>1. PICK v : ReadsPolicy(q, "age", v, {MaxAge}, [aged |-> TooOld(job[q].profile, v.values)])
      BY Zenon, <2>3 DEF ReadAgeLimit, TooOld
    <3>2. Ages(q, v)
      BY <1>1, <1>2, <3>1, TakesStep DEF Ages
    <3>3. QED
      BY <3>2
  <2>4. ASSUME ReadMarks(q) PROVE taken
    <3> DEFINE total(v) ==
                 Points!TotalPoints(job[q].profile, Points!SeededRules, v.values[WorkCap])
    <3>1. PICK v, new :
            /\ ReadsPolicy(q, "marks", v, {WorkCap, PassMark}, new)
            /\ new = [total |-> total(v), belowPassMark |-> Below(total(v), v.values)]
      BY Zenon, <2>4 DEF ReadMarks, Below
    <3>2. Takes(q, "marks", v, {WorkCap, PassMark}, new)
      BY <1>1, <1>2, <3>1, TakesStep
    <3>3. Marks(q, v)
      BY Zenon, <3>1, <3>2 DEF Marks
    <3>4. QED
      BY <3>3
  <2>5. ASSUME ReadStanding(q) PROVE taken
    <3> DEFINE meets(v) ==
                 Points!Standing(local[q].total, job[q].profile.age, Policy(v.values))
    <3>1. PICK v, new :
            /\ ReadsPolicy(q, "standing", v, {PassMark, StateBonus, RegionalBonus, MaxAge}, new)
            /\ new = [meets |-> meets(v), statutory |-> \E s \in Points!Featured : meets(v)[s]]
      BY Zenon, <2>5 DEF ReadStanding, Policy
    <3>2. Takes(q, "standing", v, {PassMark, StateBonus, RegionalBonus, MaxAge}, new)
      BY <1>1, <1>2, <3>1, TakesStep
    <3>3. Stands(q, v)
      BY Zenon, <3>1, <3>2 DEF Stands
    <3>4. QED
      BY <3>3
  <2>6. QED
    BY <2>2, <2>3, <2>4, <2>5
<1>3. ASSUME NEW x \in Opinions, local'[q][x] # local[q][x] PROVE taken
  <2>1. x \in DOMAIN NoLocal
    BY DEF Opinions, NoLocal
  <2>2. Step(q) /\ todo[q] # <<>> /\ Head(todo[q]) \in HeldAt[x]
    BY <1>1, <1>3, <2>1, HeldInTime
  <2>3. Head(todo[q]) \in steps \cup {"weigh"}
    BY <2>2 DEF Opinions, HeldAt, PolicyReads
  <2>4. "weigh" \notin ToSet(Script(job[q]))
    BY <1>1, ScriptIs DEF WorkSteps, Kind, Touches, AllOfRefresh
  <2>5. Head(todo[q]) # "weigh"
    BY <1>1, <2>2, <2>4, HeadIsFirst
  <2>6. local'[q] # local[q]
    BY <1>3
  <2>7. QED
    BY <1>2, <2>2, <2>3, <2>5, <2>6
<1>4. Moves(q)
  BY <1>1, NextMoves DEF Basic
<1>5. ToSet(todo'[q]) \subseteq Left(q)
  BY <1>1, <1>4, LeftShrinks
<1>6. ASSUME NEW y \in {"age", "marks"}, "standing" \in ToSet(todo'[q]), y \in Left(q),
             y \notin ToSet(todo'[q])
      PROVE  taken
  <2>1. todo'[q] # todo[q] /\ todo'[q] # <<>>
    BY <1>6, ShortScripts DEF Left
  <2>2. Step(q) \/ Fails(q)
    BY <1>1, <2>1, GoesItself DEF Basic
  <2>3. todo[q] # <<>> /\ ToSet(todo'[q]) = Left(q) \ {Head(todo[q])}
    BY <1>1, <1>4, <1>6, <2>1, LeftMoves DEF AllOfRefresh
  <2>4. Head(todo[q]) = y
    BY <1>6, <2>3
  <2>5. ~Fails(q)
    BY <1>1, <2>1, <2>4, ThrowsEnds DEF Fails, Basic
  <2>6. QED
    BY <1>2, <2>1, <2>2, <2>4, <2>5
<1>7. QED
  BY <1>3, <1>5, <1>6

LEMMA TakenFields ==
  ASSUME Basic, NEW q \in Calculators, NEW step \in {"age", "marks", "standing"}, NEW v, NEW keys,
         NEW new, Takes(q, step, v, keys, new), "editions" \notin DOMAIN new
  PROVE  /\ local'[q].editions = local[q].editions \cup {v.edition}
         /\ \A x \in DOMAIN new : local'[q][x] = new[x]
         /\ \A x \in Opinions \ {"editions"} : x \notin DOMAIN new => local'[q][x] = local[q][x]
         /\ ToSet(todo'[q]) = Left(q) \ {step}
         /\ step \in Left(q)
         /\ step = "age" => "marks" \in Left(q) /\ "standing" \in Left(q)
         /\ step = "marks" => "age" \notin Left(q) /\ "standing" \in Left(q)
         /\ step = "standing" => "age" \notin Left(q) /\ "marks" \notin Left(q)
<1>1. q \in Requests /\ Kind(q) = "points" /\ todo[q] # <<>> /\ Head(todo[q]) = step
      /\ todo'[q] = Tail(todo[q])
  BY DEF Calculators, Takes, At
<1>2. {"age", "marks", "standing"} \subseteq ToSet(Script(job[q]))
  BY <1>1, ScriptIs DEF WorkSteps, Kind, Touches
<1>3. ToSet(todo'[q]) = Left(q) \ {step} /\ step \in Left(q)
  BY <1>1, HeadIsFirst
<1>4. /\ \A x \in {"age", "marks", "standing"} : Phase[step] <= Phase[x] => x \in Left(q)
      /\ \A x \in {"age", "marks", "standing"} \ {step} : x \in Left(q) => Phase[step] < Phase[x]
  BY <1>1, <1>2, HeadIsFirst
<1>5. /\ step = "age" => "marks" \in Left(q) /\ "standing" \in Left(q)
      /\ step = "marks" => "age" \notin Left(q) /\ "standing" \in Left(q)
      /\ step = "standing" => "age" \notin Left(q) /\ "marks" \notin Left(q)
  BY <1>4 DEF Phase
<1> DEFINE more == [editions |-> local[q].editions \cup {v.edition}]
           all == more ++ new
<1>6. DOMAIN more = {"editions"} /\ more.editions = local[q].editions \cup {v.edition}
  OBVIOUS
<1> HIDE DEF more
<1>7. /\ DOMAIN all = {"editions"} \cup DOMAIN new
      /\ all["editions"] = local[q].editions \cup {v.edition}
      /\ \A x \in DOMAIN new : all[x] = new[x]
  <2>1. /\ DOMAIN all = DOMAIN more \cup DOMAIN new
        /\ \A x \in DOMAIN more : all[x] = more[x]
        /\ \A x \in DOMAIN new \ DOMAIN more : all[x] = new[x]
    BY Zenon, Laid
  <2> HIDE DEF all
  <2>2. QED
    BY <1>6, <2>1
<1>8. local'[q] = all ++ local[q]
  BY DEF Takes, more
<1> HIDE DEF all
<1>9. Opinions \subseteq DOMAIN local[q]
  BY <1>1 DEF Basic, NoLocal, Opinions
<1>10. /\ \A x \in DOMAIN all : local'[q][x] = all[x]
       /\ \A x \in DOMAIN local[q] \ DOMAIN all : local'[q][x] = local[q][x]
  <2> DEFINE laid == all ++ local[q]
  <2>1. /\ \A x \in DOMAIN all : laid[x] = all[x]
        /\ \A x \in DOMAIN local[q] \ DOMAIN all : laid[x] = local[q][x]
    BY Zenon, Laid
  <2>2. local'[q] = laid
    BY <1>8
  <2> HIDE DEF laid
  <2>3. QED
    BY <2>1, <2>2
<1>11. QED
  BY <1>3, <1>5, <1>7, <1>9, <1>10

\* The age limit and the pass mark are looked at in the same way when the standing is made as
\* when the score is.
LEMMA StandingIs ==
  ASSUME NEW total \in Int, NEW profile, profile.age \in Int, NEW values,
         values[PassMark] \in Int, values[MaxAge] \in Int
  PROVE  Points!Standing(total, profile.age, Policy(values))["189"]
           <=> ~Below(total, values) /\ ~TooOld(profile, values)
<1> DEFINE bonus(s) == CASE s = "190" -> values[StateBonus]
                         [] s = "491" -> values[RegionalBonus]
                         [] OTHER -> 0
<1>1. /\ Policy(values).passMark = values[PassMark] /\ Policy(values).maxAge = values[MaxAge]
      /\ Policy(values).stateBonus = values[StateBonus]
      /\ Policy(values).regionalBonus = values[RegionalBonus]
  BY DEF Policy
<1>2. bonus("189") = 0
  OBVIOUS
<1>3. Points!Standing(total, profile.age, Policy(values))["189"]
        = (profile.age < values[MaxAge] /\ total + bonus("189") >= values[PassMark])
  BY Zenon, <1>1 DEF Points!Standing, Points!Featured
<1> HIDE DEF bonus
<1>4. (profile.age < values[MaxAge] /\ total + bonus("189") >= values[PassMark])
        <=> ~Below(total, values) /\ ~TooOld(profile, values)
  BY <1>2 DEF Below, TooOld
<1>5. QED
  BY Zenon, <1>3, <1>4

\* Judged, of what a calculator holds and has left to do.
LEMMA NextJudged ==
  ASSUME Basic, [Next]_vars, NEW h, Known(h), NEW q \in Calculators, Judged(h, q),
         NEW g, DOMAIN h \subseteq DOMAIN g, \A e \in DOMAIN h : g[e] = h[e]
  PROVE  Judged(g, q)'
<1>1. q \in Requests /\ Kind(q) = "points" /\ Points!ValidProfile(job[q].profile)
  BY FormsAreValid DEF Calculators
<1>2. job' = job
  BY NextMoves DEF Basic
<1> DEFINE old == local[q]
           new == local'[q]
           left == ToSet(todo'[q])
<1>3. Left(q)' = left
  BY DEF Left
<1>4. CASE /\ \A x \in Opinions : new[x] = old[x]
           /\ left \subseteq Left(q)
           /\ "standing" \in left => /\ "age" \in Left(q) => "age" \in left
                                     /\ "marks" \in Left(q) => "marks" \in left
  <2>1. /\ new.editions = old.editions /\ new.aged = old.aged /\ new.total = old.total
        /\ new.belowPassMark = old.belowPassMark /\ new.meets = old.meets
    BY <1>4 DEF Opinions
  <2>2. \A e : old.editions = {e} => e \in DOMAIN h /\ g[e] = h[e]
    BY DEF Judged
  <2>3. QED
    BY <1>2, <1>3, <1>4, <2>1, <2>2 DEF Judged
<1>5. ASSUME NEW v, NEW step \in {"age", "marks", "standing"}, NEW keys, NEW more,
             Takes(q, step, v, keys, more), "editions" \notin DOMAIN more
      PROVE  /\ v.edition \in DOMAIN h /\ v.values = h[v.edition] /\ v.values = g[v.edition]
             /\ new.editions = old.editions \cup {v.edition}
             /\ IsFiniteSet(new.editions) /\ new.editions \subseteq DOMAIN g /\ new.editions # {}
             /\ \A e : new.editions = {e} => e = v.edition /\ (old.editions = {e} \/ old.editions = {})
  <2>1. PICK e \in DOMAIN h : v = Edition(h, e)
    BY <1>1, <1>5, CopiesAreKnown DEF Takes
  <2>2. v.edition = e /\ v.values = h[e]
    BY <2>1 DEF Edition
  <2>3. new.editions = old.editions \cup {v.edition}
    BY <1>5, TakenFields
  <2>4. IsFiniteSet(new.editions)
    <3>1. IsFiniteSet(old.editions)
      BY DEF Judged
    <3>2. IsFiniteSet(old.editions \cup {v.edition})
      BY <3>1, FS_AddElement
    <3>3. QED
      BY Zenon, <2>3, <3>2
  <2>5. QED
    BY <2>2, <2>3, <2>4 DEF Judged
<1>6. ASSUME NEW v, NEW key, Usable(v.values, key), v.edition \in DOMAIN h, v.values = h[v.edition]
      PROVE  v.values[key] \in Int
  BY <1>6 DEF Usable, Known
<1>7. ASSUME NEW v, Ages(q, v) PROVE Judged(g, q)'
  <2> DEFINE more == [aged |-> TooOld(job[q].profile, v.values)]
  <2>1. Takes(q, "age", v, {MaxAge}, more)
    BY <1>7 DEF Ages
  <2>2. DOMAIN more = {"aged"} /\ more["aged"] = TooOld(job[q].profile, v.values)
    OBVIOUS
  <2> HIDE DEF more
  <2>3. /\ new["aged"] = TooOld(job[q].profile, v.values)
        /\ new.meets = old.meets
        /\ left = Left(q) \ {"age"} /\ {"age", "marks", "standing"} \subseteq Left(q)
    BY <2>1, <2>2, TakenFields DEF Opinions
  <2>4. old.meets = None
    BY <2>3 DEF Judged
  <2>5. /\ v.values = g[v.edition]
        /\ IsFiniteSet(new.editions) /\ new.editions \subseteq DOMAIN g /\ new.editions # {}
        /\ \A e : new.editions = {e} => e = v.edition
    BY <1>5, <2>1, <2>2
  <2> HIDE DEF old, new, left
  <2>6. QED
    BY <1>2, <1>3, <2>3, <2>4, <2>5 DEF Judged, new
<1>8. ASSUME NEW v, Marks(q, v) PROVE Judged(g, q)'
  <2> DEFINE total == Points!TotalPoints(job[q].profile, Points!SeededRules, v.values[WorkCap])
             more == [total |-> total, belowPassMark |-> Below(total, v.values)]
  <2>1. Takes(q, "marks", v, {WorkCap, PassMark}, more)
    BY Zenon, <1>8 DEF Marks
  <2>2. /\ DOMAIN more = {"total", "belowPassMark"} /\ more["total"] = total
        /\ more["belowPassMark"] = Below(total, v.values)
    BY Zenon
  <2> HIDE DEF more
  <2>3. /\ new["total"] = total /\ new["belowPassMark"] = Below(total, v.values)
        /\ new.meets = old.meets /\ new.aged = old.aged
        /\ left = Left(q) \ {"marks"} /\ "age" \notin Left(q) /\ {"marks", "standing"} \subseteq Left(q)
    BY <2>1, <2>2, TakenFields DEF Opinions
  <2>4. /\ v.edition \in DOMAIN h /\ v.values = h[v.edition] /\ v.values = g[v.edition]
        /\ IsFiniteSet(new.editions) /\ new.editions \subseteq DOMAIN g /\ new.editions # {}
        /\ \A e : new.editions = {e} => e = v.edition /\ (old.editions = {e} \/ old.editions = {})
    BY <1>5, <2>1, <2>2
  <2>5. old.editions # {} /\ old.meets = None
    BY <2>3 DEF Judged
  <2>6. \A e : new.editions = {e} => /\ e = v.edition
                                     /\ old.aged = TooOld(job[q].profile, h[e])
    BY <2>3, <2>4, <2>5 DEF Judged
  <2>7. total \in Int
    <3>1. v.values[WorkCap] \in Int
      BY <1>6, <2>1, <2>4 DEF Takes
    <3>2. QED
      BY <3>1, ScoresAreNumbers, ExtrasAreNumbers DEF Points!TotalPoints, Points!WorkPoints
  <2> HIDE DEF old, new, left, total
  <2>8. QED
    BY <1>2, <1>3, <2>3, <2>4, <2>5, <2>6, <2>7 DEF Judged, new
<1>9. ASSUME NEW v, Stands(q, v) PROVE Judged(g, q)'
  <2> DEFINE meets == Points!Standing(old.total, job[q].profile.age, Policy(v.values))
             keys == {PassMark, StateBonus, RegionalBonus, MaxAge}
             more == [meets |-> meets, statutory |-> \E s \in Points!Featured : meets[s]]
  <2>1. Takes(q, "standing", v, keys, more)
    BY Zenon, <1>9 DEF Stands
  <2>2. DOMAIN more = {"meets", "statutory"} /\ more["meets"] = meets
    BY Zenon
  <2> HIDE DEF more
  <2>3. /\ new["meets"] = meets /\ new.aged = old.aged /\ new.belowPassMark = old.belowPassMark
        /\ new.total = old.total
        /\ left = Left(q) \ {"standing"} /\ "age" \notin Left(q) /\ "marks" \notin Left(q)
        /\ "standing" \in Left(q)
    BY <2>1, <2>2, TakenFields DEF Opinions
  <2>4. /\ v.edition \in DOMAIN h /\ v.values = h[v.edition] /\ v.values = g[v.edition]
        /\ IsFiniteSet(new.editions) /\ new.editions \subseteq DOMAIN g /\ new.editions # {}
        /\ \A e : new.editions = {e} => e = v.edition /\ (old.editions = {e} \/ old.editions = {})
    BY <1>5, <2>1, <2>2
  <2>5. old.editions # {} /\ old.total \in Int
    BY <2>3 DEF Judged
  <2>6. v.values[PassMark] \in Int /\ v.values[MaxAge] \in Int
    BY <1>6, <2>1, <2>4 DEF Takes
  <2>7. job[q].profile.age \in Int
    BY <1>1 DEF Points!ValidProfile
  <2>8. meets["189"] <=> ~Below(old.total, v.values) /\ ~TooOld(job[q].profile, v.values)
    BY <2>5, <2>6, <2>7, StandingIs
  <2>9. ASSUME NEW e, new.editions = {e}
        PROVE  /\ old.belowPassMark = Below(old.total, v.values)
               /\ old.aged = TooOld(job[q].profile, v.values)
    BY <2>3, <2>4, <2>5, <2>9 DEF Judged
  <2> HIDE DEF meets
  <2>10. ASSUME NEW e, new.editions = {e}
         PROVE  new["meets"]["189"] <=> ~new.belowPassMark /\ ~new.aged
    <3>1. new["meets"]["189"] = meets["189"]
      BY <2>3
    <3>2. /\ new.belowPassMark = Below(old.total, v.values)
          /\ new.aged = TooOld(job[q].profile, v.values)
      BY <2>3, <2>9, <2>10
    <3>3. QED
      BY Zenon, <2>8, <3>1, <3>2
  <2> HIDE DEF old, new, left
  <2>11. QED
    BY <1>2, <1>3, <2>3, <2>4, <2>10 DEF Judged, new
<1>10. QED
  BY <1>4, <1>7, <1>8, <1>9, CalculatorSteps

\* Whoever is shown a score at the pass mark and within the age limit is shown subclass 189 as
\* met, and nobody else (calculateTotalPoints and buildStanding, which load the rows anew), if all
\* the readings were of the same edition: whatever the edits, the restarts and the caches.
THEOREM OneVerdictOfOneEdition == Spec => []OneVerdict
<1>1. Basic /\ Editions /\ Verdicts /\ [Next]_vars => Verdicts'
  <2> SUFFICES ASSUME Basic, Editions, Verdicts, [Next]_vars PROVE Verdicts'
    OBVIOUS
  <2>1. PICK h : Past(h)
    BY DEF Verdicts
  <2>2. PICK g : /\ Known(g)' /\ DOMAIN h \subseteq DOMAIN g
                 /\ \A e \in DOMAIN h : g[e] = h[e]
    BY <2>1, NextKnown DEF Past
  <2>3. \A q \in Calculators : Judged(g, q)'
    BY <2>1, <2>2, NextJudged DEF Past
  <2>4. Calculators' = Calculators
    BY NextMoves DEF Basic, Calculators, Kind
  <2>5. Past(g)'
    BY <2>2, <2>3, <2>4 DEF Past
  <2>6. ASSUME NEW q \in Requests \ Calculators PROVE local'[q].meets = None
    <3>1. "meets" \in DOMAIN NoLocal /\ HeldAt["meets"] = {"standing"}
      BY DEF NoLocal, HeldAt
    <3>2. "standing" \in Left(q) => q \in Calculators
      BY WhoIsAsked DEF Calculators
    <3>3. local'[q].meets = local[q].meets
      BY <3>1, <3>2, HeldInTime, HeadIsFirst
    <3>4. QED
      BY <3>3 DEF Verdicts
  <2>7. QED
    BY <2>4, <2>5, <2>6 DEF Verdicts
<1>2. Basic /\ Verdicts => OneVerdict
  <2> SUFFICES ASSUME Basic, Verdicts, NEW r \in Requests, local[r].meets # None,
                      Cardinality(local[r].editions) = 1
               PROVE  local[r].meets["189"] <=> ~local[r].belowPassMark /\ ~local[r].aged
    BY DEF OneVerdict
  <2>1. r \in Calculators
    BY DEF Verdicts
  <2>2. PICK h : Past(h)
    BY DEF Verdicts
  <2>3. PICK e : local[r].editions = {e}
    BY <2>1, <2>2, FS_Singleton DEF Past, Judged
  <2>4. QED
    BY <2>1, <2>2, <2>3 DEF Past, Judged
<1>3. QED
  BY InitVerdicts, InitEditions, AlwaysBasic, NextEditions, <1>1, <1>2, PTL DEF Spec

==============================================================================
