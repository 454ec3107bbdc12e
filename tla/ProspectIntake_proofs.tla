-------------------------- MODULE ProspectIntake_proofs --------------------------
(***************************************************************************)
(* Proofs about ProspectIntake, for any number of requests and instances,  *)
(* whatever they ask for, and any number of failures.                      *)
(***************************************************************************)
EXTENDS ProspectIntake, EmployerSponsoredEngine_proofs, SequenceTheorems

-----------------------------------------------------------------------------
(* Scripts: what a request has left to do, as a set *)

\* The phase of a request that a step belongs to.  A script goes through phases in order, so
\* that the steps left are determined by their set, and its first step has the lowest phase.
Phase ==
  [enter |-> 0, await |-> 1,
   assess |-> 2, age |-> 2, weigh |-> 2, lookup |-> 2, find |-> 2, save |-> 2, add |-> 2,
   load |-> 2, upsert |-> 2, remove |-> 2, write |-> 2,
   marks |-> 3, keep |-> 3, expiry |-> 3, clear |-> 3, drop |-> 3, survey |-> 3,
   standing |-> 4, submission |-> 4, compare |-> 4,
   ref |-> 5, resolve |-> 5, insert |-> 6, accept |-> 7, sponsor |-> 7, nominate |-> 8,
   link |-> 9, read |-> 10, booking |-> 11, payment |-> 12, look |-> 13, merge |-> 14]

InOrder(s) ==
  /\ s \in Seq(DOMAIN Phase)
  /\ \A m, n \in 1..Len(s) : m < n => Phase[s[m]] < Phase[s[n]]

LEMMA HeadAndTail ==
  ASSUME NEW s, InOrder(s), s # <<>>
  PROVE  /\ Head(s) \in ToSet(s) /\ InOrder(Tail(s))
         /\ ToSet(Tail(s)) = ToSet(s) \ {Head(s)}
         /\ \A x \in ToSet(Tail(s)) : Phase[Head(s)] < Phase[x]
<1>1. /\ s \in Seq(DOMAIN Phase) /\ Len(s) \in Nat /\ Len(s) >= 1
      /\ Head(s) = s[1]
      /\ Tail(s) \in Seq(DOMAIN Phase) /\ Len(Tail(s)) = Len(s) - 1
      /\ \A n \in 1..Len(Tail(s)) : Tail(s)[n] = s[n + 1]
  BY HeadTailProperties, EmptySeq DEF InOrder
<1>2. InOrder(Tail(s))
  BY <1>1 DEF InOrder
<1>3. \A n \in 1..Len(Tail(s)) : Phase[Head(s)] < Phase[Tail(s)[n]]
  BY <1>1 DEF InOrder
<1>4. ToSet(s) = {s[n] : n \in 1..Len(s)} /\ ToSet(Tail(s)) = {Tail(s)[n] : n \in 1..Len(Tail(s))}
  BY <1>1, LenProperties DEF ToSet
<1>5. \A x \in ToSet(Tail(s)) : Phase[Head(s)] < Phase[x] /\ x \in ToSet(s)
  BY <1>1, <1>3, <1>4
<1>6. ASSUME NEW x \in ToSet(s), x # Head(s) PROVE x \in ToSet(Tail(s))
  <2>1. PICK n \in 1..Len(s) : x = s[n]
    BY <1>4
  <2>2. n - 1 \in 1..Len(Tail(s)) /\ Tail(s)[n - 1] = s[n]
    BY <1>1, <1>6, <2>1
  <2>3. QED
    BY <1>4, <2>1, <2>2
<1>7. Head(s) \in ToSet(s)
  BY <1>1, <1>4
<1>8. \A n \in 1..Len(Tail(s)) : Phase[Tail(s)[n]] \in Nat
  BY <1>1 DEF Phase
<1>9. QED
  BY <1>2, <1>3, <1>4, <1>5, <1>6, <1>7, <1>8

\* Scripts one after the other, the phases of the first before those of the second.
LEMMA InTurn ==
  ASSUME NEW s, NEW t, InOrder(s), InOrder(t),
         \A x \in ToSet(s), y \in ToSet(t) : Phase[x] < Phase[y]
  PROVE  InOrder(s \o t) /\ ToSet(s \o t) = ToSet(s) \cup ToSet(t)
<1> DEFINE st == s \o t
<1>1. /\ s \in Seq(DOMAIN Phase) /\ t \in Seq(DOMAIN Phase) /\ st \in Seq(DOMAIN Phase)
      /\ Len(s) \in Nat /\ Len(t) \in Nat /\ Len(st) = Len(s) + Len(t)
      /\ \A n \in 1..Len(st) : st[n] = IF n <= Len(s) THEN s[n] ELSE t[n - Len(s)]
  BY ConcatProperties, LenProperties DEF InOrder
<1>2. /\ ToSet(s) = {s[n] : n \in 1..Len(s)} /\ ToSet(t) = {t[n] : n \in 1..Len(t)}
      /\ ToSet(st) = {st[n] : n \in 1..Len(st)}
  BY <1>1, LenProperties DEF ToSet
<1> HIDE DEF st
<1>3. ASSUME NEW m \in 1..Len(st), NEW n \in 1..Len(st), m < n PROVE Phase[st[m]] < Phase[st[n]]
  <2>1. CASE n <= Len(s)
    <3>1. m \in 1..Len(s) /\ n \in 1..Len(s) /\ st[m] = s[m] /\ st[n] = s[n]
      BY <1>1, <1>3, <2>1
    <3>2. QED
      BY <1>3, <3>1 DEF InOrder
  <2>2. CASE m > Len(s)
    <3>1. /\ m - Len(s) \in 1..Len(t) /\ n - Len(s) \in 1..Len(t) /\ m - Len(s) < n - Len(s)
          /\ st[m] = t[m - Len(s)] /\ st[n] = t[n - Len(s)]
      BY <1>1, <1>3, <2>2
    <3>2. QED
      BY <3>1 DEF InOrder
  <2>3. CASE m <= Len(s) /\ n > Len(s)
    <3>1. /\ m \in 1..Len(s) /\ n - Len(s) \in 1..Len(t)
          /\ st[m] = s[m] /\ st[n] = t[n - Len(s)]
      BY <1>1, <1>3, <2>3
    <3>2. st[m] \in ToSet(s) /\ st[n] \in ToSet(t)
      BY <1>2, <3>1
    <3>3. QED
      BY <3>2
  <2>4. QED
    BY <1>1, <2>1, <2>2, <2>3
<1>4. ASSUME NEW x \in ToSet(st) PROVE x \in ToSet(s) \cup ToSet(t)
  <2>1. PICK n \in 1..Len(st) : x = st[n]
    BY <1>2
  <2>2. (n \in 1..Len(s) /\ x = s[n]) \/ (n - Len(s) \in 1..Len(t) /\ x = t[n - Len(s)])
    BY <1>1, <2>1
  <2>3. QED
    BY <1>2, <2>2
<1>5. ASSUME NEW x \in ToSet(s) PROVE x \in ToSet(st)
  <2>1. PICK n \in 1..Len(s) : x = s[n]
    BY <1>2
  <2>2. n \in 1..Len(st) /\ x = st[n]
    BY <1>1, <2>1
  <2>3. QED
    BY <1>2, <2>2
<1>6. ASSUME NEW x \in ToSet(t) PROVE x \in ToSet(st)
  <2>1. PICK n \in 1..Len(t) : x = t[n]
    BY <1>2
  <2>2. n + Len(s) \in 1..Len(st) /\ ~(n + Len(s) <= Len(s)) /\ (n + Len(s)) - Len(s) = n
    BY <1>1
  <2>3. st[n + Len(s)] = t[n]
    BY <1>1, <2>2
  <2>4. QED
    BY <1>2, <2>1, <2>2, <2>3
<1>7. InOrder(st)
  BY <1>1, <1>3 DEF InOrder
<1>8. QED
  BY <1>4, <1>5, <1>6, <1>7 DEF st

\* The scripts that the others are put together from.
LEMMA ShortScripts ==
  /\ InOrder(<<>>) /\ ToSet(<<>>) = {}
  /\ \A x \in DOMAIN Phase : InOrder(<<x>>) /\ ToSet(<<x>>) = {x}
  /\ \A x, y \in DOMAIN Phase :
       Phase[x] < Phase[y] => InOrder(<<x, y>>) /\ ToSet(<<x, y>>) = {x, y}
  /\ \A x, y, z \in DOMAIN Phase :
       Phase[x] < Phase[y] /\ Phase[y] < Phase[z] =>
         InOrder(<<x, y, z>>) /\ ToSet(<<x, y, z>>) = {x, y, z}
<1>1. InOrder(<<>>) /\ ToSet(<<>>) = {}
  BY DEF InOrder, ToSet
<1>2. ASSUME NEW x \in DOMAIN Phase PROVE InOrder(<<x>>) /\ ToSet(<<x>>) = {x}
  BY <1>2 DEF InOrder, ToSet
<1>3. ASSUME NEW x \in DOMAIN Phase, NEW y \in DOMAIN Phase, Phase[x] < Phase[y]
      PROVE  InOrder(<<x, y>>) /\ ToSet(<<x, y>>) = {x, y}
  BY <1>3 DEF InOrder, ToSet
<1>4. ASSUME NEW x \in DOMAIN Phase, NEW y \in DOMAIN Phase, NEW z \in DOMAIN Phase,
             Phase[x] < Phase[y], Phase[y] < Phase[z]
      PROVE  InOrder(<<x, y, z>>) /\ ToSet(<<x, y, z>>) = {x, y, z}
  <2>1. Phase[x] < Phase[z]
    BY <1>4 DEF Phase
  <2>2. QED
    BY <1>4, <2>1 DEF InOrder, ToSet
<1>5. QED
  BY <1>1, <1>2, <1>3, <1>4

AllOfRefresh == {"read", "booking", "payment", "look", "merge"}

LEMMA RefreshIs == InOrder(Refresh) /\ ToSet(Refresh) = AllOfRefresh
<1> DEFINE two == <<"read", "booking">>
           four == two \o <<"payment", "look">>
<1>1. Refresh = four \o <<"merge">>
  BY DEF Refresh
<1>2. InOrder(two) /\ ToSet(two) = {"read", "booking"}
  BY ShortScripts DEF Phase
<1>3. InOrder(<<"payment", "look">>) /\ ToSet(<<"payment", "look">>) = {"payment", "look"}
  BY ShortScripts DEF Phase
<1>4. InOrder(<<"merge">>) /\ ToSet(<<"merge">>) = {"merge"}
  BY ShortScripts DEF Phase
<1> HIDE DEF two
<1>5. InOrder(four) /\ ToSet(four) = {"read", "booking", "payment", "look"}
  BY <1>2, <1>3, InTurn DEF Phase
<1> HIDE DEF four
<1>6. QED
  BY <1>1, <1>4, <1>5, InTurn DEF Phase, AllOfRefresh

\* What comes before a refresh comes first, and the whole is in order.
LEMMA ThenRefresh ==
  ASSUME NEW s, InOrder(s), \A x \in ToSet(s) : x \in DOMAIN Phase /\ Phase[x] \in 0..9
  PROVE  InOrder(s \o Refresh) /\ ToSet(s \o Refresh) = ToSet(s) \cup AllOfRefresh
<1>1. \A y \in AllOfRefresh : Phase[y] \in 10..14
  BY DEF AllOfRefresh, Phase
<1>2. \A x \in ToSet(s), y \in AllOfRefresh : Phase[x] < Phase[y]
  BY <1>1
<1>3. QED
  BY <1>2, RefreshIs, InTurn

\* What the request j has to do, apart from the order: its creations ...
SponsorshipSteps(j) ==
  {x \in {"sponsor", "nominate", "link"} : j.employer /\ (x = "nominate" => j.role)}

LEMMA SponsorshipIs ==
  ASSUME NEW j
  PROVE  InOrder(Sponsorship(j)) /\ ToSet(Sponsorship(j)) = SponsorshipSteps(j)
<1> USE DEF Phase
<1>1. CASE ~j.employer
  BY <1>1, ShortScripts DEF Sponsorship, SponsorshipSteps
<1>2. CASE j.employer /\ j.role
  <2> DEFINE two == <<"sponsor">> \o <<"nominate">>
  <2>1. Sponsorship(j) = two \o <<"link">>
    BY <1>2 DEF Sponsorship
  <2>2. InOrder(two) /\ ToSet(two) = {"sponsor", "nominate"}
    BY ShortScripts, InTurn
  <2> HIDE DEF two
  <2>3. InOrder(two \o <<"link">>) /\ ToSet(two \o <<"link">>) = {"sponsor", "nominate", "link"}
    BY <2>2, ShortScripts, InTurn
  <2>4. QED
    BY <1>2, <2>1, <2>3 DEF SponsorshipSteps
<1>3. CASE j.employer /\ ~j.role
  <2> DEFINE one == <<"sponsor">> \o <<>>
  <2>1. Sponsorship(j) = one \o <<"link">>
    BY <1>3 DEF Sponsorship
  <2>2. InOrder(one) /\ ToSet(one) = {"sponsor"}
    BY ShortScripts, InTurn
  <2> HIDE DEF one
  <2>3. InOrder(one \o <<"link">>) /\ ToSet(one \o <<"link">>) = {"sponsor", "link"}
    BY <2>2, ShortScripts, InTurn
  <2>4. QED
    BY <1>3, <2>1, <2>3 DEF SponsorshipSteps
<1>4. QED
  BY <1>1, <1>2, <1>3

\* ... and the whole of it.
WorkSteps(j) ==
  CASE j.kind = "capture"   -> {"ref", "insert"} \cup AllOfRefresh
    [] j.kind = "prescreen" -> {"assess", "ref", "insert"} \cup SponsorshipSteps(j) \cup AllOfRefresh
    [] j.kind = "partner"   -> {"submission", "ref", "insert"} \cup AllOfRefresh
    [] j.kind = "points"    -> {"age", "marks", "standing", "ref", "insert"} \cup AllOfRefresh
    [] j.kind = "audit"     -> {"weigh", "submission"}
    [] j.kind = "accept"    -> {"lookup", "expiry", "ref", "insert", "accept"}
    [] j.kind = "invite"    -> {"find", "keep"}
    [] j.kind \in Touches   -> {"write"} \cup AllOfRefresh
    [] j.kind \in {"checkout", "delete"} -> {"write"}
    [] j.kind = "edit"      -> {"save", "clear"}
    [] j.kind = "create"    -> {"add", "compare", "resolve"}
    [] j.kind = "update"    -> {"load", "drop", "compare", "resolve"}
    [] j.kind = "import"    -> {"upsert"} \cup (IF j.resync THEN ToSet(Sync) ELSE {})
    [] j.kind = "sync"      -> ToSet(Sync)
    [] j.kind = "remove"    -> {"remove"}
    [] OTHER                -> {}

LEMMA SyncIs == InOrder(Sync) /\ ToSet(Sync) = {"survey", "compare", "resolve"}
<1> DEFINE two == <<"survey", "compare">>
<1>1. Sync = two \o <<"resolve">>
  BY DEF Sync
<1>2. InOrder(two) /\ ToSet(two) = {"survey", "compare"}
  BY ShortScripts DEF Phase
<1>3. InOrder(<<"resolve">>) /\ ToSet(<<"resolve">>) = {"resolve"}
  BY ShortScripts DEF Phase
<1> HIDE DEF two
<1>4. QED
  BY <1>1, <1>2, <1>3, InTurn DEF Phase

LEMMA WorkIs ==
  ASSUME NEW j
  PROVE  InOrder(Work(j)) /\ ToSet(Work(j)) = WorkSteps(j)
<1> USE DEF Phase
<1>1. CASE j.kind = "capture"
  <2> DEFINE first == <<"ref", "insert">>
  <2>1. Work(j) = first \o Refresh /\ WorkSteps(j) = {"ref", "insert"} \cup AllOfRefresh
    BY <1>1 DEF Work, WorkSteps, Touches
  <2>2. InOrder(first) /\ ToSet(first) = {"ref", "insert"}
    BY ShortScripts
  <2> HIDE DEF first
  <2>3. QED
    BY <2>1, <2>2, ThenRefresh
<1>2. CASE j.kind = "prescreen"
  <2> DEFINE two == <<"assess", "ref", "insert">>
             three == two \o Sponsorship(j)
  <2>1. /\ Work(j) = three \o Refresh
        /\ WorkSteps(j) = {"assess", "ref", "insert"} \cup SponsorshipSteps(j) \cup AllOfRefresh
    BY <1>2 DEF Work, WorkSteps, Touches
  <2>2. InOrder(two) /\ ToSet(two) = {"assess", "ref", "insert"}
    BY ShortScripts
  <2> HIDE DEF two
  <2>3. InOrder(three) /\ ToSet(three) = {"assess", "ref", "insert"} \cup SponsorshipSteps(j)
    BY <2>2, SponsorshipIs, InTurn DEF SponsorshipSteps
  <2> HIDE DEF three
  <2>4. \A x \in ToSet(three) : x \in DOMAIN Phase /\ Phase[x] \in 0..9
    BY <2>3 DEF SponsorshipSteps
  <2> HIDE DEF Phase
  <2>5. QED
    BY <2>1, <2>3, <2>4, ThenRefresh
<1>3. CASE j.kind = "partner"
  <2> DEFINE first == <<"submission", "ref", "insert">>
  <2>1. Work(j) = first \o Refresh /\ WorkSteps(j) = {"submission", "ref", "insert"} \cup AllOfRefresh
    BY <1>3 DEF Work, WorkSteps, Touches
  <2>2. InOrder(first) /\ ToSet(first) = {"submission", "ref", "insert"}
    BY ShortScripts
  <2> HIDE DEF first
  <2>3. QED
    BY <2>1, <2>2, ThenRefresh
<1>4. CASE j.kind = "points"
  <2> DEFINE last == <<"insert">>
             four == <<"age", "marks">> \o <<"standing", "ref">>
             five == <<"age", "marks", "standing", "ref", "insert">>
  <2>1. /\ Work(j) = five \o Refresh
        /\ WorkSteps(j) = {"age", "marks", "standing", "ref", "insert"} \cup AllOfRefresh
    BY <1>4 DEF Work, WorkSteps, Touches
  <2>2. five = four \o last
    OBVIOUS
  <2>3. InOrder(four) /\ ToSet(four) = {"age", "marks", "standing", "ref"}
    BY ShortScripts, InTurn
  <2>4. InOrder(last) /\ ToSet(last) = {"insert"}
    BY ShortScripts
  <2> HIDE DEF four, last, five
  <2>5. InOrder(five) /\ ToSet(five) = {"age", "marks", "standing", "ref", "insert"}
    BY <2>2, <2>3, <2>4, InTurn
  <2>6. QED
    BY <2>1, <2>5, ThenRefresh
<1>5. CASE j.kind = "audit"
  <2>1. Work(j) = <<"weigh", "submission">> /\ WorkSteps(j) = {"weigh", "submission"}
    BY <1>5 DEF Work, WorkSteps, Touches
  <2>2. QED
    BY <2>1, ShortScripts
<1>6. CASE j.kind = "accept"
  <2>1. /\ Work(j) = <<"lookup", "expiry">> \o <<"ref", "insert", "accept">>
        /\ WorkSteps(j) = {"lookup", "expiry", "ref", "insert", "accept"}
    BY <1>6 DEF Work, WorkSteps, Touches
  <2>2. QED
    BY <2>1, ShortScripts, InTurn
<1>7. CASE j.kind = "invite"
  <2>1. Work(j) = <<"find", "keep">> /\ WorkSteps(j) = {"find", "keep"}
    BY <1>7 DEF Work, WorkSteps, Touches
  <2>2. QED
    BY <2>1, ShortScripts
<1>8. CASE j.kind \in Touches
  <2> DEFINE first == <<"write">>
  <2>1. Work(j) = first \o Refresh /\ WorkSteps(j) = {"write"} \cup AllOfRefresh
    BY <1>8 DEF Work, WorkSteps, Touches
  <2>2. InOrder(first) /\ ToSet(first) = {"write"}
    BY ShortScripts
  <2> HIDE DEF first
  <2>3. QED
    BY <2>1, <2>2, ThenRefresh
<1>9. CASE j.kind \in {"checkout", "delete"}
  <2>1. Work(j) = <<"write">> /\ WorkSteps(j) = {"write"}
    BY <1>9 DEF Work, WorkSteps, Touches
  <2>2. QED
    BY <2>1, ShortScripts
<1>10. CASE j.kind = "edit"
  <2>1. Work(j) = <<"save", "clear">> /\ WorkSteps(j) = {"save", "clear"}
    BY <1>10 DEF Work, WorkSteps, Touches
  <2>2. QED
    BY <2>1, ShortScripts
<1>11. CASE j.kind = "create"
  <2>1. Work(j) = <<"add", "compare">> \o <<"resolve">> /\ WorkSteps(j) = {"add", "compare", "resolve"}
    BY <1>11 DEF Work, WorkSteps, Touches
  <2>2. QED
    BY <2>1, ShortScripts, InTurn
<1>12. CASE j.kind = "update"
  <2>1. Work(j) = <<"load", "drop">> \o <<"compare", "resolve">> /\ WorkSteps(j) = {"load", "drop", "compare", "resolve"}
    BY <1>12 DEF Work, WorkSteps, Touches
  <2>2. QED
    BY <2>1, ShortScripts, InTurn
<1>13. CASE j.kind = "import"
  <2> DEFINE first == <<"upsert">>
             more == IF j.resync THEN Sync ELSE <<>>
  <2>1. /\ Work(j) = first \o more
        /\ WorkSteps(j) = {"upsert"} \cup ToSet(more)
    <3>1. CASE j.resync
      BY <1>13, <3>1 DEF Work, WorkSteps, Touches
    <3>2. CASE ~j.resync
      BY <1>13, <3>2, ShortScripts DEF Work, WorkSteps, Touches
    <3>3. QED
      BY <3>1, <3>2
  <2>2. InOrder(more) /\ ToSet(more) \subseteq {"survey", "compare", "resolve"}
    <3>1. CASE j.resync
      BY <3>1, SyncIs
    <3>2. CASE ~j.resync
      BY <3>2, ShortScripts
    <3>3. QED
      BY <3>1, <3>2
  <2>3. InOrder(first) /\ ToSet(first) = {"upsert"}
    BY ShortScripts
  <2> HIDE DEF first, more
  <2>4. QED
    BY <2>1, <2>2, <2>3, InTurn
<1>14. CASE j.kind = "sync"
  <2>1. Work(j) = Sync /\ WorkSteps(j) = ToSet(Sync)
    BY <1>14 DEF Work, WorkSteps, Touches
  <2>2. QED
    BY <2>1, SyncIs
<1>15. CASE j.kind = "remove"
  <2>1. Work(j) = <<"remove">> /\ WorkSteps(j) = {"remove"}
    BY <1>15 DEF Work, WorkSteps, Touches
  <2>2. QED
    BY <2>1, ShortScripts
<1>16. CASE j.kind \notin {"capture", "prescreen", "partner", "points", "audit", "accept", "invite",
                            "checkout", "delete", "edit", "create", "update", "import", "sync",
                            "remove"} \cup Touches
  <2>1. Work(j) = <<>> /\ WorkSteps(j) = {}
    BY <1>16 DEF Work, WorkSteps, Touches
  <2>2. QED
    BY <2>1, ShortScripts
<1>17. QED
  BY <1>1, <1>2, <1>3, <1>4, <1>5, <1>6, <1>7, <1>8, <1>9, <1>10, <1>11, <1>12, <1>13, <1>14,
     <1>15, <1>16

\* What is left of a script at one of its steps: that step, and all those after it.
LEMMA ScriptIs ==
  ASSUME NEW j
  PROVE  /\ InOrder(Script(j))
         /\ ToSet(Script(j)) = (IF j.on \in Cold THEN {"enter", "await"} ELSE {}) \cup WorkSteps(j)
<1>1. \A x \in WorkSteps(j) : x \in DOMAIN Phase /\ Phase[x] > 1
  <2>1. WorkSteps(j) \subseteq DOMAIN Phase \ {"enter", "await"}
    BY SyncIs DEF WorkSteps, Touches, SponsorshipSteps, AllOfRefresh, Phase
  <2>2. QED
    BY <2>1 DEF Phase
<1>2. CASE j.on \in Cold
  <2>1. InOrder(Entry) /\ ToSet(Entry) = {"enter", "await"}
    BY ShortScripts DEF Entry, Phase
  <2>2. \A x \in ToSet(Entry), y \in ToSet(Work(j)) : Phase[x] < Phase[y]
    BY <1>1, <2>1, WorkIs DEF Phase
  <2>3. Script(j) = Entry \o Work(j)
    BY <1>2 DEF Script
  <2>4. QED
    BY <1>2, <2>1, <2>2, <2>3, WorkIs, InTurn
<1>3. CASE j.on \notin Cold
  <2>1. Script(j) = <<>> \o Work(j)
    BY <1>3 DEF Script
  <2>2. QED
    BY <1>3, <2>1, WorkIs, ShortScripts, InTurn
<1>4. QED
  BY <1>2, <1>3

LEMMA SuffixIsRest ==
  ASSUME NEW t, InOrder(t), NEW s \in Suffixes(t)
  PROVE  /\ InOrder(s) /\ ToSet(s) \subseteq ToSet(t)
         /\ s # <<>> => /\ Tail(s) \in Suffixes(t)
                         /\ \A x \in ToSet(t) : Phase[x] >= Phase[Head(s)] => x \in ToSet(s)
<1>1. CASE s = <<>>
  BY <1>1, ShortScripts
<1>2. CASE s # <<>>
  <2>1. PICK k \in 1..Len(t) : s = SubSeq(t, k, Len(t))
    BY <1>2 DEF Suffixes
  <2>2. t \in Seq(DOMAIN Phase) /\ Len(t) \in Nat /\ DOMAIN t = 1..Len(t)
    BY LenProperties DEF InOrder
  <2>3. /\ s \in Seq(DOMAIN Phase) /\ Len(s) = Len(t) - k + 1
        /\ \A n \in 1..Len(s) : s[n] = t[k + n - 1]
    BY <2>1, <2>2, SubSeqProperties
  <2>4. InOrder(s)
    BY <2>1, <2>2, <2>3 DEF InOrder
  <2>5. ToSet(s) = {s[n] : n \in 1..Len(s)} /\ ToSet(t) = {t[n] : n \in 1..Len(t)}
    BY <2>2, <2>3, LenProperties DEF ToSet
  <2>6. ToSet(s) \subseteq ToSet(t)
    BY <2>1, <2>2, <2>3, <2>5
  <2>7. Head(s) = s[1] /\ s[1] = t[k]
    BY <1>2, <2>1, <2>2, <2>3
  <2>8. ASSUME NEW x \in ToSet(t), Phase[x] >= Phase[Head(s)] PROVE x \in ToSet(s)
    <3>1. PICK n \in 1..Len(t) : x = t[n]
      BY <2>5
    <3>2. ~(n < k)
      <4>1. n < k => Phase[t[n]] < Phase[t[k]]
        BY <2>1, <3>1 DEF InOrder
      <4>2. Phase[t[n]] \in Nat /\ Phase[t[k]] \in Nat
        BY <2>1, <2>2, <3>1 DEF Phase
      <4>3. QED
        BY <2>7, <2>8, <3>1, <4>1, <4>2
    <3>3. n - k + 1 \in 1..Len(s) /\ s[n - k + 1] = t[n]
      BY <2>1, <2>2, <2>3, <3>2
    <3>4. QED
      BY <2>5, <3>1, <3>3
  <2>9. Tail(s) \in Suffixes(t)
    <3>1. CASE k = Len(t)
      <4>1. Len(Tail(s)) = 0 /\ Tail(s) \in Seq(DOMAIN Phase)
        BY <1>2, <2>2, <2>3, <3>1, HeadTailProperties
      <4>2. Tail(s) = <<>>
        BY <4>1, EmptySeq
      <4>3. QED
        BY <4>2 DEF Suffixes
    <3>2. CASE k < Len(t)
      <4>1. k + 1 \in 1..Len(t)
        BY <2>1, <2>2, <3>2
      <4>2. Tail(s) = SubSeq(t, k + 1, Len(t))
        BY <2>1, <2>2, HeadTailOfSubSeq
      <4>3. QED
        BY <4>1, <4>2 DEF Suffixes
    <3>3. Len(t) \in Nat
      BY <2>2
    <3>4. k = Len(t) \/ k < Len(t)
      BY <3>3
    <3>5. QED
      BY Zenon, <3>1, <3>2, <3>4
  <2>10. QED
    BY <1>2, <2>4, <2>6, <2>8, <2>9
<1>3. QED
  BY <1>1, <1>2

LEMMA SuffixOfConcat ==
  ASSUME NEW S, NEW s \in Seq(S), NEW t \in Seq(S), NEW u \in Suffixes(t)
  PROVE  u \in Suffixes(s \o t)
<1>1. CASE u = <<>>
  BY <1>1 DEF Suffixes
<1>2. CASE u # <<>>
  <2>1. PICK k \in 1..Len(t) : u = SubSeq(t, k, Len(t))
    BY <1>2 DEF Suffixes
  <2>2. Len(s) \in Nat /\ Len(t) \in Nat /\ Len(s \o t) = Len(s) + Len(t)
    BY LenProperties, ConcatProperties
  <2> DEFINE m == Len(s) + k
             n == Len(s) + Len(t)
  <2>3. /\ m \in Len(s) + 1 .. Len(s) + Len(t) /\ n \in m .. Len(s) + Len(t)
        /\ m - Len(s) = k /\ n - Len(s) = Len(t) /\ m \in 1..n
    BY <2>1, <2>2
  <2> HIDE DEF m, n
  <2>4. n \in Len(s) + 1 .. Len(s) + Len(t)
    BY <2>2, <2>3
  <2>5. SubSeq(s \o t, m, n) = SubSeq(t, m - Len(s), n - Len(s))
    BY <2>3, <2>4, SubSeqOfConcat2
  <2>6. u = SubSeq(s \o t, m, Len(s \o t)) /\ m \in 1..Len(s \o t)
    BY <2>1, <2>2, <2>3, <2>5 DEF n
  <2>7. QED
    BY <2>6 DEF Suffixes
<1>3. QED
  BY <1>1, <1>2

\* The refresh ends the script of a pre-screen.
LEMMA RefreshIsLast ==
  ASSUME NEW j, ToSet(Script(j)) \cap {"sponsor", "nominate", "link"} # {}
  PROVE  Refresh \in Suffixes(Script(j)) /\ j.kind = "prescreen"
<1>1. j.kind = "prescreen"
  BY ScriptIs, SyncIs DEF WorkSteps, Touches, AllOfRefresh
<1> DEFINE first == <<"assess", "ref", "insert">>
           before == first \o Sponsorship(j)
           entry == IF j.on \in Cold THEN Entry ELSE <<>>
<1>2. Work(j) = before \o Refresh
  BY <1>1 DEF Work, Touches
<1>3. Script(j) = entry \o Work(j)
  BY DEF Script
<1>4. first \in Seq(DOMAIN Phase)
  BY DEF Phase
<1>5. entry \in Seq(DOMAIN Phase)
  <2>1. Entry \in Seq(DOMAIN Phase)
    BY DEF Phase, Entry
  <2>2. <<>> \in Seq(DOMAIN Phase)
    OBVIOUS
  <2>3. QED
    BY Zenon, <2>1, <2>2
<1> HIDE DEF first, entry
<1>6. before \in Seq(DOMAIN Phase) /\ Refresh \in Seq(DOMAIN Phase)
  BY <1>4, SponsorshipIs, RefreshIs, ConcatProperties DEF InOrder
<1> HIDE DEF before
<1>7. Refresh \in Suffixes(Refresh)
  <2>1. Len(Refresh) = 5
    BY DEF Refresh
  <2>2. SubSeq(Refresh, 1, Len(Refresh)) = Refresh
    BY <1>6, SubSeqFull
  <2>3. QED
    BY <2>1, <2>2 DEF Suffixes
<1>8. Refresh \in Suffixes(Work(j))
  BY <1>2, <1>6, <1>7, SuffixOfConcat
<1>9. Work(j) \in Seq(DOMAIN Phase)
  BY WorkIs DEF InOrder
<1>10. QED
  BY <1>1, <1>3, <1>5, <1>8, <1>9, SuffixOfConcat

-----------------------------------------------------------------------------
(* One step of a request *)

LEMMA Laid ==
  ASSUME NEW f, NEW g
  PROVE  /\ DOMAIN (f ++ g) = DOMAIN f \cup DOMAIN g
         /\ \A x \in DOMAIN f : (f ++ g)[x] = f[x]
         /\ \A x \in DOMAIN g \ DOMAIN f : (f ++ g)[x] = g[x]
  BY DEF ++

Domains ==
  DOMAIN todo = Requests /\ DOMAIN told = Requests /\ DOMAIN local = Requests

\* A request stays where it is, goes to the next step of its script, passes over the
\* sponsorship to the refresh, or ends.
Moves(r) ==
  \/ todo'[r] = todo[r] /\ told'[r] = told[r]
  \/ /\ todo[r] # <<>>
     /\ \/ /\ todo'[r] = Tail(todo[r])
           /\ told'[r] = IF Len(todo[r]) = 1 THEN Reply(r) ELSE told[r]
        \/ /\ todo'[r] = Refresh /\ told'[r] = told[r]
           /\ Head(todo[r]) \in {"sponsor", "nominate", "link"}
        \/ /\ todo'[r] = <<>>
           /\ \/ told'[r] \in {told[r], "failed", "refused", "reused", "noBook"}
              \/ told'[r] = Reply(r) /\ Head(todo[r]) \in AllOfRefresh
              \/ told'[r] = "ok" /\ Head(todo[r]) = "survey"

\* The step of r moves no other request.
Advances(r) ==
  /\ Moves(r)
  /\ \A q \in Requests \ {r} : todo'[q] = todo[q] /\ told'[q] = told[q]
  /\ DOMAIN todo' = Requests /\ DOMAIN told' = Requests

LEMMA GoesAdvances ==
  ASSUME Domains, NEW r \in Requests, todo[r] # <<>>, Goes(r)
  PROVE  Advances(r)
  BY DEF Domains, Goes, Advances, Moves

LEMMA EndsAdvances ==
  ASSUME Domains, NEW r \in Requests, todo[r] # <<>>, NEW answer, Ends(r, answer),
         \/ answer \in {"failed", "refused", "reused", "noBook"}
         \/ answer = Reply(r) /\ Head(todo[r]) \in AllOfRefresh
         \/ answer = "ok" /\ Head(todo[r]) = "survey"
  PROVE  Advances(r)
  BY DEF Domains, Ends, Advances, Moves

LEMMA ThrowsAdvances ==
  ASSUME Domains, NEW r \in Requests, todo[r] # <<>>, Throws(r)
  PROVE  Advances(r)
<1> DEFINE step == Head(todo[r])
<1>1. CASE step \in AllOfRefresh
  <2>1. Ends(r, Reply(r))
    BY <1>1, RefreshIs DEF Throws, AllOfRefresh
  <2>2. QED
    BY <1>1, <2>1, EndsAdvances
<1>2. CASE step \in {"sponsor", "nominate", "link"}
  <2>1. todo' = [todo EXCEPT ![r] = Refresh] /\ told' = told
    BY <1>2, RefreshIs DEF Throws, AllOfRefresh
  <2>2. QED
    BY <1>2, <2>1 DEF Advances, Moves, Domains
<1>3. CASE step \in {"ref", "insert"} /\ Caught(r)
  <2>1. Ends(r, "noBook")
    BY <1>3, RefreshIs DEF Throws, AllOfRefresh
  <2>2. QED
    BY <2>1, EndsAdvances
<1>4. CASE /\ step \notin AllOfRefresh \cup {"sponsor", "nominate", "link"}
           /\ ~(step \in {"ref", "insert"} /\ Caught(r))
  <2>1. Ends(r, "failed")
    BY <1>4, RefreshIs DEF Throws, AllOfRefresh
  <2>2. QED
    BY <2>1, EndsAdvances
<1>5. QED
  BY <1>1, <1>2, <1>3, <1>4

\* Whatever step a request takes, save the query of the policy rows.
LEMMA StepAdvances ==
  ASSUME Domains, NEW r \in Requests, Step(r) \/ Fails(r)
  PROVE  Advances(r) \/ FetchPolicy(r)
<1>1. EnterInstance(r) => Advances(r)
  BY GoesAdvances DEF EnterInstance, At
<1>2. GetServed(r) => Advances(r)
  BY GoesAdvances DEF GetServed, At
<1>3. AssessPreScreen(r) => Advances(r)
  BY GoesAdvances DEF AssessPreScreen, At
<1>4. SaveSubmission(r) => Advances(r)
  BY GoesAdvances DEF SaveSubmission, At
<1>5. ReadAgeLimit(r) => Advances(r)
  BY GoesAdvances, ThrowsAdvances DEF ReadAgeLimit, ReadsPolicy, At
<1>6. ReadMarks(r) => Advances(r)
  BY GoesAdvances, ThrowsAdvances DEF ReadMarks, ReadsPolicy, At
<1>7. ReadStanding(r) => Advances(r)
  BY GoesAdvances, ThrowsAdvances DEF ReadStanding, ReadsPolicy, At
<1>8. Weigh(r) => Advances(r)
  BY GoesAdvances, ThrowsAdvances DEF Weigh, ReadsPolicy, At
<1>9. SaveEdit(r) => Advances(r)
  BY GoesAdvances, ThrowsAdvances DEF SaveEdit, At
<1>10. ClearAfterEdit(r) => Advances(r)
  BY GoesAdvances DEF ClearAfterEdit, At
<1>11. GenerateRef(r) => Advances(r)
  BY GoesAdvances DEF GenerateRef, At
<1>12. InsertProspect(r) => Advances(r)
  BY GoesAdvances, ThrowsAdvances DEF InsertProspect, At
<1>13. PersistSponsor(r) => Advances(r)
  BY GoesAdvances DEF PersistSponsor, At
<1>14. LinkSponsor(r) => Advances(r)
  BY GoesAdvances DEF LinkSponsor, At
<1>15. CreateOccupation(r) => Advances(r)
  BY GoesAdvances, ThrowsAdvances DEF CreateOccupation, CatalogueStep, At
<1>16. UpsertLists(r) => Advances(r)
  BY GoesAdvances DEF UpsertLists, CatalogueStep, At
<1>17. DeleteOccupation(r) => Advances(r)
  BY GoesAdvances, EndsAdvances DEF DeleteOccupation, CatalogueStep, At
<1>18. LoadOccupation(r) => Advances(r)
  BY GoesAdvances, EndsAdvances DEF LoadOccupation, CatalogueStep, At
<1>19. DropLists(r) => Advances(r)
  BY GoesAdvances, ThrowsAdvances DEF DropLists, CatalogueStep, At
<1>20. SurveyLists(r) => Advances(r)
  BY GoesAdvances, EndsAdvances DEF SurveyLists, CatalogueStep, At
<1>21. CompareLinks(r) => Advances(r)
  BY GoesAdvances DEF CompareLinks, CatalogueStep, At
<1>22. ResolveVisas(r) => Advances(r)
  BY GoesAdvances, ThrowsAdvances DEF ResolveVisas, CatalogueStep, At
<1>23. FindInvite(r) => Advances(r)
  BY GoesAdvances, EndsAdvances DEF FindInvite, At
<1>24. KeepInvite(r) => Advances(r)
  BY GoesAdvances DEF KeepInvite, At
<1>25. LookUpInvite(r) => Advances(r)
  BY GoesAdvances, EndsAdvances DEF LookUpInvite, At
<1>26. AcceptInvite(r) => Advances(r)
  BY GoesAdvances DEF AcceptInvite, At
<1>27. Review(r) => Advances(r)
  BY GoesAdvances DEF Review, Touch, At
<1>28. BookSlot(r) => Advances(r)
  BY GoesAdvances DEF BookSlot, Touch, At
<1>29. CancelSlot(r) => Advances(r)
  BY GoesAdvances DEF CancelSlot, Touch, At
<1>30. DeleteSlot(r) => Advances(r)
  BY GoesAdvances DEF DeleteSlot, Touch, At
<1>31. OpenCheckout(r) => Advances(r)
  BY GoesAdvances DEF OpenCheckout, Touch, At
<1>32. LapseCheckout(r) => Advances(r)
  BY GoesAdvances DEF LapseCheckout, Touch, At
<1>33. PayCheckout(r) => Advances(r)
  BY GoesAdvances DEF PayCheckout, Touch, At
<1>34. ReadProspect(r) => Advances(r)
  BY GoesAdvances DEF ReadProspect, RefreshStep, At
<1>35. ReadBooking(r) => Advances(r)
  BY GoesAdvances DEF ReadBooking, RefreshStep, At
<1>36. ReadPayment(r) => Advances(r)
  BY GoesAdvances DEF ReadPayment, RefreshStep, At
<1>37. LookUpSummary(r) => Advances(r)
  BY GoesAdvances DEF LookUpSummary, RefreshStep, At
<1>38. SaveSummary(r) => Advances(r)
  BY GoesAdvances DEF SaveSummary, At
<1>39. Fails(r) => Advances(r)
  BY ThrowsAdvances DEF Fails
<1>40. CloseExpired(r) => Advances(r)
  BY GoesAdvances, EndsAdvances DEF CloseExpired, At
<1>41. QED
  BY <1>1, <1>2, <1>3, <1>4, <1>5, <1>6, <1>7, <1>8, <1>9, <1>10, <1>11, <1>12, <1>13, <1>14, <1>15, <1>16, <1>17, <1>18, <1>19, <1>20, <1>21, <1>22, <1>23, <1>24, <1>25, <1>26, <1>27, <1>28, <1>29, <1>30, <1>31, <1>32, <1>33, <1>34, <1>35, <1>36, <1>37, <1>38, <1>39, <1>40
     DEF Step, Engine, Creation, Admin, Invitation, Write, Summary

\* What the groups of actions leave alone.
LEMMA Frames ==
  ASSUME NEW r \in Requests
  PROVE  /\ EnterInstance(r) \/ GetServed(r) =>
              UNCHANGED <<job, local, rows, faults, policyVars, catalogueVars>>
         /\ Engine(r) =>
              UNCHANGED <<job, prospects, sponsors, bookings, payments, summaries, invites,
                          catalogueVars, bootVars>>
         /\ Creation(r) =>
              UNCHANGED <<job, submissions, bookings, payments, summaries, invites, faults, config>>
         /\ Admin(r) => UNCHANGED <<job, rows, faults, policyVars, bootVars>>
         /\ Invitation(r) =>
              UNCHANGED <<job, prospects, sponsors, submissions, bookings, payments, summaries,
                          faults, config>>
         /\ Write(r) =>
              UNCHANGED <<job, sponsors, submissions, summaries, invites, faults, config>>
         /\ Summary(r) =>
              UNCHANGED <<job, prospects, sponsors, submissions, bookings, payments, invites,
                          faults, config>>
         /\ Fails(r) => UNCHANGED <<job, local, rows, config>>
<1> USE DEF rows, config
<1>1. EnterInstance(r) \/ GetServed(r) =>
        UNCHANGED <<job, local, rows, faults, policyVars, catalogueVars>>
  BY DEF EnterInstance, GetServed
<1>2. Engine(r) =>
        UNCHANGED <<job, prospects, sponsors, bookings, payments, summaries, invites,
                    catalogueVars, bootVars>>
  BY DEF Engine, AssessPreScreen, SaveSubmission, FetchPolicy, ReadAgeLimit, ReadMarks,
         ReadStanding, Weigh, ReadsPolicy, SaveEdit, ClearAfterEdit
<1>3. Creation(r) =>
        UNCHANGED <<job, submissions, bookings, payments, summaries, invites, faults, config>>
  BY DEF Creation, GenerateRef, InsertProspect, PersistSponsor, LinkSponsor
<1>4. Admin(r) => UNCHANGED <<job, rows, faults, policyVars, bootVars>>
  BY DEF Admin, CatalogueStep, CreateOccupation, UpsertLists, DeleteOccupation, LoadOccupation,
         DropLists, SurveyLists, CompareLinks, ResolveVisas
<1>5. Invitation(r) =>
        UNCHANGED <<job, prospects, sponsors, submissions, bookings, payments, summaries,
                    faults, config>>
  BY DEF Invitation, FindInvite, KeepInvite, LookUpInvite, CloseExpired, AcceptInvite
<1>6. Write(r) =>
        UNCHANGED <<job, sponsors, submissions, summaries, invites, faults, config>>
  BY DEF Write, Touch, Review, BookSlot, CancelSlot, DeleteSlot, OpenCheckout, LapseCheckout,
         PayCheckout
<1>7. Summary(r) =>
        UNCHANGED <<job, prospects, sponsors, submissions, bookings, payments, invites,
                    faults, config>>
  BY DEF Summary, RefreshStep, ReadProspect, ReadBooking, ReadPayment, LookUpSummary, SaveSummary
<1>8. Fails(r) => UNCHANGED <<job, local, rows, config>>
  BY DEF Fails
<1>9. QED
  BY <1>1, <1>2, <1>3, <1>4, <1>5, <1>6, <1>7, <1>8

\* The steps at which a request comes to hold something.
HeldAt ==
  [ref |-> {"ref"}, statutory |-> {"assess", "submission", "standing", "weigh"},
   fit |-> {"assess"}, editions |-> PolicyReads, total |-> {"marks"}, belowPassMark |-> {"marks"},
   aged |-> {"age"}, meets |-> {"standing"}, row |-> {"read"}, booking |-> {"write", "booking"},
   payment |-> {"write", "payment"}, base |-> {"look"}, edition |-> {"save"},
   lists |-> {"add", "load", "drop", "survey"}, dropped |-> {"drop"}, seen |-> {"compare"},
   expired |-> {"lookup"}]

\* What a request may come to hold.
Meant(r, new) ==
  /\ todo[r] # <<>>
  /\ \A x \in DOMAIN new : x \in DOMAIN HeldAt /\ Head(todo[r]) \in HeldAt[x]
  /\ "ref" \in DOMAIN new => At(r, "ref") /\ new.ref \in {r, ClockRef} \cup Drawn
  /\ "statutory" \in DOMAIN new => new.statutory \in Flag
  /\ "fit" \in DOMAIN new => new.fit \in Flag
  /\ "edition" \in DOMAIN new => At(r, "save") /\ new.edition = table.edition + 1

Gains(r) == local' = local \/ \E new : Holds(r, new) /\ Meant(r, new)

LEMMA VerdictGains ==
  ASSUME NEW r \in Requests, NEW form, HoldsVerdict(r, form), At(r, "assess")
  PROVE  Gains(r)
<1>1. PICK f, found : found = Screen(f) /\ Holds(r, [statutory |-> found.statutory, fit |-> found.fit])
  BY DEF HoldsVerdict
<1>2. Screen(f).statutory \in BOOLEAN /\ Screen(f).fit \in BOOLEAN
  BY DEF Screen, Assess, ClientFit
<1>3. Meant(r, [statutory |-> found.statutory, fit |-> found.fit])
  BY <1>1, <1>2 DEF Meant, Flag, At, HeldAt
<1>4. QED
  BY <1>1, <1>3 DEF Gains

LEMMA PolicyGains ==
  ASSUME NEW r \in Requests, NEW step, NEW v, NEW keys, NEW new,
         ReadsPolicy(r, step, v, keys, new), step \in PolicyReads,
         \A x \in DOMAIN new : x \in DOMAIN HeldAt /\ step \in HeldAt[x],
         "statutory" \in DOMAIN new => new["statutory"] \in Flag
  PROVE  Gains(r)
<1> DEFINE all == [editions |-> local[r].editions \cup {v.edition}] ++ new
<1>1. todo[r] # <<>> /\ Head(todo[r]) = step
  BY DEF ReadsPolicy, At
<1>2. /\ \A x \in DOMAIN new : x \in DOMAIN HeldAt /\ step \in HeldAt[x]
      /\ "editions" \in DOMAIN HeldAt /\ step \in HeldAt["editions"]
      /\ "ref" \in DOMAIN HeldAt /\ step \notin HeldAt["ref"]
      /\ "fit" \in DOMAIN HeldAt /\ step \notin HeldAt["fit"]
      /\ "edition" \in DOMAIN HeldAt /\ step \notin HeldAt["edition"]
  BY DEF HeldAt, PolicyReads
<1>3. /\ DOMAIN all = {"editions"} \cup DOMAIN new
      /\ "statutory" \in DOMAIN all => all["statutory"] \in Flag
  BY DEF ++
<1>4. local' = local \/ Holds(r, all)
  BY DEF ReadsPolicy
<1> HIDE DEF all
<1>5. Meant(r, all)
  BY <1>1, <1>2, <1>3 DEF Meant
<1>6. QED
  BY <1>4, <1>5 DEF Gains

LEMMA StepGains ==
  ASSUME NEW r \in Requests, Step(r) \/ Fails(r)
  PROVE  Gains(r)
<1>1. AssessPreScreen(r) => Gains(r)
  BY VerdictGains DEF AssessPreScreen
<1>2. ASSUME SaveSubmission(r) PROVE Gains(r)
  <2> DEFINE met == Partner!Statutory(job[r].answers, job[r].today)
  <2>1. met \in BOOLEAN
    BY DEF Partner!Statutory
  <2>2. local' = local \/ Holds(r, [statutory |-> met])
    BY <1>2 DEF SaveSubmission
  <2> HIDE DEF met
  <2>3. QED
    BY <1>2, <2>1, <2>2 DEF Gains, Meant, Flag, SaveSubmission, At, HeldAt
<1>3. ASSUME ReadAgeLimit(r) PROVE Gains(r)
  <2>1. PICK v, over : ReadsPolicy(r, "age", v, {MaxAge}, [aged |-> over])
    BY <1>3 DEF ReadAgeLimit
  <2>2. QED
    BY <2>1, PolicyGains DEF HeldAt, PolicyReads
<1>4. ASSUME ReadMarks(r) PROVE Gains(r)
  <2>1. PICK v, total, below :
          ReadsPolicy(r, "marks", v, {WorkCap, PassMark}, [total |-> total, belowPassMark |-> below])
    BY <1>4 DEF ReadMarks
  <2>2. QED
    BY <2>1, PolicyGains DEF HeldAt, PolicyReads
<1>5. ASSUME ReadStanding(r) PROVE Gains(r)
  <2>1. PICK v, meets :
          ReadsPolicy(r, "standing", v, {PassMark, StateBonus, RegionalBonus, MaxAge},
            [meets |-> meets, statutory |-> \E s \in Points!Featured : meets[s]])
    BY <1>5 DEF ReadStanding
  <2> DEFINE met == \E s \in Points!Featured : meets[s]
  <2>2. met \in BOOLEAN
    OBVIOUS
  <2> HIDE DEF met
  <2>3. ReadsPolicy(r, "standing", v, {PassMark, StateBonus, RegionalBonus, MaxAge},
          [meets |-> meets, statutory |-> met])
    BY <2>1 DEF met
  <2>4. QED
    BY <2>2, <2>3, PolicyGains DEF Flag, HeldAt, PolicyReads
<1>6. ASSUME Weigh(r) PROVE Gains(r)
  <2>1. PICK v : ReadsPolicy(r, "weigh", v, {}, [statutory |-> None])
    BY <1>6 DEF Weigh
  <2>2. QED
    BY <2>1, PolicyGains DEF Flag, HeldAt, PolicyReads
<1>7. SaveEdit(r) => Gains(r)
  BY DEF SaveEdit, Gains, Meant, At, HeldAt
<1>8. ASSUME GenerateRef(r) PROVE Gains(r)
  <2>1. PICK drawn \in {r, ClockRef} \cup Drawn : Holds(r, [ref |-> drawn])
    BY <1>8 DEF GenerateRef
  <2>2. Meant(r, [ref |-> drawn])
    BY <1>8 DEF GenerateRef, Meant, At, HeldAt
  <2>3. QED
    BY <2>1, <2>2 DEF Gains
<1>9. CreateOccupation(r) => Gains(r)
  BY DEF CreateOccupation, CatalogueStep, Gains, Meant, At, HeldAt
<1>10. LoadOccupation(r) => Gains(r)
  BY DEF LoadOccupation, CatalogueStep, Gains, Meant, At, HeldAt
<1>11. DropLists(r) => Gains(r)
  BY DEF DropLists, CatalogueStep, Gains, Meant, At, HeldAt
<1>12. SurveyLists(r) => Gains(r)
  BY DEF SurveyLists, CatalogueStep, Gains, Meant, At, HeldAt
<1>13. CompareLinks(r) => Gains(r)
  BY DEF CompareLinks, CatalogueStep, Gains, Meant, At, HeldAt
<1>14. BookSlot(r) => Gains(r)
  BY DEF BookSlot, Touch, Gains, Meant, At, HeldAt
<1>15. CancelSlot(r) => Gains(r)
  BY DEF CancelSlot, Touch, Gains, Meant, At, HeldAt
<1>16. PayCheckout(r) => Gains(r)
  BY DEF PayCheckout, Touch, Gains, Meant, At, HeldAt
<1>17. ReadProspect(r) => Gains(r)
  BY DEF ReadProspect, RefreshStep, Gains, Meant, At, HeldAt
<1>18. ReadBooking(r) => Gains(r)
  BY DEF ReadBooking, RefreshStep, Gains, Meant, At, HeldAt
<1>19. ReadPayment(r) => Gains(r)
  BY DEF ReadPayment, RefreshStep, Gains, Meant, At, HeldAt
<1>20. LookUpSummary(r) => Gains(r)
  BY DEF LookUpSummary, RefreshStep, Gains, Meant, At, HeldAt
<1>21. \/ EnterInstance(r) \/ GetServed(r) \/ FetchPolicy(r) \/ ClearAfterEdit(r)
     \/ InsertProspect(r) \/ PersistSponsor(r) \/ LinkSponsor(r) \/ FindInvite(r)
     \/ KeepInvite(r) \/ CloseExpired(r) \/ AcceptInvite(r) \/ UpsertLists(r) \/ DeleteOccupation(r) \/ ResolveVisas(r)
     \/ Review(r) \/ DeleteSlot(r) \/ OpenCheckout(r) \/ LapseCheckout(r) \/ SaveSummary(r)
     \/ Fails(r) => Gains(r)
  BY DEF Gains, EnterInstance, GetServed, FetchPolicy, ClearAfterEdit, InsertProspect,
         PersistSponsor, LinkSponsor, FindInvite, KeepInvite, CloseExpired, AcceptInvite,
         UpsertLists, DeleteOccupation, ResolveVisas, Review, DeleteSlot,
         OpenCheckout, LapseCheckout, SaveSummary, Fails
<1>22. LookUpInvite(r) => Gains(r)
  BY DEF LookUpInvite, Gains, Meant, At, HeldAt
<1>23. QED
  BY <1>1, <1>2, <1>3, <1>4, <1>5, <1>6, <1>7, <1>8, <1>9, <1>10, <1>11, <1>12, <1>13, <1>14, <1>15, <1>16, <1>17, <1>18, <1>19, <1>20, <1>21, <1>22
     DEF Step, Engine, Creation, Admin, Invitation, Write, Summary

\* What holds of the scripts and of the memory of the requests whatever they do.
Basic ==
  /\ job \in Workloads /\ Domains
  /\ \A r \in Requests :
       /\ todo[r] \in Suffixes(Script(job[r]))
       /\ told[r] \in {"none", "failed", "refused", "reused", "noBook", "canBook", "ok"}
       /\ told[r] # "none" => todo[r] = <<>>
       /\ DOMAIN NoLocal \subseteq DOMAIN local[r]

LEMMA InitBasic == Init => Basic
<1> SUFFICES ASSUME Init PROVE Basic
  OBVIOUS
<1>1. ASSUME NEW j PROVE Script(j) \in Suffixes(Script(j))
  <2>1. Script(j) \in Seq(DOMAIN Phase)
    BY ScriptIs DEF InOrder
  <2>2. CASE Script(j) = <<>>
    BY <2>2 DEF Suffixes
  <2>3. CASE Script(j) # <<>>
    <3>1. 1 \in 1..Len(Script(j)) /\ SubSeq(Script(j), 1, Len(Script(j))) = Script(j)
      BY <2>1, <2>3, EmptySeq, SubSeqFull
    <3>2. QED
      BY <3>1 DEF Suffixes
  <2>4. QED
    BY <2>2, <2>3
<1>2. QED
  BY <1>1 DEF Init, Basic, Domains

\* Every step, of whoever it is, leaves or moves each request.
LEMMA NextMoves ==
  ASSUME Domains, [Next]_vars
  PROVE  /\ \A q \in Requests : Moves(q)
         /\ job' = job /\ DOMAIN todo' = Requests /\ DOMAIN told' = Requests
<1>1. CASE UNCHANGED vars
  BY <1>1 DEF vars, Moves, Domains
<1>2. ASSUME NEW r \in Requests, Step(r) \/ Fails(r)
      PROVE  (\A q \in Requests : Moves(q)) /\ DOMAIN todo' = Requests /\ DOMAIN told' = Requests
  <2>1. CASE Advances(r)
    BY <2>1 DEF Advances, Moves
  <2>2. CASE FetchPolicy(r)
    BY <2>2 DEF FetchPolicy, Moves, Domains
  <2>3. QED
    BY <1>2, <2>1, <2>2, StepAdvances
<1>3. ASSUME NEW i \in Instances, Stops(i)
      PROVE  (\A q \in Requests : Moves(q)) /\ DOMAIN todo' = Requests /\ DOMAIN told' = Requests
  BY <1>3 DEF Stops, Moves, Domains
<1>4. ASSUME NEW i \in Instances, InstanceStarts(i)
      PROVE  (\A q \in Requests : Moves(q)) /\ DOMAIN todo' = Requests /\ DOMAIN told' = Requests
  BY <1>4 DEF InstanceStarts, Moves, Domains
<1>5. ASSUME NEW i \in Instances, InstanceFailsToStart(i)
      PROVE  (\A q \in Requests : Moves(q)) /\ DOMAIN todo' = Requests /\ DOMAIN told' = Requests
  BY <1>5 DEF InstanceFailsToStart, Moves, Domains, At
<1>6. ASSUME NEW t \in DOMAIN invites, InviteFallsDue(t)
      PROVE  (\A q \in Requests : Moves(q)) /\ DOMAIN todo' = Requests /\ DOMAIN told' = Requests
  BY <1>6 DEF InviteFallsDue, Moves, Domains
<1>7. job' = job
  BY Frames DEF vars, Next, Step, Stops, InstanceStarts, InstanceFailsToStart, InviteFallsDue
<1>8. QED
  BY <1>1, <1>2, <1>3, <1>4, <1>5, <1>6, <1>7 DEF Next

\* The memory of the requests: only the one at work changes its own.
OwnMemory(r) ==
  /\ DOMAIN local' = Requests
  /\ \A q \in Requests : DOMAIN NoLocal \subseteq DOMAIN local'[q]
  /\ \A q \in Requests \ {r} : local'[q] = local[q]
  /\ \A x \in DOMAIN NoLocal :
       local'[r][x] # local[r][x] => todo[r] # <<>> /\ Head(todo[r]) \in HeldAt[x]
  /\ local'[r].ref # local[r].ref => At(r, "ref") /\ local'[r].ref \in {r, ClockRef} \cup Drawn
  /\ local'[r].statutory # local[r].statutory => local'[r].statutory \in Flag
  /\ local'[r].fit # local[r].fit => local'[r].fit \in Flag
  /\ local'[r].edition # local[r].edition =>
       At(r, "save") /\ local'[r].edition = table.edition + 1

LEMMA LocalStays ==
  ASSUME Basic, NEW r \in Requests, Gains(r)
  PROVE  OwnMemory(r)
<1>1. CASE local' = local
  BY <1>1 DEF Basic, Domains, OwnMemory
<1>2. ASSUME NEW new, Holds(r, new), Meant(r, new) PROVE OwnMemory(r)
  <2>1. /\ DOMAIN local' = Requests /\ local'[r] = new ++ local[r]
        /\ \A q \in Requests \ {r} : local'[q] = local[q]
    BY <1>2 DEF Holds, Basic, Domains
  <2>2. /\ DOMAIN NoLocal \subseteq DOMAIN local[r]
        /\ \A x \in {"ref", "statutory", "fit", "edition"} : x \in DOMAIN local[r]
    BY DEF Basic, NoLocal
  <2>3. DOMAIN local'[r] = DOMAIN new \cup DOMAIN local[r]
    BY <2>1, Laid
  <2>4. ASSUME NEW x \in DOMAIN NoLocal
        PROVE  local'[r][x] = IF x \in DOMAIN new THEN new[x] ELSE local[r][x]
    <3>1. x \in DOMAIN local[r]
      BY <2>2
    <3>2. (new ++ local[r])[x] = IF x \in DOMAIN new THEN new[x] ELSE local[r][x]
      BY <3>1 DEF ++
    <3>3. QED
      BY <2>1, <3>2
  <2>5. \A q \in Requests : DOMAIN NoLocal \subseteq DOMAIN local'[q]
    BY <2>1, <2>2, <2>3 DEF Basic
  <2>6. \A x \in DOMAIN NoLocal :
          local'[r][x] # local[r][x] => todo[r] # <<>> /\ Head(todo[r]) \in HeldAt[x]
    BY <1>2, <2>4 DEF Meant
  <2>7. {"ref", "statutory", "fit", "edition"} \subseteq DOMAIN NoLocal
    BY DEF NoLocal
  <2>8. QED
    BY <1>2, <2>1, <2>4, <2>5, <2>6, <2>7 DEF Meant, OwnMemory
<1>3. QED
  BY <1>1, <1>2 DEF Gains

\* Whoever comes to hold something has taken the step for it.
LEMMA HeldInTime ==
  ASSUME Basic, [Next]_vars, NEW q \in Requests, NEW x \in DOMAIN NoLocal,
         local'[q][x] # local[q][x]
  PROVE  Step(q) /\ todo[q] # <<>> /\ Head(todo[q]) \in HeldAt[x]
<1>1. ASSUME NEW r \in Requests, Step(r) \/ Fails(r) PROVE r = q /\ Step(r) /\ OwnMemory(r)
  <2>1. OwnMemory(r)
    BY <1>1, StepGains, LocalStays
  <2>2. r = q
    BY <2>1 DEF OwnMemory
  <2>3. ~Fails(r)
    BY <2>2, Frames
  <2>4. QED
    BY <1>1, <2>1, <2>2, <2>3
<1>2. PICK r \in Requests : Step(r) \/ Fails(r)
  BY DEF Next, vars, Stops, InstanceStarts, InstanceFailsToStart, InviteFallsDue
<1>3. QED
  BY <1>1, <1>2 DEF OwnMemory

LEMMA NextBasic ==
  ASSUME Basic, [Next]_vars
  PROVE  Basic'
<1>1. /\ \A q \in Requests : Moves(q)
      /\ job' = job /\ DOMAIN todo' = Requests /\ DOMAIN told' = Requests
  BY NextMoves DEF Basic
<1>2. DOMAIN local' = Requests /\ \A q \in Requests : DOMAIN NoLocal \subseteq DOMAIN local'[q]
  <2>1. ASSUME NEW r \in Requests, Step(r) \/ Fails(r)
        PROVE  DOMAIN local' = Requests /\ \A q \in Requests : DOMAIN NoLocal \subseteq DOMAIN local'[q]
    BY <2>1, StepGains, LocalStays DEF OwnMemory
  <2>2. CASE local' = local
    BY <2>2 DEF Basic, Domains
  <2>3. QED
    BY <2>1, <2>2 DEF Next, vars, Stops, InstanceStarts, InstanceFailsToStart, InviteFallsDue
<1>3. ASSUME NEW r \in Requests
      PROVE  /\ todo'[r] \in Suffixes(Script(job[r]))
             /\ told'[r] \in {"none", "failed", "refused", "reused", "noBook", "canBook", "ok"}
             /\ told'[r] # "none" => todo'[r] = <<>>
  <2>1. InOrder(todo[r]) /\ ToSet(todo[r]) \subseteq ToSet(Script(job[r]))
    BY ScriptIs, SuffixIsRest DEF Basic
  <2>2. Reply(r) \in {"noBook", "canBook", "ok"}
    BY DEF Reply
  <2>3. CASE todo'[r] = todo[r] /\ told'[r] = told[r]
    BY <2>3 DEF Basic
  <2>4. CASE /\ todo[r] # <<>> /\ todo'[r] = Tail(todo[r])
             /\ told'[r] = IF Len(todo[r]) = 1 THEN Reply(r) ELSE told[r]
    <3>1. Tail(todo[r]) \in Suffixes(Script(job[r]))
      BY <2>4, ScriptIs, SuffixIsRest DEF Basic
    <3>2. ASSUME Len(todo[r]) = 1 PROVE Tail(todo[r]) = <<>>
      <4>1. /\ todo[r] \in Seq(DOMAIN Phase) /\ Tail(todo[r]) \in Seq(DOMAIN Phase)
            /\ Len(Tail(todo[r])) = Len(todo[r]) - 1
        BY <2>1, <2>4, HeadTailProperties DEF InOrder
      <4>2. Len(Tail(todo[r])) = 0
        BY <3>2, <4>1
      <4>3. QED
        BY <4>1, <4>2, EmptySeq
    <3>3. told[r] = "none"
      BY <2>4 DEF Basic
    <3>4. QED
      BY <2>2, <2>4, <3>1, <3>2, <3>3
  <2>5. CASE /\ todo[r] # <<>> /\ todo'[r] = Refresh /\ told'[r] = told[r]
             /\ Head(todo[r]) \in {"sponsor", "nominate", "link"}
    <3>1. Head(todo[r]) \in ToSet(Script(job[r]))
      BY <2>1, <2>5, HeadAndTail
    <3>2. Refresh \in Suffixes(Script(job[r]))
      BY <2>5, <3>1, RefreshIsLast
    <3>3. told[r] = "none"
      BY <2>5 DEF Basic
    <3>4. QED
      BY <2>5, <3>2, <3>3
  <2>6. CASE /\ todo[r] # <<>> /\ todo'[r] = <<>>
             /\ \/ told'[r] \in {told[r], "failed", "refused", "reused", "noBook"}
                \/ told'[r] = Reply(r) \/ told'[r] = "ok"
    <3>1. <<>> \in Suffixes(Script(job[r]))
      BY DEF Suffixes
    <3>2. QED
      BY <2>2, <2>6, <3>1 DEF Basic
  <2>7. QED
    BY <1>1, <2>3, <2>4, <2>5, <2>6 DEF Moves
<1>4. QED
  BY <1>1, <1>2, <1>3 DEF Basic, Domains

\* Scripts run in order, an answer ends its request, and nobody holds more than memory has room for.
LEMMA AlwaysBasic == Spec => []Basic
<1>1. Basic /\ [Next]_vars => Basic'
  BY NextBasic
<1>2. QED
  BY InitBasic, <1>1, PTL DEF Spec

-----------------------------------------------------------------------------
(* The steps that are left to a request, as a set *)

Left(r) == ToSet(todo[r])

LEMMA OneIsLast ==
  ASSUME NEW j, NEW s \in Suffixes(Script(j)), Len(s) = 1
  PROVE  s # <<>> /\ Tail(s) = <<>> /\ ToSet(Tail(s)) = {}
<1>1. s \in Seq(DOMAIN Phase)
  BY ScriptIs, SuffixIsRest DEF InOrder
<1>2. s # <<>>
  OBVIOUS
<1>3. Tail(s) \in Seq(DOMAIN Phase) /\ Len(Tail(s)) = 0
  BY <1>1, <1>2, HeadTailProperties
<1>4. Tail(s) = <<>>
  BY <1>3, EmptySeq
<1>5. QED
  BY <1>2, <1>4, ShortScripts

LEMMA StepsLeft ==
  ASSUME NEW j, NEW s \in Suffixes(Script(j))
  PROVE  /\ ToSet(s) \subseteq ToSet(Script(j)) /\ ToSet(s) \subseteq DOMAIN Phase
         /\ s = <<>> => ToSet(s) = {}
         /\ s # <<>> =>
              /\ Head(s) \in ToSet(s)
              /\ \A x \in ToSet(s) \ {Head(s)} : Phase[Head(s)] < Phase[x]
              /\ \A x \in ToSet(Script(j)) : Phase[Head(s)] <= Phase[x] => x \in ToSet(s)
              /\ ToSet(Tail(s)) = ToSet(s) \ {Head(s)}
<1>1. InOrder(Script(j))
  BY ScriptIs
<1>2. InOrder(s) /\ ToSet(s) \subseteq ToSet(Script(j))
  BY <1>1, SuffixIsRest
<1>3. ToSet(s) \subseteq DOMAIN Phase /\ ToSet(Script(j)) \subseteq DOMAIN Phase
  BY <1>1, <1>2, LenProperties DEF InOrder, ToSet
<1>4. s = <<>> => ToSet(s) = {}
  BY ShortScripts
<1>5. ASSUME s # <<>>
      PROVE  /\ Head(s) \in ToSet(s)
             /\ \A x \in ToSet(s) \ {Head(s)} : Phase[Head(s)] < Phase[x]
             /\ ToSet(Tail(s)) = ToSet(s) \ {Head(s)}
  BY <1>2, <1>5, HeadAndTail
<1>6. ASSUME s # <<>>, NEW x \in ToSet(Script(j)), Phase[Head(s)] <= Phase[x]
      PROVE  x \in ToSet(s)
  <2>1. Phase[x] \in Nat /\ Phase[Head(s)] \in Nat
    BY <1>3, <1>5, <1>6 DEF Phase
  <2>2. Phase[x] >= Phase[Head(s)]
    BY <1>6, <2>1
  <2>3. QED
    BY <1>1, <1>6, <2>2, SuffixIsRest
<1>7. QED
  BY <1>2, <1>3, <1>4, <1>5, <1>6

LEMMA HeadIsFirst ==
  ASSUME Basic, NEW r \in Requests
  PROVE  /\ Left(r) \subseteq ToSet(Script(job[r])) /\ Left(r) \subseteq DOMAIN Phase
         /\ todo[r] = <<>> => Left(r) = {}
         /\ todo[r] # <<>> =>
              /\ Head(todo[r]) \in Left(r)
              /\ \A x \in Left(r) \ {Head(todo[r])} : Phase[Head(todo[r])] < Phase[x]
              /\ \A x \in ToSet(Script(job[r])) : Phase[Head(todo[r])] <= Phase[x] => x \in Left(r)
              /\ ToSet(Tail(todo[r])) = Left(r) \ {Head(todo[r])}
  BY StepsLeft DEF Basic, Left

\* A request that moves has fewer steps left: it has done the one at hand, passes over the
\* sponsorship, or has none.
LEMMA LeftMoves ==
  ASSUME Basic, NEW r \in Requests, Moves(r)
  PROVE  LET left == ToSet(todo'[r]) IN
         \/ todo'[r] = todo[r] /\ left = Left(r)
         \/ todo[r] # <<>> /\ todo'[r] = Tail(todo[r]) /\ left = Left(r) \ {Head(todo[r])}
         \/ /\ todo[r] # <<>> /\ todo'[r] = Refresh
            /\ left = AllOfRefresh /\ AllOfRefresh \subseteq Left(r) /\ Kind(r) = "prescreen"
            /\ Head(todo[r]) \in {"sponsor", "nominate", "link"}
         \/ todo'[r] = <<>> /\ left = {}
<1>1. CASE todo'[r] = todo[r]
  BY <1>1 DEF Left
<1>2. CASE todo[r] # <<>> /\ todo'[r] = Tail(todo[r])
  BY <1>2, HeadIsFirst
<1>3. CASE /\ todo[r] # <<>> /\ todo'[r] = Refresh
           /\ Head(todo[r]) \in {"sponsor", "nominate", "link"}
  <2>1. Head(todo[r]) \in ToSet(Script(job[r]))
    BY <1>3, HeadIsFirst
  <2>2. Kind(r) = "prescreen"
    BY <1>3, <2>1, RefreshIsLast DEF Kind
  <2>3. AllOfRefresh \subseteq ToSet(Script(job[r]))
    BY <2>2, ScriptIs DEF WorkSteps, Kind
  <2>4. \A x \in AllOfRefresh : Phase[Head(todo[r])] <= Phase[x]
    BY <1>3 DEF AllOfRefresh, Phase
  <2>5. AllOfRefresh \subseteq Left(r)
    BY <1>3, <2>3, <2>4, HeadIsFirst
  <2>6. QED
    BY <1>3, <2>2, <2>5, RefreshIs
<1>4. CASE todo'[r] = <<>>
  BY <1>4, ShortScripts
<1>5. QED
  BY <1>1, <1>2, <1>3, <1>4 DEF Moves

\* The group of an action by the step at hand.
LEMMA GroupSteps ==
  ASSUME NEW r \in Requests
  PROVE  /\ Step(r) \/ Fails(r) => todo[r] # <<>>
         /\ EnterInstance(r) => At(r, "enter")
         /\ GetServed(r) => At(r, "await")
         /\ Engine(r) =>
              Head(todo[r]) \in {"assess", "submission", "age", "marks", "standing", "weigh", "save",
                                 "clear"}
         /\ Creation(r) => Head(todo[r]) \in {"ref", "insert", "sponsor", "nominate", "link"}
         /\ Admin(r) =>
              Head(todo[r]) \in {"add", "upsert", "remove", "load", "drop", "survey", "compare",
                                 "resolve"}
         /\ Invitation(r) => Head(todo[r]) \in {"find", "keep", "lookup", "expiry", "accept"}
         /\ Write(r) => At(r, "write")
         /\ Summary(r) => Head(todo[r]) \in AllOfRefresh
<1> USE DEF At
<1>1. EnterInstance(r) => At(r, "enter")
  BY DEF EnterInstance
<1>2. GetServed(r) => At(r, "await")
  BY DEF GetServed
<1>3. Engine(r) =>
        /\ todo[r] # <<>>
        /\ Head(todo[r]) \in {"assess", "submission", "age", "marks", "standing", "weigh", "save",
                              "clear"}
  BY DEF Engine, AssessPreScreen, SaveSubmission, FetchPolicy, ReadAgeLimit, ReadMarks,
         ReadStanding, Weigh, ReadsPolicy, SaveEdit, ClearAfterEdit, PolicyReads
<1>4. Creation(r) =>
        todo[r] # <<>> /\ Head(todo[r]) \in {"ref", "insert", "sponsor", "nominate", "link"}
  BY DEF Creation, GenerateRef, InsertProspect, PersistSponsor, LinkSponsor
<1>5. Admin(r) =>
        /\ todo[r] # <<>>
        /\ Head(todo[r]) \in {"add", "upsert", "remove", "load", "drop", "survey", "compare",
                              "resolve"}
  BY DEF Admin, CatalogueStep, CreateOccupation, UpsertLists, DeleteOccupation, LoadOccupation,
         DropLists, SurveyLists, CompareLinks, ResolveVisas
<1>6. Invitation(r) =>
        todo[r] # <<>> /\ Head(todo[r]) \in {"find", "keep", "lookup", "expiry", "accept"}
  BY DEF Invitation, FindInvite, KeepInvite, LookUpInvite, CloseExpired, AcceptInvite
<1>7. Write(r) => At(r, "write")
  BY DEF Write, Touch, Review, BookSlot, CancelSlot, DeleteSlot, OpenCheckout, LapseCheckout,
         PayCheckout
<1>8. Summary(r) => todo[r] # <<>> /\ Head(todo[r]) \in AllOfRefresh
  BY DEF Summary, RefreshStep, ReadProspect, ReadBooking, ReadPayment, LookUpSummary, SaveSummary,
         AllOfRefresh
<1>9. Fails(r) => todo[r] # <<>>
  BY DEF Fails
<1>10. QED
  BY <1>1, <1>2, <1>3, <1>4, <1>5, <1>6, <1>7, <1>8, <1>9 DEF Step

\* A request that goes on has taken a step itself.
LEMMA GoesItself ==
  ASSUME Domains, [Next]_vars, NEW q \in Requests, todo'[q] # todo[q], todo'[q] # <<>>
  PROVE  Step(q) \/ Fails(q)
<1>1. ASSUME NEW r \in Requests, Step(r) \/ Fails(r), r # q PROVE FALSE
  BY <1>1, StepAdvances DEF Advances, FetchPolicy
<1>2. QED
  BY <1>1 DEF Next, vars, Domains, Stops, InstanceStarts, InstanceFailsToStart, InviteFallsDue

-----------------------------------------------------------------------------
(* The entry of an instance *)

Boots ==
  /\ bootstrapPromise \in [Instances -> {"null", "pending", "fulfilled"}]
  /\ DOMAIN built = Instances
  /\ \A i \in Instances : built[i] = IF bootstrapPromise[i] = "null" THEN 0 ELSE 1
  /\ \A r \in Requests : At(r, "await") => bootstrapPromise[job[r].on] # "null"

LEMMA EntryIsCold ==
  ASSUME NEW j, NEW s \in Suffixes(Script(j)), s # <<>>, Head(s) \in {"enter", "await"}
  PROVE  j.on \in Instances
<1>1. Head(s) \in ToSet(Script(j))
  BY StepsLeft
<1>2. j.on \in Cold
  BY <1>1, ScriptIs, SyncIs DEF WorkSteps, Touches, SponsorshipSteps, AllOfRefresh
<1>3. QED
  BY <1>2, ColdInstances

LEMMA InitBoots == Init => Boots
<1> SUFFICES ASSUME Init PROVE Boots
  OBVIOUS
<1>1. ASSUME NEW r \in Requests PROVE ~At(r, "await")
  <2>1. todo[r] = Script(job[r]) /\ InOrder(Script(job[r]))
    BY ScriptIs DEF Init
  <2>2. CASE job[r].on \in Cold
    <3>1. "enter" \in ToSet(Script(job[r]))
      BY <2>2, ScriptIs
    <3>2. At(r, "await") => "enter" \in ToSet(Tail(todo[r]))
      BY <2>1, <3>1, HeadAndTail DEF At
    <3>3. At(r, "await") => Phase["await"] < Phase["enter"]
      BY <2>1, <3>2, HeadAndTail DEF At
    <3>4. QED
      BY <3>3 DEF Phase
  <2>3. CASE job[r].on \notin Cold
    <3>1. "await" \notin ToSet(Script(job[r]))
      BY <2>3, ScriptIs, SyncIs DEF WorkSteps, Touches, SponsorshipSteps, AllOfRefresh
    <3>2. QED
      BY <2>1, <3>1, HeadAndTail DEF At
  <2>4. QED
    BY <2>2, <2>3
<1>2. QED
  BY <1>1 DEF Init, BootInit, Boots

LEMMA NextBoots ==
  ASSUME Basic, Basic', Boots, [Next]_vars
  PROVE  Boots'
<1>1. /\ bootstrapPromise' \in [Instances -> {"null", "pending", "fulfilled"}]
      /\ DOMAIN built' = Instances
      /\ \A i \in Instances : built'[i] = IF bootstrapPromise'[i] = "null" THEN 0 ELSE 1
  <2>1. CASE UNCHANGED bootVars
    BY <2>1 DEF Boots, bootVars
  <2>2. ASSUME NEW r \in Requests, EnterInstance(r) PROVE <1>1!1 /\ <1>1!2 /\ <1>1!3
    BY <2>2 DEF Boots, EnterInstance, Enter, Bootstrap, bootVars
  <2>3. ASSUME NEW i \in Instances, InstanceStarts(i) \/ InstanceFailsToStart(i) \/ Stops(i)
        PROVE <1>1!1 /\ <1>1!2 /\ <1>1!3
    BY <2>3 DEF Boots, InstanceStarts, InstanceFailsToStart, Stops, BootSucceeds, BootFails, Recycle
  <2>4. QED
    BY <2>1, <2>2, <2>3, Frames DEF Next, Step, vars, config, InviteFallsDue, GetServed
<1>2. ASSUME NEW q \in Requests, todo'[q] # <<>>, Head(todo'[q]) = "await"
      PROVE  bootstrapPromise'[job[q].on] # "null"
  <2>1. job[q].on \in Instances /\ job' = job
    BY <1>2, EntryIsCold, NextMoves DEF Basic
  <2>2. CASE todo'[q] = todo[q]
    <3>1. bootstrapPromise[job[q].on] # "null"
      BY <1>2, <2>2 DEF Boots, At
    <3>2. CASE UNCHANGED bootVars
      BY <3>1, <3>2 DEF bootVars
    <3>3. ASSUME NEW r \in Requests, EnterInstance(r) PROVE bootstrapPromise'[job[q].on] # "null"
      BY <2>1, <3>1, <3>3 DEF Boots, EnterInstance, Enter, Bootstrap, bootVars
    <3>4. ASSUME NEW i \in Instances, InstanceStarts(i) PROVE bootstrapPromise'[job[q].on] # "null"
      BY <2>1, <3>1, <3>4 DEF Boots, InstanceStarts, BootSucceeds
    <3>5. ASSUME NEW i \in Instances, InstanceFailsToStart(i)
          PROVE  bootstrapPromise'[job[q].on] # "null"
      <4>1. job[q].on # i
        BY <1>2, <2>2, <3>5 DEF InstanceFailsToStart, On, At
      <4>2. QED
        BY <2>1, <3>1, <3>5, <4>1 DEF Boots, InstanceFailsToStart, BootFails
    <3>6. ASSUME NEW i \in Instances, Stops(i) PROVE bootstrapPromise'[job[q].on] # "null"
      <4>1. job[q].on # i
        BY <1>2, <2>2, <3>6 DEF Stops, On
      <4>2. QED
        BY <2>1, <3>1, <3>6, <4>1 DEF Boots, Stops, Recycle
    <3>7. QED
      BY <3>2, <3>3, <3>4, <3>5, <3>6, Frames DEF Next, Step, vars, config, InviteFallsDue, GetServed
  <2>3. CASE todo'[q] # todo[q]
    <3>1. Step(q) \/ Fails(q)
      BY <1>2, <2>3, GoesItself DEF Basic
    <3>2. Head(todo'[q]) \in ToSet(todo'[q])
      BY <1>2, <2>1, StepsLeft DEF Basic
    <3>3. "await" \in Left(q) /\ Head(todo[q]) # "await" /\ todo[q] # <<>>
      BY <1>2, <2>3, <3>2, LeftMoves, NextMoves DEF Basic, AllOfRefresh
    <3>4. Phase[Head(todo[q])] < Phase["await"] /\ Head(todo[q]) \in DOMAIN Phase
      BY <3>3, HeadIsFirst
    <3>5. Head(todo[q]) = "enter"
      BY <3>4 DEF Phase
    <3>6. EnterInstance(q)
      <4>1. ~Fails(q)
        <5>1. ToSet(Entry) = {"enter", "await"}
          BY ShortScripts DEF Entry, Phase
        <5>2. QED
          BY <3>5, <5>1 DEF Fails
      <4>2. QED
        BY <3>1, <3>5, <4>1, GroupSteps DEF Step, At, AllOfRefresh
    <3>7. QED
      BY <2>1, <3>6 DEF EnterInstance, Enter, Bootstrap, Boots, bootVars
  <2>4. QED
    BY <2>2, <2>3
<1>3. job' = job
  BY NextMoves DEF Basic
<1>4. QED
  BY <1>1, <1>2, <1>3 DEF Boots, At

\* However many requests meet a cold instance, and however its starts fail and it is stopped,
\* one application at a time is built on its server, and whoever waits for the start waits
\* for one that is still to end (api/index.ts).
THEOREM OneStart == Spec => []OneApplication
<1>1. Boots => OneApplication
  BY DEF Boots, OneApplication
<1>2. Basic /\ Basic' /\ Boots /\ [Next]_vars => Boots'
  BY NextBoots
<1>3. QED
  BY InitBoots, AlwaysBasic, <1>1, <1>2, PTL DEF Spec

-----------------------------------------------------------------------------
(* The policy cache of an instance *)

\* Nothing that an instance has, or has asked for, is older than what was published to it.
Editions ==
  /\ table.edition \in Nat
  /\ cache = [i \in Instances |-> cache[i]] /\ fetched = [r \in Readers |-> fetched[r]]
  /\ published \in [Instances -> Nat]
  /\ \A i \in Instances :
       /\ published[i] <= table.edition
       /\ cache[i] # None => cache[i].edition \in Nat /\ cache[i].edition <= table.edition
                               /\ published[i] <= cache[i].edition
  /\ \A r \in Requests :
       /\ local[r].edition \in Nat /\ local[r].edition <= table.edition
       /\ fetched[r] # None =>
            /\ fetched[r].edition \in Nat /\ fetched[r].edition <= table.edition
            /\ job[r].on \in Instances => published[job[r].on] <= fetched[r].edition

LEMMA InitEditions == Init => Editions
  BY RequestsRead DEF Init, PolicyInit, Editions, NoLocal

\* The actions that touch the rows or the cache, and the one that starts an edit.
LEMMA PolicySteps ==
  ASSUME Basic, NEW r \in Requests, Step(r) \/ Fails(r)
  PROVE  /\ \/ UNCHANGED policyVars
            \/ FetchPolicy(r) \/ SaveEdit(r) \/ ClearAfterEdit(r)
            \/ \E v : Reads(r, job[r].on, v)
         /\ SaveEdit(r) \/ \A q \in Requests : local'[q].edition = local[q].edition
<1>1. \/ UNCHANGED policyVars
      \/ FetchPolicy(r) \/ SaveEdit(r) \/ ClearAfterEdit(r)
      \/ \E v : Reads(r, job[r].on, v)
  <2>1. Engine(r) =>
          \/ UNCHANGED policyVars
          \/ FetchPolicy(r) \/ SaveEdit(r) \/ ClearAfterEdit(r)
          \/ \E v : Reads(r, job[r].on, v)
    BY DEF Engine, AssessPreScreen, SaveSubmission, ReadAgeLimit, ReadMarks, ReadStanding, Weigh,
           ReadsPolicy, config
  <2>2. QED
    BY <2>1, Frames DEF Step, config
<1>2. ASSUME ~SaveEdit(r) PROVE \A q \in Requests : local'[q].edition = local[q].edition
  <2>1. CASE At(r, "save")
    <3>1. Engine(r) => SaveEdit(r)
      BY <2>1 DEF Engine, AssessPreScreen, SaveSubmission, FetchPolicy, ReadAgeLimit, ReadMarks,
                  ReadStanding, Weigh, ReadsPolicy, ClearAfterEdit, PolicyReads, At
    <3>2. Fails(r)
      BY <1>2, <2>1, <3>1, GroupSteps DEF Step, At, AllOfRefresh
    <3>3. QED
      BY <3>2, Frames
  <2>2. CASE ~At(r, "save")
    BY <2>2, StepGains, LocalStays DEF OwnMemory
  <2>3. QED
    BY <2>1, <2>2
<1>3. QED
  BY <1>1, <1>2

LEMMA NextEditions ==
  ASSUME Basic, Editions, [Next]_vars
  PROVE  Editions'
<1>1. job' = job
  BY NextMoves DEF Basic
<1>2. CASE UNCHANGED policyVars /\ \A q \in Requests : local'[q].edition = local[q].edition
  BY <1>1, <1>2 DEF policyVars, Editions
<1>3. ASSUME NEW r \in Requests, Step(r) \/ Fails(r) PROVE Editions'
  <2>1. CASE FetchPolicy(r)
    <3>1. local' = local
      BY <2>1 DEF FetchPolicy
    <3>2. /\ UNCHANGED <<table, cache, published>> /\ fetched' = [q \in Readers |-> fetched'[q]]
          /\ \A q \in Requests : fetched'[q] \in {fetched[q], table}
      BY <2>1, RequestsRead DEF FetchPolicy, Fetch, Editions
    <3>3. QED
      BY <1>1, <3>1, <3>2 DEF Editions
  <2>2. CASE SaveEdit(r)
    <3>1. CASE UNCHANGED <<local, policyVars>>
      BY <1>2, <3>1
    <3>2. CASE SaveRow(job[r].key, job[r].value) /\ Holds(r, [edition |-> table.edition + 1])
      <4>1. \A q \in Requests : local'[q].edition \in {local[q].edition, table.edition + 1}
        BY <1>3, StepGains, LocalStays DEF OwnMemory
      <4>2. /\ table'.edition = table.edition + 1
            /\ UNCHANGED <<cache, fetched, published>>
        BY <3>2 DEF SaveRow
      <4>3. QED
        BY <1>1, <4>1, <4>2 DEF Editions
    <3>3. QED
      BY <2>2, <3>1, <3>2 DEF SaveEdit
  <2>3. CASE ClearAfterEdit(r)
    <3>1. local' = local /\ ClearCache(job[r].on, local[r].edition, On(job[r].on))
      BY <2>3 DEF ClearAfterEdit
    <3>2. /\ UNCHANGED <<table, fetched>> /\ cache' = [i \in Instances |-> cache'[i]]
          /\ \A i \in Instances : cache'[i] = IF i = job[r].on THEN None ELSE cache[i]
      BY <3>1 DEF ClearCache, Editions
    <3>3. /\ published' \in [Instances -> Nat]
          /\ \A i \in Instances :
               \/ published'[i] = published[i]
               \/ /\ published'[i] = local[r].edition /\ i = job[r].on
                  /\ \A q \in Requests : job[q].on = i /\ fetched[q] # None =>
                       ~(fetched[q].edition < local[r].edition)
      <4> DEFINE older == \E q \in On(job[r].on) :
                            fetched[q] # None /\ fetched[q].edition < local[r].edition
      <4>1. CASE older
        <5>1. published' = [published EXCEPT ![job[r].on] = published[job[r].on]]
          BY <3>1, <4>1 DEF ClearCache
        <5>2. QED
          BY <5>1 DEF Editions
      <4>2. CASE ~older
        <5>1. published' = [published EXCEPT ![job[r].on] = local[r].edition]
          BY <3>1, <4>2 DEF ClearCache
        <5>2. \A q \in Requests : job[q].on = job[r].on /\ fetched[q] # None =>
                ~(fetched[q].edition < local[r].edition)
          BY <4>2 DEF On
        <5>3. published' \in [Instances -> Nat]
          BY <5>1 DEF Editions
        <5>4. \A i \in Instances :
                published'[i] = IF i = job[r].on THEN local[r].edition ELSE published[i]
          BY <5>1 DEF Editions
        <5>5. QED
          BY <5>2, <5>3, <5>4
      <4>3. QED
        BY <4>1, <4>2
    <3>4. ASSUME NEW i \in Instances
          PROVE  /\ published'[i] <= table.edition
                 /\ cache'[i] # None => cache'[i].edition \in Nat /\ cache'[i].edition <= table.edition
                                         /\ published'[i] <= cache'[i].edition
      BY <3>2, <3>3 DEF Editions
    <3>5. ASSUME NEW q \in Requests, fetched[q] # None, job[q].on \in Instances
          PROVE  published'[job[q].on] <= fetched[q].edition
      BY <3>3, <3>5 DEF Editions
    <3>6. QED
      BY <1>1, <3>1, <3>2, <3>3, <3>4, <3>5 DEF Editions
  <2>4. ASSUME NEW v, Reads(r, job[r].on, v), ~SaveEdit(r) PROVE Editions'
    <3>1. \A q \in Requests : local'[q].edition = local[q].edition
      BY <1>3, <2>4, PolicySteps
    <3>2. UNCHANGED <<table, published>>
      BY <2>4 DEF Reads
    <3>3. CASE UNCHANGED <<cache, fetched>>
      BY <1>1, <3>1, <3>2, <3>3 DEF Editions
    <3>4. CASE fetched[r] # None /\ v = fetched[r] /\ cache' = [cache EXCEPT ![job[r].on] = v]
               /\ fetched' = [fetched EXCEPT ![r] = None]
      <4>1. /\ cache' = [i \in Instances |-> cache'[i]] /\ fetched' = [q \in Readers |-> fetched'[q]]
            /\ \A q \in Requests : fetched'[q] \in {fetched[q], None}
            /\ \A i \in Instances : cache'[i] = IF i = job[r].on THEN fetched[r] ELSE cache[i]
        BY <3>4, RequestsRead DEF Editions
      <4>2. QED
        BY <1>1, <3>1, <3>2, <3>4, <4>1 DEF Editions
    <3>5. QED
      BY <2>4, <3>3, <3>4 DEF Reads
  <2>5. QED
    BY <1>2, <1>3, <2>1, <2>2, <2>3, <2>4, PolicySteps
<1>4. ASSUME NEW i \in Instances, Stops(i) PROVE Editions'
  BY <1>1, <1>4, RequestsRead DEF Stops, Restart, On, Editions
<1>5. QED
  BY <1>2, <1>3, <1>4
     DEF Next, vars, config, policyVars, InstanceStarts, InstanceFailsToStart, InviteFallsDue

\* Once an edit has dropped the cache of its instance, with no older query on its way, that
\* instance never works with the rows from before the edit again (PolicyConfigService),
\* however many edits, readers and restarts there are.
THEOREM EditsTakeEffect == Spec => []EditTakesEffect
<1>1. Editions => EditTakesEffect
  BY DEF Editions, EditTakesEffect
<1>2. Basic /\ Editions /\ [Next]_vars => Editions'
  BY NextEditions
<1>3. QED
  BY InitEditions, AlwaysBasic, <1>1, <1>2, PTL DEF Spec

-----------------------------------------------------------------------------
(* Prospects on record *)

\* A step that throws ends its request, or takes a pre-screen to its refresh.
LEMMA ThrowsEnds ==
  ASSUME Domains, NEW r \in Requests, Throws(r)
  PROVE  \/ todo'[r] = <<>>
         \/ Head(todo[r]) \in {"sponsor", "nominate", "link"} /\ todo'[r] = Refresh
<1>1. CASE Head(todo[r]) \in AllOfRefresh
  BY <1>1, RefreshIs DEF Throws, Ends, Domains, AllOfRefresh
<1>2. CASE Head(todo[r]) \in {"sponsor", "nominate", "link"}
  BY <1>2, RefreshIs DEF Throws, Domains, AllOfRefresh
<1>3. CASE Head(todo[r]) \notin AllOfRefresh \cup {"sponsor", "nominate", "link"}
  BY <1>3, RefreshIs DEF Throws, Ends, Domains, AllOfRefresh
<1>4. QED
  BY <1>1, <1>2, <1>3

LEMMA ProspectSteps ==
  ASSUME [Next]_vars
  PROVE  \/ prospects' = prospects
         \/ \E r \in Requests :
              \/ /\ At(r, "insert") /\ Goes(r)
                 /\ prospects' = prospects ++ [p \in {r} |-> [ref |-> local[r].ref, sponsor |-> None,
                      statutory |-> local[r].statutory, fit |-> local[r].fit]]
              \/ LinkSponsor(r)
              \/ Review(r)
<1>1. ASSUME NEW r \in Requests, Creation(r)
      PROVE  \/ prospects' = prospects
             \/ /\ At(r, "insert") /\ Goes(r)
                /\ prospects' = prospects ++ [p \in {r} |-> [ref |-> local[r].ref, sponsor |-> None,
                     statutory |-> local[r].statutory, fit |-> local[r].fit]]
             \/ LinkSponsor(r)
  BY <1>1 DEF Creation, GenerateRef, InsertProspect, PersistSponsor, rows
<1>2. ASSUME NEW r \in Requests, Write(r) PROVE prospects' = prospects \/ Review(r)
  BY <1>2 DEF Write, BookSlot, CancelSlot, DeleteSlot, OpenCheckout, LapseCheckout, PayCheckout
<1>3. ASSUME NEW r \in Requests,
             Engine(r) \/ Admin(r) \/ Invitation(r) \/ Summary(r) \/ EnterInstance(r) \/ GetServed(r)
               \/ Fails(r)
      PROVE  prospects' = prospects
  BY <1>3, Frames DEF rows
<1>4. QED
  BY <1>1, <1>2, <1>3
     DEF Next, Step, vars, rows, Stops, InstanceStarts, InstanceFailsToStart, InviteFallsDue

LEMMA ProspectsStay ==
  ASSUME [Next]_vars
  PROVE  DOMAIN prospects \subseteq DOMAIN prospects'
<1>1. \A r \in Requests : LinkSponsor(r) \/ Review(r) => DOMAIN prospects' = DOMAIN prospects
  BY DEF LinkSponsor, Review
<1>2. QED
  BY <1>1, ProspectSteps DEF ++

\* A request that goes over an insertion has inserted its prospect, and one that goes over a
\* write has found one.
LEMMA GoesOnRecord ==
  ASSUME Basic, [Next]_vars, NEW q \in Requests, todo'[q] # todo[q], todo'[q] # <<>>,
         Head(todo[q]) \in {"insert", "write"}
  PROVE  (IF Head(todo[q]) = "insert" THEN q ELSE Target(q)) \in DOMAIN prospects'
<1>1. todo[q] # <<>> /\ Step(q) /\ (~Throws(q))
  <2>1. Step(q) \/ Fails(q)
    BY GoesItself DEF Basic
  <2>2. ~Throws(q)
    BY ThrowsEnds DEF Basic
  <2>3. QED
    BY <2>1, <2>2, GroupSteps DEF Fails
<1>2. CASE Head(todo[q]) = "insert"
  <2>1. Creation(q)
    BY <1>1, <1>2, GroupSteps DEF Step, At, AllOfRefresh
  <2>2. InsertProspect(q)
    BY <1>2, <2>1 DEF Creation, GenerateRef, PersistSponsor, LinkSponsor, At
  <2>3. QED
    BY <1>1, <1>2, <2>2 DEF InsertProspect, ++
<1>3. CASE Head(todo[q]) = "write"
  <2>1. Write(q)
    BY <1>1, <1>3, GroupSteps DEF Step, At, AllOfRefresh
  <2>2. Target(q) \in DOMAIN prospects
    BY <2>1 DEF Write, Touch, Review, BookSlot, CancelSlot, DeleteSlot, OpenCheckout, LapseCheckout,
                PayCheckout
  <2>3. QED
    BY <1>3, <2>2, ProspectsStay
<1>4. QED
  BY <1>2, <1>3

\* Whoever has neither an insertion nor a write before it works for a prospect on record.
OnRecord ==
  /\ \A r \in Requests :
       todo[r] # <<>> /\ Kind(r) \in Creators \cup Touches
         /\ "insert" \notin Left(r) /\ "write" \notin Left(r)
         => Target(r) \in DOMAIN prospects
  /\ BookableIsOnRecord

LEMMA InitOnRecord == Init => OnRecord
<1> SUFFICES ASSUME Init PROVE OnRecord
  OBVIOUS
<1>1. ASSUME NEW r \in Requests, Kind(r) \in Creators \cup Touches
      PROVE  "insert" \in Left(r) \/ "write" \in Left(r)
  <2>1. Left(r) = (IF job[r].on \in Cold THEN {"enter", "await"} ELSE {}) \cup WorkSteps(job[r])
    BY ScriptIs DEF Init, Left
  <2>2. QED
    BY <1>1, <2>1 DEF WorkSteps, Kind, Creators, Quizzes, Touches
<1>2. \A r \in Requests : told[r] # "canBook"
  BY DEF Init
<1>3. QED
  BY <1>1, <1>2 DEF OnRecord, BookableIsOnRecord

LEMMA NextOnRecord ==
  ASSUME Basic, OnRecord, [Next]_vars
  PROVE  OnRecord'
<1>1. /\ DOMAIN prospects \subseteq DOMAIN prospects' /\ job' = job
      /\ \A q \in Requests : Moves(q) /\ Kind(q)' = Kind(q) /\ Target(q)' = Target(q)
  BY ProspectsStay, NextMoves DEF Basic, Kind, Target
<1>2. ASSUME NEW q \in Requests, todo'[q] # <<>>, Kind(q) \in Creators \cup Touches,
             "insert" \notin ToSet(todo'[q]), "write" \notin ToSet(todo'[q])
      PROVE  Target(q) \in DOMAIN prospects'
  <2>1. CASE /\ todo[q] # <<>> /\ "insert" \notin Left(q) /\ "write" \notin Left(q)
    BY <1>1, <1>2, <2>1 DEF OnRecord
  <2>2. CASE todo'[q] = todo[q]
    BY <1>2, <2>1, <2>2 DEF Left
  <2>3. CASE /\ todo[q] # <<>> /\ todo'[q] = Tail(todo[q]) /\ todo'[q] # todo[q]
             /\ ToSet(todo'[q]) = Left(q) \ {Head(todo[q])}
             /\ Head(todo[q]) \in {"insert", "write"}
    <3>1. Head(todo[q]) \in ToSet(Script(job[q]))
      BY <2>3, HeadIsFirst
    <3>2. Head(todo[q]) = "insert" => Kind(q) \in Creators
      BY <3>1, ScriptIs, SyncIs DEF WorkSteps, Kind, Creators, Quizzes, Touches, AllOfRefresh
    <3>3. QED
      BY <1>2, <2>3, <3>2, GoesOnRecord DEF Target
  <2>4. CASE /\ todo[q] # <<>> /\ todo'[q] = Refresh
             /\ Head(todo[q]) \in {"sponsor", "nominate", "link"}
    <3>1. "insert" \notin Left(q) /\ "write" \notin Left(q)
      BY <2>4, HeadIsFirst DEF Phase
    <3>2. QED
      BY <2>1, <2>4, <3>1
  <2>5. QED
    BY <1>1, <1>2, <2>1, <2>2, <2>3, <2>4, LeftMoves
<1>3. ASSUME NEW q \in Requests, told'[q] = "canBook" PROVE q \in DOMAIN prospects'
  <2>1. CASE told[q] = "canBook"
    BY <1>1, <2>1 DEF OnRecord, BookableIsOnRecord
  <2>2. CASE /\ told'[q] = Reply(q) /\ todo[q] # <<>>
             /\ Head(todo[q]) \in AllOfRefresh \/ Len(todo[q]) = 1
    <3>1. Kind(q) \in Quizzes
      BY <1>3, <2>2 DEF Reply
    <3>2. "merge" \in Left(q)
      <4>1. "merge" \in ToSet(Script(job[q]))
        BY <3>1, ScriptIs DEF WorkSteps, Kind, Quizzes, Touches, AllOfRefresh
      <4>2. Phase[Head(todo[q])] <= Phase["merge"]
        BY <2>2, HeadIsFirst DEF Phase
      <4>3. QED
        BY <2>2, <4>1, <4>2, HeadIsFirst
    <3>3. Len(todo[q]) = 1 => Left(q) = {Head(todo[q])}
      BY HeadIsFirst, OneIsLast DEF Basic
    <3>4. Head(todo[q]) \in AllOfRefresh
      BY <2>2, <3>2, <3>3 DEF AllOfRefresh
    <3>5. "insert" \notin Left(q) /\ "write" \notin Left(q)
      BY <2>2, <3>4, HeadIsFirst DEF Phase, AllOfRefresh
    <3>6. QED
      BY <1>1, <2>2, <3>1, <3>5 DEF OnRecord, Target, Creators
  <2>3. QED
    BY <1>1, <1>3, <2>1, <2>2 DEF Moves
<1>4. ASSUME NEW q \in Requests
      PROVE  todo'[q] # <<>> /\ Kind(q)' \in Creators \cup Touches
               /\ "insert" \notin Left(q)' /\ "write" \notin Left(q)'
               => Target(q)' \in DOMAIN prospects'
  BY <1>1, <1>2 DEF Left
<1>5. QED
  BY <1>3, <1>4 DEF OnRecord, BookableIsOnRecord

\* Nobody is offered a consultation without a prospect the booking can be attached to, however
\* the insertions of the others and the failures fall (ProspectService.createProspect and the
\* quizzes that call it).
THEOREM BookableOnRecord == Spec => []BookableIsOnRecord
<1>1. OnRecord => BookableIsOnRecord
  BY DEF OnRecord
<1>2. Basic /\ OnRecord /\ [Next]_vars => OnRecord'
  BY NextOnRecord
<1>3. QED
  BY InitOnRecord, AlwaysBasic, <1>1, <1>2, PTL DEF Spec

-----------------------------------------------------------------------------
(* What a prospect is created from *)

\* Whoever has drawn its reference, and has still to insert its prospect, holds one.
Memory ==
  \A r \in Requests :
    /\ local[r].ref \in Requests \cup {ClockRef, None}
    /\ local[r].statutory \in Flag /\ local[r].fit \in Flag
    /\ "insert" \in Left(r) /\ "ref" \notin Left(r) => local[r].ref \in Requests \cup {ClockRef}

LEMMA InitMemory == Init => Memory
<1> SUFFICES ASSUME Init PROVE Memory
  OBVIOUS
<1>1. ASSUME NEW r \in Requests, "insert" \in Left(r) PROVE "ref" \in Left(r)
  <2>1. Left(r) = (IF job[r].on \in Cold THEN {"enter", "await"} ELSE {}) \cup WorkSteps(job[r])
    BY ScriptIs DEF Init, Left
  <2>2. QED
    BY <1>1, <2>1, SyncIs DEF WorkSteps, SponsorshipSteps, Touches, AllOfRefresh
<1>2. \A r \in Requests : local[r].ref = None /\ local[r].statutory = None /\ local[r].fit = None
  BY DEF Init, NoLocal
<1>3. QED
  BY <1>1, <1>2 DEF Memory, Flag

LEMMA NextMemory ==
  ASSUME Basic, Memory, [Next]_vars
  PROVE  Memory'
<1>1. \A q \in Requests : Moves(q)
  BY NextMoves DEF Basic
<1>2. Drawn \subseteq Requests
  BY DEF Drawn, Memory
<1>3. ASSUME NEW q \in Requests
      PROVE  /\ local'[q].ref \in Requests \cup {ClockRef, None}
             /\ local'[q].statutory \in Flag /\ local'[q].fit \in Flag
             /\ local[q].ref \in Requests \cup {ClockRef} => local'[q].ref \in Requests \cup {ClockRef}
  <2>1. ASSUME NEW r \in Requests, Step(r) \/ Fails(r)
        PROVE  /\ local'[q].ref \in Requests \cup {ClockRef, None}
               /\ local'[q].statutory \in Flag /\ local'[q].fit \in Flag
               /\ local[q].ref \in Requests \cup {ClockRef} =>
                    local'[q].ref \in Requests \cup {ClockRef}
    <3>1. OwnMemory(r)
      BY <2>1, StepGains, LocalStays
    <3>2. QED
      BY <1>2, <3>1 DEF OwnMemory, Memory
  <2>2. CASE local' = local
    BY <2>2 DEF Memory
  <2>3. QED
    BY <2>1, <2>2 DEF Next, vars, Stops, InstanceStarts, InstanceFailsToStart, InviteFallsDue
<1>4. ASSUME NEW q \in Requests, "insert" \in ToSet(todo'[q]), "ref" \notin ToSet(todo'[q])
      PROVE  local'[q].ref \in Requests \cup {ClockRef}
  <2>1. CASE "insert" \in Left(q) /\ "ref" \notin Left(q)
    BY <1>3, <2>1 DEF Memory
  <2>2. CASE /\ todo[q] # <<>> /\ todo'[q] = Tail(todo[q]) /\ Head(todo[q]) = "ref"
             /\ todo'[q] # <<>> /\ todo'[q] # todo[q]
    <3>1. Step(q)
      <4>1. ~Throws(q)
        BY <2>2, ThrowsEnds DEF Basic
      <4>2. QED
        BY <2>2, <4>1, GoesItself DEF Basic, Fails
    <3>2. GenerateRef(q)
      <4>1. Creation(q)
        BY <2>2, <3>1, GroupSteps DEF Step, At, AllOfRefresh
      <4>2. QED
        BY <2>2, <4>1 DEF Creation, InsertProspect, PersistSponsor, LinkSponsor, At
    <3>3. PICK drawn \in {q, ClockRef} \cup Drawn : Holds(q, [ref |-> drawn])
      BY <3>2 DEF GenerateRef
    <3>4. local'[q].ref = drawn
      BY <3>3 DEF Holds, Basic, Domains, ++
    <3>5. QED
      BY <1>2, <3>3, <3>4
  <2>3. QED
    <3>1. CASE todo'[q] = todo[q]
      BY <1>4, <2>1, <3>1 DEF Left
    <3>2. CASE todo[q] # <<>> /\ todo'[q] = Tail(todo[q]) /\ ToSet(todo'[q]) = Left(q) \ {Head(todo[q])}
               /\ todo'[q] # todo[q]
      <4>1. todo'[q] # <<>>
        BY <1>4, ShortScripts
      <4>2. QED
        BY <1>4, <2>1, <2>2, <3>2, <4>1
    <3>3. CASE ToSet(todo'[q]) = AllOfRefresh \/ ToSet(todo'[q]) = {}
      BY <1>4, <3>3 DEF AllOfRefresh
    <3>4. QED
      BY <1>1, <3>1, <3>2, <3>3, LeftMoves
<1>5. QED
  BY <1>3, <1>4 DEF Memory, Left

-----------------------------------------------------------------------------
(* The rows *)

\* The forms are such as validation lets through.
LEMMA FormsAreValid ==
  ASSUME Basic, NEW r \in Requests
  PROVE  /\ job[r].on \in Instances
         /\ Kind(r) = "prescreen" => ValidFacts(job[r].facts)
         /\ Kind(r) = "partner" => Partner!ValidAnswers(job[r].answers) /\ job[r].today \in Int
         /\ Kind(r) = "points" => Points!ValidProfile(job[r].profile)
         /\ Kind(r) = "review" => ValidReview(job[r].flags)
         /\ Kind(r) = "edit" => job[r].value \in Int
<1>1. job \in Workloads
  BY DEF Basic
<1>2. Kind(r) = "prescreen" => ValidFacts(job[r].facts)
  BY <1>1, WorkloadsAreValid DEF Kind
<1>3. Kind(r) = "partner" => Partner!ValidAnswers(job[r].answers) /\ job[r].today \in Int
  BY <1>1, WorkloadsAreValid DEF Kind
<1>4. Kind(r) = "review" => ValidReview(job[r].flags)
  BY <1>1, WorkloadsAreValid DEF Kind
<1>5. Kind(r) = "points" => Points!ValidProfile(job[r].profile)
  BY <1>1, WorkloadsAreValid DEF Kind
<1>6. Kind(r) = "edit" => job[r].value \in Int
  BY <1>1, WorkloadsAreValid DEF Kind
<1>7. job[r].on \in Instances
  BY <1>1, WorkloadsAreValid
<1>8. QED
  BY <1>2, <1>3, <1>4, <1>5, <1>6, <1>7

LEMMA LeftShrinks ==
  ASSUME Basic, NEW r \in Requests, Moves(r)
  PROVE  ToSet(todo'[r]) \subseteq Left(r)
  BY LeftMoves

\* A prospect's row, but for its sponsor.
ValidRow(row) ==
  /\ {"ref", "statutory", "fit", "sponsor"} \subseteq DOMAIN row
  /\ row.ref \in Requests \cup {ClockRef} /\ row.statutory \in Flag /\ row.fit \in Flag

Rows ==
  /\ DOMAIN prospects \subseteq Requests
  /\ \A p \in DOMAIN prospects : ValidRow(prospects[p])

LEMMA NextRows ==
  ASSUME Basic, Memory, Rows, [Next]_vars
  PROVE  /\ Rows'
         /\ \A p \in DOMAIN prospects' :
              \/ p \in DOMAIN prospects /\ prospects'[p].sponsor = prospects[p].sponsor
              \/ p \notin DOMAIN prospects /\ prospects'[p].sponsor = None
              \/ LinkSponsor(p) /\ prospects'[p].sponsor = p
<1> DEFINE Good(p) ==
      /\ p \in Requests /\ ValidRow(prospects'[p])
      /\ \/ p \in DOMAIN prospects /\ prospects'[p].sponsor = prospects[p].sponsor
         \/ p \notin DOMAIN prospects /\ prospects'[p].sponsor = None
         \/ LinkSponsor(p) /\ prospects'[p].sponsor = p
<1>1. \A p \in DOMAIN prospects : prospects'[p] = prospects[p] => Good(p)
  BY DEF Rows
<1>2. ASSUME prospects' = prospects PROVE \A p \in DOMAIN prospects' : Good(p)
  BY <1>1, <1>2
<1>3. ASSUME NEW r \in Requests, At(r, "insert"),
             prospects' = prospects ++ [p \in {r} |-> [ref |-> local[r].ref, sponsor |-> None,
               statutory |-> local[r].statutory, fit |-> local[r].fit]]
      PROVE  \A p \in DOMAIN prospects' : Good(p)
  <2> DEFINE row == [ref |-> local[r].ref, sponsor |-> None,
                     statutory |-> local[r].statutory, fit |-> local[r].fit]
  <2>1. "insert" \in Left(r) /\ "ref" \notin Left(r)
    BY <1>3, HeadIsFirst DEF At, Phase
  <2>2. ValidRow(row)
    BY <2>1 DEF Memory, ValidRow
  <2>3. row.sponsor = None
    OBVIOUS
  <2> HIDE DEF row
  <2>4. prospects' = prospects ++ [p \in {r} |-> row]
    BY <1>3 DEF row
  <2>5. \A p \in DOMAIN prospects' :
          \/ p \in DOMAIN prospects /\ prospects'[p] = prospects[p]
          \/ p \notin DOMAIN prospects /\ p = r /\ prospects'[p] = row
    BY <2>4 DEF ++
  <2>6. QED
    BY <1>1, <2>2, <2>3, <2>5
<1>4. ASSUME NEW r \in Requests, LinkSponsor(r) PROVE \A p \in DOMAIN prospects' : Good(p)
  <2>1. prospects' = [prospects EXCEPT ![r].sponsor = r]
    BY <1>4 DEF LinkSponsor
  <2>2. DOMAIN prospects' = DOMAIN prospects
    BY <2>1
  <2>3. \A p \in DOMAIN prospects' : p # r => prospects'[p] = prospects[p]
    BY <2>1
  <2>4. ASSUME r \in DOMAIN prospects PROVE Good(r)
    <3>1. prospects'[r] = [prospects[r] EXCEPT !.sponsor = r]
      BY <2>1, <2>4
    <3>2. ValidRow(prospects[r])
      BY <2>4 DEF Rows
    <3>3. ValidRow(prospects'[r]) /\ prospects'[r].sponsor = r
      BY <3>1, <3>2 DEF ValidRow
    <3>4. QED
      BY <1>4, <3>3
  <2>5. QED
    BY <1>1, <2>2, <2>3, <2>4
<1>5. ASSUME NEW r \in Requests, Review(r) PROVE \A p \in DOMAIN prospects' : Good(p)
  <2> DEFINE q == Target(r)
  <2>1. /\ prospects' = [prospects EXCEPT ![q] = job[r].flags ++ @]
        /\ Kind(r) = "review" /\ q \in DOMAIN prospects
    BY <1>5 DEF Review, Touch
  <2> HIDE DEF q
  <2>2. DOMAIN prospects' = DOMAIN prospects
    BY <2>1
  <2>3. \A p \in DOMAIN prospects' : p # q => prospects'[p] = prospects[p]
    BY <2>1
  <2>4. prospects'[q] = job[r].flags ++ prospects[q]
    BY <2>1
  <2>5. ValidReview(job[r].flags)
    BY <2>1, FormsAreValid
  <2>6. ValidRow(prospects[q]) /\ q \in Requests
    BY <2>1 DEF Rows
  <2>7. ValidRow(prospects'[q]) /\ prospects'[q].sponsor = prospects[q].sponsor
    <3> DEFINE x == job[r].flags
               y == prospects[q]
    <3>1. DOMAIN x \subseteq {"statutory", "fit"} /\ \A z \in DOMAIN x : x[z] \in Flag
      BY <2>5 DEF ValidReview
    <3>2. ValidRow(y)
      BY <2>6
    <3>3. prospects'[q] = x ++ y
      BY <2>4
    <3> HIDE DEF x, y
    <3>4. DOMAIN (x ++ y) = DOMAIN x \cup DOMAIN y
      BY DEF ++
    <3>5. \A z \in {"ref", "statutory", "fit", "sponsor"} :
            (x ++ y)[z] = IF z \in DOMAIN x THEN x[z] ELSE y[z]
      BY <3>2 DEF ++, ValidRow
    <3>6. ValidRow(x ++ y) /\ (x ++ y).sponsor = y.sponsor
      BY <3>1, <3>2, <3>4, <3>5 DEF ValidRow
    <3>7. QED
      BY <3>3, <3>6 DEF y
  <2>8. QED
    BY <1>1, <2>1, <2>2, <2>3, <2>6, <2>7
<1> HIDE DEF Good
<1>6. \A p \in DOMAIN prospects' : Good(p)
  BY <1>2, <1>3, <1>4, <1>5, ProspectSteps
<1>7. QED
  BY <1>6 DEF Rows, Good

-----------------------------------------------------------------------------
(* Sponsors *)

\* A sponsor with the role that was offered, if one was.
Complete(p) == p \in DOMAIN sponsors /\ (job[p].role => sponsors[p])

\* Whoever has still to link its sponsor, and neither to add it nor to write down its role,
\* has a complete one; and nothing of a linked sponsor is still to be written.
Sponsored ==
  \A r \in Requests :
    /\ "link" \in Left(r) /\ "sponsor" \notin Left(r) => r \in DOMAIN sponsors
    /\ {"sponsor", "nominate"} \cap Left(r) = {} /\ "link" \in Left(r) => Complete(r)
    /\ r \in DOMAIN prospects /\ prospects[r].sponsor # None =>
         /\ prospects[r].sponsor = r /\ Complete(r)
         /\ {"sponsor", "nominate"} \cap Left(r) = {}

LEMMA InitSponsored == Init => Sponsored
<1> SUFFICES ASSUME Init PROVE Sponsored
  OBVIOUS
<1>1. ASSUME NEW r \in Requests, "link" \in Left(r) PROVE "sponsor" \in Left(r)
  <2>1. Left(r) = (IF job[r].on \in Cold THEN {"enter", "await"} ELSE {}) \cup WorkSteps(job[r])
    BY ScriptIs DEF Init, Left
  <2>2. QED
    BY <1>1, <2>1, SyncIs DEF WorkSteps, SponsorshipSteps, Touches, AllOfRefresh
<1>2. DOMAIN prospects = {}
  BY DEF Init
<1>3. QED
  BY <1>1, <1>2 DEF Sponsored

LEMMA SponsorSteps ==
  ASSUME [Next]_vars
  PROVE  sponsors' = sponsors \/ \E r \in Requests : PersistSponsor(r)
<1>1. ASSUME NEW r \in Requests, Creation(r) PROVE sponsors' = sponsors \/ PersistSponsor(r)
  BY <1>1 DEF Creation, GenerateRef, InsertProspect, LinkSponsor, rows
<1>2. ASSUME NEW r \in Requests,
             Engine(r) \/ Admin(r) \/ Invitation(r) \/ Summary(r) \/ EnterInstance(r) \/ GetServed(r)
               \/ Fails(r) \/ Write(r)
      PROVE  sponsors' = sponsors
  BY <1>2, Frames DEF rows
<1>3. QED
  BY <1>1, <1>2
     DEF Next, Step, vars, rows, Stops, InstanceStarts, InstanceFailsToStart, InviteFallsDue

\* A sponsor that has a role offered to it has it written down before it is linked.
LEMMA RoleIsWritten ==
  ASSUME NEW j, NEW s \in Suffixes(Script(j)), s # <<>>, Head(s) = "sponsor", j.role
  PROVE  "nominate" \in ToSet(s)
<1>1. "sponsor" \in ToSet(Script(j))
  BY StepsLeft
<1>2. "nominate" \in ToSet(Script(j))
  BY <1>1, ScriptIs, SyncIs DEF WorkSteps, SponsorshipSteps, Touches, AllOfRefresh
<1>3. QED
  BY <1>2, StepsLeft DEF Phase

LEMMA NextSponsored ==
  ASSUME Basic, Memory, Rows, Sponsored, [Next]_vars
  PROVE  Sponsored'
<1>1. \A q \in Requests : Moves(q) /\ ToSet(todo'[q]) \subseteq Left(q)
  BY NextMoves, LeftShrinks DEF Basic
<1>2. job' = job
  BY NextMoves DEF Basic
<1> DEFINE Ready(p) == p \in DOMAIN sponsors' /\ (job[p].role => sponsors'[p])
\* What is complete stays so, unless the request itself is still to write of it.
<1>3. ASSUME NEW q \in Requests
      PROVE  /\ q \in DOMAIN sponsors => q \in DOMAIN sponsors'
             /\ Complete(q) /\ {"sponsor", "nominate"} \cap Left(q) = {} => Ready(q)
  <2>1. CASE sponsors' = sponsors
    BY <2>1 DEF Complete
  <2>2. ASSUME NEW r \in Requests, PersistSponsor(r)
        PROVE  /\ q \in DOMAIN sponsors => q \in DOMAIN sponsors'
               /\ Complete(q) /\ {"sponsor", "nominate"} \cap Left(q) = {} => Ready(q)
    <3>1. sponsors' = [p \in {r} |-> At(r, "nominate")] ++ sponsors
      BY <2>2 DEF PersistSponsor
    <3>2. DOMAIN sponsors' = {r} \cup DOMAIN sponsors /\ (q # r /\ q \in DOMAIN sponsors => sponsors'[q] = sponsors[q])
      BY <3>1 DEF ++
    <3>3. {"sponsor", "nominate"} \cap Left(r) # {}
      BY <2>2, HeadIsFirst DEF PersistSponsor, At
    <3>4. QED
      BY <3>2, <3>3 DEF Complete
  <2>3. QED
    BY <2>1, <2>2, SponsorSteps
\* A request that is past the writing, and goes on to the link, has written.
<1>4. ASSUME NEW q \in Requests, "link" \in ToSet(todo'[q])
      PROVE  /\ "sponsor" \notin ToSet(todo'[q]) => q \in DOMAIN sponsors'
             /\ {"sponsor", "nominate"} \cap ToSet(todo'[q]) = {} => Ready(q)
  <2>1. CASE todo'[q] = todo[q]
    BY <1>3, <1>4, <2>1 DEF Sponsored, Left
  <2>2. CASE /\ todo[q] # <<>> /\ todo'[q] = Tail(todo[q]) /\ todo'[q] # todo[q]
             /\ ToSet(todo'[q]) = Left(q) \ {Head(todo[q])}
    <3>1. todo'[q] # <<>> /\ "link" \in Left(q)
      BY <1>4, <2>2, ShortScripts
    <3>2. CASE Head(todo[q]) \notin {"sponsor", "nominate"}
      BY <1>3, <2>2, <3>1, <3>2 DEF Sponsored
    <3>3. CASE Head(todo[q]) \in {"sponsor", "nominate"}
      <4>1. Step(q)
        <5>1. todo'[q] # Refresh
          BY <1>4, RefreshIs DEF AllOfRefresh
        <5>2. ~Throws(q)
          BY <3>1, <5>1, ThrowsEnds DEF Basic
        <5>3. QED
          BY <2>2, <3>1, <5>2, GoesItself DEF Basic, Fails
      <4>2. PersistSponsor(q)
        <5>1. Creation(q)
          BY <3>3, <4>1, GroupSteps DEF Step, At, AllOfRefresh
        <5>2. QED
          BY <3>3, <5>1 DEF Creation, GenerateRef, InsertProspect, LinkSponsor, At
      <4>3. q \in DOMAIN sponsors' /\ sponsors'[q] = At(q, "nominate")
        BY <4>2 DEF PersistSponsor, ++
      <4>4. CASE Head(todo[q]) = "nominate"
        BY <2>2, <4>3, <4>4 DEF At
      <4>5. CASE Head(todo[q]) = "sponsor"
        <5>1. job[q].role => "nominate" \in ToSet(todo'[q])
          BY <2>2, <4>5, RoleIsWritten DEF Basic, Left
        <5>2. QED
          BY <4>3, <5>1
      <4>6. QED
        BY <3>3, <4>4, <4>5
    <3>4. QED
      BY <3>2, <3>3
  <2>3. CASE ToSet(todo'[q]) = AllOfRefresh \/ ToSet(todo'[q]) = {}
    BY <1>4, <2>3 DEF AllOfRefresh
  <2>4. QED
    BY <1>1, <2>1, <2>2, <2>3, LeftMoves
<1>5. ASSUME NEW q \in Requests, q \in DOMAIN prospects', prospects'[q].sponsor # None
      PROVE  /\ prospects'[q].sponsor = q /\ Ready(q)
             /\ {"sponsor", "nominate"} \cap ToSet(todo'[q]) = {}
  <2>1. CASE q \in DOMAIN prospects /\ prospects'[q].sponsor = prospects[q].sponsor
    BY <1>1, <1>3, <1>5, <2>1 DEF Sponsored
  <2>2. CASE LinkSponsor(q) /\ prospects'[q].sponsor = q
    <3>1. {"sponsor", "nominate"} \cap Left(q) = {} /\ "link" \in Left(q)
      BY <2>2, HeadIsFirst DEF LinkSponsor, At, Phase
    <3>2. QED
      BY <1>1, <1>3, <2>2, <3>1 DEF Sponsored
  <2>3. QED
    BY <1>5, <2>1, <2>2, NextRows
<1>6. QED
  BY <1>2, <1>4, <1>5 DEF Sponsored, Left, Complete

\* A sponsor that a prospect is linked to has the role that was offered: the agent never opens a
\* file whose employer is there and whose role is still to be written (the order of
\* SponsorshipService.persistSponsorship and ProspectService.linkSponsor, whatever fails between).
THEOREM LinkedSponsor == Spec => []LinkedSponsorIsComplete
<1> DEFINE IInv == Basic /\ Memory /\ Rows /\ Sponsored
<1>1. Init => IInv
  <2>1. Init => Rows
    BY DEF Init, Rows
  <2>2. QED
    BY <2>1, InitBasic, InitMemory, InitSponsored
<1>2. IInv /\ [Next]_vars => IInv'
  BY NextBasic, NextMemory, NextRows, NextSponsored
<1>3. IInv => LinkedSponsorIsComplete
  BY DEF Rows, Sponsored, Complete, LinkedSponsorIsComplete
<1>4. QED
  BY <1>1, <1>2, <1>3, PTL DEF Spec

-----------------------------------------------------------------------------
(* The types *)

Kept ==
  /\ submissions \subseteq Requests /\ faults \in 0..MaxFaults
  /\ DOMAIN summaries \subseteq DOMAIN prospects
  /\ \A t \in DOMAIN invites : invites[t] \in [status : {"pending", "accepted", "expired"}, due : BOOLEAN]

LEMMA InviteSteps ==
  ASSUME [Next]_vars
  PROVE  \/ invites' = invites
         \/ \E r \in Requests :
              KeepInvite(r) \/ CloseExpired(r) \/ AcceptInvite(r)
         \/ \E t \in DOMAIN invites : InviteFallsDue(t)
<1>1. ASSUME NEW r \in Requests, Invitation(r)
      PROVE  invites' = invites \/ KeepInvite(r) \/ CloseExpired(r) \/ AcceptInvite(r)
  BY <1>1 DEF Invitation, FindInvite, LookUpInvite, rows
<1>2. ASSUME NEW r \in Requests,
             Engine(r) \/ Admin(r) \/ Creation(r) \/ Summary(r) \/ EnterInstance(r) \/ GetServed(r)
               \/ Fails(r) \/ Write(r)
      PROVE  invites' = invites
  BY <1>2, Frames DEF rows
<1>3. QED
  BY <1>1, <1>2 DEF Next, Step, vars, rows, Stops, InstanceStarts, InstanceFailsToStart

\* An invitation falls due, or is closed, as an accepted or an expired one: it never opens again.
LEMMA InviteAfter ==
  ASSUME Kept, [Next]_vars
  PROVE  /\ DOMAIN invites \subseteq DOMAIN invites'
         /\ \A t \in DOMAIN invites' :
              /\ invites'[t] \in [status : {"pending", "accepted", "expired"}, due : BOOLEAN]
              /\ t \in DOMAIN invites /\ invites[t].status # "pending" =>
                   invites'[t].status # "pending"
<1> DEFINE Invites == [status : {"pending", "accepted", "expired"}, due : BOOLEAN]
<1>1. \A t \in DOMAIN invites : invites[t] \in Invites
  BY DEF Kept
<1>2. CASE invites' = invites
  BY <1>1, <1>2
<1>3. ASSUME NEW r \in Requests, KeepInvite(r)
      PROVE  /\ DOMAIN invites \subseteq DOMAIN invites'
             /\ \A t \in DOMAIN invites' :
                  /\ invites'[t] \in Invites
                  /\ t \in DOMAIN invites => invites'[t] = invites[t]
  <2>1. invites' = invites ++ [t \in {r} |-> [status |-> "pending", due |-> FALSE]]
    BY <1>3 DEF KeepInvite
  <2>2. QED
    BY <1>1, <2>1 DEF ++
<1>4. ASSUME NEW t \in DOMAIN invites, NEW new \in {"accepted", "expired"}, ChangeInvite(t, new)
      PROVE  /\ DOMAIN invites \subseteq DOMAIN invites'
             /\ \A u \in DOMAIN invites' :
                  /\ invites'[u] \in Invites
                  /\ u \in DOMAIN invites /\ invites[u].status # "pending" =>
                       invites'[u].status # "pending"
  <2>1. invites' = [invites EXCEPT ![t].status = new]
    BY <1>4 DEF ChangeInvite
  <2>2. DOMAIN invites' = DOMAIN invites /\ \A u \in DOMAIN invites : u # t => invites'[u] = invites[u]
    BY <2>1
  <2>3. invites'[t] = [invites[t] EXCEPT !.status = new]
    BY <2>1
  <2>4. invites'[t] \in Invites /\ invites'[t].status = new
    BY <1>1, <2>3
  <2>5. QED
    BY <1>1, <1>4, <2>2, <2>4
<1>5. ASSUME NEW t \in DOMAIN invites, InviteFallsDue(t)
      PROVE  /\ DOMAIN invites \subseteq DOMAIN invites'
             /\ \A u \in DOMAIN invites' :
                  /\ invites'[u] \in Invites
                  /\ u \in DOMAIN invites => invites'[u].status = invites[u].status
  <2>1. invites' = [invites EXCEPT ![t].due = TRUE]
    BY <1>5 DEF InviteFallsDue
  <2>2. DOMAIN invites' = DOMAIN invites /\ \A u \in DOMAIN invites : u # t => invites'[u] = invites[u]
    BY <2>1
  <2>3. invites'[t] = [invites[t] EXCEPT !.due = TRUE]
    BY <2>1
  <2>4. invites'[t] \in Invites /\ invites'[t].status = invites[t].status
    BY <1>1, <2>3
  <2>5. QED
    BY <1>1, <2>2, <2>4
<1>6. ASSUME NEW r \in Requests, CloseExpired(r) \/ AcceptInvite(r)
      PROVE  invites' = invites \/ \E new \in {"accepted", "expired"} : ChangeInvite(Token(r), new)
  BY <1>6 DEF CloseExpired, AcceptInvite
<1>7. ASSUME NEW t, NEW new, t \notin DOMAIN invites, ChangeInvite(t, new)
      PROVE  DOMAIN invites' = DOMAIN invites /\ \A u \in DOMAIN invites : invites'[u] = invites[u]
  BY <1>7 DEF ChangeInvite
<1>8. QED
  BY <1>1, <1>2, <1>3, <1>4, <1>5, <1>6, <1>7, InviteSteps

LEMMA NextKept ==
  ASSUME Basic, OnRecord, Kept, [Next]_vars
  PROVE  Kept'
<1>1. submissions' \subseteq Requests
  <2>1. ASSUME NEW r \in Requests, Engine(r)
        PROVE  submissions' \in {submissions, submissions \cup {r}}
    BY <2>1 DEF Engine, AssessPreScreen, SaveSubmission, FetchPolicy, ReadAgeLimit, ReadMarks,
                ReadStanding, Weigh, ReadsPolicy, SaveEdit, ClearAfterEdit, rows
  <2>2. ASSUME NEW r \in Requests,
               Creation(r) \/ Admin(r) \/ Invitation(r) \/ Summary(r) \/ EnterInstance(r)
                 \/ GetServed(r) \/ Fails(r) \/ Write(r)
        PROVE  submissions' = submissions
    BY <2>2, Frames DEF rows
  <2>3. QED
    BY <2>1, <2>2
       DEF Kept, Next, Step, vars, rows, Stops, InstanceStarts, InstanceFailsToStart, InviteFallsDue
<1>2. faults' \in 0..MaxFaults
  <2>1. faults' = faults \/ (faults < MaxFaults /\ faults' = faults + 1)
    <3>1. ASSUME NEW r \in Requests, Engine(r)
          PROVE  faults' = faults \/ (faults < MaxFaults /\ faults' = faults + 1)
      BY <3>1 DEF Engine, AssessPreScreen, SaveSubmission, FetchPolicy, ReadAgeLimit, ReadMarks,
                  ReadStanding, Weigh, ReadsPolicy, SaveEdit, ClearAfterEdit, rows
    <3>2. ASSUME NEW r \in Requests,
                 Creation(r) \/ Admin(r) \/ Invitation(r) \/ Summary(r) \/ EnterInstance(r)
                   \/ GetServed(r) \/ Write(r)
          PROVE  faults' = faults
      BY <3>2, Frames
    <3>3. QED
      BY <3>1, <3>2
         DEF Next, Step, vars, Fails, Stops, InstanceStarts, InstanceFailsToStart, InviteFallsDue
  <2>2. QED
    BY <2>1, MaxFaultsIsNat DEF Kept
<1>3. DOMAIN summaries' \subseteq DOMAIN prospects'
  <2>1. ASSUME NEW r \in Requests, SaveSummary(r)
        PROVE  DOMAIN summaries' \subseteq DOMAIN summaries \cup DOMAIN prospects
    <3>1. Target(r) \in DOMAIN prospects
      <4>1. "merge" \in ToSet(Script(job[r])) /\ todo[r] # <<>> /\ Head(todo[r]) = "merge"
        BY <2>1, HeadIsFirst DEF SaveSummary, At
      <4>2. Kind(r) \in Creators \cup Touches
        BY <4>1, ScriptIs, SyncIs DEF WorkSteps, SponsorshipSteps, Kind, Creators, Quizzes, Touches
      <4>3. "insert" \notin Left(r) /\ "write" \notin Left(r)
        BY <4>1, HeadIsFirst DEF Phase
      <4>4. QED
        BY <4>1, <4>2, <4>3 DEF OnRecord
    <3>2. \/ DOMAIN summaries' = DOMAIN summaries
          \/ DOMAIN summaries' = DOMAIN summaries \cup {Target(r)}
      <4>1. CASE local[r].base # <<>>
        BY <2>1, <4>1 DEF SaveSummary
      <4>2. CASE local[r].base = <<>> /\ Target(r) \in DOMAIN summaries
        BY <2>1, <4>2 DEF SaveSummary
      <4>3. CASE local[r].base = <<>> /\ Target(r) \notin DOMAIN summaries
        BY <2>1, <4>3 DEF SaveSummary, ++
      <4>4. QED
        BY <4>1, <4>2, <4>3
    <3>3. QED
      BY <3>1, <3>2
  <2>2. ASSUME NEW r \in Requests, Summary(r), ~SaveSummary(r) PROVE summaries' = summaries
    BY <2>2 DEF Summary, RefreshStep, ReadProspect, ReadBooking, ReadPayment, LookUpSummary, rows
  <2>3. ASSUME NEW r \in Requests,
               Creation(r) \/ Admin(r) \/ Invitation(r) \/ Engine(r) \/ EnterInstance(r)
                 \/ GetServed(r) \/ Fails(r) \/ Write(r)
        PROVE  summaries' = summaries
    BY <2>3, Frames DEF rows
  <2>4. summaries' = summaries \/ \E r \in Requests : SaveSummary(r)
    BY <2>2, <2>3
       DEF Next, Step, vars, rows, Stops, InstanceStarts, InstanceFailsToStart, InviteFallsDue
  <2>5. QED
    BY <2>1, <2>4, ProspectsStay DEF Kept
<1>4. QED
  BY <1>1, <1>2, <1>3, InviteAfter DEF Kept

\* Every variable stays within its type, whatever the requests ask for and whatever fails: an
\* answer ends its request, a prospect is linked to a sponsor that exists, and a summary is
\* about a prospect that does.
THEOREM TypeCorrect == Spec => []TypeOK
<1> DEFINE IInv == Basic /\ Boots /\ Memory /\ Rows /\ Sponsored /\ OnRecord /\ Kept
<1>1. Init => IInv
  <2>1. Init => Rows
    BY DEF Init, Rows
  <2>2. Init => Kept
    BY MaxFaultsIsNat DEF Init, Kept
  <2>3. QED
    BY <2>1, <2>2, InitBasic, InitBoots, InitMemory, InitSponsored, InitOnRecord
<1>2. IInv /\ [Next]_vars => IInv'
  BY NextBasic, NextBoots, NextMemory, NextRows, NextSponsored, NextOnRecord, NextKept
<1>3. IInv => TypeOK
  <2> SUFFICES ASSUME IInv PROVE TypeOK
    OBVIOUS
  <2>1. \A r \in Requests :
          /\ todo[r] \in Suffixes(Script(job[r]))
          /\ told[r] \in {"none", "failed", "refused", "reused", "noBook", "canBook", "ok"}
          /\ told[r] # "none" => todo[r] = <<>>
    BY DEF Basic
  <2>2. \A p \in DOMAIN prospects :
          /\ prospects[p].ref \in Requests \cup {ClockRef}
          /\ prospects[p].statutory \in Flag /\ prospects[p].fit \in Flag
    BY DEF Rows, ValidRow
  <2>3. \A p \in DOMAIN prospects : prospects[p].sponsor \in DOMAIN sponsors \cup {None}
    BY DEF Rows, Sponsored, Complete
  <2>4. bootstrapPromise \in [Instances -> {"null", "pending", "fulfilled"}]
    BY DEF Boots
  <2>5. /\ submissions \subseteq Requests /\ faults \in 0..MaxFaults
        /\ DOMAIN summaries \subseteq DOMAIN prospects
        /\ \A t \in DOMAIN invites : invites[t].status \in {"pending", "accepted", "expired"}
    BY DEF Kept
  <2>6. QED
    BY <2>1, <2>2, <2>3, <2>4, <2>5 DEF TypeOK
<1>4. QED
  BY <1>1, <1>2, <1>3, PTL DEF Spec

-----------------------------------------------------------------------------
(* Invitations *)

\* Who has looked an invitation up works on one that exists, and who was told that it has
\* accepted one has closed it; a request that began after that does not create a prospect.
Late ==
  /\ DOMAIN settled = Requests
  /\ \A r \in Requests :
       /\ Kind(r) = "accept" /\ todo[r] # <<>> /\ "lookup" \notin Left(r) => Token(r) \in DOMAIN invites
       /\ Kind(r) = "accept" /\ told[r] = "ok" =>
            Token(r) \in DOMAIN invites /\ invites[Token(r)].status # "pending"
       /\ settled[r] # {} => todo[r] = <<>> /\ r \notin DOMAIN prospects
       /\ r \in DOMAIN prospects => "insert" \notin Left(r)

LEMMA InitLate == Init => Late
<1> SUFFICES ASSUME Init PROVE Late
  OBVIOUS
<1>1. ASSUME NEW r \in Requests, Kind(r) = "accept" PROVE "lookup" \in Left(r)
  <2>1. Left(r) = (IF job[r].on \in Cold THEN {"enter", "await"} ELSE {}) \cup WorkSteps(job[r])
    BY ScriptIs DEF Init, Left
  <2>2. QED
    BY <1>1, <2>1 DEF WorkSteps, Kind, Touches
<1>2. /\ DOMAIN settled = Requests /\ DOMAIN prospects = {}
      /\ \A r \in Requests : settled[r] = {} /\ told[r] # "ok"
  BY DEF Init
<1>3. QED
  BY <1>1, <1>2 DEF Late

\* Only a request itself is told anything else than a failure.
LEMMA SaysItself ==
  ASSUME Domains, [Next]_vars, NEW q \in Requests, told'[q] # told[q], told'[q] # "failed"
  PROVE  Step(q) \/ Fails(q)
<1>1. ASSUME NEW r \in Requests, Step(r) \/ Fails(r), r # q PROVE FALSE
  BY <1>1, StepAdvances DEF Advances, FetchPolicy
<1>2. ASSUME NEW i \in Instances, InstanceFailsToStart(i) PROVE FALSE
  BY <1>2 DEF InstanceFailsToStart
<1>3. QED
  BY <1>1, <1>2 DEF Next, vars, Stops, InstanceStarts, InviteFallsDue

LEMMA SettledSteps ==
  ASSUME Late, [Next]_vars
  PROVE  /\ DOMAIN settled' = Requests
         /\ \A q \in Requests :
              \/ settled'[q] = settled[q]
              \/ /\ At(q, "lookup") /\ (Step(q) \/ Fails(q))
                 /\ settled'[q] = {p \in Acceptances(Token(q)) : told[p] = "ok"}
<1>1. ASSUME NEW r \in Requests, Step(r) \/ Fails(r), Witnessed(r)
      PROVE  /\ DOMAIN settled' = Requests
             /\ \A q \in Requests :
                  \/ settled'[q] = settled[q]
                  \/ /\ q = r /\ At(q, "lookup")
                     /\ settled'[q] = {p \in Acceptances(Token(q)) : told[p] = "ok"}
  <2> DEFINE earlier == {p \in Acceptances(Token(r)) : told[p] = "ok"}
  <2>1. settled' = IF At(r, "lookup") THEN [settled EXCEPT ![r] = earlier] ELSE settled
    BY <1>1 DEF Witnessed
  <2> HIDE DEF earlier
  <2>2. /\ DOMAIN settled' = Requests
        /\ \A q \in Requests :
             settled'[q] = settled[q] \/ (q = r /\ At(q, "lookup") /\ settled'[q] = earlier)
    BY <2>1 DEF Late
  <2>3. QED
    BY <2>2 DEF earlier
<1>2. CASE settled' = settled
  BY <1>2 DEF Late
<1>3. QED
  BY <1>1, <1>2 DEF Next, vars

\* A request at the look-up of its invitation has its whole script to do.
LEMMA LooksUpFirst ==
  ASSUME Basic, NEW r \in Requests, At(r, "lookup")
  PROVE  Kind(r) = "accept" /\ "insert" \in Left(r)
<1>1. "lookup" \in ToSet(Script(job[r]))
  BY HeadIsFirst DEF At
<1>2. Kind(r) = "accept" /\ "insert" \in ToSet(Script(job[r]))
  BY <1>1, ScriptIs, SyncIs DEF WorkSteps, SponsorshipSteps, Kind, Touches, AllOfRefresh
<1>3. QED
  BY <1>2, HeadIsFirst DEF At, Phase

\* The look-up of an invitation that is not open, or that fails, ends the request.
LEMMA LookUpEnds ==
  ASSUME Basic, NEW r \in Requests, At(r, "lookup"), Step(r) \/ Fails(r),
         Token(r) \in DOMAIN invites => invites[Token(r)].status # "pending"
  PROVE  todo'[r] = <<>> /\ prospects' = prospects
<1>1. CASE Fails(r)
  BY <1>1, ThrowsEnds DEF Basic, At, Fails, rows
<1>2. CASE Step(r)
  <2>1. Invitation(r)
    BY <1>2, GroupSteps DEF Step, At, AllOfRefresh
  <2>2. LookUpInvite(r)
    BY <2>1 DEF Invitation, FindInvite, KeepInvite, CloseExpired, AcceptInvite, At
  <2>3. prospects' = prospects
    BY <2>2 DEF LookUpInvite, rows
  <2>4. Ends(r, "refused")
    BY <2>2 DEF LookUpInvite
  <2>5. QED
    BY <2>3, <2>4 DEF Ends, Basic, Domains
<1>3. QED
  BY <1>1, <1>2

\* A prospect is put on record by its own request.
LEMMA InsertsItself ==
  ASSUME [Next]_vars, NEW q \in DOMAIN prospects', q \notin DOMAIN prospects
  PROVE  At(q, "insert") /\ Goes(q)
<1>1. ASSUME NEW r \in Requests, LinkSponsor(r) \/ Review(r)
      PROVE  DOMAIN prospects' = DOMAIN prospects
  BY <1>1 DEF LinkSponsor, Review
<1>2. ASSUME NEW r \in Requests, NEW row, prospects' = prospects ++ [p \in {r} |-> row]
      PROVE  q = r
  BY <1>2 DEF ++
<1>3. QED
  BY <1>1, <1>2, ProspectSteps

LEMMA NextLate ==
  ASSUME Basic, Kept, Late, [Next]_vars
  PROVE  Late'
<1>1. \A q \in Requests : Moves(q) /\ ToSet(todo'[q]) \subseteq Left(q)
  BY NextMoves, LeftShrinks DEF Basic
<1>2. job' = job
  BY NextMoves DEF Basic
<1>3. ASSUME NEW q \in Requests, Kind(q) = "accept", todo'[q] # <<>>, "lookup" \notin ToSet(todo'[q])
      PROVE  Token(q) \in DOMAIN invites'
  <2>1. CASE todo[q] # <<>> /\ "lookup" \notin Left(q)
    BY <1>3, <2>1, InviteAfter DEF Late
  <2>2. CASE /\ todo[q] # <<>> /\ Head(todo[q]) = "lookup" /\ todo'[q] # todo[q]
    <3>1. Step(q) \/ Fails(q)
      BY <1>3, <2>2, GoesItself DEF Basic
    <3>2. Token(q) \in DOMAIN invites
      BY <1>3, <2>2, <3>1, LookUpEnds DEF At
    <3>3. QED
      BY <3>2, InviteAfter
  <2>3. QED
    BY <1>1, <1>3, <2>1, <2>2, LeftMoves DEF Left
<1>4. ASSUME NEW q \in Requests, Kind(q) = "accept", told'[q] = "ok"
      PROVE  Token(q) \in DOMAIN invites' /\ invites'[Token(q)].status # "pending"
  <2>1. CASE told[q] = "ok"
    BY <1>4, <2>1, InviteAfter DEF Late
  <2>2. CASE told[q] # "ok"
    <3>1. ToSet(Script(job[q])) \subseteq {"enter", "await", "lookup", "expiry", "ref", "insert", "accept"}
          /\ "accept" \in ToSet(Script(job[q]))
      BY <1>4, ScriptIs DEF WorkSteps, Kind, Touches
    <3>2. todo[q] # <<>> /\ Len(todo[q]) = 1
      BY <1>1, <1>4, <2>2, <3>1, HeadIsFirst DEF Moves, AllOfRefresh
    <3>3. Left(q) = {Head(todo[q])}
      BY <3>2, HeadIsFirst, OneIsLast DEF Basic
    <3>4. "accept" \in Left(q)
      BY <3>1, <3>2, HeadIsFirst DEF Phase
    <3>5. At(q, "accept") /\ "lookup" \notin Left(q)
      BY <3>2, <3>3, <3>4 DEF At
    <3>6. Step(q) \/ Fails(q)
      BY <1>4, <2>2, SaysItself DEF Basic
    <3>7. ~Fails(q)
      <4>1. Throws(q) => Ends(q, "failed")
        BY <3>5, RefreshIs DEF Throws, At, AllOfRefresh
      <4>2. QED
        BY <1>4, <4>1 DEF Fails, Ends, Basic, Domains
    <3>8. AcceptInvite(q)
      <4>1. Invitation(q)
        BY <3>5, <3>6, <3>7, GroupSteps DEF Step, At, AllOfRefresh
      <4>2. QED
        BY <3>5, <4>1 DEF Invitation, FindInvite, KeepInvite, LookUpInvite, CloseExpired, At
    <3>9. Token(q) \in DOMAIN invites
      BY <1>4, <3>2, <3>5 DEF Late
    <3>10. invites[Token(q)] \in [status : {"pending", "accepted", "expired"}, due : BOOLEAN]
      BY <3>9 DEF Kept
    <3>11. invites'[Token(q)] = [invites[Token(q)] EXCEPT !.status = "accepted"]
      BY <3>8, <3>9 DEF AcceptInvite, ChangeInvite
    <3>12. invites'[Token(q)].status = "accepted"
      BY <3>10, <3>11
    <3>13. QED
      BY <3>9, <3>12, InviteAfter
  <2>3. QED
    BY <2>1, <2>2
<1>5. ASSUME NEW q \in Requests, settled'[q] # {}
      PROVE  todo'[q] = <<>> /\ q \notin DOMAIN prospects'
  <2>1. CASE settled[q] # {}
    <3>1. todo[q] = <<>> /\ q \notin DOMAIN prospects
      BY <2>1 DEF Late
    <3>2. todo'[q] = <<>>
      BY <1>1, <3>1 DEF Moves
    <3>3. q \notin DOMAIN prospects'
      BY <3>1, InsertsItself DEF At
    <3>4. QED
      BY <3>2, <3>3
  <2>2. CASE /\ At(q, "lookup") /\ (Step(q) \/ Fails(q))
             /\ settled'[q] = {p \in Acceptances(Token(q)) : told[p] = "ok"}
    <3>1. PICK p \in Acceptances(Token(q)) : told[p] = "ok"
      BY <1>5, <2>2
    <3>2. p \in Requests /\ Kind(p) = "accept" /\ Token(p) = Token(q)
      BY <3>1 DEF Acceptances
    <3>3. Token(q) \in DOMAIN invites /\ invites[Token(q)].status # "pending"
      BY <3>1, <3>2 DEF Late
    <3>4. todo'[q] = <<>> /\ prospects' = prospects
      BY <2>2, <3>3, LookUpEnds
    <3>5. q \notin DOMAIN prospects
      BY <2>2, LooksUpFirst DEF Late
    <3>6. QED
      BY <3>4, <3>5
  <2>3. QED
    BY <1>5, <2>1, <2>2, SettledSteps
<1>6. ASSUME NEW q \in Requests, q \in DOMAIN prospects' PROVE "insert" \notin ToSet(todo'[q])
  <2>1. CASE q \in DOMAIN prospects
    BY <1>1, <2>1 DEF Late
  <2>2. CASE q \notin DOMAIN prospects
    <3>1. At(q, "insert") /\ Goes(q)
      BY <1>6, <2>2, InsertsItself
    <3>2. todo'[q] = Tail(todo[q])
      BY <3>1 DEF Goes, Basic, Domains
    <3>3. QED
      BY <3>1, <3>2, HeadIsFirst DEF At
  <2>3. QED
    BY <2>1, <2>2
<1>7. DOMAIN settled' = Requests
  BY SettledSteps
<1>8. \A q \in Requests : Kind(q)' = Kind(q) /\ Token(q)' = Token(q)
  BY <1>2 DEF Kind, Token
<1>9. QED
  BY <1>3, <1>4, <1>5, <1>6, <1>7, <1>8 DEF Late, Left

\* A candidate who accepts an invitation after somebody was told that it is accepted does not
\* become a second prospect (CandidateInvitesService.accept: the look-up refuses an invitation
\* that is not pending, and whoever is told "accepted" has changed it first).
THEOREM LateComersAreRefused == Spec => []NoLateAcceptance
<1> DEFINE IInv == Basic /\ OnRecord /\ Kept /\ Late
<1>1. Init => IInv
  <2>1. Init => Kept
    BY MaxFaultsIsNat DEF Init, Kept
  <2>2. QED
    BY <2>1, InitBasic, InitOnRecord, InitLate
<1>2. IInv /\ [Next]_vars => IInv'
  BY NextBasic, NextOnRecord, NextKept, NextLate
<1>3. IInv => NoLateAcceptance
  BY DEF Late, NoLateAcceptance
<1>4. QED
  BY <1>1, <1>2, <1>3, PTL DEF Spec

-----------------------------------------------------------------------------
(* The pre-screen: answers that are missing *)

\* A form with one or two of its missing answers given says what it said, as the engine sees it.
LEMMA CompletionsComplete ==
  ASSUME NEW facts, ValidFacts(facts), NEW full \in Completions(facts)
  PROVE  Completes(full, Answered(facts, TRUE))
<1> DEFINE Given(x, y, v, w) == Answered([facts EXCEPT ![x] = v, ![y] = w], TRUE)
<1>1. Completions(facts) =
        UNION {{Given(x, y, v, w) : v \in FactValues[x], w \in FactValues[y]} :
                 x \in Unanswered(facts), y \in Unanswered(facts)}
  BY DEF Completions
<1> HIDE DEF Given
<1>2. PICK x \in Unanswered(facts), y \in Unanswered(facts) :
        full \in {Given(x, y, v, w) : v \in FactValues[x], w \in FactValues[y]}
  BY <1>1, SMT
<1>3. PICK v \in FactValues[x], w \in FactValues[y] : full = Given(x, y, v, w)
  BY <1>2, SMT
<1> DEFINE more == [facts EXCEPT ![x] = v, ![y] = w]
<1>4. x \in Facts /\ y \in Facts /\ facts[x] = Unknown /\ facts[y] = Unknown
  BY AnswersMayBeMissing DEF Unanswered
<1>5. Facts \cup {"exemption", "labourAgreement", "sponsor"} \subseteq DOMAIN facts
  BY DEF ValidFacts
<1>6. /\ DOMAIN more = DOMAIN facts
      /\ \A z \in DOMAIN facts : z # x /\ z # y => more[z] = facts[z]
  OBVIOUS
<1>7. \A z \in DOMAIN facts : facts[z] # Unknown => more[z] = facts[z]
  BY <1>4, <1>6
<1>8. /\ more.exemption = facts.exemption /\ more.labourAgreement = facts.labourAgreement
      /\ more.sponsor = facts.sponsor
  BY <1>4, <1>5, <1>6 DEF Facts
<1> HIDE DEF more
<1>9. full = Answered(more, TRUE)
  BY <1>3 DEF more, Given
<1>10. \A f : /\ DOMAIN Answered(f, TRUE) = DOMAIN f
             /\ \A z \in DOMAIN f : z # "occupation" => Answered(f, TRUE)[z] = f[z]
  BY DEF Answered
<1>11. facts.occupation = Unknown => Answered(facts, TRUE).occupation = Unknown
  BY DEF Answered
<1>12. facts.occupation # Unknown => full.occupation = Answered(facts, TRUE).occupation
  <2>1. ASSUME facts.occupation # Unknown PROVE more.occupation = facts.occupation
    BY <1>5, <1>7, <2>1 DEF Facts
  <2>2. "occupation" \in DOMAIN facts /\ "occupation" \in DOMAIN more
    BY <1>5, <1>6 DEF Facts
  <2>3. QED
    BY <1>9, <2>1, <2>2 DEF Answered
<1> DEFINE form == Answered(facts, TRUE)
<1>13. \A z \in DOMAIN facts : z # "occupation" => form[z] = facts[z] /\ full[z] = more[z]
  BY <1>6, <1>9, <1>10
<1>14. form.occupation # Unknown => full.occupation = form.occupation
  BY <1>11, <1>12
<1> HIDE DEF form
<1>15. \A z \in Facts : form[z] # Unknown => full[z] = form[z]
  BY <1>5, <1>7, <1>13, <1>14
<1>16. \A z \in {"exemption", "labourAgreement", "sponsor"} : full[z] = form[z]
  BY <1>5, <1>8, <1>13
<1>17. Completes(full, form)
  BY <1>15, <1>16 DEF Completes
<1>18. QED
  BY <1>17 DEF form

LEMMA AssessedForms ==
  ASSUME Basic, NEW r \in Requests, NEW form \in FormsAt(r)
  PROVE  ValidFacts(job[r].facts) /\ form = Answered(job[r].facts, TRUE)
<1>1. At(r, "assess") /\ form = Answered(job[r].facts, TRUE)
  BY DEF FormsAt
<1>2. "assess" \in ToSet(Script(job[r]))
  BY <1>1, HeadIsFirst DEF At
<1>3. Kind(r) = "prescreen"
  BY <1>2, ScriptIs, SyncIs DEF WorkSteps, SponsorshipSteps, Kind, Touches, AllOfRefresh
<1>4. QED
  BY <1>1, <1>3, FormsAreValid

\* "Unknown is never treated as pass" (employer-sponsored.engine.ts): a pathway found open on an
\* incomplete form is open whatever the missing answers turn out to be, whatever the policy rows
\* and the catalogue say.
THEOREM UnknownIsNoPass == Spec => []UnknownDecidesNothing
<1>1. Basic => UnknownDecidesNothing
  <2> SUFFICES ASSUME Basic, NEW r \in Requests, NEW form \in FormsAt(r), NEW s \in Subclasses,
                      Eligible(s, form), NEW full \in Completions(job[r].facts)
               PROVE  Eligible(s, full)
    BY DEF UnknownDecidesNothing
  <2>1. Completes(full, form)
    BY AssessedForms, CompletionsComplete
  <2>2. QED
    BY <2>1, EligibilityStays DEF Eligible
<1>2. QED
  BY AlwaysBasic, <1>1, PTL

\* "Unknown is never treated as fail either": whoever is told that the requirements are not met
\* could not have met them, on any pathway, by answering more questions.
THEOREM RefusalStands == Spec => []RefusalIsFinal
<1>1. Basic => RefusalIsFinal
  <2> SUFFICES ASSUME Basic, NEW r \in Requests, NEW form \in FormsAt(r),
                      Screen(form).tag \in {"requirements_not_met", "income_below_threshold"},
                      NEW full \in Completions(job[r].facts)
               PROVE  ~Screen(full).statutory
    BY DEF RefusalIsFinal
  <2>1. Completes(full, form)
    BY AssessedForms, CompletionsComplete
  <2>2. QED
    BY <2>1, RefusalStays DEF Screen, Refusals
<1>2. QED
  BY AlwaysBasic, <1>1, PTL

-----------------------------------------------------------------------------
(* The partner quiz *)

LEMMA QuizzesAreValid ==
  ASSUME Basic, NEW r \in Requests, Quiz(r)
  PROVE  Partner!ValidAnswers(job[r].answers) /\ job[r].today \in Int
  BY FormsAreValid DEF Quiz

\* A couple found eligible stays eligible with the same answers on a later day, unless a visa
\* runs out (partner-eligibility.engine.ts: both of its periods end, none begins).
THEOREM WaitingIsSafe == Spec => []WaitingNeverHurts
<1>1. ASSUME NEW a, Partner!ValidAnswers(a), a.expiry = Unknown, NEW today \in Int, NEW days \in Nat,
             Partner!Statutory(a, today)
      PROVE  Partner!Statutory(a, today + days)
  <2>1. /\ a.lodged \in Int \cup {Unknown} /\ a.sponsorApplied \in Int \cup {Unknown}
        /\ a.dating \in Int \cup {Unknown} /\ a.together \in Int \cup {Unknown}
    BY <1>1 DEF Partner!ValidAnswers
  <2> DEFINE Since(date, day, length) == Partner!OnOrAfter(date, day - length)
  <2>2. ASSUME NEW date \in Int \cup {Unknown}, NEW length \in Nat, Since(date, today + days, length)
        PROVE  Since(date, today, length)
    BY <2>2 DEF Partner!OnOrAfter
  <2> HIDE DEF Since
  <2>3. Partner!Ineligible(a, today + days) => Partner!Ineligible(a, today)
    <3> DEFINE limit == Partner!SPONSORSHIP_LIMITATION_DAYS
               Else ==
                 \/ a.bars # {} \/ a.status = "None of the above"
                 \/ Partner!ApartAndUnmarried(a) /\ ~a.protected /\ a.moveIn = "No"
                 \/ a.neverMet /\ Partner!NonCommitted(a) /\ a.arranged \in {"No", "Not sure"}
                 \/ a.noPMVCircumstance
    <3>1. \A day : Partner!Ineligible(a, day) <=>
            Else \/ Since(a.lodged, day, limit) \/ Since(a.sponsorApplied, day, limit)
      BY DEF Partner!Ineligible, Since
    <3>2. limit \in Nat
      BY DEF Partner!SPONSORSHIP_LIMITATION_DAYS
    <3> HIDE DEF Else, limit
    <3>3. QED
      BY <2>1, <2>2, <3>1, <3>2, Zenon
  <2>4. Partner!BecomingEligible(a, today + days) => Partner!BecomingEligible(a, today)
    <3>1. \A day : Partner!BecomingEligible(a, day) <=>
            \/ Since(a.dating, day, 182)
            \/ /\ Partner!NonCommitted(a) /\ (a.liveTogether = "Yes" \/ a.livedBefore = "Yes")
               /\ Since(a.together, day, 182)
            \/ (Partner!Committed(a) \/ a.marry = "Yes") /\ a.liveTogether = "No"
            \/ a.neverMet /\ (Partner!Committed(a) \/ a.arranged = "Yes")
      BY Zenon DEF Partner!BecomingEligible, Partner!RECENT_RELATIONSHIP_DAYS, Since
    <3>2. 182 \in Nat
      OBVIOUS
    <3>3. QED
      BY <2>1, <2>2, <3>1, <3>2, Zenon
  <2>5. Partner!Effort(a, today + days) = Partner!Effort(a, today)
    BY <1>1 DEF Partner!Effort, Partner!OnOrBefore
  <2>6. Partner!Outcome(a, today) = "eligible" /\ ~Partner!BecomingEligible(a, today)
    BY <1>1 DEF Partner!Statutory
  <2>7. ~Partner!Ineligible(a, today) /\ Partner!Effort(a, today) # "High Effort"
    BY <2>6 DEF Partner!Outcome
  <2>8. QED
    BY <2>3, <2>4, <2>5, <2>6, <2>7 DEF Partner!Statutory, Partner!Outcome
<1>2. Basic => WaitingNeverHurts
  BY <1>1, QuizzesAreValid DEF WaitingNeverHurts
<1>3. QED
  BY AlwaysBasic, <1>2, PTL

\* A protected reason for living apart turns a refusal into a high risk: it never leaves the
\* couple worse off than one that is willing to move in.
THEOREM ProtectedReasonsCount == Spec => []ApartForAReason
<1>1. ASSUME NEW a, Partner!ValidAnswers(a), NEW today \in Int, Partner!ApartAndUnmarried(a),
             a.protected
      PROVE  /\ Partner!HighRisk(a)
             /\ Partner!Ineligible(a, today) => Partner!Ineligible([a EXCEPT !.moveIn = "Yes"], today)
  <2> DEFINE b == [a EXCEPT !.moveIn = "Yes"]
  <2>1. /\ b.bars = a.bars /\ b.status = a.status /\ b.lodged = a.lodged
        /\ b.sponsorApplied = a.sponsorApplied /\ b.neverMet = a.neverMet
        /\ b.arranged = a.arranged /\ b.noPMVCircumstance = a.noPMVCircumstance
    OBVIOUS
  <2>2. Partner!NonCommitted(b) <=> Partner!NonCommitted(a)
    BY <2>1 DEF Partner!NonCommitted, Partner!Committed
  <2> HIDE DEF b
  <2>3. Partner!Ineligible(a, today) => Partner!Ineligible(b, today)
    BY <1>1, <2>1, <2>2 DEF Partner!Ineligible
  <2>4. Partner!HighRisk(a)
    BY <1>1 DEF Partner!HighRisk
  <2>5. QED
    BY <2>3, <2>4 DEF b
<1>2. Basic => ApartForAReason
  BY <1>1, QuizzesAreValid DEF ApartForAReason
<1>3. QED
  BY AlwaysBasic, <1>2, PTL

==============================================================================
