----------------------------- MODULE ProspectIntake -----------------------------
(***************************************************************************)
(* How prospects enter the system and what the agent is shown of them:     *)
(* the capture form, the employer-sponsored pre-screen, the partner quiz,  *)
(* the points calculator and a candidate's invitation each run an engine,  *)
(* create a prospect under a human reference and rebuild its summary;      *)
(* agents and webhooks change the prospect's rows meanwhile and rebuild    *)
(* the summary too.                                                        *)
(*                                                                         *)
(* One step of a request is what happens up to its next await.  A request  *)
(* works through a script of steps, `todo`; the prospect and the sponsor a *)
(* request creates are named by the request.  Webhook claims, checkouts    *)
(* and the matching of bookings are the business of WebhookEvents,         *)
(* ConsultPayment and CalendlyBooking: here they are single writes that    *)
(* end in a refresh.                                                       *)
(***************************************************************************)
EXTENDS PolicyCache, OccupationCatalogue, EmployerSponsoredEngine, SequencesExt

CONSTANTS
  Requests,
  Workloads,      \* functions from requests to what they ask for
  Tokens,         \* invitations sent before
  ClockRef,       \* the reference taken from the clock when every draw collided
  EmployerRows,   \* policy_config rows of the category employer
  Commercial,     \* commercial_config
  FactValues,     \* per fact of the pre-screen: the answers a completed form may have
  MaxFaults       \* bound: failing steps and stopped instances

ASSUME RequestsRead == Requests \subseteq Readers
ASSUME ClockRefIsNew == ClockRef \notin Requests

Partner == INSTANCE PartnerEligibilityEngine
Points == INSTANCE PointsEngine
Audit == INSTANCE PartnerAuditEngine

\* An agent sets or clears one of a prospect's two flags, or both.
Flag == BOOLEAN \cup {None}
ValidReview(flags) ==
  DOMAIN flags \subseteq {"statutory", "fit"} /\ \A x \in DOMAIN flags : flags[x] \in Flag

\* A request is served by an instance; its form is such as validation lets through.
ASSUME WorkloadsAreValid ==
  \A w \in Workloads : \A r \in Requests :
    /\ w[r].on \in Instances
    /\ CASE w[r].kind = "prescreen" -> ValidFacts(w[r].facts)
         [] w[r].kind = "partner"   -> Partner!ValidAnswers(w[r].answers) /\ w[r].today \in Int
         [] w[r].kind = "points"    -> Points!ValidProfile(w[r].profile)
         [] w[r].kind = "audit"     -> Audit!ValidEvidence(w[r].has, w[r].form888)
         [] w[r].kind = "review"    -> ValidReview(w[r].flags)
         [] w[r].kind = "edit"      -> w[r].value \in Int
         [] OTHER                   -> TRUE
ASSUME NoneIsNoStatus ==
  None \notin {"pending", "confirmed", "cancelled", "expired", "paid"}
ASSUME AnswersMayBeMissing == DOMAIN FactValues \subseteq Facts
ASSUME MaxFaultsIsNat == MaxFaults \in Nat

VARIABLES
  job,         \* per request: what it asks for
  todo,        \* per request: the steps left
  told,        \* per request: its answer
  local,       \* per request: what it holds in memory
  prospects,   \* per prospect created: [ref, statutory, fit, sponsor]
  sponsors,    \* per sponsor created: does it have its nomination?
  submissions, \* requests whose quiz or audit is saved
  bookings,    \* per prospect: the statuses of its bookings, oldest first
  payments,    \* per prospect: the statuses of its payments, oldest first
  summaries,   \* per prospect with a summary: its blocks
  invites,     \* per invitation: [status, due]
  faults,      \* failures so far
  alone,       \* history: nobody else wrote what the request is to summarise
  settled      \* history, per acceptance: the invitations accepted when it began

rows == <<prospects, sponsors, submissions, bookings, payments, summaries, invites>>
config == <<policyVars, catalogueVars, bootVars>>
vars == <<job, todo, told, local, rows, faults, alone, settled, config>>

-----------------------------------------------------------------------------
(* Scripts *)

Refresh == <<"read", "booking", "payment", "look", "merge">>

Sync == <<"survey", "compare", "resolve">>

Quizzes == {"prescreen", "partner", "points"}
Creators == Quizzes \cup {"capture", "accept"}
Touches == {"review", "book", "cancel", "pay", "lapse"}
Resolvers == {"create", "update", "import", "sync"}

\* A plausible error: the employer is linked before its role is written down.
SponsorshipLinkedFirst(j) ==
  IF j.employer THEN <<"sponsor", "link">> \o (IF j.role THEN <<"nominate">> ELSE <<>>)
  ELSE <<>>

\* persistSponsorship and linkSponsor: j.employer, a name or an ABN was given; j.role, a
\* role was offered.
Sponsorship(j) ==
  IF j.employer THEN <<"sponsor">> \o (IF j.role THEN <<"nominate">> ELSE <<>>) \o <<"link">>
  ELSE <<>>

Work(j) ==
  CASE j.kind = "capture"   -> <<"ref", "insert">> \o Refresh
    [] j.kind = "prescreen" -> <<"assess", "ref", "insert">>
                                    \o Sponsorship(j) \o Refresh
    [] j.kind = "partner"   -> <<"submission", "ref", "insert">> \o Refresh
    [] j.kind = "points"    -> <<"age", "marks", "standing", "ref", "insert">> \o Refresh
    [] j.kind = "audit"     -> <<"weigh", "submission">>
    [] j.kind = "accept"    -> <<"lookup", "expiry", "ref", "insert", "accept">>
    [] j.kind = "invite"    -> <<"find", "keep">>
    [] j.kind \in Touches   -> <<"write">> \o Refresh
    [] j.kind \in {"checkout", "delete"} -> <<"write">>
    [] j.kind = "edit"      -> <<"save", "clear">>
    [] j.kind = "create"    -> <<"add", "compare", "resolve">>
    [] j.kind = "update"    -> <<"load", "drop", "compare", "resolve">>
    [] j.kind = "import"    -> <<"upsert">> \o (IF j.resync THEN Sync ELSE <<>>)
    [] j.kind = "sync"      -> Sync
    [] j.kind = "remove"    -> <<"remove">>
    [] OTHER                -> <<>>

Entry == <<"enter", "await">>

Script(j) == (IF j.on \in Cold THEN Entry ELSE <<>>) \o Work(j)

Kind(r) == job[r].kind
Target(r) == IF Kind(r) \in Creators THEN r ELSE job[r].target
At(r, step) == todo[r] # <<>> /\ Head(todo[r]) = step

\* A plausible error: can_book is a conjunction of flags that may be null.
ReplyOfFlags(r) ==
  IF Kind(r) \in Quizzes THEN local[r].fit ELSE "ok"

\* The answer to a request whose last step is done.
Reply(r) ==
  IF Kind(r) \in Quizzes
  THEN IF local[r].statutory = TRUE /\ local[r].fit = TRUE THEN "canBook" ELSE "noBook"
  ELSE "ok"

Goes(r) ==
  /\ todo' = [todo EXCEPT ![r] = Tail(@)]
  /\ told' = IF Len(todo[r]) = 1 THEN [told EXCEPT ![r] = Reply(r)] ELSE told
Ends(r, answer) ==
  /\ todo' = [todo EXCEPT ![r] = <<>>]
  /\ told' = [told EXCEPT ![r] = answer]
Holds(r, new) == local' = [local EXCEPT ![r] = new ++ @]

NoLocal ==
  [ref |-> None, statutory |-> None, fit |-> None, editions |-> {}, total |-> None,
   belowPassMark |-> None, aged |-> None, meets |-> None, row |-> None,
   booking |-> None, payment |-> None, base |-> <<>>, edition |-> 0,
   lists |-> {}, dropped |-> {}, seen |-> <<>>, expired |-> FALSE]

Init ==
  /\ job \in Workloads
  /\ todo = [r \in Requests |-> Script(job[r])]
  /\ told = [r \in Requests |-> "none"]
  /\ local = [r \in Requests |-> NoLocal]
  /\ prospects = <<>> /\ sponsors = <<>> /\ submissions = {} /\ summaries = <<>>
  /\ bookings = [r \in Requests |-> <<>>] /\ payments = [r \in Requests |-> <<>>]
  /\ invites = [t \in Tokens |-> [status |-> "pending", due |-> FALSE]]
  /\ faults = 0
  /\ alone = [r \in Requests |-> FALSE]
  /\ settled = [r \in Requests |-> {}]
  /\ PolicyInit /\ CatalogueInit /\ BootInit

-----------------------------------------------------------------------------
(* What goes wrong *)

\* createProspect of the partner quiz and of the points calculator catches.
CaughtByNone(r) == FALSE
Caught(r) == Kind(r) \in {"partner", "points"}

\* A plausible error: every step is best effort, and the engine's verdict the answer.
ThrowsNever(r) == Ends(r, Reply(r))

\* The step at hand throws: a refresh swallows it, the pre-screen goes on without the
\* sponsorship, a quiz without its prospect, and any other request fails.
Throws(r) ==
  LET step == Head(todo[r]) IN
  CASE step \in ToSet(Refresh) -> Ends(r, Reply(r))
    [] step \in {"sponsor", "nominate", "link"} ->
         todo' = [todo EXCEPT ![r] = Refresh] /\ UNCHANGED told
    [] step \in {"ref", "insert"} /\ Caught(r) -> Ends(r, "noBook")
    [] OTHER -> Ends(r, "failed")

Fails(r) ==
  /\ todo[r] # <<>> /\ Head(todo[r]) \notin ToSet(Entry) \cup {"clear"} /\ fetched[r] = None /\ faults < MaxFaults
  /\ Throws(r) /\ faults' = faults + 1
  /\ UNCHANGED <<job, local, rows, config>>

On(i) == {r \in Requests : job[r].on = i}

\* An instance is stopped with everything it holds in memory.
Stops(i) ==
  /\ \E r \in On(i) : todo[r] # <<>>
  /\ faults < MaxFaults /\ faults' = faults + 1
  /\ todo' = [r \in Requests |-> IF r \in On(i) THEN <<>> ELSE todo[r]]
  /\ Restart(i, On(i)) /\ Recycle(i)
  /\ UNCHANGED <<job, told, local, rows, catalogueVars>>

-----------------------------------------------------------------------------
(* The entry of an instance *)

EnterInstance(r) ==
  /\ At(r, "enter") /\ Goes(r) /\ Enter(job[r].on)
  /\ UNCHANGED <<job, local, rows, faults, policyVars, catalogueVars>>

GetServed(r) ==
  /\ At(r, "await") /\ bootstrapPromise[job[r].on] = "fulfilled" /\ Goes(r)
  /\ UNCHANGED <<job, local, rows, faults, config>>

InstanceStarts(i) ==
  /\ BootSucceeds(i)
  /\ UNCHANGED <<job, todo, told, local, rows, faults, policyVars, catalogueVars>>

\* Everyone who waits for the start is rejected with it.
InstanceFailsToStart(i) ==
  LET waiting == {r \in On(i) : At(r, "await")} IN
  /\ BootFails(i)
  /\ faults < MaxFaults /\ faults' = faults + 1
  /\ todo' = [r \in Requests |-> IF r \in waiting THEN <<>> ELSE todo[r]]
  /\ told' = [r \in Requests |-> IF r \in waiting THEN "failed" ELSE told[r]]
  /\ UNCHANGED <<job, local, rows, policyVars, catalogueVars>>

-----------------------------------------------------------------------------
(* The engines *)

EmployerPolicy == EmployerSnapshot(EmployerRows)

\* What the catalogue says of the code on a form, or without memberships when it cannot
\* be asked: a lookup that fails is no answer.
Answered(facts, asked) ==
  LET code == facts.occupation
      memberships == IF asked /\ code \in DOMAIN listed
                     THEN {[list |-> l, verified |-> listed[code][l]] : l \in ListsOf(code)}
                     ELSE {}
  IN IF code = Unknown THEN facts
     ELSE [facts EXCEPT !.occupation = [majorGroup |-> code[1], memberships |-> memberships]]

Screen(form) == Assess(form, EmployerPolicy, Commercial)

HoldsVerdict(r, form) ==
  \E f \in {form} : \E found \in {Screen(f)} :
    Holds(r, [statutory |-> found.statutory, fit |-> found.fit])

\* EmployerSponsoredEngine.assess, its lookups taken as one; its two snapshots are not
\* cached, and nobody edits their rows here.
AssessPreScreen(r) ==
  /\ At(r, "assess") /\ Goes(r)
  /\ \/ /\ UNCHANGED faults
        /\ HoldsVerdict(r, Answered(job[r].facts, TRUE))
     \/ /\ faults < MaxFaults /\ faults' = faults + 1
        /\ HoldsVerdict(r, Answered(job[r].facts, FALSE))
  /\ UNCHANGED <<job, rows, config>>

\* The partner quiz is assessed and saved; an audit is saved.
SaveSubmission(r) ==
  /\ At(r, "submission") /\ Goes(r)
  /\ submissions' = submissions \cup {r}
  /\ IF Kind(r) = "partner"
     THEN Holds(r, [statutory |-> Partner!Statutory(job[r].answers, job[r].today)])
     ELSE UNCHANGED local
  /\ UNCHANGED <<job, prospects, sponsors, bookings, payments, summaries, invites, faults,
                 config>>

PolicyReads == {"age", "marks", "standing", "weigh"}

FetchPolicy(r) ==
  /\ todo[r] # <<>> /\ Head(todo[r]) \in PolicyReads
  /\ Fetch(r, job[r].on)
  /\ UNCHANGED <<job, todo, told, local, rows, faults, catalogueVars, bootVars>>

\* The rows a request can work with.
Copies(r) == {cache[job[r].on], fetched[r]} \ {None}

\* A step that needs `keys` of the copy v, and goes on with `new`.
ReadsPolicy(r, step, v, keys, new) ==
  /\ At(r, step) /\ Reads(r, job[r].on, v)
  /\ IF \A k \in keys : Usable(v.values, k)
     THEN Goes(r) /\ Holds(r, [editions |-> local[r].editions \cup {v.edition}] ++ new)
     ELSE Throws(r) /\ UNCHANGED local
  /\ UNCHANGED <<job, rows, faults, catalogueVars, bootVars>>

MaxAge == <<"points", "gsmMaxAge">>
PassMark == <<"points", "gsmPassMark">>
WorkCap == <<"points", "combinedWorkCap">>
StateBonus == <<"points", "stateNominationBonus">>
RegionalBonus == <<"points", "regionalNominationBonus">>

\* calculateTotalPoints up to the query of the rules ...
ReadAgeLimit(r) ==
  \E v \in Copies(r) :
    ReadsPolicy(r, "age", v, {MaxAge}, [aged |-> job[r].profile.age >= v.values[MaxAge]])

\* ... and up to the query of the date; nobody edits the rules here.
ReadMarks(r) ==
  \E v \in Copies(r) :
    LET total == Points!TotalPoints(job[r].profile, Points!SeededRules, v.values[WorkCap])
    IN ReadsPolicy(r, "marks", v, {WorkCap, PassMark},
         [total |-> total, belowPassMark |-> total < v.values[PassMark]])

\* buildStanding, its three loads taken as one.
ReadStanding(r) ==
  \E v \in Copies(r) :
    LET meets ==
          Points!Standing(local[r].total, job[r].profile.age,
            [passMark |-> v.values[PassMark], maxAge |-> v.values[MaxAge],
             stateBonus |-> v.values[StateBonus], regionalBonus |-> v.values[RegionalBonus]])
    IN ReadsPolicy(r, "standing", v, {PassMark, StateBonus, RegionalBonus, MaxAge},
         [meets |-> meets, statutory |-> \E s \in Points!Featured : meets[s]])

Weigh(r) == \E v \in Copies(r) : ReadsPolicy(r, "weigh", v, {}, [statutory |-> None])

\* update: there must be such a row, and the value must be one the engines can use.
Accepts(key, value) ==
  key \in DOMAIN table.values /\ Usable([table.values EXCEPT ![key] = value], key)

SaveEdit(r) ==
  /\ At(r, "save")
  /\ IF Accepts(job[r].key, job[r].value)
     THEN /\ SaveRow(job[r].key, job[r].value)
          /\ Holds(r, [edition |-> table.edition + 1]) /\ Goes(r)
     ELSE Throws(r) /\ UNCHANGED <<local, policyVars>>
  /\ UNCHANGED <<job, rows, faults, catalogueVars, bootVars>>

ClearAfterEdit(r) ==
  /\ At(r, "clear") /\ Goes(r)
  /\ ClearCache(job[r].on, local[r].edition, On(job[r].on))
  /\ UNCHANGED <<job, local, rows, faults, catalogueVars, bootVars>>

-----------------------------------------------------------------------------
(* Creating a prospect *)

TakenRefs == {prospects[p].ref : p \in DOMAIN prospects}

\* References drawn at random are named by the request that drew them first.
Drawn == {local[q].ref : q \in Requests} \ {None, ClockRef}

\* generateHumanRef: a free reference, new or in the hands of another request, or the
\* clock's when every draw was taken.
GenerateRef(r) ==
  /\ At(r, "ref") /\ Goes(r)
  /\ \/ \E ref \in ({r} \cup Drawn) \ TakenRefs : Holds(r, [ref |-> ref])
     \/ TakenRefs # {} /\ Holds(r, [ref |-> ClockRef])
  /\ UNCHANGED <<job, rows, faults, config>>

\* The insertion; human_ref is unique.
InsertProspect(r) ==
  /\ At(r, "insert")
  /\ IF local[r].ref \in TakenRefs THEN Throws(r) /\ UNCHANGED prospects
     ELSE /\ Goes(r)
          /\ prospects' = prospects ++ [p \in {r} |-> [ref |-> local[r].ref, sponsor |-> None,
               statutory |-> local[r].statutory, fit |-> local[r].fit]]
  /\ UNCHANGED <<job, local, sponsors, submissions, bookings, payments, summaries, invites,
                 faults, config>>

PersistSponsor(r) ==
  /\ At(r, "sponsor") \/ At(r, "nominate")
  /\ Goes(r)
  /\ sponsors' = [p \in {r} |-> At(r, "nominate")] ++ sponsors
  /\ UNCHANGED <<job, local, prospects, submissions, bookings, payments, summaries, invites,
                 faults, config>>

LinkSponsor(r) ==
  /\ At(r, "link") /\ Goes(r)
  /\ prospects' = [prospects EXCEPT ![r].sponsor = r]
  /\ UNCHANGED <<job, local, sponsors, submissions, bookings, payments, summaries, invites,
                 faults, config>>

-----------------------------------------------------------------------------
(* The catalogue: what an admin asks is about one occupation, job[r].code *)

Code(r) == job[r].code

CatalogueStep(r, step) == At(r, step) /\ UNCHANGED <<job, rows, faults, policyVars, bootVars>>

\* create, and the first transaction of importLists.
CreateOccupation(r) ==
  /\ CatalogueStep(r, "add")
  /\ IF CanAdd(Code(r)) THEN Goes(r) /\ AddOccupation(Code(r), job[r].lists)
     ELSE Throws(r) /\ UNCHANGED catalogueVars
  /\ Holds(r, [lists |-> job[r].lists])

\* A transaction that has deleted memberships holds their rows until it ends.
HeldBack(r, lists) ==
  \E q \in Requests \ {r} :
    Kind(q) = "update" /\ At(q, "resolve") /\ Code(q) = Code(r) /\ local[q].dropped \cap lists # {}

UpsertLists(r) ==
  /\ CatalogueStep(r, "upsert") /\ Goes(r)
  /\ ~HeldBack(r, job[r].lists)
  /\ ImportMemberships(Code(r), job[r].lists)
  /\ UNCHANGED local

DeleteOccupation(r) ==
  /\ CatalogueStep(r, "remove")
  /\ IF Code(r) \in DOMAIN listed THEN Goes(r) /\ RemoveOccupation(Code(r))
     ELSE Ends(r, "refused") /\ UNCHANGED catalogueVars
  /\ UNCHANGED local

LoadOccupation(r) ==
  /\ CatalogueStep(r, "load")
  /\ IF Code(r) \in DOMAIN listed THEN Goes(r) /\ Holds(r, [lists |-> ListsOf(Code(r))])
     ELSE Ends(r, "refused") /\ UNCHANGED local
  /\ UNCHANGED catalogueVars

\* The transaction of update saves the occupation as it was loaded, which fails when a
\* membership has been added since (it would be orphaned), and deletes the memberships.
DropLists(r) ==
  /\ CatalogueStep(r, "drop")
  /\ IF Code(r) \in DOMAIN listed /\ ~(ListsOf(Code(r)) \subseteq local[r].lists)
     THEN Throws(r) /\ UNCHANGED local
     ELSE /\ Goes(r)
          /\ Holds(r, [lists |-> job[r].lists,
                        dropped |-> IF Code(r) \in DOMAIN listed THEN ListsOf(Code(r)) ELSE {}])
  /\ UNCHANGED catalogueVars

\* syncVisas passes over an occupation that is on no list.
SurveyLists(r) ==
  /\ CatalogueStep(r, "survey")
  /\ IF Code(r) \in DOMAIN listed /\ ListsOf(Code(r)) # {}
     THEN Goes(r) /\ Holds(r, [lists |-> ListsOf(Code(r))])
     ELSE Ends(r, "ok") /\ UNCHANGED local
  /\ UNCHANGED catalogueVars

CompareLinks(r) ==
  /\ CatalogueStep(r, "compare") /\ Goes(r)
  /\ ~HeldBack(r, local[r].dropped)
  /\ Holds(r, [seen |-> LinksOf(Code(r))])
  /\ UNCHANGED catalogueVars

\* The transaction commits, with the memberships of an update.
ResolveVisas(r) ==
  LET written == Resolved(local[r].seen, local[r].lists, job[r].deactivateStale)
      updates == Kind(r) = "update"
      here == updates \/ Code(r) \in DOMAIN listed
  IN /\ CatalogueStep(r, "resolve")
     /\ IF CanCommit(Code(r), local[r].seen, local[r].lists, written, here)
        THEN /\ Goes(r) /\ CommitLinks(Code(r), written)
             /\ IF updates
                THEN listed' = [c \in {Code(r)} |-> Replaced(c, local[r].dropped, local[r].lists)]
                                 ++ listed
                ELSE UNCHANGED listed
        ELSE Throws(r) /\ UNCHANGED catalogueVars
     /\ UNCHANGED local

-----------------------------------------------------------------------------
(* Invitations *)

Token(r) == job[r].token
Acceptances(t) == {r \in Requests : Kind(r) = "accept" /\ Token(r) = t}

ChangeInvite(t, new) == invites' = [invites EXCEPT ![t].status = new]

InviteFallsDue(t) ==
  /\ ~invites[t].due /\ invites' = [invites EXCEPT ![t].due = TRUE]
  /\ \E r \in Requests : Kind(r) \in {"accept", "invite"} /\ todo[r] # <<>>
  /\ UNCHANGED <<job, todo, told, local, prospects, sponsors, submissions, bookings, payments,
                 summaries, faults, config>>

\* create: the business may be another than the form says.  Of the invitations that are
\* pending, all of one business to one candidate here, any one is read: it is used again
\* unless it fell due, and then one is added whatever the others are.
FindInvite(r) ==
  LET pending == {t \in DOMAIN invites : invites[t].status = "pending"} IN
  /\ At(r, "find")
  /\ \/ Ends(r, "refused")
     \/ pending = {} /\ Goes(r)
     \/ \E t \in pending : IF invites[t].due THEN Goes(r) ELSE Ends(r, "reused")
  /\ UNCHANGED <<job, local, rows, faults, config>>

KeepInvite(r) ==
  /\ At(r, "keep") /\ Goes(r)
  /\ invites' = invites ++ [t \in {r} |-> [status |-> "pending", due |-> FALSE]]
  /\ UNCHANGED <<job, local, prospects, sponsors, submissions, bookings, payments, summaries,
                 faults, config>>

LookUpInvite(r) ==
  /\ At(r, "lookup")
  /\ IF Token(r) \in DOMAIN invites /\ invites[Token(r)].status = "pending"
     THEN Goes(r) /\ Holds(r, [expired |-> invites[Token(r)].due])
     ELSE Ends(r, "refused") /\ UNCHANGED local
  /\ UNCHANGED <<job, rows, faults, config>>

\* One that was due when it was read is closed, whatever it has become since; another is
\* read again, only to see that it is there, and nothing removes one.
CloseExpired(r) ==
  /\ At(r, "expiry")
  /\ IF local[r].expired
     THEN Ends(r, "refused") /\ ChangeInvite(Token(r), "expired")
     ELSE Goes(r) /\ UNCHANGED invites
  /\ UNCHANGED <<job, local, prospects, sponsors, submissions, bookings, payments, summaries,
                 faults, config>>

\* A plausible error: the invitation only learns who accepted it.
AcceptInviteSilently(r) ==
  /\ At(r, "accept") /\ Goes(r)
  /\ UNCHANGED <<job, local, rows, faults, config>>

AcceptInvite(r) ==
  /\ At(r, "accept") /\ Goes(r)
  /\ ChangeInvite(Token(r), "accepted")
  /\ UNCHANGED <<job, local, prospects, sponsors, submissions, bookings, payments, summaries,
                 faults, config>>

-----------------------------------------------------------------------------
(* What agents, Calendly and Stripe write about a prospect *)

Touch(r, kind) ==
  /\ At(r, "write") /\ Kind(r) = kind /\ Target(r) \in DOMAIN prospects /\ Goes(r)
  /\ UNCHANGED <<job, sponsors, submissions, summaries, invites, faults, config>>

Review(r) ==
  /\ Touch(r, "review")
  /\ prospects' = [prospects EXCEPT ![Target(r)] = job[r].flags ++ @]
  /\ UNCHANGED <<local, bookings, payments>>

SetBooking(p, k, status) == bookings' = [bookings EXCEPT ![p][k] = status]

\* The booking and the payment a caller holds are handed to the refresh.
BookSlot(r) ==
  /\ Touch(r, "book")
  /\ bookings' = [bookings EXCEPT ![Target(r)] = Append(@, "pending")]
  /\ Holds(r, [booking |-> "pending"])
  /\ UNCHANGED <<prospects, payments>>

CancelSlot(r) ==
  /\ Touch(r, "cancel")
  /\ \E k \in DOMAIN bookings[Target(r)] : SetBooking(Target(r), k, "cancelled")
  /\ Holds(r, [booking |-> "cancelled"])
  /\ UNCHANGED <<prospects, payments>>

DeleteSlot(r) ==
  /\ Touch(r, "delete")
  /\ \E k \in DOMAIN bookings[Target(r)] :
       bookings' = [bookings EXCEPT ![Target(r)] = RemoveAt(@, k)]
  /\ UNCHANGED <<local, prospects, payments>>

OpenCheckout(r) ==
  /\ Touch(r, "checkout")
  /\ payments' = [payments EXCEPT ![Target(r)] = Append(@, "pending")]
  /\ UNCHANGED <<local, prospects, bookings>>

LapseCheckout(r) ==
  /\ Touch(r, "lapse")
  /\ \E k \in DOMAIN payments[Target(r)] :
       /\ payments[Target(r)][k] = "pending"
       /\ payments' = [payments EXCEPT ![Target(r)][k] = "expired"]
  /\ UNCHANGED <<local, prospects, bookings>>

\* markPaidWithBooking; an attempt is paid once per prospect.
PayCheckout(r) ==
  /\ Touch(r, "pay")
  /\ "paid" \notin ToSet(payments[Target(r)])
  /\ \E k \in DOMAIN payments[Target(r)] :
       payments' = [payments EXCEPT ![Target(r)][k] = "paid"]
  /\ \/ /\ \E b \in DOMAIN bookings[Target(r)] : SetBooking(Target(r), b, "confirmed")
        /\ Holds(r, [payment |-> "paid", booking |-> "confirmed"])
     \/ /\ bookings[Target(r)] = <<>> /\ UNCHANGED bookings
        /\ Holds(r, [payment |-> "paid"])
  /\ UNCHANGED prospects

-----------------------------------------------------------------------------
(* ProspectSummaryService.refresh *)

\* What a request hands to the refresh beside a booking and a payment.
GivesAnswers(r) == Kind(r) \in Quizzes \/ (Kind(r) = "capture" /\ job[r].answered)
GivesResult(r) == Kind(r) = "prescreen"
GivesAssessment(r) == Kind(r) \in Quizzes

Blank ==
  [answers |-> FALSE, result |-> FALSE, eligibility |-> None, sponsorship |-> FALSE,
   booking |-> None, payment |-> None]

RefreshStep(r, step) ==
  At(r, step) /\ Goes(r) /\ UNCHANGED <<job, rows, faults, config>>

\* The prospect, and the sponsor it is linked to: neither sponsor nor nomination is
\* changed once it is.
ReadProspect(r) ==
  /\ RefreshStep(r, "read")
  /\ Holds(r, [row |-> prospects[Target(r)]])

\* buildBooking: the most recent booking; the rows are in the order of creation.
LatestBooking(p) == IF bookings[p] = <<>> THEN None ELSE Last(bookings[p])

ReadBooking(r) ==
  /\ RefreshStep(r, "booking")
  /\ Holds(r, [booking |-> IF local[r].booking # None THEN local[r].booking
                           ELSE LatestBooking(Target(r))])

\* buildPayment orders by paid_at descending: PostgreSQL puts the rows without one first.
ShownPayment(p) ==
  LET unpaid == {k \in DOMAIN payments[p] : payments[p][k] # "paid"} IN
  IF unpaid # {} THEN payments[p][Max(unpaid)] ELSE IF payments[p] # <<>> THEN "paid" ELSE None

ReadPayment(r) ==
  /\ RefreshStep(r, "payment")
  /\ Holds(r, [payment |-> IF local[r].payment # None THEN local[r].payment
                           ELSE ShownPayment(Target(r))])

\* The summary row of a prospect, if there is one.
Found(p) == IF p \in DOMAIN summaries THEN <<summaries[p]>> ELSE <<>>

LookUpSummary(r) ==
  /\ RefreshStep(r, "look")
  /\ Holds(r, [base |-> Found(Target(r))])

\* The engine's account of a prospect goes to the block `eligibility`; without one the
\* block is made of the prospect's two flags.
Eligibility(r) ==
  LET flags(x) == [statutory |-> x.statutory, fit |-> x.fit, account |-> GivesAssessment(r)]
  IN IF GivesAssessment(r) THEN flags(local[r]) ELSE flags(local[r].row)

\* Plausible errors: a block once filled is never replaced, and ...
MergedFillingGaps(r, base) ==
  LET orNew(block, new) == IF base[block] = None THEN new ELSE base[block] IN
  [answers |-> GivesAnswers(r) \/ base.answers, result |-> GivesResult(r) \/ base.result,
   eligibility |-> Eligibility(r),
   sponsorship |-> local[r].row.sponsor # None \/ base.sponsorship,
   booking |-> orNew("booking", local[r].booking),
   payment |-> orNew("payment", local[r].payment)]

\* ... the row is built anew from what this refresh has.
MergedAnew(r, base) ==
  [answers |-> GivesAnswers(r), result |-> GivesResult(r), eligibility |-> Eligibility(r),
   sponsorship |-> local[r].row.sponsor # None,
   booking |-> local[r].booking, payment |-> local[r].payment]

Merged(r, base) ==
  LET orKept(new, block) == IF new = None THEN base[block] ELSE new IN
  [answers |-> GivesAnswers(r) \/ base.answers, result |-> GivesResult(r) \/ base.result,
   eligibility |-> Eligibility(r),
   sponsorship |-> local[r].row.sponsor # None \/ base.sponsorship,
   booking |-> orKept(local[r].booking, "booking"),
   payment |-> orKept(local[r].payment, "payment")]

\* upsert: an insertion fails when another refresh was first, and the failure is
\* swallowed; a save writes every column of the row that was read.
SaveSummary(r) ==
  LET p == Target(r) IN
  /\ At(r, "merge") /\ Goes(r)
  /\ summaries' =
       IF local[r].base # <<>> THEN [summaries EXCEPT ![p] = Merged(r, Head(local[r].base))]
       ELSE IF p \in DOMAIN summaries THEN summaries
       ELSE summaries ++ [q \in {p} |-> Merged(r, Blank)]
  /\ UNCHANGED <<job, local, prospects, sponsors, submissions, bookings, payments, invites,
                 faults, config>>

-----------------------------------------------------------------------------

Engine(r) ==
  \/ AssessPreScreen(r) \/ SaveSubmission(r) \/ FetchPolicy(r) \/ ReadAgeLimit(r)
  \/ ReadMarks(r) \/ ReadStanding(r) \/ Weigh(r) \/ SaveEdit(r) \/ ClearAfterEdit(r)
Creation(r) ==
  \/ GenerateRef(r) \/ InsertProspect(r) \/ PersistSponsor(r) \/ LinkSponsor(r)
Invitation(r) ==
  \/ FindInvite(r) \/ KeepInvite(r) \/ LookUpInvite(r) \/ CloseExpired(r) \/ AcceptInvite(r)
Admin(r) ==
  \/ CreateOccupation(r) \/ UpsertLists(r) \/ DeleteOccupation(r) \/ LoadOccupation(r)
  \/ DropLists(r) \/ SurveyLists(r) \/ CompareLinks(r) \/ ResolveVisas(r)
Write(r) ==
  \/ Review(r) \/ BookSlot(r) \/ CancelSlot(r) \/ DeleteSlot(r) \/ OpenCheckout(r)
  \/ LapseCheckout(r) \/ PayCheckout(r)
Summary(r) ==
  \/ ReadProspect(r) \/ ReadBooking(r) \/ ReadPayment(r) \/ LookUpSummary(r) \/ SaveSummary(r)

Step(r) ==
  EnterInstance(r) \/ GetServed(r) \/ Engine(r) \/ Creation(r) \/ Admin(r) \/ Invitation(r) \/ Write(r) \/ Summary(r)

\* What a summary is made of, and the summary.
DataOf(p) ==
  <<p \in DOMAIN prospects, IF p \in DOMAIN prospects THEN prospects[p] ELSE None,
    bookings[p], payments[p], Found(p)>>

\* The history variables, after a step of r.
Witnessed(r) ==
  /\ alone' = [q \in Requests |->
       IF Kind(q) \notin Touches \cup Resolvers THEN FALSE
       ELSE IF q = r THEN todo[r] = Script(job[r]) \/ alone[r]
       ELSE IF Kind(q) \in Touches THEN alone[q] /\ DataOf(Target(q))' = DataOf(Target(q))
       ELSE alone[q] /\ catalogueVars' = catalogueVars]
  /\ settled' =
       IF At(r, "lookup")
       THEN [settled EXCEPT ![r] = {q \in Acceptances(Token(r)) : told[q] = "ok"}]
       ELSE settled

Next ==
  \/ \E r \in Requests : (Step(r) \/ Fails(r)) /\ Witnessed(r)
  \/ \E i \in Instances :
       (Stops(i) \/ InstanceStarts(i) \/ InstanceFailsToStart(i)) /\ UNCHANGED <<alone, settled>>
  \/ (\E t \in DOMAIN invites : InviteFallsDue(t)) /\ UNCHANGED <<alone, settled>>

Spec == Init /\ [][Next]_vars

\* A request that creates a prospect goes on: the runtime resumes it when its query
\* answers.
FairSpec ==
  Spec /\ \A r \in Requests : WF_vars((Creation(r) \/ Summary(r)) /\ Witnessed(r))

-----------------------------------------------------------------------------
(* Properties of the state *)

TypeOK ==
  /\ \A r \in Requests :
       /\ todo[r] \in Suffixes(Script(job[r]))
       /\ told[r] \in {"none", "failed", "refused", "reused", "noBook", "canBook", "ok"}
       /\ told[r] # "none" => todo[r] = <<>>
  /\ \A p \in DOMAIN prospects :
       /\ prospects[p].ref \in Requests \cup {ClockRef}
       /\ prospects[p].statutory \in Flag /\ prospects[p].fit \in Flag
       /\ prospects[p].sponsor \in DOMAIN sponsors \cup {None}
  /\ bootstrapPromise \in [Instances -> {"null", "pending", "fulfilled"}]
  /\ submissions \subseteq Requests
  /\ DOMAIN summaries \subseteq DOMAIN prospects
  /\ \A t \in DOMAIN invites : invites[t].status \in {"pending", "accepted", "expired"}
  /\ faults \in 0..MaxFaults

\* A sponsor that a prospect is linked to has the role that was offered: the agent never
\* opens a file whose employer is there and whose role is still to be written.
LinkedSponsorIsComplete ==
  \A p \in DOMAIN prospects :
    prospects[p].sponsor # None /\ job[p].role => sponsors[prospects[p].sponsor]

\* Nobody is offered a consultation without a prospect the booking can be attached to,
\* however the insertions of the others and the failures fall.
BookableIsOnRecord ==
  \A r \in Requests : told[r] = "canBook" => r \in DOMAIN prospects

\* A candidate who accepts an invitation after somebody was told that it is accepted
\* does not become a second prospect.  (Two acceptances at the same time do.)
NoLateAcceptance ==
  \A r \in Requests : Kind(r) = "accept" /\ r \in DOMAIN prospects => settled[r] = {}

\* Once an edit has dropped the cache of its instance, with no older query on its way
\* there, that instance never works with the rows from before the edit again.
EditTakesEffect ==
  \A i \in Instances : cache[i] # None => cache[i].edition >= published[i]

\* However many requests meet a cold instance, and however often its start fails, one
\* application at a time is built on its server; and whoever waits for the start, waits
\* for one that is still to end.
OneApplication ==
  /\ \A i \in Instances : built[i] <= 1
  /\ \A r \in Requests : At(r, "await") => bootstrapPromise[job[r].on] # "null"

-----------------------------------------------------------------------------
(* Properties of the engines, at the step that runs them *)

Eligible(s, form) == IsEligible(AssessSubclass(s, form, EmployerPolicy))

\* The form of a request as the engine sees it, and those that complete one or two of
\* its missing answers.
FormsAt(r) == IF At(r, "assess") THEN {Answered(job[r].facts, TRUE)} ELSE {}
Unanswered(facts) == {x \in DOMAIN FactValues : facts[x] = Unknown}
Completions(facts) ==
  UNION {{Answered([facts EXCEPT ![x] = v, ![y] = w], TRUE) :
            v \in FactValues[x], w \in FactValues[y]} :
           x \in Unanswered(facts), y \in Unanswered(facts)}

\* "Unknown is never treated as pass": a pathway found open on an incomplete form is open
\* whatever the missing answers turn out to be.
UnknownDecidesNothing ==
  \A r \in Requests : \A form \in FormsAt(r) : \A s \in Subclasses :
    Eligible(s, form) => \A full \in Completions(job[r].facts) : Eligible(s, full)

\* "Unknown is never treated as fail either": whoever is told that the requirements are
\* not met could not have met them, on any pathway, by answering more questions.
RefusalIsFinal ==
  \A r \in Requests : \A form \in FormsAt(r) :
    Screen(form).tag \in {"requirements_not_met", "income_below_threshold"} =>
      \A full \in Completions(job[r].facts) : ~Screen(full).statutory

Quiz(r) == At(r, "submission") /\ Kind(r) = "partner"

\* A couple found eligible stays eligible with the same answers on a later day, unless a
\* visa runs out: no limitation period begins by waiting.
WaitingNeverHurts ==
  \A r \in Requests : Quiz(r) =>
    LET a == job[r].answers IN
    a.expiry = Unknown /\ Partner!Statutory(a, job[r].today) =>
      \A days \in {1, 182, 183, 1825, 1826} : Partner!Statutory(a, job[r].today + days)

\* A protected reason for living apart turns a refusal into a high risk: it never leaves
\* the couple worse off than one that is willing to move in.
ApartForAReason ==
  \A r \in Requests : Quiz(r) =>
    LET a == job[r].answers IN
    Partner!ApartAndUnmarried(a) /\ a.protected =>
      /\ Partner!HighRisk(a)
      /\ Partner!Ineligible(a, job[r].today) =>
           Partner!Ineligible([a EXCEPT !.moveIn = "Yes"], job[r].today)

\* Whoever is shown a score at the pass mark and within the age limit is shown subclass
\* 189 as met, and nobody else, if all the readings were of the same edition.
OneVerdict ==
  \A r \in Requests :
    local[r].meets # None /\ Cardinality(local[r].editions) = 1 =>
      (local[r].meets["189"] <=> ~local[r].belowPassMark /\ ~local[r].aged)

\* More years of work never cost points, whatever the cap makes of them.
ExperienceNeverCosts ==
  \A r \in Requests : At(r, "age") =>
    LET profile == job[r].profile
        score(x) == Points!TotalPoints(x, Points!SeededRules, PolicyRows[WorkCap]) IN
    \A more \in 1..8 :
      /\ score([profile EXCEPT !.overseas = @ + more]) >= score(profile)
      /\ score([profile EXCEPT !.australian = @ + more]) >= score(profile)

\* Evidence is called strong across all four pillars only if every pillar scores 75,
\* save the commitment of a couple that has lived together and is not registered.
StrongMeansStrong ==
  \A r \in Requests : At(r, "weigh") =>
    LET has == job[r].has
        score(pillar) == Audit!Score(pillar, PolicyRows, has, job[r].form888) IN
    Audit!CalledStrong(PolicyRows, has, job[r].form888) =>
      \A pillar \in DOMAIN Audit!Pillars :
        \/ score(pillar) >= 75
        \/ /\ pillar = "commitment" /\ "livedTogether12Months" \in has
           /\ "registeredRelationshipBDM" \notin has

-----------------------------------------------------------------------------
(* Properties of steps *)

\* The summary and the tables agree: the flags, the sponsorship, the latest booking, and
\* the payment unless an unpaid attempt stands beside a paid one.
Agrees(p) ==
  LET s == summaries[p]
      statuses == ToSet(payments[p]) IN
  /\ p \in DOMAIN summaries
  /\ s.eligibility.statutory = prospects[p].statutory
  /\ s.eligibility.fit = prospects[p].fit
  /\ prospects[p].sponsor # None => s.sponsorship
  /\ bookings[p] # <<>> => s.booking = LatestBooking(p)
  /\ payments[p] # <<>> /\ ("paid" \in statuses => statuses = {"paid"}) =>
       s.payment = Last(payments[p])

\* "If it is ever wrong, the fix is to call refresh() again": a refresh that was handed
\* nothing, and that nobody else wrote beside, leaves a summary that agrees with the
\* tables, whatever earlier refreshes and failures had made of it.
RefreshRepairs ==
  [][\A r \in Requests :
       Kind(r) \in {"review", "lapse"} /\ alone[r] /\ At(r, "merge") /\ todo'[r] = <<>>
         /\ faults' = faults => Agrees(Target(r))']_vars

\* Whoever resolves an occupation's visas, with nobody else at the catalogue meanwhile,
\* leaves it linked to the visas of its lists, and to no other unless asked to keep them
\* (an edit, on the lists that it was given): whatever a creation that failed half-way, an
\* import without a sync or two transactions at once had left.
SyncRepairs ==
  [][\A r \in Requests :
       Kind(r) \in Resolvers /\ alone[r] /\ At(r, "resolve") /\ told'[r] = "ok" =>
         LET visas == EligibleVisas(ListsOf(Code(r)))' IN
         /\ visas \subseteq ActiveLinks(Code(r))'
         /\ job[r].deactivateStale => ActiveLinks(Code(r))' = visas
         /\ Kind(r) = "update" => ListsOf(Code(r))' = job[r].lists]_vars

\* The answers and the engine's result are lost only to a refresh that saves over a
\* summary that changed since it was read, never to one that merely has less to say.
HomeworkKept ==
  [][\A p \in DOMAIN summaries :
       \/ /\ summaries[p].answers => summaries'[p].answers
          /\ summaries[p].result => summaries'[p].result
       \/ \E r \in Requests :
            At(r, "merge") /\ Target(r) = p /\ local[r].base # Found(p)]_vars

\* "Keys not supplied are left as they were": the engine's account of a prospect stays in
\* its summary when a later refresh is not given one.  The code overwrites it with the
\* two flags.
AccountStays ==
  [][\A p \in DOMAIN summaries :
       summaries[p].eligibility.account => summaries'[p].eligibility.account]_vars

\* "A failed prospect write must not lose the quiz result": a quiz or a calculation whose
\* result is there is answered with it, whatever the creation of the prospect comes to,
\* unless the instance stops.
QuizResultReturned ==
  \A r \in Requests :
    Kind(r) \in {"partner", "points"} /\ At(r, "ref")
      ~> (told[r] \in {"noBook", "canBook"} \/ (told[r] = "none" /\ todo[r] = <<>>))

==============================================================================
