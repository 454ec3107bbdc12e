-------------------------- MODULE OccupationCatalogue --------------------------
(***************************************************************************)
(* The catalogue of occupations: which skilled lists each code is on, and  *)
(* the visas its page links to, which follow from the lists by the         *)
(* legislative matrix.                                                     *)
(*                                                                         *)
(* Lists and links are rows of two tables, and the matrix is applied in a  *)
(* transaction under READ COMMITTED: the lists it goes by were read, and   *)
(* the links it compares them with were read, before it commits.  What a   *)
(* request holds meanwhile is a parameter of the actions here.             *)
(*                                                                         *)
(* A code is a pair of its major group, the first digit, and a name.  The  *)
(* catalogue's visas are all active: nothing in the code changes them.     *)
(***************************************************************************)
EXTENDS Naturals

CONSTANT
  Catalogue   \* the occupations at the start: a function from codes to lists, each
              \* mapped to whether the membership has a source and a date

VARIABLES
  listed,     \* occupations and their memberships: as Catalogue
  links       \* per occupation: a function from the visas linked to is_active

catalogueVars == <<listed, links>>

\* The function `old` with what `new` has laid over it: the operator @@ of module TLC, which
\* has a meaning for TLC only, spelled out for the proofs.
new ++ old == [x \in DOMAIN new \cup DOMAIN old |-> IF x \in DOMAIN new THEN new[x] ELSE old[x]]

SKILLED_LIST_VISA_MATRIX ==
  [MLTSSL |-> {"189", "190", "491", "485"}, STSOL |-> {"190", "491"},
   ROL |-> {"491", "494"}, CSOL |-> {"482", "186"}]

EligibleVisas(lists) == UNION {SKILLED_LIST_VISA_MATRIX[l] : l \in lists}

ListsOf(code) == DOMAIN listed[code]

\* The links of an occupation: those of one that is not there are none.
LinksOf(code) == IF code \in DOMAIN links THEN links[code] ELSE <<>>
ActiveLinks(code) == {v \in DOMAIN LinksOf(code) : LinksOf(code)[v]}

CatalogueInit ==
  /\ listed = Catalogue
  /\ links = [code \in DOMAIN Catalogue |-> [v \in EligibleVisas(DOMAIN Catalogue[code]) |-> TRUE]]

-----------------------------------------------------------------------------
(* Memberships *)

Legacy(lists) == [l \in lists |-> FALSE]
Official(lists) == [l \in lists |-> TRUE]

\* create: the occupation and its memberships, in one save.  An occupation that is there
\* with memberships makes the save fail: they cannot be added again, nor orphaned.
CanAdd(code) == code \notin DOMAIN listed \/ ListsOf(code) = {}
AddOccupation(code, lists) ==
  /\ listed' = [c \in {code} |-> Legacy(lists)] ++ listed
  /\ links' = links ++ [c \in {code} |-> <<>>]

\* importLists: adds memberships with their source, or gives those that are there one.
ImportMemberships(code, lists) ==
  /\ listed' = [c \in {code} |-> IF code \in DOMAIN listed THEN Official(lists) ++ listed[code]
                                 ELSE Official(lists)] ++ listed
  /\ links' = links ++ [c \in {code} |-> <<>>]

\* remove: everything about the occupation goes with it.
RemoveOccupation(code) ==
  /\ listed' = [c \in DOMAIN listed \ {code} |-> listed[c]]
  /\ links' = [c \in DOMAIN links \ {code} |-> links[c]]

\* update: the rows that its DELETE saw are gone, those inserted since are not; a list
\* that is there already is left as it is.
Replaced(code, dropped, lists) ==
  LET kept == IF code \in DOMAIN listed THEN ListsOf(code) \ dropped ELSE {} IN
  [l \in kept \cup lists |-> l \in kept /\ listed[code][l]]

-----------------------------------------------------------------------------
(* resolveVisasForOccupation: `seen` are the links that were read *)

Missing(seen, lists) == EligibleVisas(lists) \ DOMAIN seen
Inactive(seen, lists) == {v \in EligibleVisas(lists) \cap DOMAIN seen : ~seen[v]}
Stale(seen, lists) == {v \in DOMAIN seen \ EligibleVisas(lists) : seen[v]}

\* A plausible error: a link that was switched off stays off.
ResolvedOnce(seen, lists, deactivateStale) ==
  [v \in Missing(seen, lists) |-> TRUE]
    ++ [v \in IF deactivateStale THEN Stale(seen, lists) ELSE {} |-> FALSE]

\* The links that are written.
Resolved(seen, lists, deactivateStale) ==
  [v \in Missing(seen, lists) \cup Inactive(seen, lists) |-> TRUE]
    ++ [v \in IF deactivateStale THEN Stale(seen, lists) ELSE {} |-> FALSE]

\* A link is unique, and needs its occupation; `here` says whether that is there when
\* the transaction commits.
CanCommit(code, seen, lists, written, here) ==
  /\ here \/ DOMAIN written = {}
  /\ here => Missing(seen, lists) \cap DOMAIN LinksOf(code) = {}

CommitLinks(code, written) ==
  links' = IF DOMAIN written = {} THEN links
           ELSE [c \in {code} |-> written ++ LinksOf(code)] ++ links

==============================================================================
