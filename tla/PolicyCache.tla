------------------------------ MODULE PolicyCache ------------------------------
(***************************************************************************)
(* The cache that each instance of PolicyConfigService keeps of the        *)
(* policy_config table.  A reader that finds no cache queries the table    *)
(* and stores what came back when the answer arrives; an edit writes the   *)
(* table and then drops the cache of the instance it ran on, and of no     *)
(* other.  `edition` counts the edits, so that two readings can be told    *)
(* apart.                                                                  *)
(***************************************************************************)
EXTENDS PolicyValues, ServerlessEntry

CONSTANTS Readers, None,
          PolicyRows   \* the rows at the start: a function from keys to numbers

\* Numbers are integers here.  Every row a migration has put there is there: the service has
\* no operation that removes one.
ASSUME RowsAreNumbers == \A key \in DOMAIN PolicyRows : PolicyRows[key] \in Int
ASSUME SeedsAreThere == DOMAIN SeededPolicy \subseteq DOMAIN PolicyRows

VARIABLES
  table,      \* [edition, values]: policy_config
  cache,      \* per instance: a copy of the table, or None
  fetched,    \* per reader: the rows its query returned, not stored yet, or None
  published   \* history: the newest edit an instance can no longer miss

policyVars == <<table, cache, fetched, published>>

PolicyInit ==
  /\ table = [edition |-> 0, values |-> PolicyRows]
  /\ cache = [i \in Instances |-> None]
  /\ fetched = [r \in Readers |-> None]
  /\ published = [i \in Instances |-> 0]

\* ensureLoaded, up to the answer of the query.
Fetch(r, i) ==
  /\ cache[i] = None /\ fetched[r] = None
  /\ fetched' = [fetched EXCEPT ![r] = table]
  /\ UNCHANGED <<table, cache, published>>

\* ensureLoaded returns v: the cache, or what was fetched, which becomes the cache
\* whatever has happened to it since.
Reads(r, i, v) ==
  /\ \/ /\ fetched[r] = None /\ cache[i] # None /\ v = cache[i]
        /\ UNCHANGED <<cache, fetched>>
     \/ /\ fetched[r] # None /\ v = fetched[r]
        /\ cache' = [cache EXCEPT ![i] = v]
        /\ fetched' = [fetched EXCEPT ![r] = None]
  /\ UNCHANGED <<table, published>>

\* update: the row is saved ...
SaveRow(key, value) ==
  /\ table' = [edition |-> table.edition + 1, values |-> [table.values EXCEPT ![key] = value]]
  /\ UNCHANGED <<cache, fetched, published>>

\* A plausible error: only the table is written.
KeepCache(i, edition, here) ==
  /\ published' = [published EXCEPT ![i] = edition]
  /\ UNCHANGED <<table, cache, fetched>>

\* ... then this instance forgets its cache.  `edition` is the edit's own; `here` are
\* the readers of the instance.  A query that is still on its way with older rows
\* will store them, so that the edit is not published.
ClearCache(i, edition, here) ==
  /\ cache' = [cache EXCEPT ![i] = None]
  /\ published' = [published EXCEPT ![i] =
       IF \E r \in here : fetched[r] # None /\ fetched[r].edition < edition THEN @ ELSE edition]
  /\ UNCHANGED <<table, fetched>>

\* The instance stops; a new one begins without a cache.
Restart(i, here) ==
  /\ cache' = [cache EXCEPT ![i] = None]
  /\ fetched' = [r \in Readers |-> IF r \in here THEN None ELSE fetched[r]]
  /\ UNCHANGED <<table, published>>

==============================================================================
