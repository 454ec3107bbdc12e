---------------------------- MODULE ServerlessEntry ----------------------------
(***************************************************************************)
(* The entry of the serverless function, api/index.ts: an instance is      *)
(* started with nothing but an express server, and the first request       *)
(* builds the application on it.  What is kept between requests is the     *)
(* promise of the application, so that the others wait for the same one;   *)
(* a start that fails is forgotten, so that the next request tries again.  *)
(***************************************************************************)
EXTENDS Naturals

CONSTANTS Instances,
          Cold   \* the instances that have served no request yet

ASSUME ColdInstances == Cold \subseteq Instances

VARIABLES
  bootstrapPromise,  \* per instance: "null", "pending" or "fulfilled"
  built              \* per instance: applications built, or being built, on its server

bootVars == <<bootstrapPromise, built>>

BootInit ==
  /\ bootstrapPromise = [i \in Instances |-> IF i \in Cold THEN "null" ELSE "fulfilled"]
  /\ built = [i \in Instances |-> IF i \in Cold THEN 0 ELSE 1]

Bootstrap(i) ==
  /\ bootstrapPromise' = [bootstrapPromise EXCEPT ![i] = "pending"]
  /\ built' = [built EXCEPT ![i] = @ + 1]

\* A plausible error: what is kept is the application, once it is there.
EnterWithoutPromise(i) ==
  IF bootstrapPromise[i] # "fulfilled" THEN Bootstrap(i) ELSE UNCHANGED bootVars

\* handler, up to its await.
Enter(i) ==
  IF bootstrapPromise[i] = "null" THEN Bootstrap(i) ELSE UNCHANGED bootVars

BootSucceeds(i) ==
  /\ bootstrapPromise[i] = "pending"
  /\ bootstrapPromise' = [bootstrapPromise EXCEPT ![i] = "fulfilled"]
  /\ UNCHANGED built

\* The database cannot be reached, which NestFactory.create finds out before anything
\* is put on the server: the hooks that run later catch their errors.
BootFails(i) ==
  /\ bootstrapPromise[i] = "pending"
  /\ bootstrapPromise' = [bootstrapPromise EXCEPT ![i] = "null"]
  /\ built' = [built EXCEPT ![i] = @ - 1]

\* The platform ends the instance; the next one begins with a server of its own.
Recycle(i) ==
  /\ bootstrapPromise' = [bootstrapPromise EXCEPT ![i] = "null"]
  /\ built' = [built EXCEPT ![i] = 0]

==============================================================================
