------------------------------ MODULE PolicyValues ------------------------------
(***************************************************************************)
(* How a number is taken out of the rows of policy_config: `values` is a   *)
(* function from keys, pairs of a category and a name, to numbers.         *)
(***************************************************************************)
EXTENDS Integers, TLC

\* The rows the migrations put there, those of the categories that the engines modelled
\* here read through the cache.
SeededPoints ==
  [gsmPassMark |-> 65, gsmMaxAge |-> 45, combinedWorkCap |-> 20, stateNominationBonus |-> 5,
   regionalNominationBonus |-> 15]
SeededPartner ==
  [pillarMax |-> 100, weakThreshold |-> 75, form888Required |-> 2, jointBankAccounts |-> 30,
   jointLeaseOrMortgage |-> 40, sharedUtilityBills |-> 30, sharedDomesticBills |-> 40,
   jointChildResponsibility |-> 30, matchingAddressHistory |-> 30,
   sharedTravelItineraries |-> 30, form888Points |-> 40, jointSocialInvitations |-> 30,
   livedTogether12Months |-> 50, registeredRelationshipBDM |-> 50]
SeededPolicy ==
  [k \in ({"points"} \X DOMAIN SeededPoints) \cup ({"partner"} \X DOMAIN SeededPartner) |->
     IF k[1] = "points" THEN SeededPoints[k[2]] ELSE SeededPartner[k[2]]]

MustBePositive == {<<"points", "gsmPassMark">>, <<"points", "gsmMaxAge">>}

Usable(values, key) ==
  key \in DOMAIN values /\ values[key] >= (IF key \in MustBePositive THEN 1 ELSE 0)

\* num falls back on a value that is not usable; getRequiredNumber refuses it.
Num(values, key, fallback) == IF Usable(values, key) THEN values[key] ELSE fallback

==============================================================================
