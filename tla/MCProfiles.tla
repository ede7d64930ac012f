---------------------------- MODULE MCProfiles ----------------------------
(***************************************************************************)
(* Instances of Profiles for TLC: two endpoints, the second with two       *)
(* tunnels, bound one by one, as a whole, or not at all.                   *)
(***************************************************************************)
EXTENDS Profiles

TwoHomes == [t \in Tunnels |-> IF t = 1 THEN 1 ELSE 2]

SomeBindings ==
  {{[endpoint |-> 1, tunnel |-> 1], [endpoint |-> 0, tunnel |-> 3]},
   {[endpoint |-> 2, tunnel |-> 0]}}
=============================================================================
