--------------------------- MODULE MCEventClients ---------------------------
(***************************************************************************)
(* Values for EventClients: log lines of a tunnel and state changes of     *)
(* tunnels in turn.                                                        *)
(***************************************************************************)
EXTENDS EventClients

MCKindOf == [e \in Events |->
  IF e % 2 = 0 THEN [type |-> "log", endpoint |-> 1, tunnel |-> 1]
  ELSE [type |-> "tunnel_state", endpoint |-> 1, tunnel |-> 2]]

MCRequests == {{<<"logs:endpoint", 1>>}, {<<"tunnels", 0>>}}

MCFilters == {[types |-> {}, endpoint |-> 1, tunnel |-> 0],
              [types |-> {"log"}, endpoint |-> 0, tunnel |-> 1]}
=============================================================================
