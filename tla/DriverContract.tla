--------------------------- MODULE DriverContract ---------------------------
(***************************************************************************)
(* What TunnelLifecycle assumes of the driver, for one endpoint: callers   *)
(* add and remove tunnels or stop the endpoint, which changes the proxies  *)
(* wanted of it; and each time the frp service is brought up to date it    *)
(* runs the proxies wanted at that moment, all of them and no others.      *)
(***************************************************************************)
CONSTANT Tunnels

VARIABLES
  wanted,  \* the proxies the driver has been asked for
  live     \* the proxies the frp service runs

ContractInit == wanted = {} /\ live = {}

Ask ==
  /\ \/ \E t \in Tunnels : wanted' \in {wanted \cup {t}, wanted \ {t}}
     \/ wanted' = {}
  /\ UNCHANGED live

Serve ==
  /\ live' = wanted
  /\ UNCHANGED wanted

ContractSpec == ContractInit /\ [][Ask \/ Serve]_<<wanted, live>>
=============================================================================
