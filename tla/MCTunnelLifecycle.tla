------------------------- MODULE MCTunnelLifecycle -------------------------
(***************************************************************************)
(* Instances of TunnelLifecycle for TLC.  A configuration chooses which    *)
(* clients there are and what they ask for.                                *)
(***************************************************************************)
EXTENDS TunnelLifecycle

\* What the web interface asks for through the HTTP API.
WebRequests ==
  {"create", "update", "start", "stop", "delete", "renew",
   "updateEndpoint", "deleteEndpoint"}

\* What the frpdeck command line asks for.
ShellRequests == {"shellAdd", "shellStatus", "shellExtend", "shellRemove", "shellEndpoint"}

AllRequests == WebRequests \cup {"move"} \cup ShellRequests
=============================================================================
