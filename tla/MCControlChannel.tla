-------------------------- MODULE MCControlChannel --------------------------
(***************************************************************************)
(* Two calls; the command line changes a key each, the web both or none,   *)
(* and a row that does not validate hides the other.                       *)
(***************************************************************************)
EXTENDS ControlChannel

CONSTANTS c1, c2, v0, v1

MCCalls == {c1, c2}
MCLoaders == MCCalls \cup {"boot"}
MCSets == {<<1, v1>>, <<2, v1>>}
MCBatches == {<<v0, v1>>, <<v1, Bad>>}
MCRaws == {<<1, Bad>>}
=============================================================================
