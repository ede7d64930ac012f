---------------------------- MODULE MCLoginGuard ----------------------------
(***************************************************************************)
(* Values of LoginGuard for TLC.                                           *)
(***************************************************************************)
EXTENDS LoginGuard, TLC

\* All addresses are in one network.
OneNet(ip) == "net"

Strict == [maxIP |-> 1, windowIP |-> 1, maxUser |-> 1, windowUser |-> 1,
           subnet |-> TRUE, captcha |-> 1]
\* Addresses and networks are never locked out.
Lax == [Strict EXCEPT !.maxIP = 0, !.subnet = FALSE, !.maxUser = 3]
Both == {Strict, Lax}

\* One address is as good as another.
Addresses == Permutations(Ips)
=============================================================================
