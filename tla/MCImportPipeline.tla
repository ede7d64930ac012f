-------------------------- MODULE MCImportPipeline --------------------------
(***************************************************************************)
(* One browser and one command line, the files of which clash with each    *)
(* other, within themselves and with tunnels made by hand, and between     *)
(* them have every type with every field it has.                           *)
(***************************************************************************)
EXTENDS ImportPipeline, TLC

CONSTANTS h, s

N(base) == [base |-> base, suffix |-> <<>>]

\* All fields of a type written, each as v.
All(role, type, v) ==
  [f \in Fields |->
     IF f \notin Known(role, type) \/ f \in {"plugin", "pluginOptions"} THEN ""
     ELSE IF f = "healthCheckType" THEN "http"
     ELSE IF f \in {"remotePort", "localPort", "useEncryption", "useCompression",
                    "bandwidthLimit"} THEN "v"
     ELSE v]
None == [f \in Fields |-> ""]
X(role, type, base, set) ==
  [role |-> role, type |-> type, name |-> N(base), set |-> set]
Full ==
  [f \in CommonFields |-> IF f = "tls" THEN "off" ELSE IF f = "user" THEN " v " ELSE "v"]
Bare == [f \in CommonFields |->
           IF f \in {"serverAddr", "serverPort"} THEN "v"
           ELSE IF f = "heartbeatInterval" THEN "off" ELSE ""]
Holding(proxies, visitors, c) == [proxies |-> proxies, visitors |-> visitors, common |-> c]

MCHandNames == {[base |-> "ssh", suffix |-> <<2>>]}

Clashing(first) ==
  IF first THEN
    Holding(<<X("server", "tcp", "SSH", None), X("server", "udp", " ssh", None)>>, <<>>, Bare)
  ELSE
    Holding(<<X("server", "tcp", "", None)>>,
            <<X("visitor", "stcp", "ssh", All("visitor", "stcp", "v"))>>, Full)

Variant(role, type, k) ==
  CASE k = 1 -> All(role, type, "v")
    [] k = 2 -> All(role, type, " v ")
    [] k = 3 -> [All(role, type, "v") EXCEPT !["plugin"] = "v", !["pluginOptions"] = "v",
                                            !["healthCheckType"] = "tcp"]
    [] OTHER -> [None EXCEPT !["remotePort"] = IF type = "tcp" THEN "out" ELSE "",
                             !["healthCheckPath"] = "v", !["group"] = " "]

ClashIds == {"clash"} \X {"tcp", "udp"} \X {1}
TypicalIds == ({"server"} \X ProxyTypes \X (1 .. 4)) \cup ({"visitor"} \X VisitorTypes \X (1 .. 2))
Empty == <<"empty", "tcp", 1>>
FileIds == ClashIds \cup TypicalIds \cup {Empty}

MCFiles ==
  [f \in FileIds |->
     CASE f \in ClashIds -> Clashing(f[2] = "tcp")
       [] f = Empty -> Holding(<<>>, <<>>, Bare)
       [] OTHER ->
            LET one == <<X(f[1], f[2], "web", Variant(f[1], f[2], f[3]))>>
                c == IF f[3] = 1 THEN Full ELSE Bare
            IN  IF f[1] = "visitor" THEN Holding(<<>>, one, c) ELSE Holding(one, <<>>, c)]

\* Two that clash, or one on its own.
Both(f, st, g, sh) == (h :> [file |-> f, strategy |-> st]) @@ (s :> [file |-> g, strategy |-> sh])
MCPlans ==
  {Both(f, "skip", <<"clash", "tcp", 1>>, st) : f \in ClashIds, st \in Strategies}
    \cup {Both(<<"clash", "tcp", 1>>, "skip", <<"clash", "udp", 1>>, st) : st \in Strategies}
    \cup {Both(f, "error", f, "error") : f \in {<<"server", "tcp", 1>>}}
    \cup {Both(f, "error", Empty, "error") : f \in TypicalIds}
    \cup {Both(Empty, "error", f, "error") : f \in TypicalIds}
=============================================================================
