------------------------- MODULE TunnelTranslation -------------------------
(***************************************************************************)
(* What an entry of a frpc configuration file becomes on its way through   *)
(* FrpDeck: frpcimport parses it into a draft, the web interface or the    *)
(* command line turns the draft into a row, and the two drivers turn the   *)
(* row into what they tell frp, one with typed structures, the other with  *)
(* a frpc.toml.  Each of the five has a table of its own of the fields a   *)
(* type has: they are kept apart here as they are there.                   *)
(*                                                                         *)
(* An entry, a draft, a row and a configuration are records [role, type,   *)
(* name, set], where set gives each field a value: "" is what Go has for a *)
(* field nobody wrote (no text, 0, FALSE, an empty list), "v" stands for   *)
(* what somebody wrote, " v " for that with blanks around it.              *)
(***************************************************************************)
EXTENDS Naturals, Sequences

CONSTANT Bases   \* what names there are, but for the numbers at the end

ASSUME BasesAssumption == {"", " ", "imported", "ssh", " ssh", "SSH"} \subseteq Bases

ProxyTypes == {"tcp", "udp", "http", "https", "tcpmux", "stcp", "xtcp", "sudp"}
VisitorTypes == {"stcp", "xtcp", "sudp"}

Fields ==
  {"localIP", "localPort", "useEncryption", "useCompression", "bandwidthLimit",
   "group", "groupKey", "healthCheckType", "healthCheckPath", "plugin",
   "pluginOptions", "remotePort", "customDomains", "subdomain", "locations",
   "httpUser", "httpPassword", "hostHeaderRewrite", "secretKey", "allowUsers",
   "serverName", "serverUser", "advanced"}

\* "out" is a port above 65535, "broken" is text that is not TOML, and
\* "http" and "tcp" are the health checks there are.
Values == {"", "v", " v ", " ", "loopback", "out", "broken", "http", "tcp"}

\* strings.TrimSpace
Trim(v) == CASE v = " v " -> "v" [] v = " " -> "" [] OTHER -> v
OrLoopback(v) == IF Trim(v) = "" THEN "loopback" ELSE Trim(v)

\* A list joined with commas, as a row keeps it: splitCSV drops the blanks.
splitCSV(v) == Trim(v)

\* The fields in S as set has them; frp and Go leave the others at zero.
Only(S, set) == [f \in Fields |-> IF f \in S THEN set[f] ELSE ""]

-----------------------------------------------------------------------------
(***************************************************************************)
(* A name is a base and the numbers appended to it by renaming.  Names     *)
(* that differ in case or in blanks around them are taken for the same:    *)
(* "ssh" stands for names others differ from in that way.                  *)
(***************************************************************************)
TunnelName == [base : Bases, suffix : Seq(Nat)]

TrimName(n) == [n EXCEPT !.base = CASE @ = " ssh" -> "ssh" [] @ = " " -> "" [] OTHER -> @]
Key(n) ==
  LET m == TrimName(n) IN [m EXCEPT !.base = IF @ = "SSH" THEN "ssh" ELSE @]
Blank(n) == TrimName(n).base = "" /\ n.suffix = <<>>

\* uniqueImportName and uniquify: the first of name-2, name-3... not taken, and
\* after 999 a name that nobody compares.
Numbered(n, k) == [n EXCEPT !.suffix = Append(@, k)]
Unfit == 1000
IsFree(n, k, taken) == Key(Numbered(n, k)) \notin taken
Unique(n, taken) ==
  IF \E k \in 2 .. 999 : IsFree(n, k, taken)
  THEN Numbered(n, CHOOSE k \in 2 .. 999 :
                     IsFree(n, k, taken) /\ \A j \in 2 .. k - 1 : ~IsFree(n, j, taken))
  ELSE Numbered(n, Unfit)

-----------------------------------------------------------------------------
(***************************************************************************)
(* frpcimport.Parse: one draft for each proxy, then for each visitor.      *)
(***************************************************************************)
DraftBase ==
  {"localPort", "useEncryption", "useCompression", "bandwidthLimit", "group",
   "groupKey", "healthCheckType", "plugin"}

DraftFields(type) ==
  CASE type \in {"tcp", "udp"} -> {"remotePort"}
    [] type = "http" -> {"customDomains", "subdomain", "locations", "httpUser",
                         "httpPassword", "hostHeaderRewrite"}
    [] type = "https" -> {"customDomains", "subdomain"}
    [] type = "tcpmux" -> {"customDomains", "subdomain", "httpUser", "httpPassword"}
    [] OTHER -> {"secretKey", "allowUsers"}

mapProxy(x) ==
  [x EXCEPT !.name = TrimName(x.name),
            !.set = [Only(DraftBase \cup DraftFields(x.type), x.set)
                     EXCEPT !["localIP"] = OrLoopback(x.set["localIP"]),
                            !["healthCheckPath"] = IF x.set["healthCheckType"] # ""
                              THEN x.set["healthCheckPath"] ELSE "",
                            !["pluginOptions"] = IF x.set["plugin"] # ""
                              THEN x.set["pluginOptions"] ELSE ""]]

mapVisitor(x) ==
  [x EXCEPT !.name = TrimName(x.name),
            !.set = [Only({"localPort", "serverName", "secretKey",
                           "useEncryption", "useCompression"}, x.set)
                     EXCEPT !["localIP"] = OrLoopback(x.set["localIP"])]]

Draft(x) == IF x.role = "visitor" THEN mapVisitor(x) ELSE mapProxy(x)

Entries(file) == file.proxies \o file.visitors

\* pluginToTOML turns the options into TOML, which the user may edit.
Parse(file) == [k \in DOMAIN Entries(file) |-> Draft(Entries(file)[k])]

-----------------------------------------------------------------------------
(***************************************************************************)
(* From a draft to a row.  The web validates the request and trims little; *)
(* the command line trims more and validates nothing.                      *)
(***************************************************************************)
Has(set, f) == Trim(set[f]) # ""

validate(d) ==
  /\ ~Blank(d.name)
  /\ d.type \in IF d.role = "visitor" THEN VisitorTypes ELSE ProxyTypes
  /\ d.set["localPort"] # "out"
  /\ CASE d.role = "visitor" -> Has(d.set, "secretKey") /\ Has(d.set, "serverName")
       [] d.type \in {"tcp", "udp"} -> d.set["remotePort"] # "out"
       [] d.type \in {"http", "https", "tcpmux"} ->
            Has(d.set, "customDomains") \/ Has(d.set, "subdomain")
       [] OTHER -> Has(d.set, "secretKey")

\* A draft has no server user to fill the request's with.
importDraftToReq(d) == [d EXCEPT !.set["serverUser"] = ""]
applyToTunnel(req) ==
  [req EXCEPT !.name = TrimName(req.name), !.set["localIP"] = OrLoopback(@)]

\* The text fields that tunnelFromDraft trims.
Trimmed ==
  {"localIP", "customDomains", "subdomain", "locations", "httpUser",
   "hostHeaderRewrite", "allowUsers", "serverName", "bandwidthLimit", "group",
   "groupKey", "healthCheckType", "healthCheckPath", "plugin"}
tunnelFromDraft(d) ==
  [d EXCEPT !.set = [f \in Fields |-> IF f \in Trimmed THEN Trim(d.set[f]) ELSE d.set[f]]]

-----------------------------------------------------------------------------
(***************************************************************************)
(* The embedded driver: BuildProxy and BuildVisitor.                       *)
(***************************************************************************)
Parsed(v) == IF Trim(v) = "v" THEN "v" ELSE ""

ProxyBase ==
  {"useEncryption", "useCompression", "group", "groupKey", "localIP",
   "localPort", "healthCheckType"}

ProxyFields(type) ==
  CASE type \in {"tcp", "udp"} -> {"remotePort"}
    [] type = "http" -> {"httpUser", "httpPassword", "hostHeaderRewrite"}
    [] type = "tcpmux" -> {"httpUser", "httpPassword"}
    [] type \in {"stcp", "xtcp", "sudp"} -> {"secretKey"}
    [] OTHER -> {}

ProxyLists(type) ==
  CASE type = "http" -> {"customDomains", "subdomain", "locations"}
    [] type \in {"https", "tcpmux"} -> {"customDomains", "subdomain"}
    [] type \in {"stcp", "xtcp", "sudp"} -> {"allowUsers"}
    [] OTHER -> {}

BuildProxy(row) ==
  [f \in Fields |->
     CASE f \in ProxyBase \cup ProxyFields(row.type) -> row.set[f]
       [] f \in ProxyLists(row.type) -> splitCSV(row.set[f])
       [] f = "bandwidthLimit" -> Parsed(row.set[f])
       [] f = "healthCheckPath" /\ row.set["healthCheckType"] = "http" -> row.set[f]
       [] OTHER -> ""]

BuildVisitor(row) ==
  Only({"serverName", "serverUser", "secretKey", "localIP", "localPort",
        "useEncryption", "useCompression"}, row.set)

Embedded(row) == IF row.role = "visitor" THEN BuildVisitor(row) ELSE BuildProxy(row)

-----------------------------------------------------------------------------
(***************************************************************************)
(* The subprocess driver: the tables of frpc.toml.  A key that is left out *)
(* is a field frpc finds at zero.                                          *)
(***************************************************************************)
TableBase == {"localIP", "localPort", "useEncryption", "useCompression"}
TableTrimmed == {"bandwidthLimit", "group", "healthCheckType", "plugin"}
TableLists == {"customDomains", "subdomain", "locations", "allowUsers"}

\* The definitions named ..._Wrong are what a plausible mistake would make of
\* the next one; nothing uses them but the trial that a property notices.
\* This one writes the domains of a tcpmux proxy and forgets its user.
TableFields_Wrong(type) ==
  CASE type \in {"tcp", "udp"} -> {"remotePort"}
    [] type = "http" -> {"customDomains", "subdomain", "locations", "httpUser",
                         "httpPassword", "hostHeaderRewrite"}
    [] type \in {"https", "tcpmux"} -> {"customDomains", "subdomain"}
    [] OTHER -> {"secretKey", "allowUsers"}

TableFields(type) ==
  CASE type \in {"tcp", "udp"} -> {"remotePort"}
    [] type = "http" -> {"customDomains", "subdomain", "locations", "httpUser",
                         "httpPassword", "hostHeaderRewrite"}
    [] type = "https" -> {"customDomains", "subdomain"}
    [] type = "tcpmux" -> {"customDomains", "subdomain", "httpUser", "httpPassword"}
    [] OTHER -> {"secretKey", "allowUsers"}

\* buildProxyTable and buildPluginTable.
ProxyTable(row) ==
  [f \in Fields |->
     CASE f \in TableBase -> row.set[f]
       [] f \in TableTrimmed -> Trim(row.set[f])
       [] f \in TableFields(row.type) \cap TableLists -> splitCSV(row.set[f])
       [] f \in TableFields(row.type) \ TableLists -> row.set[f]
       [] f = "groupKey" /\ Has(row.set, "group") -> row.set[f]
       [] f = "healthCheckPath" /\ Trim(row.set["healthCheckType"]) = "http" -> row.set[f]
       [] f = "pluginOptions" /\ Has(row.set, "plugin") -> Trim(row.set[f])
       [] OTHER -> ""]

\* buildVisitorTable
VisitorTable(row) ==
  Only({"serverName", "serverUser", "secretKey", "localIP", "localPort",
        "useEncryption", "useCompression"}, row.set)

Table(row) == IF row.role = "visitor" THEN VisitorTable(row) ELSE ProxyTable(row)

\* What a table has beside its name, its type and these fields: the table of a
\* visitor says that it is one.
OtherKeys(row) == IF row.role = "visitor" THEN {"role"} ELSE {}

\* One row that cannot be written fails BuildSubprocessTOML for all of them.
Writable(row) ==
  row.role = "server" /\ Has(row.set, "plugin") => Trim(row.set["pluginOptions"]) # "broken"
SubprocessTunnels(rows) ==
  IF \A r \in rows : Writable(r)
  THEN {[name |-> r.name, set |-> Table(r), others |-> OtherKeys(r)] : r \in rows}
  ELSE {}

-----------------------------------------------------------------------------
(***************************************************************************)
(* The server the file is for, by the same road: a draft, an endpoint row, *)
(* and what the two drivers say of it.  "off" is a heartbeat that a        *)
(* negative number disables, or TLS switched off.                          *)
(***************************************************************************)
CommonFields ==
  {"serverAddr", "serverPort", "protocol", "user", "token", "poolCount",
   "heartbeatInterval", "heartbeatTimeout", "tls", "other"}
CommonTrimmed == {"serverAddr", "protocol", "user"}

OnlyCommon(S, c) == [f \in CommonFields |-> IF f \in S THEN c[f] ELSE ""]
TrimCommon(S, c) == [f \in CommonFields |-> IF f \in S THEN Trim(c[f]) ELSE c[f]]
Positive(v) == IF v = "off" THEN "" ELSE v

mapEndpoint(c) ==
  [TrimCommon(CommonTrimmed \cup {"token"}, OnlyCommon(CommonFields \ {"other"}, c))
   EXCEPT !["heartbeatInterval"] = Positive(@),
          !["heartbeatTimeout"] = Positive(@),
          !["tls"] = IF @ = "" THEN "on" ELSE @]

validateEndpoint(d) ==
  Has(d, "serverAddr") /\ d["serverPort"] \notin {"", "out"}

applyToEndpoint(d) == TrimCommon(CommonTrimmed, d)

\* TLS is on in frp unless it is switched off.
EndpointCommon(row) ==
  [row EXCEPT !["tls"] = IF @ = "off" THEN "off" ELSE "", !["other"] = ""]

RootTable(row) ==
  [TrimCommon({"user", "protocol"}, row)
   EXCEPT !["heartbeatInterval"] = Positive(@), !["heartbeatTimeout"] = Positive(@),
          !["other"] = ""]

-----------------------------------------------------------------------------
(***************************************************************************)
(* What frpc makes of fields it is given, by a file or by a driver: the    *)
(* fields its type has, 127.0.0.1 unless said otherwise, no local address  *)
(* beside a plugin, a path for an HTTP check only, a group key for a       *)
(* group, TLS unless switched off.                                         *)
(***************************************************************************)
Addressed == {"localIP", "localPort", "useEncryption", "useCompression"}

Known(role, type) ==
  IF role = "visitor" THEN Addressed \cup {"serverName", "serverUser", "secretKey"}
  ELSE Addressed \cup
         {"bandwidthLimit", "group", "groupKey", "healthCheckType", "healthCheckPath",
          "plugin", "pluginOptions"} \cup
         CASE type \in {"tcp", "udp"} -> {"remotePort"}
           [] type = "http" -> {"customDomains", "subdomain", "locations", "httpUser",
                                "httpPassword", "hostHeaderRewrite"}
           [] type = "https" -> {"customDomains", "subdomain"}
           [] type = "tcpmux" -> {"customDomains", "subdomain", "httpUser", "httpPassword"}
           [] OTHER -> {"secretKey", "allowUsers"}

\* What frpc accepts in a file: the fields a type has, a bandwidth that frpc
\* can read, options that can be written as TOML, TLS switched on or off.
Types(role) == IF role = "visitor" THEN VisitorTypes ELSE ProxyTypes
Entry(role) ==
  {x \in [role : {role}, type : Types(role), name : TunnelName, set : [Fields -> Values]] :
     /\ \A f \in Fields \ Known(role, x.type) : x.set[f] = ""
     /\ Trim(x.set["bandwidthLimit"]) \in {"", "v"}
     /\ x.set["pluginOptions"] # "broken"}
Common ==
  {c \in [CommonFields -> Values \cup {"on", "off"}] : c["tls"] \in {"", "on", "off"}}
File == [proxies : Seq(Entry("server")), visitors : Seq(Entry("visitor")), common : Common]

\* frpc is strict: one key that it does not know, and role is one, and it refuses
\* the whole file.
FrpcReads(tables) == IF \A t \in tables : t.others = {} THEN tables ELSE {}

Effect(role, type, set) ==
  [f \in Known(role, type) |->
     CASE f \in {"localIP", "localPort"} /\ Has(set, "plugin") -> ""
       [] f = "localIP" /\ ~Has(set, "plugin") -> OrLoopback(set[f])
       [] f = "healthCheckPath" /\ Trim(set["healthCheckType"]) # "http" -> ""
       [] f = "groupKey" /\ ~Has(set, "group") -> ""
       [] f = "pluginOptions" /\ ~Has(set, "plugin") -> ""
       [] OTHER -> Trim(set[f])]

CommonEffect(c) ==
  [TrimCommon(CommonFields, OnlyCommon(CommonFields \ {"other"}, c))
   EXCEPT !["tls"] = IF @ = "" THEN "on" ELSE @]
=============================================================================
