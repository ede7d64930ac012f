---------------------------- MODULE AdminAccounts ----------------------------
(***************************************************************************)
(* User accounts: who may administer the daemon.  Handlers of the web API  *)
(* and the frpdeck user commands read the account they are to change,      *)
(* count the active admins, and then write, in separate statements.  The   *)
(* daemon is in password mode; every request looks its account up in the   *)
(* database, so an account is out of charge once it is disabled.           *)
(*                                                                         *)
(* Names and passwords are left out: neither says who is in charge, and a  *)
(* name that is taken is refused by the unique index at the latest.        *)
(***************************************************************************)
EXTENDS Naturals, FiniteSets

CONSTANTS
  Ids,       \* account ids; the database never gives one out twice
  Seed,      \* the account that SeedAdminIfEmpty has inserted
  Actors,    \* accounts whose holders send requests
  Patches,   \* the updates they ask for
  Handlers,  \* goroutines that serve HTTP requests
  Shells     \* frpdeck CLI processes

\* What stands for whoever uses the CLI, which asks for no account.
Console == "console"

ASSUME IdsAssumption == /\ IsFiniteSet(Ids) /\ Seed \in Ids /\ Actors \subseteq Ids
                        /\ Console \notin Ids

VARIABLES
  users,       \* the users table
  requests,    \* what each handler or command is doing
  senders,     \* history: who has asked for anything
  overlapped   \* history: whether one request or command has met another

vars == <<users, requests, senders, overlapped>>

Threads == Handlers \cup Shells

Roles == {"admin", "user"}
Disabled == {"yes", "no"}
User == [state : {"unused", "stored", "deleted"}, role : Roles, disabled : Disabled]
Absent(state) == [state |-> state, role |-> "user", disabled |-> "yes"]
Stored(role, disabled) == [state |-> "stored", role |-> role, disabled |-> disabled]

\* The columns an update sets; a field that is absent from the request keeps
\* what it was.
Keep == "keep"
Fields == [role : Roles \cup {Keep}, disabled : Disabled \cup {Keep}]
                \ {[role |-> Keep, disabled |-> Keep]}
ASSUME PatchesAssumption == Patches \subseteq Fields

NoFields == [role |-> "user", disabled |-> Keep]

Request == [pc : {"idle", "read", "count", "write"}, op : {"create", "update", "delete"},
            target : Ids, fields : Fields]
Idle == [pc |-> "idle", op |-> "create", target |-> Seed, fields |-> NoFields]

Quiet == \A c \in Threads : requests[c] = Idle

\* The first step of a request or command, those that follow, and its end.
Begin(c, sender) ==
  /\ requests[c] = Idle
  /\ senders' = senders \cup {sender}
  /\ overlapped' = (overlapped \/ ~Quiet)

Goto(c, pc) ==
  /\ requests' = [requests EXCEPT ![c].pc = pc]
  /\ UNCHANGED <<senders, overlapped>>

Return(c) ==
  /\ requests' = [requests EXCEPT ![c] = Idle]
  /\ UNCHANGED <<senders, overlapped>>

IsActiveAdmin(u) == u.role = "admin" /\ u.disabled = "no" /\ u.state = "stored"
ActiveAdmins == {id \in Ids : IsActiveAdmin(users[id])}

Init ==
  /\ users = [id \in Ids |-> IF id = Seed THEN Stored("admin", "no") ELSE Absent("unused")]
  /\ requests = [c \in Threads |-> Idle]
  /\ senders = {}
  /\ overlapped = FALSE

-----------------------------------------------------------------------------
\* The middleware and ensureAdmin look the account behind the token up.
Authorised(actor) == actor \in Actors \cap ActiveAdmins

\* The rule that an admin modifies and deletes accounts of others only.
MayTarget_Wrong(actor, target) == TRUE
MayTarget(actor, target) == target # actor

BeginCreate(c) ==
  \E actor \in Actors, role \in Roles :
    /\ Begin(c, actor)
    /\ Authorised(actor)
    /\ requests' = [requests EXCEPT ![c] =
         [Idle EXCEPT !.pc = "write", !.fields = [NoFields EXCEPT !.role = role]]]
    /\ UNCHANGED users

BeginChange(c, op) ==
  \E actor \in Actors, target \in Ids, fields \in Patches \cup {NoFields} :
    /\ Begin(c, actor)
    /\ Authorised(actor)
    /\ MayTarget(actor, target)
    /\ IF op = "delete" THEN fields = NoFields ELSE fields \in Patches
    /\ requests' = [requests EXCEPT ![c] =
         [pc |-> "read", op |-> op, target |-> target, fields |-> fields]]
    /\ UNCHANGED users

\* frpdeck user remove, whoever runs it.
ShellRemove(c) ==
  \E target \in Ids :
    /\ Begin(c, Console)
    /\ requests' = [requests EXCEPT ![c] =
         [Idle EXCEPT !.pc = "read", !.op = "delete", !.target = target]]
    /\ UNCHANGED users

\* frpdeck user add, of any role.
ShellAdd(c) ==
  \E id \in Ids, role \in Roles :
    /\ Begin(c, Console)
    /\ users[id].state = "unused"
    /\ users' = [users EXCEPT ![id] = Stored(role, "no")]
    /\ UNCHANGED requests

\* Whether an active admin would no longer be one.  The mistake is to forget
\* deletions.
Lessens_Wrong(r) ==
  r.op = "update" /\ (r.fields.role = "user" \/ r.fields.disabled = "yes")

Lessens(r) ==
  \/ r.op = "delete"
  \/ r.op = "update" /\ (r.fields.role = "user" \/ r.fields.disabled = "yes")

\* The target is read; an active admin is not given up before a count.
ReadTarget(c) ==
  LET r == requests[c]
  IN  /\ r.pc = "read"
      /\ IF users[r.target].state # "stored" THEN Return(c)
         ELSE Goto(c, IF IsActiveAdmin(users[r.target]) /\ Lessens(r)
                      THEN "count" ELSE "write")
      /\ UNCHANGED users

CountActiveAdmins(c) ==
  /\ requests[c].pc = "count"
  /\ IF Cardinality(ActiveAdmins) <= 1 THEN Return(c) ELSE Goto(c, "write")
  /\ UNCHANGED users

CreateUser(c) ==
  \E id \in Ids :
    /\ requests[c].pc = "write"
    /\ requests[c].op = "create"
    /\ users[id].state = "unused"
    /\ users' = [users EXCEPT ![id] = Stored(requests[c].fields.role, "no")]
    /\ Return(c)

\* A column after an update.  A field that is absent changes nothing.
Updated(new, old) == IF new = Keep THEN old ELSE new

\* UpdateUserFields: an UPDATE of the row, if it is there.
Change(u, fields) ==
  IF u.state = "stored"
  THEN Stored(Updated(fields.role, u.role), Updated(fields.disabled, u.disabled))
  ELSE u

UpdateUserFields(c) ==
  LET r == requests[c]
  IN  /\ r.pc = "write"
      /\ r.op = "update"
      /\ users' = [users EXCEPT ![r.target] = Change(@, r.fields)]
      /\ Return(c)

DeleteUser(c) ==
  /\ requests[c].pc = "write"
  /\ requests[c].op = "delete"
  /\ users' = [users EXCEPT ![requests[c].target] = Absent("deleted")]
  /\ Return(c)

\* The insert of a creation that the database refuses.
Refused(c) ==
  /\ requests[c].pc = "write"
  /\ requests[c].op = "create"
  /\ Return(c)
  /\ UNCHANGED users

Next ==
  \/ \E c \in Handlers : \/ BeginCreate(c)
                         \/ \E op \in {"update", "delete"} : BeginChange(c, op)
  \/ \E c \in Shells : ShellRemove(c) \/ ShellAdd(c)
  \/ \E c \in Threads : \/ ReadTarget(c) \/ CountActiveAdmins(c) \/ CreateUser(c)
                        \/ UpdateUserFields(c) \/ DeleteUser(c) \/ Refused(c)

Spec == Init /\ [][Next]_vars

-----------------------------------------------------------------------------
(***************************************************************************)
(* Properties.                                                             *)
(***************************************************************************)
\* The variables keep their shape, and a creation says what role it gives.
TypeOK ==
  /\ users \in [Ids -> User]
  /\ requests \in [Threads -> Request]
  /\ \A c \in Threads : requests[c].op = "create" => requests[c].fields.role # Keep
  /\ senders \subseteq Ids \cup {Console}
  /\ overlapped \in BOOLEAN

\* Nobody is locked out: as long as the web and the CLI act one after the
\* other, an active admin is left.
KeepsAnAdmin == ~overlapped => ActiveAdmins # {}

\* As long as one admin alone has sent requests, however many overlap, that
\* admin stays in charge: the rule about oneself holds where the count is stale.
ActorsStay == \A id \in Ids : senders = {id} => id \in ActiveAdmins

\* An update that was decided on before a concurrent deletion does not bring
\* the account back.
DeletedForGood ==
  [][\A id \in Ids : users[id].state = "deleted" => users'[id].state = "deleted"]_vars
=============================================================================
