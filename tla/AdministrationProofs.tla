------------------------ MODULE AdministrationProofs ------------------------
(***************************************************************************)
(* Proofs about the administration of a daemon: its accounts               *)
(* (AdminAccounts), for any number of accounts and requests, and then its  *)
(* settings (ControlChannel), for any number of keys, values, command      *)
(* lines and web requests.  The two share no state.                        *)
(***************************************************************************)
EXTENDS AdminAccounts, ControlChannel, FiniteSetTheorems, TLAPS

LEMMA IdleTyped == Idle \in Request /\ Idle.op = "create" /\ Idle.fields.role # Keep
BY IdsAssumption DEF Idle, Request, NoFields, Fields, Roles, Disabled, Keep

LEMMA NoFieldsTyped == NoFields \in Fields
BY DEF NoFields, Fields, Roles, Disabled, Keep

Steps == {"idle", "read", "count", "write"}

\* To move a request on to another step leaves the rest of it alone.
LEMMA GotoTyped ==
  ASSUME TypeOK, NEW c \in Threads, NEW pc \in Steps, Goto(c, pc)
  PROVE  /\ requests' \in [Threads -> Request]
         /\ \A d \in Threads : requests'[d].op = "create"
                                => requests'[d].fields.role # Keep
         /\ requests'[c].pc = pc /\ requests'[c].op = requests[c].op
         /\ requests'[c].target = requests[c].target
         /\ requests'[c].fields = requests[c].fields
         /\ \A d \in Threads \ {c} : requests'[d] = requests[d]
<1>1. requests[c] \in Request
  BY DEF TypeOK
<1>2. [requests[c] EXCEPT !.pc = pc] \in Request
  BY <1>1 DEF Request, Steps
<1>3. /\ requests'[c] = [requests[c] EXCEPT !.pc = pc]
      /\ \A d \in Threads \ {c} : requests'[d] = requests[d]
      /\ requests' \in [Threads -> Request]
  BY <1>2 DEF Goto, TypeOK
<1>4. /\ requests'[c].pc = pc /\ requests'[c].op = requests[c].op
      /\ requests'[c].target = requests[c].target
      /\ requests'[c].fields = requests[c].fields
  BY <1>1, <1>3 DEF Request
<1>5. QED
  BY <1>3, <1>4 DEF TypeOK

\* To replace a request by a well-formed one leaves the others alone.
LEMMA ReplaceTyped ==
  ASSUME TypeOK, NEW c \in Threads, NEW new \in Request,
         new.op = "create" => new.fields.role # Keep,
         requests' = [requests EXCEPT ![c] = new]
  PROVE  /\ requests' \in [Threads -> Request]
         /\ \A d \in Threads : requests'[d].op = "create"
                                => requests'[d].fields.role # Keep
         /\ requests'[c] = new
         /\ \A d \in Threads \ {c} : requests'[d] = requests[d]
BY DEF TypeOK

LEMMA ReturnTyped ==
  ASSUME TypeOK, NEW c \in Threads, Return(c)
  PROVE  /\ requests' \in [Threads -> Request]
         /\ \A d \in Threads : requests'[d].op = "create"
                                => requests'[d].fields.role # Keep
         /\ requests'[c] = Idle
         /\ \A d \in Threads \ {c} : requests'[d] = requests[d]
         /\ UNCHANGED <<senders, overlapped>>
BY IdleTyped, ReplaceTyped DEF Return

LEMMA ChangeTyped ==
  ASSUME NEW u \in User, NEW fields \in Fields
  PROVE  Change(u, fields) \in User
BY DEF Change, Stored, Updated, User, Fields, Roles, Disabled, Keep

\* What a request that begins looks like.
LEMMA CreateBegins ==
  ASSUME NEW c \in Handlers, BeginCreate(c)
  PROVE  \E actor \in Ids, new \in Request :
           /\ Begin(c, actor) /\ Authorised(actor)
           /\ new.pc = "write" /\ new.op = "create" /\ new.fields.role # Keep
           /\ requests' = [requests EXCEPT ![c] = new]
<1>1. PICK actor \in Actors, role \in Roles :
        /\ Begin(c, actor) /\ Authorised(actor)
        /\ requests' = [requests EXCEPT ![c] =
             [Idle EXCEPT !.pc = "write", !.fields = [NoFields EXCEPT !.role = role]]]
  BY DEF BeginCreate
<1>2. [NoFields EXCEPT !.role = role] \in Fields /\ [NoFields EXCEPT !.role = role].role # Keep
  BY DEF NoFields, Fields, Roles, Disabled, Keep
<1> DEFINE fields == [NoFields EXCEPT !.role = role]
           new == [Idle EXCEPT !.pc = "write", !.fields = fields]
<1> HIDE DEF fields
<1>3. new \in Request /\ new.pc = "write" /\ new.op = "create" /\ new.fields = fields
  BY <1>2, IdleTyped DEF Request, fields
<1>4. QED
  BY <1>1, <1>2, <1>3, IdsAssumption DEF fields

LEMMA ChangeBegins ==
  ASSUME NEW c \in Handlers, NEW op \in {"update", "delete"}, BeginChange(c, op)
  PROVE  \E actor \in Ids, new \in Request :
           /\ Begin(c, actor) /\ Authorised(actor)
           /\ new.pc = "read" /\ new.op = op /\ new.target # actor
           /\ requests' = [requests EXCEPT ![c] = new]
<1>1. PICK actor \in Actors, target \in Ids, fields \in Patches \cup {NoFields} :
        /\ Begin(c, actor) /\ Authorised(actor) /\ MayTarget(actor, target)
        /\ requests' = [requests EXCEPT ![c] =
             [pc |-> "read", op |-> op, target |-> target, fields |-> fields]]
  BY DEF BeginChange
<1>2. [pc |-> "read", op |-> op, target |-> target, fields |-> fields] \in Request
  BY NoFieldsTyped, PatchesAssumption DEF Request
<1>3. QED
  BY <1>1, <1>2, IdsAssumption DEF MayTarget

LEMMA RemoveBegins ==
  ASSUME NEW c \in Shells, ShellRemove(c)
  PROVE  \E new \in Request :
           /\ Begin(c, Console) /\ new.pc = "read" /\ new.op = "delete"
           /\ requests' = [requests EXCEPT ![c] = new]
<1>1. PICK target \in Ids :
        /\ Begin(c, Console)
        /\ requests' = [requests EXCEPT ![c] =
             [Idle EXCEPT !.pc = "read", !.op = "delete", !.target = target]]
  BY DEF ShellRemove
<1>2. [Idle EXCEPT !.pc = "read", !.op = "delete", !.target = target] \in Request
  BY IdleTyped DEF Request
<1>3. QED
  BY <1>1, <1>2, IdleTyped DEF Request

LEMMA TypeStep ==
  ASSUME TypeOK, [Next]_vars
  PROVE  TypeOK'
<1>1. ASSUME NEW c \in Threads, NEW sender \in Ids \cup {Console}, NEW new \in Request,
             Begin(c, sender), UNCHANGED users,
             new.op = "create" => new.fields.role # Keep,
             requests' = [requests EXCEPT ![c] = new]
      PROVE  TypeOK'
  BY <1>1, ReplaceTyped DEF TypeOK, Begin
<1>2. ASSUME NEW c \in Handlers, BeginCreate(c)
      PROVE  TypeOK'
  BY <1>1, <1>2, CreateBegins DEF BeginCreate, Threads
<1>3. ASSUME NEW c \in Handlers, NEW op \in {"update", "delete"}, BeginChange(c, op)
      PROVE  TypeOK'
  BY <1>1, <1>3, ChangeBegins DEF BeginChange, Threads
<1>4. ASSUME NEW c \in Shells, ShellRemove(c)
      PROVE  TypeOK'
  BY <1>1, <1>4, RemoveBegins DEF ShellRemove, Threads
<1>5. ASSUME NEW c \in Shells, ShellAdd(c)
      PROVE  TypeOK'
  BY <1>5 DEF ShellAdd, Begin, TypeOK, Stored, User, Roles, Disabled
<1>6. ASSUME NEW c \in Threads, NEW pc \in Steps, Goto(c, pc), UNCHANGED users
      PROVE  TypeOK'
  <2>1. UNCHANGED <<senders, overlapped>>
    BY <1>6 DEF Goto
  <2>2. QED
    BY <1>6, <2>1, GotoTyped DEF TypeOK
<1>7. ASSUME NEW c \in Threads, Return(c), users' \in [Ids -> User]
      PROVE  TypeOK'
  BY <1>7, ReturnTyped DEF TypeOK
<1>8. ASSUME NEW c \in Threads, ReadTarget(c) \/ CountActiveAdmins(c)
      PROVE  TypeOK'
  BY <1>6, <1>7, <1>8 DEF ReadTarget, CountActiveAdmins, Steps, TypeOK
<1>9. ASSUME NEW c \in Threads, CreateUser(c)
      PROVE  TypeOK'
  <2>1. requests[c].fields.role \in Roles
    BY <1>9 DEF CreateUser, TypeOK, Request, Fields
  <2>2. PICK id \in Ids :
          users' = [users EXCEPT ![id] = Stored(requests[c].fields.role, "no")]
    BY <1>9 DEF CreateUser
  <2>3. users' \in [Ids -> User]
    BY <2>1, <2>2 DEF TypeOK, Stored, User, Disabled
  <2>4. QED
    BY <1>7, <1>9, <2>3 DEF CreateUser
<1>10. ASSUME NEW c \in Threads, UpdateUserFields(c)
       PROVE  TypeOK'
  <2>1. requests[c].target \in Ids /\ requests[c].fields \in Fields
    BY DEF TypeOK, Request
  <2>2. Change(users[requests[c].target], requests[c].fields) \in User
    BY <2>1, ChangeTyped DEF TypeOK
  <2>3. QED
    BY <1>7, <1>10, <2>1, <2>2 DEF UpdateUserFields, TypeOK
<1>11. ASSUME NEW c \in Threads, DeleteUser(c)
       PROVE  TypeOK'
  BY <1>7, <1>11 DEF DeleteUser, TypeOK, Absent, User, Roles, Disabled
<1>12. ASSUME NEW c \in Threads, Refused(c)
       PROVE  TypeOK'
  BY <1>7, <1>12 DEF Refused, TypeOK
<1>13. CASE UNCHANGED vars
  BY <1>13 DEF vars, TypeOK
<1>14. QED
  BY <1>2, <1>3, <1>4, <1>5, <1>8, <1>9, <1>10, <1>11, <1>12, <1>13 DEF Next

\* The tables and what each request is doing keep their shape.
THEOREM AccountsTypeCorrect == Spec => []TypeOK
<1>1. Init => TypeOK
  <2>1. Stored("admin", "no") \in User /\ Absent("unused") \in User
    BY DEF Stored, Absent, User, Roles, Disabled
  <2>2. QED
    BY <2>1, IdleTyped DEF Init, TypeOK
<1>2. TypeOK /\ [Next]_vars => TypeOK'
  BY TypeStep
<1>3. QED
  BY <1>1, <1>2, PTL DEF Spec

-----------------------------------------------------------------------------
(***************************************************************************)
(* One admin alone: no request of theirs aims at themselves, whatever the  *)
(* others have changed since it was read.                                  *)
(***************************************************************************)
AimsElsewhere ==
  \A id \in Ids : senders = {id} =>
    \A c \in Threads : requests[c].pc # "idle" /\ requests[c].op # "create"
                          => requests[c].target # id

SilentBefore == senders = {} => Quiet

ActorsInv == ActorsStay /\ AimsElsewhere /\ SilentBefore

\* A step that asks for nothing new and leaves the senders' accounts in charge.
LEMMA FollowStep ==
  ASSUME TypeOK, ActorsInv, NEW c \in Threads, requests[c].pc # "idle",
         \A id \in ActiveAdmins : senders = {id} => id \in ActiveAdmins',
         Return(c) \/ \E pc \in Steps : Goto(c, pc)
  PROVE  ActorsInv'
<1>1. UNCHANGED senders /\ senders # {}
  BY IdleTyped DEF Return, Goto, ActorsInv, SilentBefore, Quiet, Idle
<1>2. AimsElsewhere'
  <2>1. CASE Return(c)
    BY <1>1, <2>1, ReturnTyped DEF ActorsInv, AimsElsewhere, Idle
  <2>2. CASE \E pc \in Steps : Goto(c, pc)
    BY <1>1, <2>2, GotoTyped DEF ActorsInv, AimsElsewhere
  <2>3. QED
    BY <2>1, <2>2
<1>3. QED
  BY <1>1, <1>2 DEF ActorsInv, ActorsStay, SilentBefore

LEMMA ActorsStep ==
  ASSUME TypeOK, ActorsInv, [Next]_vars
  PROVE  ActorsInv'
<1>1. ASSUME NEW c \in Handlers, NEW actor \in Ids, NEW new \in Request,
             Begin(c, actor), Authorised(actor), UNCHANGED users,
             new.op # "create" => new.target # actor,
             requests' = [requests EXCEPT ![c] = new]
      PROVE  ActorsInv'
  <2>1. /\ senders' = senders \cup {actor}
        /\ requests'[c] = new
        /\ \A d \in Threads \ {c} : requests'[d] = requests[d]
    BY <1>1 DEF Begin, Threads, TypeOK
  <2>2. ASSUME NEW id \in Ids, senders' = {id}
        PROVE  id = actor /\ senders \in {{}, {id}}
    BY <2>1, <2>2
  <2>3. ActorsStay'
    BY <1>1, <2>2 DEF Authorised, ActorsStay, ActiveAdmins
  <2>4. AimsElsewhere'
    BY <1>1, <2>1, <2>2 DEF ActorsInv, AimsElsewhere, SilentBefore, Quiet, Idle
  <2>5. QED
    BY <2>1, <2>3, <2>4 DEF ActorsInv, SilentBefore
<1>2. ASSUME NEW c \in Handlers, BeginCreate(c)
      PROVE  ActorsInv'
  BY <1>1, <1>2, CreateBegins DEF BeginCreate
<1>3. ASSUME NEW c \in Handlers, NEW op \in {"update", "delete"}, BeginChange(c, op)
      PROVE  ActorsInv'
  BY <1>1, <1>3, ChangeBegins DEF BeginChange
<1>4. ASSUME NEW c \in Shells, ShellRemove(c) \/ ShellAdd(c)
      PROVE  ActorsInv'
  <2>1. Console \in senders'
    BY <1>4 DEF ShellRemove, ShellAdd, Begin
  <2>2. senders' # {} /\ \A id \in Ids : senders' # {id}
    BY <2>1, IdsAssumption
  <2>3. QED
    BY <2>2 DEF ActorsInv, ActorsStay, AimsElsewhere, SilentBefore
<1>5. ASSUME NEW c \in Threads, ReadTarget(c) \/ CountActiveAdmins(c) \/ Refused(c)
      PROVE  ActorsInv'
  <2>1. requests[c].pc # "idle" /\ UNCHANGED users
    BY <1>5 DEF ReadTarget, CountActiveAdmins, Refused
  <2>2. ActiveAdmins' = ActiveAdmins
    BY <2>1 DEF ActiveAdmins
  <2>3. Return(c) \/ \E pc \in Steps : Goto(c, pc)
    BY <1>5 DEF ReadTarget, CountActiveAdmins, Refused, Steps
  <2>4. QED
    BY <2>1, <2>2, <2>3, FollowStep
<1>6. ASSUME NEW c \in Threads, CreateUser(c)
      PROVE  ActorsInv'
  <2>1. ActiveAdmins \subseteq ActiveAdmins'
    BY <1>6 DEF CreateUser, ActiveAdmins, IsActiveAdmin, TypeOK
  <2>2. requests[c].pc # "idle" /\ Return(c)
    BY <1>6 DEF CreateUser
  <2>3. QED
    BY <2>1, <2>2, FollowStep
<1>7. ASSUME NEW c \in Threads, UpdateUserFields(c) \/ DeleteUser(c)
      PROVE  ActorsInv'
  <2>1. requests[c].pc # "idle" /\ requests[c].op # "create" /\ Return(c)
    BY <1>7 DEF UpdateUserFields, DeleteUser
  <2>2. ASSUME NEW id \in ActiveAdmins, senders = {id}
        PROVE  id \in ActiveAdmins'
    <3>1. id \in Ids /\ requests[c].target # id
      BY <2>1, <2>2 DEF ActorsInv, AimsElsewhere, ActiveAdmins
    <3>2. users'[id] = users[id]
      BY <1>7, <3>1 DEF UpdateUserFields, DeleteUser, TypeOK
    <3>3. QED
      BY <2>2, <3>2 DEF ActiveAdmins
  <2>3. QED
    BY <2>1, <2>2, FollowStep
<1>8. CASE UNCHANGED vars
  BY <1>8 DEF vars, ActorsInv, ActorsStay, AimsElsewhere, SilentBefore, Quiet, ActiveAdmins
<1>9. QED
  BY <1>2, <1>3, <1>4, <1>5, <1>6, <1>7, <1>8 DEF Next

\* An admin who alone has sent requests is in charge, however many of them
\* overlap and whatever they find counted.
THEOREM ActorsStayHolds == Spec => []ActorsStay
<1>1. Init => ActorsInv
  BY DEF Init, ActorsInv, ActorsStay, AimsElsewhere, SilentBefore, Quiet
<1>2. TypeOK /\ ActorsInv /\ [Next]_vars => ActorsInv'
  BY ActorsStep
<1>3. ActorsInv => ActorsStay
  BY DEF ActorsInv
<1>4. QED
  BY <1>1, <1>2, <1>3, AccountsTypeCorrect, PTL DEF Spec

-----------------------------------------------------------------------------
(***************************************************************************)
(* One request after the other: a request that is about to give an active  *)
(* admin up has seen another, and nobody else has written since.           *)
(***************************************************************************)
OthersIdle ==
  \A c, d \in Threads : c # d => requests[c] = Idle \/ requests[d] = Idle

OtherAdmin(id) == \E other \in ActiveAdmins : other # id

LessensSafely ==
  \A c \in Threads : requests[c].pc = "write" /\ Lessens(requests[c])
                        => OtherAdmin(requests[c].target)

Serially == ActiveAdmins # {} /\ OthersIdle /\ LessensSafely
SerialInv == ~overlapped => Serially

\* More than one active admin: one of them is not the target.
LEMMA CountedOther ==
  ASSUME NEW id, ~(Cardinality(ActiveAdmins) <= 1)
  PROVE  OtherAdmin(id)
<1>1. IsFiniteSet(ActiveAdmins)
  BY IdsAssumption, FS_Subset DEF ActiveAdmins
<1>2. SUFFICES ASSUME ActiveAdmins \subseteq {id}
               PROVE  FALSE
  BY DEF OtherAdmin
<1>3. IsFiniteSet({id}) /\ Cardinality({id}) = 1
  BY FS_Singleton
<1>4. Cardinality(ActiveAdmins) <= Cardinality({id})
  BY <1>2, <1>3, FS_Subset
<1>5. QED
  BY <1>3, <1>4

\* A request that begins alone is alone.
LEMMA BeginSerial ==
  ASSUME TypeOK, SerialInv, NEW c \in Threads, NEW sender, Begin(c, sender), UNCHANGED users,
         NEW new, requests' = [requests EXCEPT ![c] = new],
         new.pc = "write" => new.op = "create"
  PROVE  SerialInv'
<1>1. SUFFICES ASSUME ~overlapped' PROVE Serially'
  BY DEF SerialInv
<1>2. ~overlapped /\ Quiet
  BY <1>1 DEF Begin, TypeOK
<1>3. requests'[c] = new /\ \A d \in Threads \ {c} : requests'[d] = Idle
  BY <1>2 DEF Quiet, TypeOK
<1>4. OthersIdle'
  BY <1>3 DEF OthersIdle
<1>5. ActiveAdmins' # {}
  BY <1>2 DEF SerialInv, Serially, ActiveAdmins
<1>6. LessensSafely'
  BY <1>3 DEF LessensSafely, Lessens, Idle
<1>7. QED
  BY <1>4, <1>5, <1>6 DEF Serially

\* A request that returns leaves nobody about to write.
LEMMA ReturnSerial ==
  ASSUME TypeOK, SerialInv, NEW c \in Threads, requests[c].pc # "idle", Return(c),
         Serially => ActiveAdmins' # {}
  PROVE  SerialInv'
<1>1. SUFFICES ASSUME ~overlapped, Serially PROVE Serially'
  BY ReturnTyped DEF SerialInv
<1>2. \A d \in Threads : requests'[d] = Idle
  BY <1>1, ReturnTyped DEF Serially, OthersIdle, Idle
<1>3. OthersIdle' /\ LessensSafely'
  BY <1>2 DEF OthersIdle, LessensSafely, Idle
<1>4. QED
  BY <1>1, <1>3 DEF Serially

\* A request that proceeds to the write needs another admin if it gives one up.
LEMMA ProceedSerial ==
  ASSUME TypeOK, SerialInv, NEW c \in Threads, requests[c].pc # "idle",
         NEW pc \in {"count", "write"}, Goto(c, pc), UNCHANGED users,
         Serially /\ pc = "write" /\ Lessens(requests[c]) => OtherAdmin(requests[c].target)
  PROVE  SerialInv'
<1>1. SUFFICES ASSUME ~overlapped, Serially PROVE Serially'
  BY DEF SerialInv, Goto
<1> USE DEF Steps
<1>2. \A d \in Threads \ {c} : requests'[d] = Idle
  BY <1>1, GotoTyped DEF Serially, OthersIdle, Idle
<1>3. ActiveAdmins' = ActiveAdmins
  BY DEF ActiveAdmins
<1>4. requests'[c].op = requests[c].op /\ requests'[c].fields = requests[c].fields
      /\ requests'[c].target = requests[c].target /\ requests'[c].pc = pc
  BY GotoTyped
<1>5. Lessens(requests'[c]) => Lessens(requests[c])
  BY <1>4 DEF Lessens
<1>6. LessensSafely'
  BY <1>1, <1>2, <1>3, <1>4, <1>5 DEF LessensSafely, OtherAdmin, Idle
<1>7. QED
  BY <1>1, <1>2, <1>3, <1>6 DEF Serially, OthersIdle

LEMMA SerialStep ==
  ASSUME TypeOK, SerialInv, [Next]_vars
  PROVE  SerialInv'
<1>1. ASSUME NEW c \in Handlers, BeginCreate(c)
      PROVE  SerialInv'
  <2>1. PICK actor \in Ids, new \in Request :
          /\ Begin(c, actor) /\ new.op = "create"
          /\ requests' = [requests EXCEPT ![c] = new]
    BY <1>1, CreateBegins
  <2>2. QED
    BY <1>1, <2>1, BeginSerial DEF BeginCreate, Threads
<1>2. ASSUME NEW c \in Handlers, NEW op \in {"update", "delete"}, BeginChange(c, op)
      PROVE  SerialInv'
  <2>1. PICK actor \in Ids, new \in Request :
          /\ Begin(c, actor) /\ new.pc = "read"
          /\ requests' = [requests EXCEPT ![c] = new]
    BY <1>2, ChangeBegins
  <2>2. QED
    BY <1>2, <2>1, BeginSerial DEF BeginChange, Threads
<1>3. ASSUME NEW c \in Shells, ShellRemove(c)
      PROVE  SerialInv'
  <2>1. PICK new \in Request :
          /\ Begin(c, Console) /\ new.pc = "read"
          /\ requests' = [requests EXCEPT ![c] = new]
    BY <1>3, RemoveBegins
  <2>2. QED
    BY <1>3, <2>1, BeginSerial DEF ShellRemove, Threads
<1>4. ASSUME NEW c \in Shells, ShellAdd(c)
      PROVE  SerialInv'
  <2>1. PICK id \in Ids, role \in Roles :
          /\ users[id].state = "unused"
          /\ users' = [users EXCEPT ![id] = Stored(role, "no")]
    BY <1>4 DEF ShellAdd
  <2>2. ActiveAdmins \subseteq ActiveAdmins'
    BY <2>1 DEF ActiveAdmins, IsActiveAdmin, TypeOK
  <2>3. UNCHANGED requests /\ (~overlapped' => ~overlapped)
    BY <1>4 DEF ShellAdd, Begin
  <2>4. QED
    BY <2>2, <2>3 DEF SerialInv, Serially, OthersIdle, LessensSafely, OtherAdmin, Lessens
<1>5. ASSUME NEW c \in Threads, ReadTarget(c)
      PROVE  SerialInv'
  <2> DEFINE target == requests[c].target
             gives == IsActiveAdmin(users[target]) /\ Lessens(requests[c])
  <2>1. requests[c].pc = "read" /\ requests[c].pc # "idle" /\ UNCHANGED users
    BY <1>5 DEF ReadTarget
  <2>2. ActiveAdmins' = ActiveAdmins
    BY <2>1 DEF ActiveAdmins
  <2>3. CASE users[target].state # "stored"
    <3>1. Return(c)
      BY <1>5, <2>3 DEF ReadTarget
    <3>2. QED
      BY <2>1, <2>2, <3>1, ReturnSerial DEF Serially
  <2>4. CASE users[target].state = "stored" /\ gives
    <3>1. Goto(c, "count")
      BY <1>5, <2>4 DEF ReadTarget
    <3>2. QED
      BY <2>1, <3>1, ProceedSerial
  <2>5. CASE users[target].state = "stored" /\ ~gives
    <3>1. Goto(c, "write")
      BY <1>5, <2>5 DEF ReadTarget
    <3>2. Serially /\ Lessens(requests[c]) => OtherAdmin(target)
      BY <2>5 DEF Serially, ActiveAdmins, OtherAdmin
    <3>3. QED
      BY <2>1, <3>1, <3>2, ProceedSerial
  <2>6. QED
    BY <2>3, <2>4, <2>5
<1>6. ASSUME NEW c \in Threads, CountActiveAdmins(c)
      PROVE  SerialInv'
  <2>1. requests[c].pc = "count" /\ requests[c].pc # "idle" /\ UNCHANGED users
    BY <1>6 DEF CountActiveAdmins
  <2>2. ActiveAdmins' = ActiveAdmins
    BY <2>1 DEF ActiveAdmins
  <2>3. CASE Cardinality(ActiveAdmins) <= 1
    <3>1. Return(c)
      BY <1>6, <2>3 DEF CountActiveAdmins
    <3>2. QED
      BY <2>1, <2>2, <3>1, ReturnSerial DEF Serially
  <2>4. CASE ~(Cardinality(ActiveAdmins) <= 1)
    <3>1. Goto(c, "write")
      BY <1>6, <2>4 DEF CountActiveAdmins
    <3>2. OtherAdmin(requests[c].target)
      BY <2>4, CountedOther
    <3>3. QED
      BY <2>1, <3>1, <3>2, ProceedSerial
  <2>5. QED
    BY <2>3, <2>4
<1>7. ASSUME NEW c \in Threads, CreateUser(c)
      PROVE  SerialInv'
  <2>1. ActiveAdmins \subseteq ActiveAdmins'
    BY <1>7 DEF CreateUser, ActiveAdmins, IsActiveAdmin, TypeOK
  <2>2. requests[c].pc # "idle" /\ Return(c) /\ (Serially => ActiveAdmins' # {})
    BY <1>7, <2>1 DEF CreateUser, Serially
  <2>3. QED
    BY <2>2, ReturnSerial
<1>8. ASSUME NEW c \in Threads, UpdateUserFields(c)
      PROVE  SerialInv'
  <2> DEFINE r == requests[c]
  <2>1. /\ r.pc = "write" /\ r.op = "update" /\ Return(c)
        /\ users' = [users EXCEPT ![r.target] = Change(@, r.fields)]
        /\ r.target \in Ids /\ r.fields \in Fields
    BY <1>8 DEF UpdateUserFields, TypeOK, Request
  <2>2. ASSUME Serially
        PROVE  ActiveAdmins' # {}
    <3>1. CASE Lessens(r)
      <4>1. PICK other \in ActiveAdmins : other # r.target
        BY <2>1, <2>2, <3>1 DEF Serially, LessensSafely, OtherAdmin
      <4>2. users'[other] = users[other]
        BY <2>1, <4>1 DEF TypeOK, ActiveAdmins
      <4>3. QED
        BY <4>2 DEF ActiveAdmins
    <3>2. CASE ~Lessens(r)
      <4>1. r.fields.role # "user" /\ r.fields.disabled # "yes"
        BY <2>1, <3>2 DEF Lessens
      <4>2. r.fields.role \in {"admin", Keep} /\ r.fields.disabled \in {"no", Keep}
        BY <2>1, <4>1 DEF Fields, Roles, Disabled
      <4>3. \A u \in User : IsActiveAdmin(u) => IsActiveAdmin(Change(u, r.fields))
        BY <4>2 DEF IsActiveAdmin, Change, Updated, Stored, User
      <4>4. ActiveAdmins \subseteq ActiveAdmins'
        BY <2>1, <4>3 DEF ActiveAdmins, TypeOK
      <4>5. QED
        BY <2>2, <4>4 DEF Serially
    <3>3. QED
      BY <3>1, <3>2
  <2>3. QED
    BY <2>1, <2>2, ReturnSerial
<1>9. ASSUME NEW c \in Threads, DeleteUser(c)
      PROVE  SerialInv'
  <2>1. Lessens(requests[c]) /\ requests[c].pc = "write" /\ Return(c)
    BY <1>9 DEF DeleteUser, Lessens
  <2>2. ASSUME Serially
        PROVE  ActiveAdmins' # {}
    <3>1. PICK other \in ActiveAdmins : other # requests[c].target
      BY <2>1, <2>2 DEF Serially, LessensSafely, OtherAdmin
    <3>2. users'[other] = users[other]
      BY <1>9, <3>1 DEF DeleteUser, TypeOK, ActiveAdmins
    <3>3. QED
      BY <3>2 DEF ActiveAdmins
  <2>3. QED
    BY <2>1, <2>2, ReturnSerial
<1>10. ASSUME NEW c \in Threads, Refused(c)
       PROVE  SerialInv'
  <2>1. ActiveAdmins' = ActiveAdmins /\ requests[c].pc # "idle" /\ Return(c)
    BY <1>10 DEF Refused, ActiveAdmins
  <2>2. QED
    BY <2>1, ReturnSerial DEF Serially
<1>11. CASE UNCHANGED vars
  BY <1>11 DEF vars, SerialInv, Serially, ActiveAdmins, OthersIdle, LessensSafely,
               OtherAdmin, Lessens
<1>12. QED
  BY <1>1, <1>2, <1>3, <1>4, <1>5, <1>6, <1>7, <1>8, <1>9, <1>10, <1>11 DEF Next

\* As long as requests and commands come one after the other, an active admin
\* is left: the count and the rule about oneself suffice.
THEOREM KeepsAnAdminHolds == Spec => []KeepsAnAdmin
<1>1. Init => SerialInv
  BY IdsAssumption DEF Init, Idle, Stored, SerialInv, Serially, ActiveAdmins, IsActiveAdmin,
                       OthersIdle, LessensSafely
<1>2. TypeOK /\ SerialInv /\ [Next]_vars => SerialInv'
  BY SerialStep
<1>3. SerialInv => KeepsAnAdmin
  BY DEF SerialInv, Serially, KeepsAnAdmin
<1>4. QED
  BY <1>1, <1>2, <1>3, AccountsTypeCorrect, PTL DEF Spec

-----------------------------------------------------------------------------
\* Whatever overlaps, an account that was deleted stays deleted: the update is
\* an UPDATE of a row that is there, and creations take fresh ids.
THEOREM AccountsDeletedForGood == Spec => DeletedForGood
<1>1. TypeOK /\ [Next]_vars
        => [\A id \in Ids : users[id].state = "deleted" => users'[id].state = "deleted"]_vars
  <2> SUFFICES ASSUME TypeOK, Next, NEW id \in Ids, users[id].state = "deleted"
               PROVE  users'[id].state = "deleted"
    BY DEF vars
  <2>1. CASE UNCHANGED users
    BY <2>1
  <2>2. ASSUME NEW c \in Threads, CreateUser(c)
        PROVE  users'[id].state = "deleted"
    BY <2>2 DEF CreateUser, TypeOK
  <2>3. ASSUME NEW c \in Threads, UpdateUserFields(c)
        PROVE  users'[id].state = "deleted"
    BY <2>3 DEF UpdateUserFields, Change, TypeOK
  <2>4. ASSUME NEW c \in Threads, DeleteUser(c)
        PROVE  users'[id].state = "deleted"
    BY <2>4 DEF DeleteUser, Absent, TypeOK
  <2>5. ASSUME NEW c \in Shells, ShellAdd(c)
        PROVE  users'[id].state = "deleted"
    BY <2>5 DEF ShellAdd, TypeOK
  <2>6. QED
    BY <2>1, <2>2, <2>3, <2>4, <2>5
       DEF Next, BeginCreate, BeginChange, ShellRemove, ReadTarget, CountActiveAdmins, Refused
<1>2. QED
  BY <1>1, AccountsTypeCorrect, PTL DEF Spec, DeletedForGood

-----------------------------------------------------------------------------
(***************************************************************************)
(* The settings: their shape.                                              *)
(***************************************************************************)
\* What a step of the daemon and its clients does to the settings.
LEMMA SettingsMoves ==
  ASSUME [ControlNext]_controlVars
  PROVE  \/ \E k \in Keys, v \in Values : SetRow(k, v)
         \/ \E k \in Keys : PutRaw(k, Bad)
         \/ \E by \in Loaders : BeginLoad(by) \/ LoadDone(by) \/ LoadFails(by)
         \/ LoadKey \/ Forget
         \/ \E p \in Puts : \/ \E batch \in Batch : BeginPut(p, batch)
                            \/ Apply(p) \/ Save(p) \/ SaveFails(p)
         \/ UNCHANGED settingsVars
<1>. USE LoadersAssumption, InputsAssumption
<1>1. ASSUME NEW c \in Calls, NEW s \in Sets, StartSet(c, s[1], s[2])
      PROVE  \E k \in Keys, v \in Values : SetRow(k, v)
  BY <1>1 DEF StartSet
<1>2. ASSUME NEW c \in Calls, Reload(c) \/ Reloaded(c) \/ ReloadFails(c)
      PROVE  \E by \in Loaders : BeginLoad(by) \/ LoadDone(by) \/ LoadFails(by)
  BY <1>2 DEF Reload, Reloaded, ReloadFails
<1>3. ASSUME Boot \/ BootLoaded \/ BootLoadFails
      PROVE  \E by \in Loaders : BeginLoad(by) \/ LoadDone(by) \/ LoadFails(by)
  BY <1>3 DEF Boot, BootLoaded, BootLoadFails
<1>4. ASSUME NEW c \in Calls,
             \/ \E cmd \in {"follow", "ask"} : StartCall(c, cmd)
             \/ Dial(c) \/ Send(c) \/ GiveUp(c) \/ HangUp(c) \/ Accept(c) \/ ReadRequest(c)
             \/ ReadFails(c) \/ Answer(c) \/ EndStream(c)
      PROVE  UNCHANGED settingsVars
  BY <1>4 DEF StartCall, Dial, Send, GiveUp, HangUp, Accept, ReadRequest, ReadFails, Answer,
       EndStream
<1>5. ASSUME NEW p \in Puts, Web(p)
      PROVE  \E q \in Puts : \/ \E batch \in Batch : BeginPut(q, batch)
                             \/ Apply(q) \/ Save(q) \/ SaveFails(q)
  BY <1>5 DEF Web, WebPut, WebApply, WebSave, WebSaveFails
<1>6. ASSUME NEW r \in Raws, WebRaw(r[1], r[2])
      PROVE  \E k \in Keys : PutRaw(k, Bad)
  BY <1>6 DEF WebRaw
<1>7. CASE Load
  BY <1>7 DEF Load
<1>8. CASE Finish \/ Crash
  BY <1>8 DEF Finish, Crash, Exit
<1>9. ASSUME StartControl \/ StartControlFails \/ BeginStop \/ CloseSocket
      PROVE  UNCHANGED settingsVars
  BY <1>9 DEF StartControl, StartControlFails, BeginStop, CloseSocket
<1>10. ASSUME UNCHANGED controlVars
       PROVE  UNCHANGED settingsVars
  BY <1>10 DEF controlVars
<1>. QED
  BY <1>1, <1>2, <1>3, <1>4, <1>5, <1>6, <1>7, <1>8, <1>9, <1>10
     DEF ControlNext, Client, Server, Daemon

LEMMA PutMoves ==
  /\ NoPut \in Put
  /\ \A put \in Put, batch \in Batch :
       [put EXCEPT !.step = "apply", !.batch = batch] \in Put
  /\ \A put \in Put, left \in SUBSET Keys :
       /\ [put EXCEPT !.step = "save", !.left = left] \in Put
       /\ [put EXCEPT !.left = left] \in Put
<1>1. NoPut \in Put
  <2>1. [k \in Keys |-> NoValue] \in Batch
    BY DEF Batch
  <2>. QED
    BY <2>1 DEF NoPut, Put
<1>2. \A put \in Put, batch \in Batch :
        [put EXCEPT !.step = "apply", !.batch = batch] \in Put
  BY DEF Put
<1>3. \A put \in Put, left \in SUBSET Keys :
        [put EXCEPT !.step = "save", !.left = left] \in Put
  BY DEF Put
<1>4. \A put \in Put, left \in SUBSET Keys : [put EXCEPT !.left = left] \in Put
  BY DEF Put
<1>. QED
  BY <1>1, <1>2, <1>3, <1>4

LEMMA SettingsTypeStep ==
  ASSUME SettingsTypeOK, [ControlNext]_controlVars
  PROVE  SettingsTypeOK'
<1>0. /\ memory \in [Keys -> Values] /\ table \in [Keys -> Values \cup {Bad, NoValue}]
      /\ puts \in [Puts -> Put]
      /\ load \in [by : Loaders, next : 1 .. N + 1] \cup {NoLoad}
  BY DEF SettingsTypeOK
<1>1. ASSUME NEW k \in Keys, NEW v \in Values \cup {Bad}, SetRow(k, v) \/ PutRaw(k, v)
      PROVE  SettingsTypeOK'
  BY <1>0, <1>1 DEF SetRow, PutRaw, SettingsTypeOK
<1>2. ASSUME NEW by \in Loaders, BeginLoad(by) PROVE SettingsTypeOK'
  <2>1. [by |-> by, next |-> 1] \in [by : Loaders, next : 1 .. N + 1]
    BY KeysAssumption
  <2>. QED
    BY <1>0, <1>2, <2>1 DEF BeginLoad, SettingsTypeOK
<1>3. ASSUME NEW by \in Loaders, LoadDone(by) \/ LoadFails(by) PROVE SettingsTypeOK'
  BY <1>0, <1>3 DEF LoadDone, LoadFails, SettingsTypeOK
<1>4. CASE LoadKey
  <2>1. load \in [by : Loaders, next : 1 .. N + 1] /\ load.next \in Keys
    BY <1>0, <1>4 DEF LoadKey
  <2>2. load.next + 1 \in 1 .. N + 1
    BY <2>1, KeysAssumption DEF Keys
  <2>3. load' \in [by : Loaders, next : 1 .. N + 1]
    BY <1>4, <2>1, <2>2 DEF LoadKey
  <2>4. memory' \in [Keys -> Values]
    BY <1>0, <1>4 DEF LoadKey
  <2>. QED
    BY <1>0, <1>4, <2>3, <2>4 DEF LoadKey, SettingsTypeOK
<1>5. CASE Forget
  <2>1. Defaults \in [Keys -> Values]
    BY ValuesAssumption DEF Defaults
  <2>. QED
    BY <1>0, <1>5, <2>1, PutMoves DEF Forget, SettingsTypeOK
<1>6. ASSUME NEW p \in Puts, NEW batch \in Batch, BeginPut(p, batch)
      PROVE  SettingsTypeOK'
  <2>1. puts' = [puts EXCEPT ![p] = [puts[p] EXCEPT !.step = "apply", !.batch = batch]]
    BY <1>6 DEF BeginPut
  <2>2. [puts[p] EXCEPT !.step = "apply", !.batch = batch] \in Put
    BY <1>0, PutMoves
  <2>. QED
    BY <1>0, <1>6, <2>1, <2>2 DEF BeginPut, SettingsTypeOK
<1>7. ASSUME NEW p \in Puts, Apply(p) PROVE SettingsTypeOK'
  <2>1. Given(puts[p].batch) \in SUBSET Keys
    BY DEF Given
  <2>2. [puts[p] EXCEPT !.step = "save", !.left = Given(puts[p].batch)] \in Put
    BY <1>0, <2>1, PutMoves
  <2>3. Overlay(memory, puts[p].batch) \in [Keys -> Values]
    BY <1>0 DEF Overlay
  <2>4. puts' \in [Puts -> Put]
    BY <1>0, <1>7, <2>2, PutMoves DEF Apply
  <2>. QED
    BY <1>0, <1>7, <2>3, <2>4 DEF Apply, SettingsTypeOK
<1>8. ASSUME NEW p \in Puts, Save(p) PROVE SettingsTypeOK'
  <2>1. PICK k \in puts[p].left :
          /\ table' = [table EXCEPT ![k] = puts[p].batch[k]]
          /\ puts' = IF puts[p].left = {k} THEN [puts EXCEPT ![p] = NoPut]
                     ELSE [puts EXCEPT ![p].left = @ \ {k}]
    BY <1>8 DEF Save
  <2>2. puts[p] \in Put
    BY <1>0
  <2>3. puts[p].batch \in Batch /\ puts[p].left \in SUBSET Keys
    BY <2>2 DEF Put
  <2>4. [puts[p] EXCEPT !.left = puts[p].left \ {k}] \in Put
    BY <2>2, <2>3, PutMoves
  <2>5. puts' \in [Puts -> Put]
    <3>1. CASE puts[p].left = {k}
      <4>1. puts' = [puts EXCEPT ![p] = NoPut]
        BY <2>1, <3>1
      <4>. QED
        BY <1>0, <4>1, PutMoves
    <3>2. CASE puts[p].left # {k}
      <4>1. puts' = [puts EXCEPT ![p] = [puts[p] EXCEPT !.left = puts[p].left \ {k}]]
        BY <2>1, <3>2
      <4>. QED
        BY <1>0, <2>4, <4>1
    <3>. QED
      BY <3>1, <3>2
  <2>6. puts[p].batch[k] \in Values \cup {Bad, NoValue}
    BY <2>1, <2>3 DEF Batch
  <2>. QED
    BY <1>0, <1>8, <2>1, <2>5, <2>6 DEF Save, SettingsTypeOK
<1>9. ASSUME NEW p \in Puts, SaveFails(p) PROVE SettingsTypeOK'
  BY <1>0, <1>9, PutMoves DEF SaveFails, SettingsTypeOK
<1>10. CASE UNCHANGED settingsVars
  BY <1>10 DEF settingsVars, SettingsTypeOK
<1>. QED
  BY <1>1, <1>2, <1>3, <1>4, <1>5, <1>6, <1>7, <1>8, <1>9, <1>10, SettingsMoves

-----------------------------------------------------------------------------
(***************************************************************************)
(* The calls: their shape.                                                 *)
(***************************************************************************)
LEMMA CallMoves ==
  ASSUME NEW call \in Call
  PROVE  /\ [call EXCEPT !.sent = TRUE] \in Call
         /\ Ended(call) \in Call /\ Dropped(call) \in Call /\ Listen(call) \in Call
         /\ \A server \in {"none", "queued", "reading", "dispatch", "working", "streaming"} :
              [call EXCEPT !.server = server] \in Call
         /\ [call EXCEPT !.client = "connected", !.server = "queued"] \in Call
         /\ \A cmd \in {"set", "follow", "ask"} :
              [call EXCEPT !.cmd = cmd, !.client = "dialling"] \in Call
<1>0. NoCall \in Call
  BY DEF NoCall, Call
<1>1. [call EXCEPT !.sent = TRUE] \in Call
  BY DEF Call
<1>2. [call EXCEPT !.client = "closed"] \in Call
  BY DEF Call
<1>3. \A server \in {"none", "queued", "reading", "dispatch", "working", "streaming"} :
        [call EXCEPT !.server = server] \in Call
  BY DEF Call
<1>4. \A client \in {"idle", "dialling", "connected", "streaming", "closed"} :
        [call EXCEPT !.server = "streaming", !.client = client] \in Call
  BY DEF Call
<1>5. Listen(call) \in Call
  <2>1. call.client \in {"idle", "dialling", "connected", "streaming", "closed"}
    BY DEF Call
  <2>. QED
    BY <1>4, <2>1 DEF Listen
<1>6. [call EXCEPT !.client = "connected", !.server = "queued"] \in Call
  BY DEF Call
<1>7. \A cmd \in {"set", "follow", "ask"} :
        [call EXCEPT !.cmd = cmd, !.client = "dialling"] \in Call
  BY DEF Call
<1>8. Ended(call) \in Call
  BY <1>0, <1>2 DEF Ended
<1>9. Dropped(call) \in Call
  BY <1>0, <1>3 DEF Dropped
<1>. QED
  BY <1>1, <1>3, <1>5, <1>6, <1>7, <1>8, <1>9

ChannelTypeOK ==
  /\ daemon \in Phases
  /\ socket \in {"none", "live", "stale"}
  /\ control \in BOOLEAN
  /\ calls \in [Calls -> Call]
  /\ excused \in BOOLEAN
  /\ acts \in 0 .. MaxActs
  /\ falls \in 0 .. MaxFalls

\* What a step does to a call.
LEMMA CallsTypeStep ==
  ASSUME calls \in [Calls -> Call], [ControlNext]_controlVars
  PROVE  calls' \in [Calls -> Call]
<1>0. NoCall \in Call
  BY DEF NoCall, Call
<1>1. ASSUME NEW c \in Calls, NEW call \in Call, calls' = [calls EXCEPT ![c] = call]
      PROVE  calls' \in [Calls -> Call]
  BY <1>1
<1>2. ASSUME NEW c \in Calls, NEW k, NEW v, StartSet(c, k, v)
      PROVE  calls' \in [Calls -> Call]
  <2>1. calls' = [calls EXCEPT ![c] = [calls[c] EXCEPT !.cmd = "set", !.client = "dialling"]]
    BY <1>2 DEF StartSet
  <2>. QED
    BY <1>1, <2>1, CallMoves
<1>3. ASSUME NEW c \in Calls, NEW cmd \in {"follow", "ask"}, StartCall(c, cmd)
      PROVE  calls' \in [Calls -> Call]
  <2>1. calls' = [calls EXCEPT ![c] = [calls[c] EXCEPT !.cmd = cmd, !.client = "dialling"]]
    BY <1>3 DEF StartCall
  <2>. QED
    BY <1>1, <2>1, CallMoves
<1>4. ASSUME NEW c \in Calls, Dial(c) PROVE calls' \in [Calls -> Call]
  <2>1. \/ calls' = [calls EXCEPT ![c] =
                       [calls[c] EXCEPT !.client = "connected", !.server = "queued"]]
        \/ calls' = [calls EXCEPT ![c] = NoCall]
    BY <1>4 DEF Dial
  <2>. QED
    BY <1>0, <1>1, <2>1, CallMoves
<1>5. ASSUME NEW c \in Calls,
             \/ Send(c) \/ GiveUp(c) \/ HangUp(c) \/ Accept(c) \/ ReadFails(c) \/ Reload(c)
      PROVE  calls' \in [Calls -> Call]
  <2>1. \E call \in Call : calls' = [calls EXCEPT ![c] = call]
    <3>1. CASE Send(c)
      BY <3>1, CallMoves DEF Send
    <3>2. CASE GiveUp(c) \/ HangUp(c)
      BY <3>2, CallMoves DEF GiveUp, HangUp
    <3>3. CASE Accept(c) \/ Reload(c)
      BY <3>3, CallMoves DEF Accept, Reload
    <3>4. CASE ReadFails(c)
      BY <3>4, CallMoves DEF ReadFails
    <3>. QED
      BY <1>5, <3>1, <3>2, <3>3, <3>4
  <2>. QED
    BY <1>1, <2>1
<1>6. ASSUME NEW c \in Calls, ReadRequest(c) PROVE calls' \in [Calls -> Call]
  <2>1. \/ calls' = [calls EXCEPT ![c] = Listen(calls[c])]
        \/ calls' = [calls EXCEPT ![c] = [calls[c] EXCEPT !.server = "dispatch"]]
    BY <1>6 DEF ReadRequest
  <2>. QED
    BY <1>1, <2>1, CallMoves
<1>7. ASSUME NEW c \in Calls, Answer(c) \/ Reloaded(c) \/ EndStream(c) \/ ReloadFails(c)
      PROVE  calls' \in [Calls -> Call]
  BY <1>0, <1>1, <1>7 DEF Answer, Reloaded, EndStream, ReloadFails
<1>8. ASSUME \/ \E p \in Puts : Web(p)
             \/ \E r \in Raws : WebRaw(r[1], r[2])
             \/ Load \/ Boot \/ BootLoaded \/ BootLoadFails \/ StartControl \/ StartControlFails \/ BeginStop
             \/ UNCHANGED controlVars
      PROVE  calls' = calls
  BY <1>8 DEF Web, WebPut, WebApply, WebSave, WebSaveFails, WebRaw, Load, Boot, BootLoaded,
       BootLoadFails, StartControl, StartControlFails, BeginStop, controlVars, channelVars
<1>9. ASSUME CloseSocket \/ Finish \/ Crash PROVE calls' \in [Calls -> Call]
  BY <1>9, CallMoves DEF CloseSocket, Finish, Crash, Exit
<1>. QED
  BY <1>2, <1>3, <1>4, <1>5, <1>6, <1>7, <1>8, <1>9 DEF ControlNext, Client, Server, Daemon

LEMMA ChannelTypeStep ==
  ASSUME ChannelTypeOK, [ControlNext]_controlVars
  PROVE  ChannelTypeOK'
<1>. USE ActsAssumption DEF ChannelTypeOK, Act, Excuse, Fault
<1>0. calls' \in [Calls -> Call]
  BY CallsTypeStep
<1>1. ASSUME NEW c \in Calls, NEW k, NEW v, StartSet(c, k, v) PROVE ChannelTypeOK'
  BY <1>0, <1>1 DEF StartSet
<1>2. ASSUME NEW c \in Calls, NEW cmd, StartCall(c, cmd) PROVE ChannelTypeOK'
  BY <1>0, <1>2 DEF StartCall
<1>3. ASSUME NEW c \in Calls,
             \/ Dial(c) \/ Send(c) \/ GiveUp(c) \/ HangUp(c) \/ Accept(c) \/ ReadRequest(c)
             \/ ReadFails(c) \/ Answer(c) \/ EndStream(c) \/ Reload(c) \/ Reloaded(c)
      PROVE  ChannelTypeOK'
  BY <1>0, <1>3 DEF Dial, Send, GiveUp, HangUp, Accept, ReadRequest, ReadFails, Answer,
       EndStream, Reload, Reloaded
<1>4. ASSUME NEW c \in Calls, ReloadFails(c) PROVE ChannelTypeOK'
  BY <1>0, <1>4 DEF ReloadFails
<1>5. ASSUME NEW p \in Puts, Web(p) PROVE ChannelTypeOK'
  <2>1. excused' \in BOOLEAN
    BY <1>5 DEF Web, WebPut, WebApply, WebSave, WebSaveFails
  <2>2. UNCHANGED <<daemon, socket, control, falls>>
    BY <1>5 DEF Web, WebPut, WebApply, WebSave, WebSaveFails, channelVars
  <2>3. acts' \in 0 .. MaxActs
    BY <1>5 DEF Web, WebPut, WebApply, WebSave, WebSaveFails
  <2>. QED
    BY <1>0, <2>1, <2>2, <2>3
<1>6. ASSUME NEW r \in Raws, WebRaw(r[1], r[2]) PROVE ChannelTypeOK'
  BY <1>0, <1>6 DEF WebRaw, channelVars
<1>7. CASE Load \/ Boot \/ BootLoaded \/ BootLoadFails \/ StartControl \/ StartControlFails \/ BeginStop
  <2>1. excused' \in BOOLEAN
    BY <1>7 DEF Load, Boot, BootLoaded, BootLoadFails, StartControl, StartControlFails, BeginStop
  <2>2. daemon' \in Phases /\ socket' \in {"none", "live", "stale"} /\ control' \in BOOLEAN
    BY <1>7 DEF Load, Boot, BootLoaded, BootLoadFails, StartControl, StartControlFails, BeginStop, channelVars,
         Phases
  <2>3. acts' \in 0 .. MaxActs /\ falls' \in 0 .. MaxFalls
    BY <1>7 DEF Load, Boot, BootLoaded, BootLoadFails, StartControl, StartControlFails, BeginStop
  <2>. QED
    BY <1>0, <2>1, <2>2, <2>3
<1>8. CASE CloseSocket \/ Finish \/ Crash
  <2>1. control' \in BOOLEAN /\ excused' = excused /\ acts' = acts
    BY <1>8 DEF CloseSocket, Finish, Crash, Exit
  <2>2. daemon' \in Phases /\ socket' \in {"none", "live", "stale"}
    BY <1>8 DEF CloseSocket, Finish, Crash, Exit, Phases
  <2>3. falls' \in 0 .. MaxFalls
    BY <1>8 DEF CloseSocket, Finish, Crash
  <2>. QED
    BY <1>0, <2>1, <2>2, <2>3
<1>9. CASE UNCHANGED controlVars
  BY <1>9 DEF controlVars, channelVars
<1>. QED
  BY <1>1, <1>2, <1>3, <1>4, <1>5, <1>6, <1>7, <1>8, <1>9
     DEF ControlNext, Client, Server, Daemon

\* All variables keep their shape; the memory of the daemon never holds a value
\* that does not validate, whatever rows the table has.
THEOREM ControlTypeCorrect == ControlSpec => []ControlTypeOK
<1>1. ControlInit => SettingsTypeOK
  <2>1. Defaults \in [Keys -> Values]
    BY ValuesAssumption DEF Defaults
  <2>. QED
    BY <2>1, PutMoves DEF ControlInit, SettingsInit, SettingsTypeOK
<1>2. ControlInit => ChannelTypeOK
  <2>1. NoCall \in Call
    BY DEF NoCall, Call
  <2>2. 0 \in 0 .. MaxActs /\ 0 \in 0 .. MaxFalls
    BY ActsAssumption
  <2>. QED
    BY <2>1, <2>2 DEF ControlInit, ChannelTypeOK, Phases
<1>3. SettingsTypeOK /\ ChannelTypeOK => ControlTypeOK
  BY DEF ControlTypeOK, ChannelTypeOK
<1>4. SettingsTypeOK /\ ChannelTypeOK /\ [ControlNext]_controlVars
        => SettingsTypeOK' /\ ChannelTypeOK'
  BY SettingsTypeStep, ChannelTypeStep
<1>. QED
  BY <1>1, <1>2, <1>3, <1>4, PTL DEF ControlSpec

-----------------------------------------------------------------------------
(***************************************************************************)
(* The settings: a quiet daemon works with what the table says.            *)
(***************************************************************************)
\* A set of the command line whose reload is still to come: it is not written
\* yet and its client waits, or it is written and the daemon has it.
Pending(c) ==
  /\ IsSet(c)
  /\ IF calls[c].sent THEN calls[c].server \in {"queued", "reading", "dispatch"}
     ELSE calls[c].client \in {"dialling", "connected"}

\* Why memory and table may differ on a key: a load has not come to it, a set is
\* pending, or a web request has yet to save it.
Explained(k) ==
  \/ memory[k] = InForce(k)
  \/ table[k] \in Values /\ load # NoLoad /\ load.next <= k
  \/ table[k] \in Values /\ \E c \in Calls : Pending(c)
  \/ \E p \in Saving : k \in puts[p].left

\* Where a call can stand.
CallShape(c) ==
  /\ ~ calls[c].sent => calls[c].server \in {"none", "queued", "reading"}
  /\ calls[c].client = "dialling" => calls[c].server = "none"

Early == {"down", "loading", "serving"}

\* The phases of the daemon: when it listens, and who holds the lock of the
\* settings.
PhaseShape ==
  /\ socket = "live" <=> control
  /\ control => daemon \in {"up", "draining"}
  /\ daemon \in Early => \A c \in Calls : calls[c].server = "none"
  /\ daemon = "down" => memory = Defaults /\ load = NoLoad /\ Writing = {}
  /\ load # NoLoad /\ load.by = "boot" => daemon = "loading"
  /\ \A c \in Calls : load # NoLoad /\ load.by = c
                        => calls[c].server = "working" /\ calls[c].sent

\* One web request saves at a time, and no load while it does; what it has yet
\* to save is in memory.
SaveShape ==
  /\ \A p \in Saving : \A k \in puts[p].left : puts[p].batch[k] \in Values
  /\ ~ excused =>
       /\ load # NoLoad => Saving = {}
       /\ \A p \in Saving : /\ Saving = {p}
                            /\ \A k \in puts[p].left : memory[k] = puts[p].batch[k]

SettledInv ==
  /\ PhaseShape
  /\ SaveShape
  /\ \A c \in Calls : CallShape(c)
  /\ ~ excused /\ daemon \in {"loading", "serving", "up", "draining"}
       => \A k \in Keys : Explained(k)

\* What is known of a call at each of its places.
LEMMA CallShapeStep ==
  ASSUME ControlTypeOK, \A c \in Calls : CallShape(c), [ControlNext]_controlVars,
         NEW c \in Calls
  PROVE  CallShape(c)'
<1>0. calls \in [Calls -> Call] /\ calls[c] \in Call /\ CallShape(c)
  BY DEF ControlTypeOK
<1>. DEFINE call == calls[c]
<1>1. ASSUME calls'[c] = calls[c] PROVE CallShape(c)'
  BY <1>0, <1>1 DEF CallShape
<1>2. ASSUME calls'[c] = NoCall PROVE CallShape(c)'
  BY <1>2 DEF CallShape, NoCall
<1>3. ASSUME calls'[c] = Dropped(call) PROVE CallShape(c)'
  <2>1. CASE call.client = "connected"
    BY <1>0, <1>3, <2>1 DEF CallShape, Dropped, Call
  <2>2. CASE call.client # "connected"
    BY <1>2, <1>3, <2>2 DEF Dropped
  <2>. QED
    BY <2>1, <2>2
<1>4. ASSUME calls'[c] = Ended(call) PROVE CallShape(c)'
  <2>1. CASE call.server = "none"
    BY <1>2, <1>4, <2>1 DEF Ended
  <2>2. CASE call.server # "none"
    BY <1>0, <1>4, <2>2 DEF CallShape, Ended, Call
  <2>. QED
    BY <2>1, <2>2
<1>5. ASSUME NEW m \in Calls, m # c, Client(m) \/ Server(m) \/ ReloadFails(m)
      PROVE  calls'[c] = calls[c]
  BY <1>0, <1>5 DEF Client, StartSet, StartCall, Dial, Send, GiveUp, HangUp, Server, Accept,
       ReadRequest, ReadFails, Answer, Reload, Reloaded, EndStream, ReloadFails
<1>6. ASSUME \/ \E s \in Sets : StartSet(c, s[1], s[2])
             \/ \E cmd \in {"follow", "ask"} : StartCall(c, cmd)
      PROVE  CallShape(c)'
  <2>1. calls[c].server = "none" /\ calls[c].sent = FALSE
    BY <1>6 DEF StartSet, StartCall, NoCall
  <2>2. calls'[c].server = calls[c].server /\ calls'[c].sent = calls[c].sent
    BY <1>0, <1>6 DEF StartSet, StartCall, Call
  <2>. QED
    BY <2>1, <2>2 DEF CallShape
<1>7. ASSUME Dial(c) PROVE CallShape(c)'
  <2>1. CASE socket = "live"
    BY <1>0, <1>7, <2>1 DEF Dial, CallShape, Call
  <2>2. CASE socket # "live"
    BY <1>0, <1>2, <1>7, <2>2 DEF Dial
  <2>. QED
    BY <2>1, <2>2
<1>8. ASSUME Send(c) PROVE CallShape(c)'
  BY <1>0, <1>8 DEF Send, CallShape, Call
<1>9. ASSUME GiveUp(c) \/ HangUp(c) PROVE CallShape(c)'
  BY <1>0, <1>4, <1>9 DEF GiveUp, HangUp
<1>10. ASSUME Accept(c) PROVE CallShape(c)'
  BY <1>0, <1>10 DEF Accept, CallShape, Call
<1>11. ASSUME ReadRequest(c) PROVE CallShape(c)'
  <2>1. calls[c].server = "reading" /\ calls[c].sent
    BY <1>11 DEF ReadRequest
  <2>2. calls[c].client # "dialling"
    BY <1>0, <2>1 DEF CallShape
  <2>3. CASE calls'[c] = Listen(call)
    BY <1>0, <2>1, <2>2, <2>3 DEF CallShape, Listen, Call
  <2>4. CASE calls'[c] = [call EXCEPT !.server = "dispatch"]
    BY <1>0, <2>1, <2>2, <2>4 DEF CallShape, Call
  <2>. QED
    BY <1>0, <1>11, <2>3, <2>4 DEF ReadRequest
<1>12. ASSUME ReadFails(c) PROVE CallShape(c)'
  BY <1>0, <1>3, <1>12 DEF ReadFails
<1>13. ASSUME Answer(c) \/ Reloaded(c) \/ EndStream(c) \/ ReloadFails(c)
       PROVE  CallShape(c)'
  BY <1>0, <1>2, <1>13 DEF Answer, Reloaded, EndStream, ReloadFails
<1>14. ASSUME Reload(c) PROVE CallShape(c)'
  <2>1. calls[c].server = "dispatch" /\ calls'[c] = [call EXCEPT !.server = "working"]
    BY <1>0, <1>14 DEF Reload
  <2>. QED
    BY <1>0, <2>1 DEF CallShape, Call
<1>15. ASSUME CloseSocket \/ Finish \/ Crash PROVE CallShape(c)'
  <2>1. calls'[c] \in {call, Dropped(call)}
    BY <1>15 DEF CloseSocket, Finish, Crash, Exit
  <2>. QED
    BY <1>1, <1>3, <2>1
<1>16. ASSUME \/ \E p \in Puts : Web(p)
              \/ \E r \in Raws : WebRaw(r[1], r[2])
              \/ Load \/ Boot \/ BootLoaded \/ BootLoadFails \/ StartControl \/ StartControlFails \/ BeginStop
              \/ UNCHANGED controlVars
       PROVE  calls'[c] = calls[c]
  BY <1>16 DEF Web, WebPut, WebApply, WebSave, WebSaveFails, WebRaw, Load, Boot, BootLoaded,
       BootLoadFails, StartControl, StartControlFails, BeginStop, controlVars, channelVars
<1>17. ASSUME Client(c) \/ Server(c) \/ ReloadFails(c) PROVE CallShape(c)'
  BY <1>6, <1>7, <1>8, <1>9, <1>10, <1>11, <1>12, <1>13, <1>14, <1>17 DEF Client, Server
<1>. HIDE DEF call
<1>. QED
  BY <1>1, <1>5, <1>15, <1>16, <1>17 DEF ControlNext, Daemon

\* What a call says and hears, without touching the settings.
Talk(c) ==
  \/ \E cmd \in {"follow", "ask"} : StartCall(c, cmd)
  \/ Dial(c) \/ Send(c) \/ GiveUp(c) \/ HangUp(c) \/ Accept(c) \/ ReadRequest(c)
  \/ ReadFails(c) \/ Answer(c) \/ EndStream(c)

LEMMA TalkLeaves ==
  ASSUME calls \in [Calls -> Call], NEW c \in Calls, Talk(c)
  PROVE  /\ UNCHANGED <<memory, table, puts, load, daemon, socket, control>>
         /\ \A m \in Calls \ {c} : calls'[m] = calls[m]
         /\ excused => excused'
<1>1. UNCHANGED <<memory, table, puts, load, daemon, socket, control>>
  BY DEF Talk, StartCall, Dial, Send, GiveUp, HangUp, Accept, ReadRequest, ReadFails, Answer,
         EndStream, settingsVars
<1>2. \A m \in Calls \ {c} : calls'[m] = calls[m]
  BY DEF Talk, StartCall, Dial, Send, GiveUp, HangUp, Accept, ReadRequest, ReadFails, Answer,
         EndStream
<1>3. excused => excused'
  BY DEF Talk, StartCall, Dial, Send, GiveUp, HangUp, Accept, ReadRequest, ReadFails, Answer,
         EndStream, Excuse
<1>. QED
  BY <1>1, <1>2, <1>3

\* A call that the daemon is working on stays there, and a call without a
\* connection gets one only where the daemon listens.
LEMMA TalkKeepsWork ==
  ASSUME calls \in [Calls -> Call], NEW c \in Calls, CallShape(c), Talk(c)
  PROVE  /\ calls[c].server = "working" /\ calls[c].sent
              => calls'[c].server = "working" /\ calls'[c].sent
         /\ calls[c].server = "none" /\ socket # "live" => calls'[c].server = "none"
<1>0. calls[c] \in Call
  OBVIOUS
<1>1. ASSUME calls[c].server = "working", calls[c].sent
      PROVE  calls'[c].server = "working" /\ calls'[c].sent
  <2>1. calls[c] # NoCall /\ calls[c].client # "dialling"
    BY <1>1 DEF NoCall, CallShape
  <2>2. GiveUp(c) \/ HangUp(c)
    BY <1>1, <2>1 DEF Talk, StartCall, Dial, Send, Accept, ReadRequest, ReadFails, Answer,
                      EndStream
  <2>3. calls'[c] = [calls[c] EXCEPT !.client = "closed"]
    BY <1>0, <1>1, <2>2 DEF GiveUp, HangUp, Ended
  <2>. QED
    BY <1>0, <1>1, <2>3 DEF Call
<1>2. ASSUME calls[c].server = "none", socket # "live"
      PROVE  calls'[c].server = "none"
  <2>1. CASE \E cmd \in {"follow", "ask"} : StartCall(c, cmd)
    BY <1>0, <1>2, <2>1 DEF StartCall, Call
  <2>2. CASE Dial(c) \/ GiveUp(c) \/ HangUp(c)
    BY <1>0, <1>2, <2>2 DEF Dial, GiveUp, HangUp, Ended, NoCall
  <2>. QED
    BY <1>2, <2>1, <2>2 DEF Talk, Send, Accept, ReadRequest, ReadFails, Answer, EndStream
<1>. QED
  BY <1>1, <1>2

\* A set that is pending stays so, or the loss is excused.
LEMMA TalkKeepsPending ==
  ASSUME calls \in [Calls -> Call], PhaseShape, NEW c \in Calls, CallShape(c), Talk(c),
         daemon \in {"loading", "serving", "up", "draining"}, ~ excused', Pending(c)
  PROVE  Pending(c)'
<1>0. calls[c] \in Call /\ calls[c].cmd = "set"
  BY DEF Pending, IsSet
<1>1. CASE \E cmd \in {"follow", "ask"} : StartCall(c, cmd)
  BY <1>0, <1>1 DEF StartCall, NoCall
<1>2. CASE Dial(c)
  <2>1. calls[c].client = "dialling" /\ calls[c].server = "none" /\ ~ calls[c].sent
    BY <1>2 DEF Dial, CallShape, Pending
  <2>2. socket = "live"
    <3>1. socket # "live" => ~control
      BY DEF PhaseShape
    <3>2. socket # "live" => excused'
      BY <1>0, <1>2, <3>1 DEF Dial, Excuse, IsSet, Live
    <3>. QED
      BY <3>2
  <2>3. calls'[c] = [calls[c] EXCEPT !.client = "connected", !.server = "queued"]
    BY <1>0, <1>2, <2>2 DEF Dial
  <2>4. calls'[c].cmd = "set" /\ ~ calls'[c].sent /\ calls'[c].client = "connected"
    BY <1>0, <2>1, <2>3 DEF Call
  <2>. QED
    BY <2>4 DEF Pending, IsSet
<1>3. CASE Send(c)
  <2>1. calls[c].server \in {"queued", "reading"}
    BY <1>3 DEF Send, CallShape
  <2>2. calls'[c].cmd = "set" /\ calls'[c].sent /\ calls'[c].server = calls[c].server
    BY <1>0, <1>3 DEF Send, Call
  <2>. QED
    BY <2>1, <2>2 DEF Pending, IsSet
<1>4. CASE GiveUp(c) \/ HangUp(c)
  <2>1. calls[c].sent
    BY <1>0, <1>4 DEF GiveUp, HangUp, Excuse, IsSet, Pending
  <2>2. calls[c].server \in {"queued", "reading", "dispatch"}
    BY <2>1 DEF Pending
  <2>3. calls'[c] = [calls[c] EXCEPT !.client = "closed"]
    BY <1>0, <1>4, <2>2 DEF GiveUp, HangUp, Ended
  <2>4. calls'[c].cmd = "set" /\ calls'[c].sent /\ calls'[c].server = calls[c].server
    BY <1>0, <2>1, <2>3 DEF Call
  <2>. QED
    BY <2>2, <2>4 DEF Pending, IsSet
<1>5. CASE Accept(c)
  <2>1. /\ calls'[c].cmd = "set" /\ calls'[c].sent = calls[c].sent
        /\ calls'[c].server = "reading" /\ calls'[c].client = calls[c].client
    BY <1>0, <1>5 DEF Accept, Call
  <2>. QED
    BY <2>1 DEF Pending, IsSet
<1>6. CASE ReadRequest(c)
  <2>1. calls[c].sent /\ calls'[c] = [calls[c] EXCEPT !.server = "dispatch"]
    BY <1>0, <1>6 DEF ReadRequest
  <2>2. calls'[c].cmd = "set" /\ calls'[c].sent /\ calls'[c].server = "dispatch"
    BY <1>0, <2>1 DEF Call
  <2>. QED
    BY <2>2 DEF Pending, IsSet
<1>7. CASE ReadFails(c)
  <2>1. ~ calls[c].sent /\ calls[c].client = "connected"
    BY <1>7 DEF ReadFails, Pending, CallShape
  <2>2. calls'[c] = [calls[c] EXCEPT !.server = "none"]
    BY <1>0, <1>7, <2>1 DEF ReadFails, Dropped
  <2>3. calls'[c].cmd = "set" /\ ~ calls'[c].sent /\ calls'[c].client = "connected"
    BY <1>0, <2>1, <2>2 DEF Call
  <2>. QED
    BY <2>3 DEF Pending, IsSet
<1>8. CASE Answer(c)
  BY <1>0, <1>8 DEF Answer
<1>9. CASE EndStream(c)
  BY <1>9 DEF EndStream, Pending
<1>. QED
  BY <1>1, <1>2, <1>3, <1>4, <1>5, <1>6, <1>7, <1>8, <1>9 DEF Talk

\* When the daemon listens, and who holds the lock.
LEMMA PhaseShapeStep ==
  ASSUME ControlTypeOK, PhaseShape, \A c \in Calls : CallShape(c), [ControlNext]_controlVars
  PROVE  PhaseShape'
<1>0. calls \in [Calls -> Call] /\ \A c \in Calls : calls[c] \in Call
  BY DEF ControlTypeOK
<1>a. \A by, n : n >= 1 => [by |-> by, next |-> n] # NoLoad
  BY DEF NoLoad
<1>1. ASSUME NEW c \in Calls, Talk(c) PROVE PhaseShape'
  <2>1. /\ UNCHANGED <<memory, puts, load, daemon, socket, control>>
        /\ \A m \in Calls \ {c} : calls'[m] = calls[m]
    BY <1>0, <1>1, TalkLeaves
  <2>2. Writing' = Writing
    BY <2>1 DEF Writing
  <2>3. /\ calls[c].server = "working" /\ calls[c].sent
             => calls'[c].server = "working" /\ calls'[c].sent
        /\ calls[c].server = "none" /\ socket # "live" => calls'[c].server = "none"
    BY <1>0, <1>1, TalkKeepsWork
  <2>. QED
    BY <2>1, <2>2, <2>3 DEF PhaseShape, Early
<1>2. ASSUME NEW c \in Calls, NEW s \in Sets, StartSet(c, s[1], s[2]) PROVE PhaseShape'
  <2>1. UNCHANGED <<memory, puts, load, daemon, socket, control>>
    BY <1>2 DEF StartSet, SetRow
  <2>2. Writing' = Writing
    BY <2>1 DEF Writing
  <2>3. \A m \in Calls \ {c} : calls'[m] = calls[m]
    BY <1>0, <1>2 DEF StartSet
  <2>4. calls[c].server = "none" /\ calls'[c].server = "none"
    BY <1>0, <1>2 DEF StartSet, NoCall
  <2>. QED
    BY <2>1, <2>2, <2>3, <2>4 DEF PhaseShape
<1>3. ASSUME NEW c \in Calls, Reload(c) PROVE PhaseShape'
  <2>1. /\ load' = [by |-> c, next |-> 1]
        /\ UNCHANGED <<memory, puts, daemon, socket, control>>
        /\ calls[c].server = "dispatch"
    BY <1>3 DEF Reload, BeginLoad
  <2>2. /\ calls'[c].server = "working" /\ calls'[c].sent
    BY <1>0, <1>3, <2>1 DEF Reload, CallShape, Call
  <2>3. daemon \notin Early /\ c # "boot"
    BY <2>1, LoadersAssumption DEF PhaseShape
  <2>4. \A m \in Calls : load'.by = m => m = c
    BY <2>1
  <2>. QED
    BY <2>1, <2>2, <2>3, <2>4 DEF PhaseShape, Early
<1>4. ASSUME NEW c \in Calls, Reloaded(c) \/ ReloadFails(c) PROVE PhaseShape'
  <2>1. load' = NoLoad /\ UNCHANGED <<memory, puts, daemon, socket, control>>
    BY <1>4 DEF Reloaded, ReloadFails, LoadDone, LoadFails
  <2>2. Writing' = Writing
    BY <2>1 DEF Writing
  <2>3. \A m \in Calls : calls'[m] \in {calls[m], NoCall}
    BY <1>0, <1>4 DEF Reloaded, ReloadFails
  <2>. QED
    BY <2>1, <2>2, <2>3 DEF PhaseShape, NoCall
<1>5. CASE Load
  <2>1. /\ UNCHANGED <<puts, daemon, socket, control, calls>> /\ load # NoLoad
        /\ load' = [load EXCEPT !.next = @ + 1]
    BY <1>5 DEF Load, LoadKey, channelVars
  <2>2. load'.by = load.by /\ daemon # "down"
    <3>1. load \in [by : Loaders, next : 1 .. N + 1]
      BY <2>1 DEF ControlTypeOK, SettingsTypeOK
    <3>. QED
      BY <2>1, <3>1 DEF PhaseShape
  <2>. QED
    BY <2>1, <2>2 DEF PhaseShape
<1>6. ASSUME NEW p \in Puts, Web(p) PROVE PhaseShape'
  <2>1. UNCHANGED <<load, daemon, socket, control, calls>>
    BY <1>6 DEF Web, WebPut, WebApply, WebSave, WebSaveFails, BeginPut, Apply, Save,
         SaveFails, channelVars
  <2>2. ASSUME daemon = "down" PROVE FALSE
    <3>1. puts[p] = NoPut
      BY <2>2 DEF PhaseShape, Writing
    <3>2. WebPut(p)
      BY <1>6, <3>1 DEF Web, WebApply, WebSave, WebSaveFails, Apply, Save, SaveFails, NoPut
    <3>. QED
      BY <2>2, <3>2 DEF WebPut
  <2>. QED
    BY <2>1, <2>2 DEF PhaseShape
<1>7. ASSUME \/ \E r \in Raws : WebRaw(r[1], r[2])
             \/ StartControl \/ StartControlFails \/ BeginStop \/ UNCHANGED controlVars
      PROVE  PhaseShape'
  <2>1. UNCHANGED <<memory, puts, load, calls>>
    BY <1>7 DEF WebRaw, PutRaw, StartControl, StartControlFails, BeginStop, settingsVars, channelVars, controlVars
  <2>2. Writing' = Writing
    BY <2>1 DEF Writing
  <2>3. \/ UNCHANGED <<daemon, socket, control>>
        \/ /\ daemon = "serving" /\ daemon' = "up"
           /\ (socket' = "live" /\ control') \/ (socket' \in {"none", socket} /\ control' = control)
        \/ daemon = "up" /\ daemon' = "draining" /\ UNCHANGED <<socket, control>>
    BY <1>7 DEF WebRaw, StartControl, StartControlFails, BeginStop, channelVars, controlVars
  <2>. QED
    BY <2>1, <2>2, <2>3 DEF PhaseShape, Early
<1>8. CASE Boot
  <2>1. /\ daemon = "down" /\ daemon' = "loading" /\ load' = [by |-> "boot", next |-> 1]
        /\ UNCHANGED <<socket, control, calls>>
    BY <1>8 DEF Boot, BeginLoad
  <2>2. \A c \in Calls : load'.by # c
    BY <2>1, LoadersAssumption
  <2>. QED
    BY <2>1, <2>2 DEF PhaseShape, Early
<1>9. CASE BootLoaded \/ BootLoadFails
  <2>1. /\ load.by = "boot" /\ load # NoLoad /\ load' = NoLoad
        /\ daemon' = "serving" /\ UNCHANGED <<socket, control, calls>>
    <3>1. load.by = "boot"
      <4>1. CASE BootLoaded
        BY <4>1 DEF BootLoaded, LoadDone
      <4>2. CASE BootLoadFails
        BY <4>2 DEF BootLoadFails, LoadFails
      <4>. QED
        BY <1>9, <4>1, <4>2
    <3>2. NoLoad.by # "boot"
      BY DEF NoLoad
    <3>. QED
      BY <1>9, <3>1, <3>2 DEF BootLoaded, BootLoadFails, LoadDone, LoadFails
  <2>2. daemon = "loading"
    BY <2>1 DEF PhaseShape
  <2>. QED
    BY <2>1, <2>2 DEF PhaseShape, Early
<1>10. CASE CloseSocket
  <2>1. /\ daemon = "draining" /\ daemon' = "closing" /\ socket' # "live" /\ ~control'
        /\ UNCHANGED <<memory, puts, load>>
    <3>1. socket' # "live"
      BY <1>10 DEF CloseSocket, PhaseShape
    <3>. QED
      BY <1>10, <3>1 DEF CloseSocket, settingsVars
  <2>2. \A c \in Calls : calls[c].server = "working" => calls'[c] = calls[c]
    BY <1>10 DEF CloseSocket
  <2>. QED
    BY <2>1, <2>2 DEF PhaseShape, Early
<1>11. CASE Finish \/ Crash
  <2>1. memory' = Defaults /\ load' = NoLoad /\ puts' = [p \in Puts |-> NoPut]
        /\ daemon' = "down"
    BY <1>11 DEF Finish, Crash, Exit, Forget
  <2>2. Writing' = {}
    BY <2>1 DEF Writing
  <2>3. socket' # "live" /\ ~control'
    BY <1>11 DEF Finish, Crash, Exit, PhaseShape
  <2>4. \A c \in Calls : calls'[c].server = "none"
    <3>. SUFFICES ASSUME NEW c \in Calls PROVE calls'[c].server = "none"
      OBVIOUS
    <3>1. calls'[c] = IF calls[c].server = "none" THEN calls[c] ELSE Dropped(calls[c])
      BY <1>11 DEF Finish, Crash, Exit
    <3>2. Dropped(calls[c]).server = "none"
      BY <1>0 DEF Dropped, NoCall, Call
    <3>. QED
      BY <3>1, <3>2
  <2>. QED
    BY <2>1, <2>2, <2>3, <2>4 DEF PhaseShape, Early
<1>. QED
  BY <1>1, <1>2, <1>3, <1>4, <1>5, <1>6, <1>7, <1>8, <1>9, <1>10, <1>11
     DEF ControlNext, Client, Server, Daemon, Talk

\* Where the settings are left alone, the requests are.
LEMMA SaveShapeKept ==
  ASSUME SaveShape, UNCHANGED <<memory, puts>>, excused => excused',
         load' # NoLoad => load # NoLoad \/ excused' \/ Saving = {}
  PROVE  SaveShape'
<1>1. Saving' = Saving
  BY DEF Saving
<1>. QED
  BY <1>1 DEF SaveShape

\* One request saves at a time, and what it saves is in memory.
LEMMA SaveShapeStep ==
  ASSUME ControlTypeOK, PhaseShape, SaveShape, [ControlNext]_controlVars
  PROVE  SaveShape'
<1>0. /\ calls \in [Calls -> Call] /\ puts \in [Puts -> Put]
      /\ memory \in [Keys -> Values]
  BY DEF ControlTypeOK, SettingsTypeOK
<1>1. ASSUME NEW c \in Calls, Talk(c) PROVE SaveShape'
  BY <1>0, <1>1, TalkLeaves, SaveShapeKept
<1>2. ASSUME NEW c \in Calls, NEW s \in Sets, StartSet(c, s[1], s[2]) PROVE SaveShape'
  BY <1>2, SaveShapeKept DEF StartSet, SetRow
<1>3. ASSUME NEW c \in Calls, Reload(c) PROVE SaveShape'
  <2>1. UNCHANGED <<memory, puts>> /\ excused' = (excused \/ Saving # {})
    BY <1>3 DEF Reload, BeginLoad, Excuse
  <2>. QED
    BY <2>1, SaveShapeKept
<1>4. ASSUME NEW c \in Calls, Reloaded(c) \/ ReloadFails(c) PROVE SaveShape'
  <2>1. UNCHANGED <<memory, puts>> /\ load' = NoLoad
    BY <1>4 DEF Reloaded, ReloadFails, LoadDone, LoadFails
  <2>2. excused => excused'
    BY <1>4 DEF Reloaded, ReloadFails, Excuse
  <2>. QED
    BY <2>1, <2>2, SaveShapeKept
<1>5. CASE Load
  <2>1. puts' = puts /\ excused' = excused /\ load # NoLoad
    BY <1>5 DEF Load, LoadKey
  <2>2. Saving' = Saving
    BY <2>1 DEF Saving
  <2>. QED
    BY <2>1, <2>2 DEF SaveShape
<1>6. ASSUME \/ \E r \in Raws : WebRaw(r[1], r[2])
             \/ BootLoaded \/ BootLoadFails \/ StartControl \/ StartControlFails \/ BeginStop \/ CloseSocket
             \/ UNCHANGED controlVars
      PROVE  SaveShape'
  <2>1. UNCHANGED <<memory, puts>>
    BY <1>6 DEF WebRaw, PutRaw, BootLoaded, BootLoadFails, LoadDone, LoadFails,
         StartControl, StartControlFails, BeginStop, CloseSocket, controlVars, settingsVars
  <2>3. excused => excused'
    BY <1>6 DEF WebRaw, BootLoaded, BootLoadFails, StartControl, StartControlFails, BeginStop, CloseSocket, Excuse,
         controlVars
  <2>2. load' = NoLoad \/ load' = load
    BY <1>6 DEF WebRaw, PutRaw, BootLoaded, BootLoadFails, LoadDone, LoadFails,
         StartControl, StartControlFails, BeginStop, CloseSocket, controlVars, settingsVars
  <2>. QED
    BY <2>1, <2>2, <2>3, SaveShapeKept
<1>7. ASSUME Boot \/ Finish \/ Crash PROVE SaveShape'
  <2>1. \/ puts' = [p \in Puts |-> NoPut]
        \/ puts' = puts /\ Writing = {}
    <3>1. CASE Boot
      BY <3>1 DEF Boot, BeginLoad, PhaseShape
    <3>2. CASE Finish \/ Crash
      BY <3>2 DEF Finish, Crash, Exit, Forget
    <3>. QED
      BY <1>7, <3>1, <3>2
  <2>2. Saving' = {}
    BY <2>1 DEF Saving, Writing, NoPut
  <2>. QED
    BY <2>2 DEF SaveShape
<1>8. ASSUME NEW p \in Puts, WebPut(p) PROVE SaveShape'
  <2>1. /\ puts[p] = NoPut /\ UNCHANGED <<memory, load, excused>>
        /\ \A q \in Puts \ {p} : puts'[q] = puts[q]
    BY <1>0, <1>8 DEF WebPut, BeginPut
  <2>2. puts'[p].step = "apply"
    BY <1>0, <1>8 DEF WebPut, BeginPut, Put
  <2>3. Saving' = Saving /\ p \notin Saving
    BY <2>1, <2>2 DEF Saving, NoPut
  <2>4. \A q \in Saving : puts'[q] = puts[q]
    BY <2>1, <2>3 DEF Saving
  <2>. QED
    BY <2>1, <2>3, <2>4 DEF SaveShape
<1>9. ASSUME NEW p \in Puts, WebApply(p) PROVE SaveShape'
  <2>1. /\ puts[p].step = "apply" /\ load = NoLoad /\ load' = NoLoad
        /\ excused' = (excused \/ Saving # {})
        /\ \A q \in Puts \ {p} : puts'[q] = puts[q]
    BY <1>0, <1>9 DEF WebApply, Apply, Excuse
  <2>2. CASE Valid(puts[p].batch)
    <3>1. puts[p] \in Put /\ puts[p].batch \in Batch
      BY <1>0 DEF Put
    <3>2. /\ puts'[p].step = "save" /\ puts'[p].left = Given(puts[p].batch)
          /\ puts'[p].batch = puts[p].batch
      BY <1>0, <1>9, <2>2, <3>1 DEF WebApply, Apply, Put
    <3>3. \A k \in Given(puts[p].batch) :
            puts[p].batch[k] \in Values /\ memory'[k] = puts[p].batch[k]
      BY <1>9, <2>2, <3>1 DEF WebApply, Apply, Overlay, Given, Valid, Batch
    <3>4. Saving' = Saving \cup {p}
      BY <2>1, <3>2 DEF Saving
    <3>5. \A q \in Saving : q # p /\ puts'[q] = puts[q]
      BY <2>1 DEF Saving
    <3>6. \A q \in Saving' : \A k \in puts'[q].left : puts'[q].batch[k] \in Values
      BY <3>2, <3>3, <3>4, <3>5 DEF SaveShape
    <3>7. ~ excused' => Saving' = {p}
      BY <2>1, <3>4
    <3>8. \A k \in puts'[p].left : memory'[k] = puts'[p].batch[k]
      BY <3>2, <3>3
    <3>. QED
      BY <2>1, <3>6, <3>7, <3>8 DEF SaveShape
  <2>3. CASE ~ Valid(puts[p].batch)
    <3>1. puts'[p] = NoPut /\ memory' = memory
      BY <1>0, <1>9, <2>3 DEF WebApply, Apply
    <3>2. Saving' = Saving /\ \A q \in Saving : puts'[q] = puts[q]
      BY <2>1, <3>1 DEF Saving, NoPut
    <3>. QED
      BY <2>1, <3>1, <3>2 DEF SaveShape
  <2>. QED
    BY <2>2, <2>3
<1>10. ASSUME NEW p \in Puts, WebSave(p) \/ WebSaveFails(p) PROVE SaveShape'
  <2>1. /\ p \in Saving /\ UNCHANGED <<memory, load>> /\ (excused => excused')
        /\ \A q \in Puts \ {p} : puts'[q] = puts[q]
    <3>1. CASE WebSave(p)
      BY <1>0, <3>1 DEF WebSave, Save, Saving
    <3>2. CASE WebSaveFails(p)
      BY <1>0, <3>2 DEF WebSaveFails, SaveFails, Excuse, Saving
    <3>. QED
      BY <1>10, <3>1, <3>2
  <2>2. \/ puts'[p] = NoPut
        \/ puts'[p].step = "save" /\ puts'[p].left \subseteq puts[p].left
             /\ puts'[p].batch = puts[p].batch
    <3>1. CASE WebSaveFails(p)
      BY <1>0, <3>1 DEF WebSaveFails, SaveFails
    <3>2. CASE WebSave(p)
      <4>1. PICK k \in puts[p].left :
              puts' = IF puts[p].left = {k} THEN [puts EXCEPT ![p] = NoPut]
                      ELSE [puts EXCEPT ![p].left = @ \ {k}]
        BY <3>2 DEF WebSave, Save
      <4>2. CASE puts[p].left = {k}
        BY <1>0, <4>1, <4>2
      <4>3. CASE puts[p].left # {k}
        <5>1. puts'[p] = [puts[p] EXCEPT !.left = puts[p].left \ {k}] /\ puts[p] \in Put
          BY <1>0, <4>1, <4>3
        <5>. QED
          BY <2>1, <5>1 DEF Put, Saving
      <4>. QED
        BY <4>2, <4>3
    <3>. QED
      BY <1>10, <3>1, <3>2
  <2>3. Saving' \subseteq Saving
    BY <2>1 DEF Saving
  <2>4. \A q \in Saving' : /\ puts'[q].left \subseteq puts[q].left
                           /\ puts'[q].batch = puts[q].batch
    BY <2>1, <2>2 DEF Saving, NoPut
  <2>. QED
    BY <2>1, <2>3, <2>4 DEF SaveShape
<1>. QED
  BY <1>1, <1>2, <1>3, <1>4, <1>5, <1>6, <1>7, <1>8, <1>9, <1>10
     DEF ControlNext, Client, Server, Daemon, Talk, Web


\* Where the settings are left alone and no pending set is lost, what explains
\* a difference still does.
LEMMA ExplainedKept ==
  ASSUME NEW k \in Keys, Explained(k), UNCHANGED <<memory, table, puts>>,
         load' = load \/ (load # NoLoad /\ ~ load.next <= k),
         \A c \in Calls : Pending(c) => Pending(c)'
  PROVE  Explained(k)'
<1>1. Saving' = Saving /\ InForce(k)' = InForce(k)
  BY DEF Saving, InForce
<1>. QED
  BY <1>1 DEF Explained

\* A difference between memory and table keeps its reason for as long as there
\* is one, unless the code admits that it loses it.
LEMMA ExplainedStep ==
  ASSUME ControlTypeOK, PhaseShape, SaveShape, \A c \in Calls : CallShape(c),
         ~ excused /\ daemon \in Live => \A k \in Keys : Explained(k),
         [ControlNext]_controlVars, ~ excused', daemon' \in Live,
         NEW k \in Keys
  PROVE  Explained(k)'
<1>0. /\ calls \in [Calls -> Call] /\ puts \in [Puts -> Put]
      /\ memory \in [Keys -> Values] /\ table \in [Keys -> Values \cup {Bad, NoValue}]
      /\ load \in [by : Loaders, next : 1 .. N + 1] \cup {NoLoad}
      /\ \A c \in Calls : calls[c] \in Call
  BY DEF ControlTypeOK, SettingsTypeOK
<1>1. ASSUME NEW c \in Calls, Talk(c) PROVE Explained(k)'
  <2>1. /\ UNCHANGED <<memory, table, puts, load, daemon>> /\ ~ excused
        /\ \A m \in Calls \ {c} : calls'[m] = calls[m]
    BY <1>0, <1>1, TalkLeaves
  <2>2. Pending(c) => Pending(c)'
    BY <1>0, <1>1, <2>1, TalkKeepsPending DEF Live
  <2>3. \A m \in Calls : Pending(m) => Pending(m)'
    BY <2>1, <2>2 DEF Pending, IsSet
  <2>. QED
    BY <2>1, <2>3, ExplainedKept
<1>2. ASSUME NEW c \in Calls, NEW s \in Sets, StartSet(c, s[1], s[2]) PROVE Explained(k)'
  <2>1. /\ UNCHANGED <<memory, puts, load, daemon, excused>> /\ calls[c] = NoCall
        /\ table' = [table EXCEPT ![s[1]] = s[2]] /\ s[2] \in Values
        /\ \A m \in Calls \ {c} : calls'[m] = calls[m]
    BY <1>0, <1>2 DEF StartSet, SetRow
  <2>2. Pending(c)'
    <3>1. calls'[c] = [NoCall EXCEPT !.cmd = "set", !.client = "dialling"]
      BY <1>0, <1>2, <2>1 DEF StartSet
    <3>2. calls'[c].cmd = "set" /\ calls'[c].client = "dialling" /\ ~ calls'[c].sent
      BY <3>1 DEF NoCall
    <3>. QED
      BY <3>2 DEF Pending, IsSet
  <2>3. CASE k = s[1]
    <3>1. table'[k] \in Values
      BY <1>0, <2>1, <2>3
    <3>. QED
      BY <2>2, <3>1 DEF Explained
  <2>4. CASE k # s[1]
    <3>1. table'[k] = table[k] /\ InForce(k)' = InForce(k)
      BY <1>0, <2>1, <2>4 DEF InForce
    <3>2. Saving' = Saving /\ Explained(k)
      BY <2>1 DEF Saving
    <3>. QED
      BY <2>1, <2>2, <3>1, <3>2 DEF Explained
  <2>. QED
    BY <2>3, <2>4
<1>3. ASSUME NEW c \in Calls, Reload(c) PROVE Explained(k)'
  <2>1. /\ UNCHANGED <<memory, table, puts, daemon>> /\ ~ excused /\ Saving = {}
        /\ load = NoLoad /\ load' = [by |-> c, next |-> 1]
    BY <1>3 DEF Reload, BeginLoad, Excuse
  <2>2. memory[k] = InForce(k) \/ table[k] \in Values
    BY <2>1 DEF Explained
  <2>3. load'.next = 1 /\ load' # NoLoad
    BY <2>1 DEF NoLoad
  <2>4. load'.next <= k
    BY <2>3 DEF Keys
  <2>. QED
    BY <2>1, <2>2, <2>3, <2>4 DEF Explained, InForce
<1>4. ASSUME NEW c \in Calls, Reloaded(c) PROVE Explained(k)'
  <2>1. /\ UNCHANGED <<memory, table, puts, daemon, excused>>
        /\ load = [by |-> c, next |-> N + 1]
        /\ \A m \in Calls \ {c} : calls'[m] = calls[m]
    BY <1>0, <1>4 DEF Reloaded, LoadDone
  <2>2. load # NoLoad /\ load.by = c /\ ~ load.next <= k
    BY <2>1, KeysAssumption DEF NoLoad, Keys
  <2>3. calls[c].server = "working" /\ calls[c].sent
    BY <2>2 DEF PhaseShape
  <2>4. \A m \in Calls : Pending(m) => Pending(m)'
    BY <2>1, <2>3 DEF Pending, IsSet
  <2>. QED
    BY <2>1, <2>2, <2>4, ExplainedKept
<1>5. ASSUME NEW c \in Calls, ReloadFails(c) PROVE FALSE
  BY <1>5 DEF ReloadFails, Excuse
<1>6. CASE Load
  <2>1. /\ UNCHANGED <<table, puts, daemon, excused, calls>> /\ load # NoLoad
        /\ load.next \in Keys /\ table[load.next] # Bad
        /\ memory' = [memory EXCEPT ![load.next] =
                        IF table[load.next] = NoValue THEN @ ELSE table[load.next]]
        /\ load' = [load EXCEPT !.next = @ + 1]
    BY <1>6 DEF Load, LoadKey, channelVars
  <2>2. Explained(k) /\ Saving = {} /\ Saving' = {}
    BY <2>1 DEF Saving, SaveShape
  <2>3. load \in [by : Loaders, next : 1 .. N + 1]
    BY <1>0, <2>1
  <2>4. InForce(k)' = InForce(k) /\ (\A c \in Calls : Pending(c)' <=> Pending(c))
    BY <2>1 DEF InForce, Pending, IsSet
  <2>5. CASE k = load.next
    <3>1. CASE table[k] = NoValue
      <4>1. table[k] \notin Values /\ memory'[k] = memory[k]
        BY <1>0, <2>1, <2>5, <3>1, ValuesAssumption
      <4>. QED
        BY <2>2, <2>4, <4>1 DEF Explained
    <3>2. CASE table[k] # NoValue
      <4>1. table[k] \in Values
        BY <1>0, <2>1, <2>5, <3>2
      <4>2. memory'[k] = table[k]
        BY <1>0, <2>1, <2>5, <3>2
      <4>. QED
        BY <2>4, <4>1, <4>2 DEF Explained, InForce
    <3>. QED
      BY <3>1, <3>2
  <2>6. CASE k # load.next
    <3>1. memory'[k] = memory[k]
      BY <1>0, <2>1, <2>6
    <3>2. load.next <= k => load' # NoLoad /\ load'.next <= k
      <4>1. load'.next = load.next + 1 /\ load.next \in Nat /\ k \in Nat
        BY <2>1, <2>3 DEF Keys
      <4>2. load'.next # 0
        BY <4>1
      <4>. QED
        BY <2>6, <4>1, <4>2 DEF NoLoad
    <3>. QED
      BY <2>1, <2>2, <2>4, <3>1, <3>2 DEF Explained
  <2>. QED
    BY <2>5, <2>6
<1>7. ASSUME NEW p \in Puts, WebPut(p) PROVE Explained(k)'
  <2>1. /\ UNCHANGED <<memory, table, load, daemon, excused, calls>> /\ puts[p] = NoPut
        /\ \A q \in Puts \ {p} : puts'[q] = puts[q]
    BY <1>0, <1>7 DEF WebPut, BeginPut, channelVars
  <2>2. Explained(k)
    BY <2>1
  <2>3. \A q \in Saving : q \in Saving' /\ puts'[q] = puts[q]
    BY <2>1 DEF Saving, NoPut
  <2>4. InForce(k)' = InForce(k) /\ (\A c \in Calls : Pending(c)' <=> Pending(c))
    BY <2>1 DEF InForce, Pending, IsSet
  <2>. QED
    BY <2>1, <2>2, <2>3, <2>4 DEF Explained
<1>8. ASSUME NEW p \in Puts, WebApply(p) PROVE Explained(k)'
  <2>1. /\ UNCHANGED <<table, daemon, calls>> /\ ~ excused /\ Saving = {}
        /\ load = NoLoad /\ load' = NoLoad
    BY <1>8 DEF WebApply, Apply, channelVars, Excuse
  <2>2. Explained(k)
    BY <2>1
  <2>3. InForce(k)' = InForce(k) /\ (\A c \in Calls : Pending(c)' <=> Pending(c))
    BY <2>1 DEF InForce, Pending, IsSet
  <2>4. ASSUME memory'[k] = memory[k] PROVE Explained(k)'
    BY <2>1, <2>2, <2>3, <2>4 DEF Explained
  <2>5. CASE ~ Valid(puts[p].batch)
    BY <1>8, <2>4, <2>5 DEF WebApply, Apply
  <2>6. CASE Valid(puts[p].batch)
    <3>1. puts[p] \in Put /\ puts[p].batch \in Batch
      BY <1>0 DEF Put
    <3>2. CASE k \in Given(puts[p].batch)
      <4>1. puts'[p].step = "save" /\ puts'[p].left = Given(puts[p].batch)
        BY <1>0, <1>8, <2>6, <3>1 DEF WebApply, Apply, Put
      <4>2. p \in Saving' /\ k \in puts'[p].left
        BY <3>2, <4>1 DEF Saving
      <4>. QED
        BY <4>2 DEF Explained
    <3>3. CASE k \notin Given(puts[p].batch)
      <4>1. puts[p].batch[k] \notin Values
        BY <3>3, ValuesAssumption DEF Given
      <4>2. memory'[k] = memory[k]
        BY <1>8, <2>6, <4>1 DEF WebApply, Apply, Overlay
      <4>. QED
        BY <2>4, <4>2
    <3>. QED
      BY <3>2, <3>3
  <2>. QED
    BY <2>5, <2>6
<1>9. ASSUME NEW p \in Puts, WebSave(p) PROVE Explained(k)'
  <2>1. /\ UNCHANGED <<memory, load, daemon, excused, calls>> /\ puts[p].step = "save"
    BY <1>9 DEF WebSave, Save, channelVars
  <2>2. Saving = {p} /\ load = NoLoad /\ Explained(k)
    BY <2>1 DEF Saving, SaveShape
  <2>3. PICK j \in puts[p].left :
          /\ table' = [table EXCEPT ![j] = puts[p].batch[j]]
          /\ puts' = IF puts[p].left = {j} THEN [puts EXCEPT ![p] = NoPut]
                     ELSE [puts EXCEPT ![p].left = @ \ {j}]
    BY <1>9 DEF WebSave, Save
  <2>4. CASE k = j
    <3>1. puts[p].batch[k] \in Values /\ memory[k] = puts[p].batch[k]
      BY <2>1, <2>2, <2>3, <2>4 DEF SaveShape
    <3>2. table'[k] = memory'[k] /\ table'[k] \in Values
      BY <1>0, <2>1, <2>3, <2>4, <3>1
    <3>. QED
      BY <3>2 DEF Explained, InForce
  <2>5. CASE k # j
    <3>1. table'[k] = table[k] /\ InForce(k)' = InForce(k)
      BY <1>0, <2>3, <2>5 DEF InForce
    <3>2. \A c \in Calls : Pending(c)' <=> Pending(c)
      BY <2>1 DEF Pending, IsSet
    <3>3. ASSUME k \in puts[p].left PROVE p \in Saving' /\ k \in puts'[p].left
      <4>1. puts' = [puts EXCEPT ![p] = [puts[p] EXCEPT !.left = puts[p].left \ {j}]]
        BY <2>3, <2>5, <3>3
      <4>2. puts'[p].step = "save" /\ puts'[p].left = puts[p].left \ {j}
        BY <1>0, <2>1, <4>1 DEF Put
      <4>. QED
        BY <2>5, <3>3, <4>2 DEF Saving
    <3>. QED
      BY <2>1, <2>2, <3>1, <3>2, <3>3 DEF Explained
  <2>. QED
    BY <2>4, <2>5
<1>10. ASSUME (\E p \in Puts : WebSaveFails(p)) \/ (\E r \in Raws : WebRaw(r[1], r[2]))
              \/ BootLoadFails
       PROVE  FALSE
  BY <1>10 DEF WebSaveFails, WebRaw, BootLoadFails, Excuse
<1>11. CASE Boot
  <2>1. /\ UNCHANGED <<memory, table, puts>> /\ memory = Defaults
        /\ load' = [by |-> "boot", next |-> 1]
    BY <1>11 DEF Boot, BeginLoad, PhaseShape
  <2>2. load' # NoLoad /\ load'.next = 1
    BY <2>1 DEF NoLoad
  <2>3. load'.next <= k
    BY <2>2 DEF Keys
  <2>4. CASE table'[k] \in Values
    BY <2>2, <2>3, <2>4 DEF Explained
  <2>5. CASE table'[k] \notin Values
    BY <2>1, <2>5 DEF Explained, InForce, Defaults
  <2>. QED
    BY <2>4, <2>5
<1>12. CASE BootLoaded
  <2>1. /\ UNCHANGED <<memory, table, puts, calls, excused>>
        /\ load = [by |-> "boot", next |-> N + 1]
    BY <1>12 DEF BootLoaded, LoadDone
  <2>2. load # NoLoad /\ load.by = "boot" /\ ~ load.next <= k
    BY <2>1, KeysAssumption DEF NoLoad, Keys
  <2>3. daemon = "loading"
    BY <2>2 DEF PhaseShape
  <2>4. \A c \in Calls : Pending(c) => Pending(c)'
    BY <2>1 DEF Pending, IsSet
  <2>. QED
    BY <2>1, <2>2, <2>3, <2>4, ExplainedKept DEF Live
<1>13. ASSUME StartControl \/ StartControlFails \/ BeginStop \/ UNCHANGED controlVars PROVE Explained(k)'
  <2>1. UNCHANGED <<memory, table, puts, load, calls, excused>> /\ daemon \in Live
    BY <1>13 DEF StartControl, StartControlFails, BeginStop, controlVars, settingsVars, channelVars, Live
  <2>2. \A c \in Calls : Pending(c) => Pending(c)'
    BY <2>1 DEF Pending, IsSet
  <2>. QED
    BY <2>1, <2>2, ExplainedKept
<1>14. ASSUME CloseSocket \/ Finish \/ Crash PROVE FALSE
  BY <1>14 DEF CloseSocket, Finish, Crash, Exit, Live
<1>. QED
  BY <1>1, <1>2, <1>3, <1>4, <1>5, <1>6, <1>7, <1>8, <1>9, <1>10, <1>11, <1>12, <1>13, <1>14
     DEF ControlNext, Client, Server, Daemon, Talk, Web

\* When nobody is changing the settings, the daemon works with what the table
\* says, across every order of web requests, sets of the command line, reloads,
\* boots, stops and crashes, but for the reasons that the code admits.
THEOREM SettledHolds == ControlSpec => []Settled
<1>1. ControlInit => SettledInv
  <2>. SUFFICES ASSUME ControlInit PROVE SettledInv
    OBVIOUS
  <2>1. /\ \A c \in Calls : calls[c] = NoCall
        /\ \A p \in Puts : puts[p] = NoPut
        /\ load = NoLoad /\ memory = Defaults /\ daemon = "down" /\ socket = "none"
        /\ control = FALSE
    BY DEF ControlInit, SettingsInit
  <2>2. Writing = {} /\ Saving = {}
    BY <2>1 DEF Writing, Saving, NoPut
  <2>3. PhaseShape
    BY <2>1, <2>2 DEF PhaseShape, NoCall
  <2>4. SaveShape
    BY <2>1, <2>2 DEF SaveShape
  <2>5. \A c \in Calls : CallShape(c)
    BY <2>1 DEF CallShape, NoCall
  <2>. QED
    BY <2>1, <2>3, <2>4, <2>5 DEF SettledInv
<1>2. ControlTypeOK /\ SettledInv /\ [ControlNext]_controlVars => SettledInv'
  <2>. SUFFICES ASSUME ControlTypeOK, SettledInv, [ControlNext]_controlVars
                PROVE  SettledInv'
    OBVIOUS
  <2>1. PhaseShape /\ SaveShape /\ (\A c \in Calls : CallShape(c))
    BY DEF SettledInv
  <2>2. ~ excused /\ daemon \in Live => \A k \in Keys : Explained(k)
    BY DEF SettledInv, Live
  <2>3. PhaseShape'
    BY <2>1, PhaseShapeStep
  <2>4. SaveShape'
    BY <2>1, SaveShapeStep
  <2>5. \A c \in Calls : CallShape(c)'
    BY <2>1, CallShapeStep
  <2>6. ~ excused' /\ daemon' \in Live => \A k \in Keys : Explained(k)'
    BY <2>1, <2>2, ExplainedStep
  <2>. QED
    BY <2>3, <2>4, <2>5, <2>6 DEF SettledInv, Live
<1>3. ControlTypeOK /\ SettledInv => Settled
  <2>. SUFFICES ASSUME SettledInv, daemon \in {"serving", "up", "draining"}, load = NoLoad,
                       Writing = {}, \A c \in Calls : ~ IsSet(c), ~ excused,
                       NEW k \in Keys
                PROVE  memory[k] = InForce(k)
    BY DEF Settled
  <2>1. Explained(k)
    BY DEF SettledInv
  <2>2. Saving = {}
    BY DEF Saving, Writing, NoPut
  <2>. QED
    BY <2>1, <2>2 DEF Explained, Pending
<1>. QED
  BY <1>1, <1>2, <1>3, ControlTypeCorrect, PTL DEF ControlSpec
=============================================================================
