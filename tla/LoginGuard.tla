----------------------------- MODULE LoginGuard -----------------------------
(***************************************************************************)
(* auth.LoginHandler: what stands between a login request and the password *)
(* comparison.  Every request ends as a row of the table login_attempts,   *)
(* and the gates count the rows: three lockouts (address, network, user    *)
(* name) and the captcha.  A handler counts first and records at its end,  *)
(* so that requests overlap; and each gate reads the runtime settings      *)
(* again, which an administrator may change at any time.                   *)
(***************************************************************************)
EXTENDS Naturals, FiniteSets

CONSTANTS
  Users,
  Ips,
  Subnet(_),    \* the network of an address: its first LoginFailSubnetBits bits
  Policies,     \* the settings an administrator switches between
  Challenges,   \* ids of captcha challenges
  TTL,          \* captcha.challengeTTL
  MaxRequests,  \* bound: login requests; each change of the settings, and each
                \* statement the database fails, takes the place of one
  MaxOpen,      \* bound: requests handled at the same time
  MaxTime       \* bound: the clock

Policy == [maxIP : Nat, windowIP : Nat, maxUser : Nat, windowUser : Nat,
           subnet : BOOLEAN, captcha : Nat]

ASSUME PolicyAssumption == Policies \subseteq Policy
ASSUME TTLAssumption == TTL \in Nat
ASSUME BoundAssumption == MaxRequests \in Nat /\ MaxOpen \in Nat /\ MaxTime \in Nat

VARIABLES
  policy,      \* runtime.Settings
  requests,    \* the handlers; a handler that has ended holds its row
  challenges,  \* captcha.Service.pending
  now,
  changes, faults

vars == <<policy, requests, challenges, now, changes, faults>>

Request == 1 .. MaxRequests
Nobody == "nobody"          \* the empty user name of a request that is not JSON
NoIp == "no address"
NoChallenge == "no challenge"

ASSUME ChallengesAssumption == NoChallenge \notin Challenges

Gates == {"ip", "subnet", "user"}
Steps == {"unsent"} \cup Gates \cup {"captcha", "verify", "password", "record", "done"}
After == [ip |-> "subnet", subnet |-> "user", user |-> "captcha"]

\* The reasons, as far as they matter: a password that was compared and wrong
\* (invalid_credentials, user_disabled), and a request that did not get there
\* (bad_request, internal, the locked_ and the captcha_ ones).
Reasons == {"", "ok", "wrong", "refused"}

\* at is when the row was written.
Handler == [step : Steps, user : Users \cup {Nobody}, ip : Ips \cup {NoIp},
            challenge : Challenges \cup {NoChallenge}, reason : Reasons,
            at : 0 .. MaxTime, recorded : BOOLEAN]
Unsent == [step |-> "unsent", user |-> Nobody, ip |-> NoIp,
           challenge |-> NoChallenge, reason |-> "", at |-> 0, recorded |-> FALSE]

Gone == [state |-> "gone", until |-> 0]

Init ==
  /\ policy \in Policies
  /\ requests = [r \in Request |-> Unsent]
  /\ challenges = [k \in Challenges |-> [state |-> "new", until |-> 0]]
  /\ now = 0 /\ changes = 0 /\ faults = 0

Open == {r \in Request : requests[r].step \notin {"unsent", "done"}}
Goto(r, step) ==
  requests' = [requests EXCEPT ![r].step = step]

\* The answer is decided; recordAttempt comes next.
Answer(r, reason) ==
  requests' = [requests EXCEPT ![r].step = "record", ![r].reason = reason]
Sent == {r \in Request : requests[r] # Unsent}
Room == Cardinality(Sent) + changes + faults < MaxRequests
Fault == Room /\ faults' = faults + 1

-----------------------------------------------------------------------------
(***************************************************************************)
(* The table of attempts.                                                  *)
(***************************************************************************)
Failures == {r \in Request : requests[r].recorded /\ requests[r].reason # "ok"}
Since(rows, window) == {r \in rows : requests[r].at + window >= now}

FailuresOfIp(ip, window) == Cardinality({r \in Since(Failures, window) : requests[r].ip = ip})
FailuresOfSubnet(net, window) ==
  Cardinality({r \in Since(Failures, window) : Subnet(requests[r].ip) = net})
FailuresOfUser(u, window) == Cardinality({r \in Since(Failures, window) : requests[r].user = u})

\* Counts what has been guessed from one address only.
Count_Wrong(r, gate) ==
  CASE gate = "ip" -> FailuresOfIp(requests[r].ip, policy.windowIP)
    [] gate = "subnet" -> FailuresOfSubnet(Subnet(requests[r].ip), policy.windowIP)
    [] gate = "user" -> FailuresOfIp(requests[r].ip, policy.windowUser)

Count(r, gate) ==
  CASE gate = "ip" -> FailuresOfIp(requests[r].ip, policy.windowIP)
    [] gate = "subnet" -> FailuresOfSubnet(Subnet(requests[r].ip), policy.windowIP)
    [] gate = "user" -> FailuresOfUser(requests[r].user, policy.windowUser)

-----------------------------------------------------------------------------
(***************************************************************************)
(* LoginHandler.                                                           *)
(***************************************************************************)
Arrives(r) ==
  /\ requests[r] = Unsent
  /\ \A q \in 1 .. r - 1 : requests[q] # Unsent
  /\ Room /\ Cardinality(Open) < MaxOpen

Send(r, u, ip) ==
  /\ Arrives(r)
  /\ requests' = [requests EXCEPT ![r].step = "ip", ![r].user = u, ![r].ip = ip]
  /\ UNCHANGED <<policy, challenges, now, changes, faults>>

\* A body that does not parse is recorded without a user name.  (Bound: one
\* such request at most.)
SendBad(r, ip) ==
  /\ Arrives(r)
  /\ \A q \in Sent : requests[q].user # Nobody
  /\ requests' = [requests EXCEPT ![r].step = "record", ![r].ip = ip,
                                  ![r].reason = "refused"]
  /\ UNCHANGED <<policy, challenges, now, changes, faults>>

\* A lockout is switched on by its settings; 0 switches it off.
Armed(gate) ==
  CASE gate = "ip" -> policy.maxIP > 0 /\ policy.windowIP > 0
    [] gate = "subnet" -> policy.subnet /\ policy.maxIP > 0 /\ policy.windowIP > 0
    [] gate = "user" -> policy.maxUser > 0 /\ policy.windowUser > 0

\* The limit, which the settings are asked for after the rows are counted.
Limit(gate) ==
  CASE gate = "ip" -> policy.maxIP
    [] gate = "subnet" -> 3 * policy.maxIP
    [] gate = "user" -> policy.maxUser

\* A gate that is switched off, or whose rows cannot be counted, lets pass.
Judge(r, gate) ==
  LET locked == Armed(gate) /\ Count(r, gate) >= Limit(gate)
  IN  /\ requests[r].step = gate
      /\ \/ locked /\ Answer(r, "refused") /\ UNCHANGED faults
         \/ ~locked /\ Goto(r, After[gate]) /\ UNCHANGED faults
         \/ locked /\ Fault /\ Goto(r, After[gate])
      /\ UNCHANGED <<policy, challenges, now, changes>>

\* captcha.Required
Required(r) ==
  /\ policy.captcha > 0
  /\ \/ FailuresOfIp(requests[r].ip, policy.windowIP) >= policy.captcha
     \/ FailuresOfUser(requests[r].user, policy.windowUser) >= policy.captcha

\* The captcha gate: the request carries a challenge, or it does not.  Rows that
\* cannot be counted ask for none.
Ask(r) ==
  /\ requests[r].step = "captcha"
  /\ \/ Required(r) /\ Answer(r, "refused") /\ UNCHANGED faults
     \/ /\ Required(r)
        /\ \E k \in Challenges :
             requests' = [requests EXCEPT ![r].step = "verify", ![r].challenge = k]
        /\ UNCHANGED faults
     \/ ~Required(r) /\ Goto(r, "password") /\ UNCHANGED faults
     \/ Required(r) /\ Fault /\ Goto(r, "password")
  /\ UNCHANGED <<policy, challenges, now, changes>>

\* A wrong answer leaves the challenge for another try.
Verify_Wrong(r) ==
  LET k == requests[r].challenge
  IN  /\ requests[r].step = "verify"
      /\ \/ /\ challenges[k].state = "pending" /\ now <= challenges[k].until
            /\ Goto(r, "password")
            /\ challenges' = [challenges EXCEPT ![k] = Gone]
         \/ Answer(r, "refused") /\ UNCHANGED challenges
      /\ UNCHANGED <<policy, now, changes, faults>>

\* captcha.Verify takes the challenge out of the map, whatever the answer.  A
\* request whose challenge is not there has tried nothing.
Verify(r) ==
  LET k == requests[r].challenge
      there == challenges[k].state = "pending"
  IN  /\ requests[r].step = "verify"
      /\ \/ there /\ now <= challenges[k].until /\ Goto(r, "password")
         \/ there /\ Answer(r, "refused")
         \/ /\ ~there
            /\ requests' = [requests EXCEPT ![r].step = "record", ![r].challenge = NoChallenge,
                                            ![r].reason = "refused"]
      /\ challenges' = IF there THEN [challenges EXCEPT ![k] = Gone] ELSE challenges
      /\ UNCHANGED <<policy, now, changes, faults>>

\* GetUserByUsername and the comparison with the hash that was read.
Compare(r) ==
  /\ requests[r].step = "password"
  /\ \/ Answer(r, "ok") /\ UNCHANGED faults
     \/ Answer(r, "wrong") /\ UNCHANGED faults
     \/ Fault /\ Answer(r, "refused")
  /\ UNCHANGED <<policy, challenges, now, changes>>

\* recordAttempt, whose error nobody sees, and the answer.
Record(r) ==
  /\ requests[r].step = "record"
  /\ \E written \in BOOLEAN :
       /\ IF written THEN UNCHANGED faults ELSE Fault
       /\ requests' = [requests EXCEPT ![r].step = "done", ![r].recorded = written,
                                       ![r].at = IF written THEN now ELSE 0]
  /\ UNCHANGED <<policy, challenges, now, changes>>

Handle(r) ==
  \/ \E gate \in Gates : Judge(r, gate)
  \/ Ask(r) \/ Verify(r) \/ Compare(r) \/ Record(r)

(***************************************************************************)
(* What happens around the handlers.                                       *)
(***************************************************************************)
\* captcha.Issue stores a new challenge and sweeps the expired ones.  (Bound: it
\* is fetched before a request is sent, not while another is handled.)
Issue(k) ==
  /\ Open = {}
  /\ challenges[k].state = "new"
  /\ challenges' = [c \in Challenges |->
       IF c = k THEN [state |-> "pending", until |-> now + TTL]
       ELSE IF challenges[c].state = "pending" /\ now > challenges[c].until
            THEN Gone ELSE challenges[c]]
  /\ UNCHANGED <<policy, requests, now, changes, faults>>

\* An administrator changes the settings: runtime.SetMany.
Reconfigure(p) ==
  /\ Room
  /\ p # policy
  /\ policy' = p
  /\ changes' = changes + 1
  /\ UNCHANGED <<requests, challenges, now, faults>>

Tick ==
  /\ now < MaxTime
  /\ now' = now + 1
  /\ UNCHANGED <<policy, requests, challenges, changes, faults>>

Next ==
  \/ \E r \in Request :
       \/ \E ip \in Ips : SendBad(r, ip) \/ \E u \in Users : Send(r, u, ip)
       \/ Handle(r)
  \/ \E k \in Challenges : Issue(k)
  \/ \E p \in Policies : Reconfigure(p)
  \/ Tick

Spec == Init /\ [][Next]_vars

-----------------------------------------------------------------------------
(***************************************************************************)
(* Properties.                                                             *)
(***************************************************************************)
\* The variables keep their shape; a request that has ended has its answer.
TypeOK ==
  /\ policy \in Policies
  /\ requests \in [Request -> Handler]
  /\ challenges \in [Challenges -> [state : {"new", "pending", "gone"}, until : Nat]]
  /\ now \in 0 .. MaxTime /\ changes \in 0 .. MaxRequests /\ faults \in 0 .. MaxRequests
  /\ \A r \in Request : requests[r].step \in {"record", "done"} => requests[r].reason # ""

\* The passwords somebody has tried, and was wrong about.
Guesses == {r \in Failures : requests[r].reason = "wrong"}

\* The settings that may have been in force.
Seen == IF changes = 0 THEN {policy} ELSE Policies

\* The guesses that count whichever of these settings is in force.
GuessesOf(u) ==
  {r \in Guesses : /\ requests[r].user = u
                   /\ \A p \in Seen : requests[r].at + p.windowUser >= now}

\* What overlapping adds to a limit: the handlers that have passed the gate
\* before the first of them is on record, and the statements that failed.
Slack == MaxOpen - 1 + faults

\* The lockout, within the window of the user names.
LockoutHolds ==
  (\A p \in Seen : p.maxUser > 0 /\ p.windowUser > 0) =>
    \A u \in Users : \E p \in Seen : Cardinality(GuessesOf(u)) <= p.maxUser + Slack

\* The threshold of the captcha, for the guesses that came without one.
CaptchaHolds ==
  (\A p \in Seen : p.captcha > 0) =>
    \A u \in Users : \E p \in Seen :
      Cardinality({r \in GuessesOf(u) : requests[r].challenge = NoChallenge})
        <= p.captcha + Slack

\* However requests overlap, change their address and meet a change of the
\* settings: a user name gets as many wrong guesses as the lockout allows, and
\* as many without a captcha as its threshold, and the slack.
GuessesAreBounded == LockoutHolds /\ CaptchaHolds

\* An answer, right or wrong, was compared with the challenge of this request.
Tried(r) == requests[r].challenge # NoChallenge /\ requests[r].step # "verify"

\* No challenge serves two requests, not even two that arrive together, and not
\* after a wrong answer.
ChallengeTriedOnce ==
  \A q, r \in Request :
    Tried(q) /\ Tried(r) /\ requests[q].challenge = requests[r].challenge => q = r
=============================================================================
