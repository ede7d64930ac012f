------------------------- MODULE LoginGuardProofs -------------------------
(***************************************************************************)
(* Proofs about LoginGuard, for any users, addresses, settings, challenges *)
(* and number of requests.  A challenge that was tried once stays gone, and*)
(* that makes the next try find nothing: AnswersConsume is what            *)
(* ChallengeTriedOnce needs to be inductive.  GuessesAreBounded needs the  *)
(* handlers that have passed a gate counted with the rows: BoundInv.       *)
(***************************************************************************)
EXTENDS LoginGuard, FiniteSetTheorems, TLAPS

\* What a request has tried is not in the map any more.
AnswersConsume ==
  \A r \in Request : Tried(r) =>
    /\ requests[r].challenge \in Challenges
    /\ challenges[requests[r].challenge].state = "gone"

LoginInv == TypeOK /\ AnswersConsume /\ ChallengeTriedOnce

\* A handler that has passed the lockouts and not been refused since, and one that
\* has passed the captcha too.  Its guess, if it is one, is still to be recorded.
Passed(r) == \/ requests[r].step \in {"captcha", "verify", "password"}
             \/ requests[r].step = "record" /\ requests[r].reason = "wrong"
Ready(r) == \/ requests[r].step = "password"
            \/ requests[r].step = "record" /\ requests[r].reason = "wrong"

\* The guesses at the password of a user, on record or on their way to it, and
\* those of them that come without a challenge.
Passers(u) ==
  {r \in Request : requests[r].user = u /\ (Passed(r) \/ r \in GuessesOf(u))}
BarePassers(u) ==
  {r \in Request : /\ requests[r].user = u /\ requests[r].challenge = NoChallenge
                   /\ Ready(r) \/ r \in GuessesOf(u)}

Locks(p) == p.maxUser > 0 /\ p.windowUser > 0

\* What the gates have let pass is bounded before it is on record.  That is what
\* the next handler finds when it counts the rows: fewer of them than the limit,
\* and no more handlers on their way than may be open.
BoundInv ==
  /\ Cardinality(Open) <= MaxOpen
  /\ \A r \in Request : requests[r].step = "verify" => requests[r].challenge # NoChallenge
  /\ (\A p \in Seen : Locks(p)) =>
       \A u \in Users : \E p \in Seen : Cardinality(Passers(u)) <= p.maxUser + Slack
  /\ (\A p \in Seen : p.captcha > 0) =>
       \A u \in Users : \E p \in Seen : Cardinality(BarePassers(u)) <= p.captcha + Slack

-----------------------------------------------------------------------------
\* There are never more than MaxRequests faults.
LEMMA FaultIsBounded ==
  ASSUME TypeOK, Fault
  PROVE  faults' \in 0 .. MaxRequests
<1>1. IsFiniteSet(Request)
  BY BoundAssumption, FS_Interval DEF Request
<1>2. Cardinality(Sent) \in Nat
  BY <1>1, FS_Subset, FS_CardinalityType DEF Sent
<1>3. faults \in Nat /\ changes \in Nat /\ MaxRequests \in Nat
  <2>1. faults \in 0 .. MaxRequests /\ changes \in 0 .. MaxRequests
    BY DEF TypeOK
  <2>2. QED
    BY <2>1, BoundAssumption
<1>4. Cardinality(Sent) + changes + faults < MaxRequests /\ faults' = faults + 1
  BY DEF Fault, Room
<1>5. QED
  BY <1>2, <1>3, <1>4

LEMMA ChangeIsBounded ==
  ASSUME TypeOK, NEW p \in Policies, Reconfigure(p)
  PROVE  changes' \in 0 .. MaxRequests
<1>1. IsFiniteSet(Request)
  BY BoundAssumption, FS_Interval DEF Request
<1>2. Cardinality(Sent) \in Nat
  BY <1>1, FS_Subset, FS_CardinalityType DEF Sent
<1>3. faults \in Nat /\ changes \in Nat /\ MaxRequests \in Nat
  <2>1. faults \in 0 .. MaxRequests /\ changes \in 0 .. MaxRequests
    BY DEF TypeOK
  <2>2. QED
    BY <2>1, BoundAssumption
<1>4. Cardinality(Sent) + changes + faults < MaxRequests /\ changes' = changes + 1
  BY DEF Reconfigure, Room
<1>5. QED
  BY <1>2, <1>3, <1>4

\* To replace a handler by a well-formed one that has its answer when it needs
\* it leaves the others alone.
LEMMA Replaced ==
  ASSUME TypeOK, NEW r \in Request, NEW h \in Handler,
         h.step \in {"record", "done"} => h.reason # "",
         requests' = [requests EXCEPT ![r] = h]
  PROVE  /\ requests' \in [Request -> Handler]
         /\ \A q \in Request : requests'[q].step \in {"record", "done"}
                                 => requests'[q].reason # ""
         /\ requests'[r] = h
         /\ \A q \in Request \ {r} : requests'[q] = requests[q]
BY DEF TypeOK

\* A handler that goes on, its challenge and what it has tried as before.
LEMMA StepKeeps ==
  ASSUME LoginInv, NEW r \in Request, NEW h \in Handler,
         requests' = [requests EXCEPT ![r] = h],
         h.challenge = requests[r].challenge,
         requests[r].step # "verify" \/ h.step = "verify",
         UNCHANGED challenges
  PROVE  AnswersConsume' /\ ChallengeTriedOnce'
<1>1. /\ requests'[r] = h
      /\ \A q \in Request \ {r} : requests'[q] = requests[q]
  BY DEF LoginInv, TypeOK
<1>2. \A q \in Request : Tried(q)' => Tried(q) /\ requests'[q].challenge = requests[q].challenge
  BY <1>1 DEF Tried
<1>3. QED
  BY <1>2 DEF LoginInv, AnswersConsume, ChallengeTriedOnce

\* A handler moves on to another step.
LEMMA GoesOn ==
  ASSUME LoginInv, NEW r \in Request, NEW step \in Steps \ {"record", "done", "verify"},
         requests[r].step # "verify", Goto(r, step), UNCHANGED challenges
  PROVE  /\ requests' \in [Request -> Handler]
         /\ \A q \in Request : requests'[q].step \in {"record", "done"}
                                 => requests'[q].reason # ""
         /\ AnswersConsume' /\ ChallengeTriedOnce'
<1> DEFINE h == [requests[r] EXCEPT !.step = step]
<1>1. requests[r] \in Handler
  BY DEF LoginInv, TypeOK
<1>2. /\ h \in Handler /\ h.step = step
      /\ h.challenge = requests[r].challenge
  BY <1>1 DEF Handler
<1>3. requests' = [requests EXCEPT ![r] = h]
  BY DEF Goto
<1> HIDE DEF h
<1>4. QED
  BY <1>2, <1>3, Replaced, StepKeeps DEF LoginInv

\* A handler decides on its answer.
LEMMA Answers ==
  ASSUME LoginInv, NEW r \in Request, NEW reason \in Reasons \ {""},
         requests[r].step # "verify", Answer(r, reason), UNCHANGED challenges
  PROVE  /\ requests' \in [Request -> Handler]
         /\ \A q \in Request : requests'[q].step \in {"record", "done"}
                                 => requests'[q].reason # ""
         /\ AnswersConsume' /\ ChallengeTriedOnce'
<1> DEFINE h == [requests[r] EXCEPT !.step = "record", !.reason = reason]
<1>1. requests[r] \in Handler
  BY DEF LoginInv, TypeOK
<1>2. /\ h \in Handler /\ h.step = "record" /\ h.reason = reason
      /\ h.challenge = requests[r].challenge
  BY <1>1 DEF Handler, Steps
<1>3. requests' = [requests EXCEPT ![r] = h]
  BY DEF Answer
<1> HIDE DEF h
<1>4. QED
  BY <1>2, <1>3, Replaced, StepKeeps DEF LoginInv

-----------------------------------------------------------------------------
LEMMA LoginInit ==
  ASSUME Init
  PROVE  LoginInv
<1>1. Unsent \in Handler
  BY BoundAssumption DEF Unsent, Handler, Steps, Reasons
<1>2. TypeOK
  <2>1. /\ policy \in Policies
        /\ requests \in [Request -> Handler]
        /\ challenges \in [Challenges -> [state : {"new", "pending", "gone"}, until : Nat]]
    BY <1>1 DEF Init
  <2>2. now \in 0 .. MaxTime /\ changes \in 0 .. MaxRequests /\ faults \in 0 .. MaxRequests
    BY BoundAssumption DEF Init
  <2>3. \A r \in Request : requests[r].step \notin {"record", "done"}
    BY DEF Init, Unsent
  <2>4. QED
    BY <2>1, <2>2, <2>3 DEF TypeOK
<1>3. \A r \in Request : ~Tried(r)
  BY DEF Init, Tried, Unsent
<1>4. QED
  BY <1>2, <1>3 DEF LoginInv, AnswersConsume, ChallengeTriedOnce

LEMMA SendKeeps ==
  ASSUME LoginInv, NEW r \in Request, NEW u \in Users, NEW ip \in Ips, Send(r, u, ip)
  PROVE  LoginInv'
<1> DEFINE h == [requests[r] EXCEPT !.step = "ip", !.user = u, !.ip = ip]
<1>1. requests[r] \in Handler /\ requests[r] = Unsent
  BY DEF LoginInv, TypeOK, Send, Arrives
<1>2. /\ h \in Handler /\ h.step = "ip"
      /\ h.challenge = requests[r].challenge
  BY <1>1 DEF Handler, Steps, Gates
<1>3. requests' = [requests EXCEPT ![r] = h]
  BY DEF Send
<1>4. requests[r].step # "verify"
  <2>1. Unsent.step # "verify"
    BY DEF Unsent
  <2>2. QED
    BY <1>1, <2>1
<1> HIDE DEF h
<1>5. AnswersConsume' /\ ChallengeTriedOnce'
  BY <1>2, <1>3, <1>4, StepKeeps DEF Send
<1>6. TypeOK'
  BY <1>2, <1>3, Replaced DEF LoginInv, TypeOK, Send
<1>7. QED
  BY <1>5, <1>6 DEF LoginInv

LEMMA SendBadKeeps ==
  ASSUME LoginInv, NEW r \in Request, NEW ip \in Ips, SendBad(r, ip)
  PROVE  LoginInv'
<1> DEFINE h == [requests[r] EXCEPT !.step = "record", !.ip = ip, !.reason = "refused"]
<1>1. requests[r] \in Handler /\ requests[r] = Unsent
  BY DEF LoginInv, TypeOK, SendBad, Arrives
<1>2. /\ h \in Handler /\ h.reason = "refused"
      /\ h.challenge = requests[r].challenge
  BY <1>1 DEF Handler, Steps, Reasons
<1>3. requests' = [requests EXCEPT ![r] = h]
  BY DEF SendBad
<1>4. requests[r].step # "verify"
  <2>1. Unsent.step # "verify"
    BY DEF Unsent
  <2>2. QED
    BY <1>1, <2>1
<1> HIDE DEF h
<1>5. AnswersConsume' /\ ChallengeTriedOnce'
  BY <1>2, <1>3, <1>4, StepKeeps DEF SendBad
<1>6. TypeOK'
  BY <1>2, <1>3, Replaced DEF LoginInv, TypeOK, SendBad
<1>7. QED
  BY <1>5, <1>6 DEF LoginInv

\* What a step leaves alone, and the faults it may add.
LEMMA RestTyped ==
  ASSUME TypeOK, UNCHANGED <<policy, challenges, now, changes>>,
         UNCHANGED faults \/ Fault
  PROVE  /\ policy' \in Policies
         /\ challenges' \in [Challenges -> [state : {"new", "pending", "gone"}, until : Nat]]
         /\ now' \in 0 .. MaxTime /\ changes' \in 0 .. MaxRequests
         /\ faults' \in 0 .. MaxRequests
BY FaultIsBounded DEF TypeOK

LEMMA JudgeKeeps ==
  ASSUME LoginInv, NEW r \in Request, NEW gate \in Gates, Judge(r, gate)
  PROVE  LoginInv'
<1>1. /\ UNCHANGED <<policy, challenges, now, changes>> /\ (UNCHANGED faults \/ Fault)
      /\ requests[r].step # "verify"
      /\ Answer(r, "refused") \/ Goto(r, After[gate])
  BY DEF Judge, Gates
<1>2. After[gate] \in Steps \ {"record", "done", "verify"}
  BY DEF After, Gates, Steps
<1>3. /\ requests' \in [Request -> Handler]
      /\ \A q \in Request : requests'[q].step \in {"record", "done"}
                              => requests'[q].reason # ""
      /\ AnswersConsume' /\ ChallengeTriedOnce'
  <2>1. CASE Answer(r, "refused")
    BY <1>1, <2>1, Answers DEF Reasons
  <2>2. CASE Goto(r, After[gate])
    BY <1>1, <1>2, <2>2, GoesOn
  <2>3. QED
    BY <1>1, <2>1, <2>2
<1>4. TypeOK
  BY DEF LoginInv
<1>5. QED
  BY <1>1, <1>3, <1>4, RestTyped DEF LoginInv, TypeOK

LEMMA AskKeeps ==
  ASSUME LoginInv, NEW r \in Request, Ask(r)
  PROVE  LoginInv'
<1>1. /\ UNCHANGED <<policy, challenges, now, changes>> /\ (UNCHANGED faults \/ Fault)
      /\ requests[r].step # "verify"
  BY DEF Ask
<1>2. \/ Answer(r, "refused")
      \/ Goto(r, "password")
      \/ \E k \in Challenges :
           requests' = [requests EXCEPT ![r].step = "verify", ![r].challenge = k]
  BY DEF Ask
<1>3. /\ requests' \in [Request -> Handler]
      /\ \A q \in Request : requests'[q].step \in {"record", "done"}
                              => requests'[q].reason # ""
      /\ AnswersConsume' /\ ChallengeTriedOnce'
  <2>1. CASE Answer(r, "refused")
    BY <1>1, <2>1, Answers DEF Reasons
  <2>2. CASE Goto(r, "password")
    BY <1>1, <2>2, GoesOn DEF Steps
  <2>3. ASSUME NEW k \in Challenges,
               requests' = [requests EXCEPT ![r].step = "verify", ![r].challenge = k]
        PROVE  /\ requests' \in [Request -> Handler]
               /\ \A q \in Request : requests'[q].step \in {"record", "done"}
                                       => requests'[q].reason # ""
               /\ AnswersConsume' /\ ChallengeTriedOnce'
    <3> DEFINE h == [requests[r] EXCEPT !.step = "verify", !.challenge = k]
    <3>1. requests[r] \in Handler
      BY DEF LoginInv, TypeOK
    <3>2. h \in Handler /\ h.step = "verify"
      BY <3>1 DEF Handler, Steps
    <3>3. requests' = [requests EXCEPT ![r] = h]
      BY <2>3
    <3> HIDE DEF h
    <3>4. /\ requests' \in [Request -> Handler]
          /\ \A q \in Request : requests'[q].step \in {"record", "done"}
                                  => requests'[q].reason # ""
          /\ requests'[r] = h
          /\ \A q \in Request \ {r} : requests'[q] = requests[q]
      BY <3>2, <3>3, Replaced DEF LoginInv
    <3>5. \A q \in Request : Tried(q)' => q # r /\ Tried(q)
      BY <3>2, <3>4 DEF Tried
    <3>6. AnswersConsume' /\ ChallengeTriedOnce'
      BY <1>1, <3>4, <3>5 DEF LoginInv, AnswersConsume, ChallengeTriedOnce
    <3>7. QED
      BY <3>4, <3>6
  <2>4. QED
    BY <1>2, <2>1, <2>2, <2>3
<1>4. TypeOK
  BY DEF LoginInv
<1>5. QED
  BY <1>1, <1>3, <1>4, RestTyped DEF LoginInv, TypeOK

\* The one step that consumes a challenge: no other request has tried it, for
\* what was tried is gone.
LEMMA VerifyKeeps ==
  ASSUME LoginInv, NEW r \in Request, Verify(r)
  PROVE  LoginInv'
<1> DEFINE k == requests[r].challenge
           there == challenges[k].state = "pending"
<1>1. requests[r] \in Handler /\ requests[r].step = "verify"
  BY DEF LoginInv, TypeOK, Verify
<1>2. /\ UNCHANGED <<policy, now, changes, faults>>
      /\ challenges' = IF there THEN [challenges EXCEPT ![k] = Gone] ELSE challenges
  BY DEF Verify
<1>3. PICK h \in Handler :
        /\ requests' = [requests EXCEPT ![r] = h]
        /\ h.step \in {"record", "done"} => h.reason # ""
        /\ h.challenge = (IF there THEN k ELSE NoChallenge)
  <2>1. CASE there /\ Goto(r, "password")
    <3> DEFINE g == [requests[r] EXCEPT !.step = "password"]
    <3>1. g \in Handler /\ g.step = "password" /\ g.challenge = k
      BY <1>1 DEF Handler, Steps
    <3>2. requests' = [requests EXCEPT ![r] = g]
      BY <2>1 DEF Goto
    <3>3. QED
      BY <2>1, <3>1, <3>2
  <2>2. CASE there /\ Answer(r, "refused")
    <3> DEFINE g == [requests[r] EXCEPT !.step = "record", !.reason = "refused"]
    <3>1. g \in Handler /\ g.reason = "refused" /\ g.challenge = k
      BY <1>1 DEF Handler, Steps, Reasons
    <3>2. requests' = [requests EXCEPT ![r] = g]
      BY <2>2 DEF Answer
    <3>3. QED
      BY <2>2, <3>1, <3>2
  <2>3. CASE /\ ~there
             /\ requests' = [requests EXCEPT ![r].step = "record",
                                             ![r].challenge = NoChallenge,
                                             ![r].reason = "refused"]
    <3> DEFINE g == [requests[r] EXCEPT !.step = "record", !.challenge = NoChallenge,
                                        !.reason = "refused"]
    <3>1. g \in Handler /\ g.reason = "refused" /\ g.challenge = NoChallenge
      BY <1>1 DEF Handler, Steps, Reasons
    <3>2. requests' = [requests EXCEPT ![r] = g]
      BY <2>3
    <3>3. QED
      BY <2>3, <3>1, <3>2
  <2>4. QED
    BY <2>1, <2>2, <2>3 DEF Verify
<1>4. /\ requests' \in [Request -> Handler]
      /\ \A q \in Request : requests'[q].step \in {"record", "done"}
                              => requests'[q].reason # ""
      /\ requests'[r] = h
      /\ \A q \in Request \ {r} : requests'[q] = requests[q]
  BY <1>3, Replaced DEF LoginInv
<1>5. Gone \in [state : {"new", "pending", "gone"}, until : Nat] /\ Gone.state = "gone"
  BY DEF Gone
<1>6. /\ challenges' \in [Challenges -> [state : {"new", "pending", "gone"}, until : Nat]]
      /\ \A c \in Challenges : challenges[c].state = "gone" => challenges'[c].state = "gone"
  BY <1>2, <1>5 DEF LoginInv, TypeOK
<1>7. TypeOK'
  BY <1>2, <1>4, <1>6 DEF LoginInv, TypeOK
<1>8. CASE ~there
  <2>1. \A q \in Request : Tried(q)' => q # r /\ Tried(q)
    BY <1>3, <1>4, <1>8 DEF Tried
  <2>2. AnswersConsume' /\ ChallengeTriedOnce'
    BY <1>4, <1>6, <2>1 DEF LoginInv, AnswersConsume, ChallengeTriedOnce
  <2>3. QED
    BY <1>7, <2>2 DEF LoginInv
<1>9. CASE there /\ k \in Challenges
  <2>1. challenges'[k].state = "gone"
    BY <1>2, <1>5, <1>9 DEF LoginInv, TypeOK
  <2>2. \A q \in Request \ {r} : Tried(q)' => Tried(q) /\ requests'[q].challenge # k
    BY <1>4, <1>9 DEF Tried, LoginInv, AnswersConsume
  <2>3. requests'[r].challenge = k
    BY <1>3, <1>4, <1>9
  <2>4. AnswersConsume'
    BY ZenonT(40), <1>4, <1>6, <1>9, <2>1, <2>2, <2>3 DEF LoginInv, AnswersConsume
  <2>5. ChallengeTriedOnce'
    BY <1>4, <2>2, <2>3 DEF LoginInv, ChallengeTriedOnce
  <2>6. QED
    BY <1>7, <2>4, <2>5 DEF LoginInv
<1>10. CASE there /\ k \notin Challenges
  <2>1. k = NoChallenge
    BY <1>1, <1>10 DEF Handler
  <2>2. \A q \in Request : Tried(q)' => q # r /\ Tried(q)
    BY <1>3, <1>4, <1>10, <2>1 DEF Tried
  <2>3. AnswersConsume' /\ ChallengeTriedOnce'
    BY <1>4, <1>6, <2>2 DEF LoginInv, AnswersConsume, ChallengeTriedOnce
  <2>4. QED
    BY <1>7, <2>3 DEF LoginInv
<1>11. QED
  BY <1>8, <1>9, <1>10

LEMMA CompareKeeps ==
  ASSUME LoginInv, NEW r \in Request, Compare(r)
  PROVE  LoginInv'
<1>1. /\ UNCHANGED <<policy, challenges, now, changes>> /\ (UNCHANGED faults \/ Fault)
      /\ requests[r].step # "verify"
      /\ \E reason \in Reasons \ {""} : Answer(r, reason)
  BY DEF Compare, Reasons
<1>2. /\ requests' \in [Request -> Handler]
      /\ \A q \in Request : requests'[q].step \in {"record", "done"}
                              => requests'[q].reason # ""
      /\ AnswersConsume' /\ ChallengeTriedOnce'
  BY <1>1, Answers
<1>3. TypeOK
  BY DEF LoginInv
<1>4. QED
  BY <1>1, <1>2, <1>3, RestTyped DEF LoginInv, TypeOK

LEMMA RecordKeeps ==
  ASSUME LoginInv, NEW r \in Request, Record(r)
  PROVE  LoginInv'
<1>1. PICK written \in BOOLEAN :
        /\ IF written THEN UNCHANGED faults ELSE Fault
        /\ requests' = [requests EXCEPT ![r].step = "done", ![r].recorded = written,
                                        ![r].at = IF written THEN now ELSE 0]
  BY DEF Record
<1> DEFINE stamp == IF written THEN now ELSE 0
           h == [requests[r] EXCEPT !.step = "done", !.recorded = written, !.at = stamp]
<1>2. /\ requests[r] \in Handler /\ requests[r].step = "record"
      /\ requests[r].reason # ""
  BY DEF LoginInv, TypeOK, Record
<1>3. stamp \in 0 .. MaxTime
  <2>1. now \in 0 .. MaxTime
    BY DEF LoginInv, TypeOK
  <2>2. QED
    BY <2>1, BoundAssumption
<1>4. /\ h \in Handler /\ h.reason # ""
      /\ h.challenge = requests[r].challenge
  BY <1>2, <1>3 DEF Handler, Steps
<1>5. requests' = [requests EXCEPT ![r] = h]
  BY <1>1
<1>6. UNCHANGED <<policy, challenges, now, changes>> /\ (UNCHANGED faults \/ Fault)
  BY <1>1 DEF Record
<1>7. requests[r].step # "verify"
  BY <1>2
<1> HIDE DEF h, stamp
<1>8. AnswersConsume' /\ ChallengeTriedOnce'
  BY <1>4, <1>5, <1>6, <1>7, StepKeeps
<1>9. TypeOK
  BY DEF LoginInv
<1>10. QED
  BY <1>4, <1>5, <1>6, <1>8, <1>9, Replaced, RestTyped DEF LoginInv, TypeOK

\* A new challenge was not gone before, and the sweep only adds to the gone.
LEMMA IssueKeeps ==
  ASSUME LoginInv, NEW k \in Challenges, Issue(k)
  PROVE  LoginInv'
<1> DEFINE Kept == [state : {"new", "pending", "gone"}, until : Nat]
           New(c) == IF c = k THEN [state |-> "pending", until |-> now + TTL]
                     ELSE IF challenges[c].state = "pending" /\ now > challenges[c].until
                          THEN Gone ELSE challenges[c]
<1>1. now + TTL \in Nat
  <2>1. now \in 0 .. MaxTime
    BY DEF LoginInv, TypeOK
  <2>2. QED
    BY <2>1, BoundAssumption, TTLAssumption
<1>2. \A c \in Challenges : New(c) \in Kept
  <2>1. [state |-> "pending", until |-> now + TTL] \in Kept /\ Gone \in Kept
    BY <1>1 DEF Gone
  <2>2. \A c \in Challenges : challenges[c] \in Kept
    BY DEF LoginInv, TypeOK
  <2> HIDE DEF Kept
  <2>3. QED
    BY <2>1, <2>2
<1>3. challenges' = [c \in Challenges |-> New(c)]
  BY DEF Issue
<1>4. \A c \in Challenges : challenges[c].state = "gone" => challenges'[c].state = "gone"
  BY <1>3 DEF Issue
<1>5. challenges' \in [Challenges -> Kept]
  BY <1>2, <1>3
<1>6. UNCHANGED <<policy, requests, now, changes, faults>>
  BY DEF Issue
<1>7. TypeOK'
  BY <1>5, <1>6 DEF LoginInv, TypeOK
<1>8. AnswersConsume' /\ ChallengeTriedOnce'
  BY <1>4, <1>6 DEF LoginInv, AnswersConsume, ChallengeTriedOnce, Tried
<1>9. QED
  BY <1>7, <1>8 DEF LoginInv

LEMMA ReconfigureKeeps ==
  ASSUME LoginInv, NEW p \in Policies, Reconfigure(p)
  PROVE  LoginInv'
<1>1. UNCHANGED <<requests, challenges, now, faults>> /\ policy' = p
  BY DEF Reconfigure
<1>2. changes' \in 0 .. MaxRequests
  BY ChangeIsBounded DEF LoginInv
<1>3. TypeOK'
  BY <1>1, <1>2 DEF LoginInv, TypeOK
<1>4. QED
  BY <1>1, <1>3 DEF LoginInv, AnswersConsume, ChallengeTriedOnce, Tried

LEMMA TickKeeps ==
  ASSUME LoginInv, Tick
  PROVE  LoginInv'
<1>1. UNCHANGED <<policy, requests, challenges, changes, faults>>
  BY DEF Tick
<1>2. now' \in 0 .. MaxTime
  <2>1. now \in 0 .. MaxTime /\ now < MaxTime /\ now' = now + 1
    BY DEF Tick, LoginInv, TypeOK
  <2>2. QED
    BY <2>1, BoundAssumption
<1>3. TypeOK'
  BY <1>1, <1>2 DEF LoginInv, TypeOK
<1>4. QED
  BY <1>1, <1>3 DEF LoginInv, AnswersConsume, ChallengeTriedOnce, Tried

-----------------------------------------------------------------------------
(***************************************************************************)
(* Counting the guesses.                                                   *)
(***************************************************************************)
LEMMA PartsCount ==
  ASSUME NEW S \in SUBSET Request
  PROVE  /\ IsFiniteSet(S) /\ Cardinality(S) \in Nat
         /\ \A T : T \subseteq S => Cardinality(T) <= Cardinality(S)
         /\ \A r \in Request : \A T : T \subseteq S \cup {r} => Cardinality(T) <= Cardinality(S) + 1
<1>1. IsFiniteSet(Request)
  BY BoundAssumption, FS_Interval DEF Request
<1>2. IsFiniteSet(S) /\ Cardinality(S) \in Nat
  BY <1>1, FS_Subset, FS_CardinalityType
<1>3. ASSUME NEW T, T \subseteq S PROVE Cardinality(T) <= Cardinality(S)
  BY <1>2, <1>3, FS_Subset
<1>4. ASSUME NEW r \in Request, NEW T, T \subseteq S \cup {r}
      PROVE  Cardinality(T) <= Cardinality(S) + 1
  <2>1. /\ IsFiniteSet(S \cup {r})
        /\ Cardinality(S \cup {r}) = Cardinality(S) \/ Cardinality(S \cup {r}) = Cardinality(S) + 1
    BY <1>2, FS_AddElement
  <2>2. Cardinality(T) <= Cardinality(S \cup {r}) /\ Cardinality(T) \in Nat
    BY <1>4, <2>1, FS_Subset, FS_CardinalityType
  <2> QED
    BY <1>2, <2>1, <2>2
<1> QED
  BY <1>2, <1>3, <1>4

\* The rows of a gate and the handlers that are open.
LEMMA TogetherCount ==
  ASSUME NEW S \in SUBSET Request, NEW R \in SUBSET Request, NEW T, T \subseteq S \cup R
  PROVE  Cardinality(T) <= Cardinality(S) + Cardinality(R)
<1>1. /\ IsFiniteSet(S) /\ IsFiniteSet(R)
      /\ Cardinality(S) \in Nat /\ Cardinality(R) \in Nat /\ Cardinality(S \cap R) \in Nat
  <2>1. S \cap R \in SUBSET Request
    OBVIOUS
  <2> QED
    BY <2>1, PartsCount
<1>2. Cardinality(S \cup R) = Cardinality(S) + Cardinality(R) - Cardinality(S \cap R)
  BY <1>1, FS_Union
<1>3. S \cup R \in SUBSET Request
  OBVIOUS
<1>4. Cardinality(T) <= Cardinality(S \cup R) /\ Cardinality(S \cup R) \in Nat
  BY <1>3, PartsCount
<1>5. T \in SUBSET Request
  OBVIOUS
<1>6. Cardinality(T) \in Nat
  BY <1>5, PartsCount
<1> QED
  BY <1>1, <1>2, <1>4, <1>6

LEMMA NumbersAre ==
  ASSUME TypeOK
  PROVE  /\ policy \in Seen
         /\ \A p \in Seen : p.maxUser \in Nat /\ p.captcha \in Nat /\ p.windowUser \in Nat
         /\ faults \in Nat /\ changes \in Nat /\ now \in Nat
         /\ MaxOpen \in Nat /\ MaxTime \in Nat /\ MaxRequests \in Nat
<1>1. policy \in Policies
  BY DEF TypeOK
<1>2. \A p \in Policies : p.maxUser \in Nat /\ p.captcha \in Nat /\ p.windowUser \in Nat
  BY PolicyAssumption DEF Policy
<1>3. faults \in 0 .. MaxRequests /\ changes \in 0 .. MaxRequests /\ now \in 0 .. MaxTime
  BY DEF TypeOK
<1> QED
  BY <1>1, <1>2, <1>3, BoundAssumption DEF Seen

\* What a step does to those it counts: it adds nobody; or it adds one, and costs
\* a fault; or a gate has just found fewer rows than its limit.
Stays(S, T, limit) ==
  \/ T \subseteq S
  \/ faults' = faults + 1 /\ \E r \in Request : T \subseteq S \cup {r}
  \/ Cardinality(T) <= limit + MaxOpen - 1

LEMMA StillBounded ==
  ASSUME TypeOK, NEW S \in SUBSET Request, NEW T \in SUBSET Request,
         NEW m \in Nat, NEW limit \in Nat,
         faults' \in {faults, faults + 1},
         Cardinality(S) <= m + Slack, Stays(S, T, limit)
  PROVE  Cardinality(T) <= m + Slack' \/ Cardinality(T) <= limit + Slack'
<1>1. faults \in Nat /\ MaxOpen \in Nat
  BY NumbersAre
<1>2. Cardinality(S) \in Nat /\ Cardinality(T) \in Nat
  BY PartsCount
<1>3. CASE T \subseteq S
  <2>1. Cardinality(T) <= Cardinality(S)
    BY <1>3, PartsCount
  <2> QED
    BY <1>1, <1>2, <2>1 DEF Slack
<1>4. CASE faults' = faults + 1 /\ \E r \in Request : T \subseteq S \cup {r}
  <2>1. Cardinality(T) <= Cardinality(S) + 1
    BY <1>4, PartsCount
  <2> QED
    BY <1>1, <1>2, <1>4, <2>1 DEF Slack
<1>5. CASE Cardinality(T) <= limit + MaxOpen - 1
  BY <1>1, <1>2, <1>5 DEF Slack
<1> QED
  BY <1>3, <1>4, <1>5 DEF Stays

\* The rows a gate of the user names counts hold all guesses that matter.
LEMMA GuessesAreCounted ==
  ASSUME TypeOK, NEW u
  PROVE  /\ GuessesOf(u) \in SUBSET Request
         /\ Cardinality(GuessesOf(u)) <= FailuresOfUser(u, policy.windowUser)
         /\ Cardinality(GuessesOf(u)) \in Nat /\ FailuresOfUser(u, policy.windowUser) \in Nat
<1> DEFINE F == {r \in Since(Failures, policy.windowUser) : requests[r].user = u}
<1>1. F \in SUBSET Request /\ GuessesOf(u) \in SUBSET Request
  BY DEF Since, Failures, GuessesOf, Guesses
<1>2. GuessesOf(u) \subseteq F
  BY NumbersAre DEF GuessesOf, Guesses, Since
<1>3. FailuresOfUser(u, policy.windowUser) = Cardinality(F)
  BY DEF FailuresOfUser
<1> HIDE DEF F
<1> QED
  BY <1>1, <1>2, <1>3, PartsCount

\* What a step of one handler leaves as it was.
LEMMA OthersStay ==
  ASSUME NEW r \in Request, UNCHANGED <<policy, now, changes>>,
         \A q \in Request \ {r} : requests'[q] = requests[q],
         NEW q \in Request \ {r}
  PROVE  /\ Passed(q)' <=> Passed(q)
         /\ Ready(q)' <=> Ready(q)
         /\ (q \in Open)' <=> q \in Open
         /\ \A u : (q \in GuessesOf(u))' <=> q \in GuessesOf(u)
<1>1. requests'[q] = requests[q]
  OBVIOUS
<1>2. (Passed(q)' <=> Passed(q)) /\ (Ready(q)' <=> Ready(q)) /\ ((q \in Open)' <=> q \in Open)
  BY <1>1 DEF Passed, Ready, Open
<1>3. Seen' = Seen
  BY DEF Seen
<1>4. ASSUME NEW u PROVE (q \in GuessesOf(u))' <=> q \in GuessesOf(u)
  BY <1>1, <1>3 DEF GuessesOf, Guesses, Failures
<1> QED
  BY <1>2, <1>4

\* A step of a handler.  It reaches the password over a fault, or because a gate
\* has found room.
LEMMA HandlerStep ==
  ASSUME LoginInv, BoundInv, NEW r \in Request, UNCHANGED <<policy, now, changes>>,
         \A q \in Request \ {r} : requests'[q] = requests[q],
         faults' \in {faults, faults + 1},
         Cardinality(Open)' <= MaxOpen,
         requests'[r].step = "verify" => requests'[r].challenge # NoChallenge,
         Passed(r)' => r \in Open,
         \/ requests'[r].user = requests[r].user
         \/ ~Passed(r)' /\ ~Ready(r)' /\ \A u : r \notin GuessesOf(u)',
         \/ Passed(r)' => Passed(r)
         \/ faults' = faults + 1
         \/ Locks(policy) =>
              FailuresOfUser(requests[r].user, policy.windowUser) < policy.maxUser,
         \/ Ready(r)' /\ requests'[r].challenge = NoChallenge =>
              Ready(r) /\ requests[r].challenge = NoChallenge
         \/ faults' = faults + 1
         \/ policy.captcha > 0 =>
              FailuresOfUser(requests[r].user, policy.windowUser) < policy.captcha,
         \A u : r \in GuessesOf(u)' =>
           /\ requests'[r].challenge = NoChallenge => requests[r].challenge = NoChallenge
           /\ Ready(r) \/ r \in GuessesOf(u)
  PROVE  BoundInv'
<1>1. /\ policy \in Seen /\ faults \in Nat /\ MaxOpen \in Nat /\ TypeOK
      /\ \A p \in Seen : p.maxUser \in Nat /\ p.captcha \in Nat
      /\ Seen' = Seen
  BY NumbersAre DEF LoginInv, Seen
<1>2. \A q \in Request : (Ready(q) => Passed(q)) /\ (Passed(q) => q \in Open)
  BY DEF Ready, Passed, Open
<1>3. \A q \in Request \ {r} :
        /\ Passed(q)' <=> Passed(q)
        /\ Ready(q)' <=> Ready(q)
        /\ \A u : (q \in GuessesOf(u))' <=> q \in GuessesOf(u)
  BY OthersStay
<1>4. Cardinality(Open) \in Nat /\ Cardinality(Open) <= MaxOpen /\ Open \in SUBSET Request
  <2>1. Open \in SUBSET Request
    BY DEF Open
  <2> QED
    BY <2>1, PartsCount DEF BoundInv
<1>5. ASSUME NEW u
      PROVE  Locks(policy) => Stays(Passers(u), Passers(u)', policy.maxUser)
  <2>1. \A q \in Request \ {r} : (q \in Passers(u))' <=> q \in Passers(u)
    BY <1>3 DEF Passers
  <2>2. Passers(u) \subseteq Request /\ Passers(u)' \subseteq Request
    BY DEF Passers
  <2>3. CASE r \in Passers(u)' => r \in Passers(u)
    BY <2>1, <2>2, <2>3 DEF Stays
  <2>4. CASE r \in Passers(u)' /\ r \notin Passers(u)
    <3>1. /\ requests'[r].user = u /\ requests[r].user = u
          /\ Passed(r)' /\ ~Passed(r)
      BY <1>2, <2>4 DEF Passers
    <3>2. CASE faults' = faults + 1
      BY <2>1, <2>2, <3>2 DEF Stays
    <3>3. CASE Locks(policy) => FailuresOfUser(u, policy.windowUser) < policy.maxUser
      <4>1. Passers(u)' \subseteq GuessesOf(u) \cup Open
        BY <1>2, <2>1, <2>2, <3>1 DEF Passers
      <4>2. /\ Cardinality(Passers(u)') <= Cardinality(GuessesOf(u)) + Cardinality(Open)
            /\ Cardinality(Passers(u)') \in Nat
        BY <1>1, <1>4, <2>2, <4>1, TogetherCount, PartsCount, GuessesAreCounted
      <4> QED
        BY <1>1, <1>4, <3>3, <4>2, GuessesAreCounted DEF Stays
    <3> QED
      BY <3>1, <3>2, <3>3
  <2> QED
    BY <2>3, <2>4
<1>6. ASSUME NEW u
      PROVE  policy.captcha > 0 => Stays(BarePassers(u), BarePassers(u)', policy.captcha)
  <2>1. \A q \in Request \ {r} : (q \in BarePassers(u))' <=> q \in BarePassers(u)
    BY <1>3 DEF BarePassers
  <2>2. BarePassers(u) \subseteq Request /\ BarePassers(u)' \subseteq Request
    BY DEF BarePassers
  <2>3. CASE r \in BarePassers(u)' => r \in BarePassers(u)
    BY <2>1, <2>2, <2>3 DEF Stays
  <2>4. CASE r \in BarePassers(u)' /\ r \notin BarePassers(u)
    <3>1. /\ requests'[r].user = u /\ requests[r].user = u
          /\ requests'[r].challenge = NoChallenge /\ Ready(r)'
          /\ ~(Ready(r) /\ requests[r].challenge = NoChallenge)
      BY <2>4 DEF BarePassers
    <3>2. CASE faults' = faults + 1
      BY <2>1, <2>2, <3>2 DEF Stays
    <3>3. CASE policy.captcha > 0 => FailuresOfUser(u, policy.windowUser) < policy.captcha
      <4>1. BarePassers(u)' \subseteq GuessesOf(u) \cup Open
        <5>1. r \in Open
          BY <3>1 DEF Ready, Passed
        <5>2. BarePassers(u) \subseteq GuessesOf(u) \cup Open
          BY <1>2 DEF BarePassers
        <5> QED
          BY <2>1, <2>2, <5>1, <5>2
      <4>2. /\ Cardinality(BarePassers(u)') <= Cardinality(GuessesOf(u)) + Cardinality(Open)
            /\ Cardinality(BarePassers(u)') \in Nat
        BY <1>1, <1>4, <2>2, <4>1, TogetherCount, PartsCount, GuessesAreCounted
      <4> QED
        BY <1>1, <1>4, <3>3, <4>2, GuessesAreCounted DEF Stays
    <3> QED
      BY <3>1, <3>2, <3>3
  <2> QED
    BY <2>3, <2>4
<1>7. ASSUME \A p \in Seen : Locks(p), NEW u \in Users
      PROVE  \E p \in Seen : Cardinality(Passers(u))' <= p.maxUser + Slack'
  <2>1. PICK p \in Seen : Cardinality(Passers(u)) <= p.maxUser + Slack
    BY <1>7 DEF BoundInv
  <2>2. Passers(u) \in SUBSET Request /\ Passers(u)' \in SUBSET Request
    BY DEF Passers
  <2>3. Stays(Passers(u), Passers(u)', policy.maxUser)
    BY <1>1, <1>5, <1>7
  <2>4. \/ Cardinality(Passers(u)') <= p.maxUser + Slack'
        \/ Cardinality(Passers(u)') <= policy.maxUser + Slack'
    BY <1>1, <2>1, <2>2, <2>3, StillBounded
  <2> QED
    BY <1>1, <2>4
<1>8. ASSUME \A p \in Seen : p.captcha > 0, NEW u \in Users
      PROVE  \E p \in Seen : Cardinality(BarePassers(u))' <= p.captcha + Slack'
  <2>1. PICK p \in Seen : Cardinality(BarePassers(u)) <= p.captcha + Slack
    BY <1>8 DEF BoundInv
  <2>2. BarePassers(u) \in SUBSET Request /\ BarePassers(u)' \in SUBSET Request
    BY DEF BarePassers
  <2>3. Stays(BarePassers(u), BarePassers(u)', policy.captcha)
    BY <1>1, <1>6, <1>8
  <2>4. \/ Cardinality(BarePassers(u)') <= p.captcha + Slack'
        \/ Cardinality(BarePassers(u)') <= policy.captcha + Slack'
    BY <1>1, <2>1, <2>2, <2>3, StillBounded
  <2> QED
    BY <1>1, <2>4
<1>9. \A q \in Request : requests'[q].step = "verify" => requests'[q].challenge # NoChallenge
  BY DEF BoundInv
<1> QED
  BY <1>1, <1>7, <1>8, <1>9 DEF BoundInv, Locks

\* A handler that was open stays the only change among the open ones.
LEMMA OpenStays ==
  ASSUME BoundInv, NEW r \in Request,
         \A q \in Request \ {r} : requests'[q] = requests[q], r \in Open
  PROVE  Cardinality(Open)' <= MaxOpen
<1>1. Open \in SUBSET Request /\ Open' \subseteq Open /\ Open' \in SUBSET Request
  BY DEF Open
<1>2. Cardinality(Open') <= Cardinality(Open)
  BY <1>1, PartsCount
<1>3. Cardinality(Open) \in Nat /\ Cardinality(Open') \in Nat
  BY <1>1, PartsCount
<1> QED
  BY <1>2, <1>3, BoundAssumption DEF BoundInv

\* A handler that goes on to a step, with its guess still to be made.
LEMMA GoesAre ==
  ASSUME TypeOK, NEW r \in Request, NEW step, Goto(r, step), step \notin {"record", "done"}
  PROVE  /\ requests'[r] = [requests[r] EXCEPT !.step = step]
         /\ requests'[r].step = step /\ requests'[r].user = requests[r].user
         /\ requests'[r].challenge = requests[r].challenge
         /\ requests'[r].reason = requests[r].reason
         /\ requests'[r].recorded = requests[r].recorded
         /\ requests'[r].at = requests[r].at
         /\ \A q \in Request \ {r} : requests'[q] = requests[q]
<1>1. /\ requests \in [Request -> Handler] /\ requests[r] \in Handler
      /\ requests' = [requests EXCEPT ![r].step = step]
  BY DEF TypeOK, Goto
<1>2. requests'[r] = [requests[r] EXCEPT !.step = step]
  BY <1>1
<1> QED
  BY <1>1, <1>2 DEF Handler

LEMMA AnswersAre ==
  ASSUME TypeOK, NEW r \in Request, NEW reason, Answer(r, reason)
  PROVE  /\ requests'[r].step = "record" /\ requests'[r].reason = reason
         /\ requests'[r].user = requests[r].user
         /\ requests'[r].challenge = requests[r].challenge
         /\ requests'[r].recorded = requests[r].recorded
         /\ requests'[r].at = requests[r].at
         /\ \A q \in Request \ {r} : requests'[q] = requests[q]
<1>1. /\ requests \in [Request -> Handler] /\ requests[r] \in Handler
      /\ requests' = [requests EXCEPT ![r].step = "record", ![r].reason = reason]
  BY DEF TypeOK, Answer
<1>2. requests'[r] = [requests[r] EXCEPT !.step = "record", !.reason = reason]
  BY <1>1
<1> QED
  BY <1>1, <1>2 DEF Handler

\* A row that keeps its fields is the guess it was.
LEMMA SameGuess ==
  ASSUME NEW r \in Request, UNCHANGED <<policy, now, changes>>,
         requests'[r].user = requests[r].user, requests'[r].reason = requests[r].reason,
         requests'[r].recorded = requests[r].recorded, requests'[r].at = requests[r].at
  PROVE  \A u : r \in GuessesOf(u)' => r \in GuessesOf(u)
<1>1. Seen' = Seen
  BY DEF Seen
<1> QED
  BY <1>1 DEF GuessesOf, Guesses, Failures

\* An answer that is not "wrong" guesses nothing.
LEMMA Refused ==
  ASSUME NEW r \in Request, requests'[r].reason # "wrong"
  PROVE  \A u : r \notin GuessesOf(u)'
BY DEF GuessesOf, Guesses

LEMMA RefuseBound ==
  ASSUME LoginInv, BoundInv, NEW r \in Request, r \in Open, NEW reason \in {"refused", "ok"},
         Answer(r, reason), UNCHANGED <<policy, now, changes>>,
         faults' \in {faults, faults + 1}
  PROVE  BoundInv'
<1>1. /\ requests'[r].step = "record" /\ requests'[r].reason = reason
      /\ requests'[r].user = requests[r].user
      /\ \A q \in Request \ {r} : requests'[q] = requests[q]
  BY AnswersAre DEF LoginInv
<1>2. /\ ~Passed(r)' /\ ~Ready(r)' /\ \A u : r \notin GuessesOf(u)'
  BY <1>1, Refused DEF Passed, Ready
<1>3. Cardinality(Open)' <= MaxOpen
  BY <1>1, OpenStays
<1> QED
  BY <1>1, <1>2, <1>3, HandlerStep

LEMMA FaultIsOne ==
  ASSUME UNCHANGED faults \/ Fault
  PROVE  faults' \in {faults, faults + 1}
BY DEF Fault

-----------------------------------------------------------------------------
LEMMA BoundInit ==
  ASSUME Init
  PROVE  BoundInv
<1>1. \A r \in Request : requests[r].step = "unsent" /\ requests[r].recorded = FALSE
  BY DEF Init, Unsent
<1>2. Open = {} /\ \A u : Passers(u) = {} /\ BarePassers(u) = {}
  BY <1>1 DEF Open, Passers, BarePassers, Passed, Ready, GuessesOf, Guesses, Failures
<1>3. Cardinality({}) = 0
  BY FS_EmptySet
<1>4. /\ policy \in Seen
      /\ \A p \in Seen : p.maxUser \in Nat /\ p.captcha \in Nat
      /\ MaxOpen \in Nat /\ faults = 0
  BY LoginInit, NumbersAre DEF LoginInv, Init
<1>5. ASSUME NEW m \in Nat, m > 0 PROVE 0 <= m + Slack
  BY <1>4, <1>5 DEF Slack
<1>6. (\A p \in Seen : Locks(p)) =>
        \A u \in Users : \E p \in Seen : Cardinality(Passers(u)) <= p.maxUser + Slack
  BY <1>2, <1>3, <1>4, <1>5 DEF Locks
<1>7. (\A p \in Seen : p.captcha > 0) =>
        \A u \in Users : \E p \in Seen : Cardinality(BarePassers(u)) <= p.captcha + Slack
  BY <1>2, <1>3, <1>4, <1>5
<1> QED
  BY <1>1, <1>2, <1>3, <1>4, <1>6, <1>7 DEF BoundInv

\* A request that arrives has passed nothing, and arrives only while there is room
\* for it.
LEMMA ArrivesBound ==
  ASSUME LoginInv, BoundInv, NEW r \in Request, Arrives(r),
         UNCHANGED <<policy, now, changes, faults>>,
         \A q \in Request \ {r} : requests'[q] = requests[q],
         ~Passed(r)', requests'[r].step # "verify",
         \A u : r \notin GuessesOf(u)'
  PROVE  BoundInv'
<1>1. /\ Open \in SUBSET Request /\ Open' \in SUBSET Request
      /\ Open' \subseteq Open \cup {r}
  BY DEF Open
<1>2. Cardinality(Open') <= Cardinality(Open) + 1
  BY <1>1, PartsCount
<1>3. Cardinality(Open) \in Nat /\ Cardinality(Open') \in Nat /\ Cardinality(Open) < MaxOpen
  BY <1>1, PartsCount DEF Arrives
<1>4. Cardinality(Open)' <= MaxOpen
  BY <1>2, <1>3, BoundAssumption
<1>5. ~Ready(r)'
  BY DEF Ready, Passed
<1> QED
  BY <1>4, <1>5, HandlerStep

LEMMA SendBound ==
  ASSUME LoginInv, BoundInv, NEW r \in Request, NEW u \in Users, NEW ip \in Ips, Send(r, u, ip)
  PROVE  BoundInv'
<1>1. requests \in [Request -> Handler] /\ requests[r] \in Handler /\ requests[r] = Unsent
  BY DEF LoginInv, TypeOK, Send, Arrives
<1>2. requests' = [requests EXCEPT ![r] = [requests[r] EXCEPT !.step = "ip", !.user = u, !.ip = ip]]
  BY DEF Send
<1>3. /\ requests'[r].step = "ip" /\ requests'[r].recorded = requests[r].recorded
      /\ \A q \in Request \ {r} : requests'[q] = requests[q]
  BY <1>1, <1>2 DEF Handler
<1>4. requests[r].recorded = FALSE
  <2>1. Unsent.recorded = FALSE
    BY DEF Unsent
  <2> QED
    BY <1>1, <2>1
<1>5. ~Passed(r)' /\ \A v : r \notin GuessesOf(v)'
  BY <1>3, <1>4 DEF Passed, GuessesOf, Guesses, Failures
<1>6. Arrives(r) /\ UNCHANGED <<policy, now, changes, faults>>
  BY DEF Send
<1> QED
  BY <1>3, <1>5, <1>6, ArrivesBound

LEMMA SendBadBound ==
  ASSUME LoginInv, BoundInv, NEW r \in Request, NEW ip \in Ips, SendBad(r, ip)
  PROVE  BoundInv'
<1>1. requests \in [Request -> Handler] /\ requests[r] \in Handler
  BY DEF LoginInv, TypeOK
<1>2. requests' = [requests EXCEPT ![r] = [requests[r] EXCEPT !.step = "record", !.ip = ip,
                                                              !.reason = "refused"]]
  BY DEF SendBad
<1>3. /\ requests'[r].step = "record" /\ requests'[r].reason = "refused"
      /\ \A q \in Request \ {r} : requests'[q] = requests[q]
  BY <1>1, <1>2 DEF Handler
<1>4. ~Passed(r)' /\ \A v : r \notin GuessesOf(v)'
  BY <1>3, Refused DEF Passed
<1>5. Arrives(r) /\ UNCHANGED <<policy, now, changes, faults>>
  BY DEF SendBad
<1> QED
  BY <1>3, <1>4, <1>5, ArrivesBound

\* A gate lets pass when its lockout is off, when it found fewer rows than its
\* limit, or over a fault.  Only the last gate lets a handler pass all of them.
LEMMA JudgeBound ==
  ASSUME LoginInv, BoundInv, NEW r \in Request, NEW gate \in Gates, Judge(r, gate)
  PROVE  BoundInv'
<1>1. /\ UNCHANGED <<policy, now, changes>> /\ requests[r].step = gate
      /\ (UNCHANGED faults \/ Fault) /\ TypeOK
  BY DEF Judge, LoginInv
<1>2. r \in Open /\ gate \in {"ip", "subnet", "user"}
  BY <1>1 DEF Open, Gates
<1>3. faults' \in {faults, faults + 1}
  BY <1>1, FaultIsOne
<1>4. CASE Answer(r, "refused")
  BY <1>1, <1>2, <1>3, <1>4, RefuseBound
<1>5. CASE /\ Goto(r, After[gate])
           /\ \/ Fault
              \/ ~(Armed(gate) /\ Count(r, gate) >= Limit(gate))
  <2>1. /\ After[gate] \in {"subnet", "user", "captcha"}
        /\ After[gate] = "captcha" => gate = "user"
    BY <1>2 DEF After
  <2>2. /\ requests'[r].step = After[gate] /\ requests'[r].user = requests[r].user
        /\ requests'[r].challenge = requests[r].challenge
        /\ requests'[r].reason = requests[r].reason
        /\ requests'[r].recorded = requests[r].recorded /\ requests'[r].at = requests[r].at
        /\ \A q \in Request \ {r} : requests'[q] = requests[q]
    <3>1. After[gate] \notin {"record", "done"}
      BY <2>1
    <3> QED
      BY <1>1, <1>5, <3>1, GoesAre
  <2>3. Cardinality(Open)' <= MaxOpen
    BY <1>2, <2>2, OpenStays
  <2>4. ~Ready(r)' /\ (Passed(r)' => gate = "user")
    BY <2>1, <2>2 DEF Ready, Passed
  <2>5. \A u : r \in GuessesOf(u)' => r \in GuessesOf(u)
    BY <1>1, <2>2, SameGuess
  <2>6. \/ Passed(r)' => Passed(r)
        \/ faults' = faults + 1
        \/ Locks(policy) =>
             FailuresOfUser(requests[r].user, policy.windowUser) < policy.maxUser
    <3>1. CASE Fault
      BY <3>1 DEF Fault
    <3>2. CASE ~(Armed(gate) /\ Count(r, gate) >= Limit(gate)) /\ gate = "user"
      <4>1. /\ Armed("user") <=> Locks(policy)
            /\ Limit("user") = policy.maxUser
            /\ Count(r, "user") = FailuresOfUser(requests[r].user, policy.windowUser)
        BY DEF Armed, Limit, Count, Locks
      <4>2. /\ FailuresOfUser(requests[r].user, policy.windowUser) \in Nat
            /\ policy.maxUser \in Nat
        BY <1>1, GuessesAreCounted, NumbersAre
      <4> QED
        BY <3>2, <4>1, <4>2
    <3> QED
      BY <1>5, <2>4, <3>1, <3>2
  <2>7. requests'[r].step # "verify"
    BY <2>1, <2>2
  <2> QED
    BY <1>1, <1>2, <1>3, <2>2, <2>3, <2>4, <2>5, <2>6, <2>7, HandlerStep
<1> QED
  BY <1>4, <1>5 DEF Judge

\* The captcha is not asked for when the rows are fewer than its threshold, or
\* over a fault.
LEMMA AskBound ==
  ASSUME LoginInv, BoundInv, NEW r \in Request, Ask(r)
  PROVE  BoundInv'
<1>1. /\ UNCHANGED <<policy, now, changes>> /\ requests[r].step = "captcha"
      /\ (UNCHANGED faults \/ Fault) /\ TypeOK
  BY DEF Ask, LoginInv
<1>2. r \in Open /\ Passed(r) /\ faults' \in {faults, faults + 1}
  BY <1>1, FaultIsOne DEF Open, Passed
<1>3. CASE Answer(r, "refused")
  BY <1>1, <1>2, <1>3, RefuseBound
<1>4. ASSUME NEW k \in Challenges,
             requests' = [requests EXCEPT ![r].step = "verify", ![r].challenge = k]
      PROVE  BoundInv'
  <2>1. requests \in [Request -> Handler] /\ requests[r] \in Handler
    BY <1>1 DEF TypeOK
  <2>2. requests' = [requests EXCEPT ![r] = [requests[r] EXCEPT !.step = "verify",
                                                                !.challenge = k]]
    BY <1>4
  <2>3. /\ requests'[r].step = "verify" /\ requests'[r].user = requests[r].user
        /\ requests'[r].challenge = k
        /\ requests'[r].reason = requests[r].reason
        /\ requests'[r].recorded = requests[r].recorded /\ requests'[r].at = requests[r].at
        /\ \A q \in Request \ {r} : requests'[q] = requests[q]
    BY <2>1, <2>2 DEF Handler
  <2>4. k # NoChallenge
    BY ChallengesAssumption
  <2>5. ~Ready(r)'
    BY <2>3 DEF Ready
  <2>6. \A u : r \in GuessesOf(u)' => r \in GuessesOf(u)
    BY <1>1, <2>3, SameGuess
  <2>7. Cardinality(Open)' <= MaxOpen
    BY <1>2, <2>3, OpenStays
  <2> QED
    BY <1>1, <1>2, <2>3, <2>4, <2>5, <2>6, <2>7, HandlerStep
<1>5. CASE Goto(r, "password") /\ (~Required(r) \/ Fault)
  <2>1. /\ requests'[r].step = "password" /\ requests'[r].user = requests[r].user
        /\ requests'[r].challenge = requests[r].challenge
        /\ requests'[r].reason = requests[r].reason
        /\ requests'[r].recorded = requests[r].recorded /\ requests'[r].at = requests[r].at
        /\ \A q \in Request \ {r} : requests'[q] = requests[q]
    BY <1>1, <1>5, GoesAre
  <2>2. \/ faults' = faults + 1
        \/ policy.captcha > 0 =>
             FailuresOfUser(requests[r].user, policy.windowUser) < policy.captcha
    <3>1. CASE Fault
      BY <3>1 DEF Fault
    <3>2. CASE ~Required(r)
      <4>1. /\ FailuresOfUser(requests[r].user, policy.windowUser) \in Nat
            /\ policy.captcha \in Nat
        BY <1>1, GuessesAreCounted, NumbersAre
      <4> QED
        BY <3>2, <4>1 DEF Required
    <3> QED
      BY <1>5, <3>1, <3>2
  <2>3. \A u : r \in GuessesOf(u)' => r \in GuessesOf(u)
    BY <1>1, <2>1, SameGuess
  <2>4. Cardinality(Open)' <= MaxOpen
    BY <1>2, <2>1, OpenStays
  <2>5. requests'[r].step # "verify"
    BY <2>1
  <2> QED
    BY <1>1, <1>2, <2>1, <2>2, <2>3, <2>4, <2>5, HandlerStep
<1> QED
  BY <1>3, <1>4, <1>5 DEF Ask

\* Whoever brings a challenge makes no guess without one, and the lockouts were
\* passed before.
LEMMA VerifyBound ==
  ASSUME LoginInv, BoundInv, NEW r \in Request, Verify(r)
  PROVE  BoundInv'
<1>1. /\ UNCHANGED <<policy, now, changes, faults>> /\ requests[r].step = "verify" /\ TypeOK
      /\ requests[r].challenge # NoChallenge
  BY DEF Verify, LoginInv, BoundInv
<1>2. r \in Open /\ Passed(r) /\ faults' \in {faults, faults + 1}
  BY <1>1 DEF Open, Passed
<1>3. CASE Answer(r, "refused")
  BY <1>1, <1>2, <1>3, RefuseBound
<1>4. CASE Goto(r, "password")
  <2>1. /\ requests'[r].step = "password" /\ requests'[r].user = requests[r].user
        /\ requests'[r].challenge = requests[r].challenge
        /\ requests'[r].reason = requests[r].reason
        /\ requests'[r].recorded = requests[r].recorded /\ requests'[r].at = requests[r].at
        /\ \A q \in Request \ {r} : requests'[q] = requests[q]
    BY <1>1, <1>4, GoesAre
  <2>2. \A u : r \in GuessesOf(u)' => r \in GuessesOf(u)
    BY <1>1, <2>1, SameGuess
  <2>3. Cardinality(Open)' <= MaxOpen
    BY <1>2, <2>1, OpenStays
  <2> QED
    BY <1>1, <1>2, <2>1, <2>2, <2>3, HandlerStep
<1>5. CASE requests' = [requests EXCEPT ![r].step = "record", ![r].challenge = NoChallenge,
                                        ![r].reason = "refused"]
  <2>1. requests \in [Request -> Handler] /\ requests[r] \in Handler
    BY <1>1 DEF TypeOK
  <2>2. requests' = [requests EXCEPT ![r] = [requests[r] EXCEPT !.step = "record",
                       !.challenge = NoChallenge, !.reason = "refused"]]
    BY <1>5
  <2>3. /\ requests'[r].step = "record" /\ requests'[r].user = requests[r].user
        /\ requests'[r].reason = "refused"
        /\ \A q \in Request \ {r} : requests'[q] = requests[q]
    BY <2>1, <2>2 DEF Handler
  <2>4. ~Passed(r)' /\ ~Ready(r)' /\ \A u : r \notin GuessesOf(u)'
    BY <2>3, Refused DEF Passed, Ready
  <2>5. Cardinality(Open)' <= MaxOpen
    BY <1>2, <2>3, OpenStays
  <2> QED
    BY <1>1, <1>2, <2>3, <2>4, <2>5, HandlerStep
<1> QED
  BY <1>3, <1>4, <1>5 DEF Verify

LEMMA CompareBound ==
  ASSUME LoginInv, BoundInv, NEW r \in Request, Compare(r)
  PROVE  BoundInv'
<1>1. /\ UNCHANGED <<policy, now, changes>> /\ requests[r].step = "password"
      /\ (UNCHANGED faults \/ Fault) /\ TypeOK
  BY DEF Compare, LoginInv
<1>2. r \in Open /\ Passed(r) /\ Ready(r) /\ faults' \in {faults, faults + 1}
  BY <1>1, FaultIsOne DEF Open, Passed, Ready
<1>3. ASSUME NEW reason \in {"refused", "ok"}, Answer(r, reason)
      PROVE  BoundInv'
  BY <1>1, <1>2, <1>3, RefuseBound
<1>4. CASE Answer(r, "wrong")
  <2>1. /\ requests'[r].step = "record" /\ requests'[r].user = requests[r].user
        /\ requests'[r].challenge = requests[r].challenge
        /\ \A q \in Request \ {r} : requests'[q] = requests[q]
    BY <1>1, <1>4, AnswersAre
  <2>2. Cardinality(Open)' <= MaxOpen
    BY <1>2, <2>1, OpenStays
  <2> QED
    BY <1>1, <1>2, <2>1, <2>2, HandlerStep
<1> QED
  BY <1>3, <1>4 DEF Compare

\* A guess that is recorded was on its way; one that is not is forgotten.
LEMMA RecordBound ==
  ASSUME LoginInv, BoundInv, NEW r \in Request, Record(r)
  PROVE  BoundInv'
<1>1. PICK written \in BOOLEAN :
        /\ IF written THEN UNCHANGED faults ELSE Fault
        /\ requests' = [requests EXCEPT ![r].step = "done", ![r].recorded = written,
                                        ![r].at = IF written THEN now ELSE 0]
  BY DEF Record
<1>2. /\ UNCHANGED <<policy, now, changes>> /\ requests[r].step = "record"
      /\ (UNCHANGED faults \/ Fault)
      /\ requests \in [Request -> Handler] /\ requests[r] \in Handler
  BY <1>1 DEF Record, LoginInv, TypeOK
<1>3. r \in Open /\ faults' \in {faults, faults + 1}
  BY <1>2, FaultIsOne DEF Open
<1>4. requests' = [requests EXCEPT ![r] =
        [requests[r] EXCEPT !.step = "done", !.recorded = written,
                            !.at = IF written THEN now ELSE 0]]
  BY <1>1
<1>5. /\ requests'[r].step = "done" /\ requests'[r].user = requests[r].user
      /\ requests'[r].challenge = requests[r].challenge
      /\ requests'[r].reason = requests[r].reason
      /\ \A q \in Request \ {r} : requests'[q] = requests[q]
  BY <1>2, <1>4 DEF Handler
<1>6. ~Passed(r)' /\ ~Ready(r)'
  BY <1>5 DEF Passed, Ready
<1>7. \A u : r \in GuessesOf(u)' => Ready(r)
  BY <1>2, <1>5 DEF GuessesOf, Guesses, Ready
<1>8. Cardinality(Open)' <= MaxOpen
  BY <1>3, <1>5, OpenStays
<1> QED
  BY <1>2, <1>3, <1>5, <1>6, <1>7, <1>8, HandlerStep

\* A step that leaves the requests alone: the clock forgets guesses, and one more
\* setting to be in force forgets them too.
LEMMA AroundBound ==
  ASSUME LoginInv, BoundInv, UNCHANGED <<requests, faults>>,
         now' \in Nat, now <= now', Seen \subseteq Seen'
  PROVE  BoundInv'
<1>1. /\ Open' = Open /\ Slack' = Slack
      /\ \A r \in Request : (Passed(r)' <=> Passed(r)) /\ (Ready(r)' <=> Ready(r))
  BY DEF Open, Slack, Passed, Ready
<1>2. \A u : GuessesOf(u)' \subseteq GuessesOf(u)
  <2>1. \A r \in Request : requests[r].at \in Nat
    <3>1. \A r \in Request : requests[r].at \in 0 .. MaxTime
      BY DEF LoginInv, TypeOK, Handler
    <3> QED
      BY <3>1, BoundAssumption
  <2>2. now \in Nat /\ \A p \in Seen : p.windowUser \in Nat
    BY NumbersAre DEF LoginInv
  <2>3. Guesses' = Guesses /\ Guesses \subseteq Request
    BY DEF Guesses, Failures
  <2> QED
    BY <2>1, <2>2, <2>3 DEF GuessesOf
<1>3. \A u : /\ Passers(u)' \subseteq Passers(u) /\ BarePassers(u)' \subseteq BarePassers(u)
             /\ Passers(u) \in SUBSET Request /\ BarePassers(u) \in SUBSET Request
  BY <1>1, <1>2 DEF Passers, BarePassers
<1>4. \A u : /\ Cardinality(Passers(u))' <= Cardinality(Passers(u))
             /\ Cardinality(BarePassers(u))' <= Cardinality(BarePassers(u))
             /\ Cardinality(Passers(u)) \in Nat /\ Cardinality(BarePassers(u)) \in Nat
             /\ Cardinality(Passers(u))' \in Nat /\ Cardinality(BarePassers(u))' \in Nat
  <2> SUFFICES ASSUME NEW u
               PROVE  /\ Cardinality(Passers(u)') <= Cardinality(Passers(u))
                      /\ Cardinality(BarePassers(u)') <= Cardinality(BarePassers(u))
                      /\ Cardinality(Passers(u)) \in Nat /\ Cardinality(BarePassers(u)) \in Nat
                      /\ Cardinality(Passers(u)') \in Nat /\ Cardinality(BarePassers(u)') \in Nat
    OBVIOUS
  <2>1. Passers(u)' \in SUBSET Request /\ BarePassers(u)' \in SUBSET Request
    BY <1>3
  <2> QED
    BY <1>3, <2>1, PartsCount
<1>5. /\ \A p \in Seen : p.maxUser \in Nat /\ p.captcha \in Nat
      /\ faults \in Nat /\ MaxOpen \in Nat
  BY NumbersAre DEF LoginInv
<1>6. ASSUME \A p \in Seen' : Locks(p), NEW u \in Users
      PROVE  \E p \in Seen' : Cardinality(Passers(u))' <= p.maxUser + Slack'
  <2>1. PICK p \in Seen : Cardinality(Passers(u)) <= p.maxUser + Slack
    BY <1>6 DEF BoundInv
  <2> QED
    BY <1>1, <1>4, <1>5, <2>1 DEF Slack
<1>7. ASSUME \A p \in Seen' : p.captcha > 0, NEW u \in Users
      PROVE  \E p \in Seen' : Cardinality(BarePassers(u))' <= p.captcha + Slack'
  <2>1. PICK p \in Seen : Cardinality(BarePassers(u)) <= p.captcha + Slack
    BY <1>7 DEF BoundInv
  <2> QED
    BY <1>1, <1>4, <1>5, <2>1 DEF Slack
<1>8. /\ Cardinality(Open)' <= MaxOpen
      /\ \A r \in Request : requests'[r].step = "verify" => requests'[r].challenge # NoChallenge
  BY <1>1 DEF BoundInv
<1> QED
  BY <1>6, <1>7, <1>8 DEF BoundInv, Locks

-----------------------------------------------------------------------------
\* The invariant holds whatever requests, changes of the settings, failing
\* statements and the clock do.
THEOREM LoginInvariant == Spec => []LoginInv
<1>1. Init => LoginInv
  BY LoginInit
<1>2. LoginInv /\ [Next]_vars => LoginInv'
  <2> SUFFICES ASSUME LoginInv, [Next]_vars
               PROVE  LoginInv'
    OBVIOUS
  <2>1. ASSUME NEW r \in Request, NEW ip \in Ips, SendBad(r, ip)
        PROVE  LoginInv'
    BY <2>1, SendBadKeeps
  <2>2. ASSUME NEW r \in Request, NEW ip \in Ips, NEW u \in Users, Send(r, u, ip)
        PROVE  LoginInv'
    BY <2>2, SendKeeps
  <2>3. ASSUME NEW r \in Request, Handle(r)
        PROVE  LoginInv'
    <3>1. ASSUME NEW gate \in Gates, Judge(r, gate)
          PROVE  LoginInv'
      BY <3>1, JudgeKeeps
    <3>2. QED
      BY <2>3, <3>1, AskKeeps, VerifyKeeps, CompareKeeps, RecordKeeps DEF Handle
  <2>4. ASSUME NEW k \in Challenges, Issue(k)
        PROVE  LoginInv'
    BY <2>4, IssueKeeps
  <2>5. ASSUME NEW p \in Policies, Reconfigure(p)
        PROVE  LoginInv'
    BY <2>5, ReconfigureKeeps
  <2>6. CASE Tick
    BY <2>6, TickKeeps
  <2>7. CASE UNCHANGED vars
    BY <2>7 DEF vars, LoginInv, TypeOK, AnswersConsume, ChallengeTriedOnce, Tried
  <2>8. QED
    BY <2>1, <2>2, <2>3, <2>4, <2>5, <2>6, <2>7 DEF Next
<1>3. QED
  BY <1>1, <1>2, PTL DEF Spec

\* The settings, the handlers, the challenges and the counters keep their
\* shape, and a handler that ends has decided on its answer.
THEOREM LoginTypeCorrect == Spec => []TypeOK
<1>1. LoginInv => TypeOK
  BY DEF LoginInv
<1>2. QED
  BY <1>1, LoginInvariant, PTL

\* A gate finds fewer rows than its limit, and what it cannot see yet is open or
\* a fault: the bound is kept by every step.
THEOREM GuessesKept == Spec => []BoundInv
<1>1. Init => BoundInv
  BY BoundInit
<1>2. LoginInv /\ BoundInv /\ [Next]_vars => BoundInv'
  <2> SUFFICES ASSUME LoginInv, BoundInv, [Next]_vars
               PROVE  BoundInv'
    OBVIOUS
  <2>1. now \in Nat /\ policy \in Policies
    BY NumbersAre DEF LoginInv, TypeOK
  <2>2. ASSUME NEW r \in Request, NEW ip \in Ips, SendBad(r, ip)
        PROVE  BoundInv'
    BY <2>2, SendBadBound
  <2>3. ASSUME NEW r \in Request, NEW ip \in Ips, NEW u \in Users, Send(r, u, ip)
        PROVE  BoundInv'
    BY <2>3, SendBound
  <2>4. ASSUME NEW r \in Request, Handle(r)
        PROVE  BoundInv'
    <3>1. ASSUME NEW gate \in Gates, Judge(r, gate)
          PROVE  BoundInv'
      BY <3>1, JudgeBound
    <3>2. QED
      BY <2>4, <3>1, AskBound, VerifyBound, CompareBound, RecordBound DEF Handle
  <2>5. ASSUME NEW k \in Challenges, Issue(k)
        PROVE  BoundInv'
    <3>1. UNCHANGED <<policy, requests, now, changes, faults>>
      BY <2>5 DEF Issue
    <3>2. Seen' = Seen
      BY <3>1 DEF Seen
    <3>3. QED
      BY <2>1, <3>1, <3>2, AroundBound
  <2>6. ASSUME NEW p \in Policies, Reconfigure(p)
        PROVE  BoundInv'
    <3>1. UNCHANGED <<requests, now, faults>> /\ changes' = changes + 1
      BY <2>6 DEF Reconfigure
    <3>2. Seen' = Policies
      BY <3>1, NumbersAre DEF Seen, LoginInv
    <3>3. Seen \subseteq Policies
      BY <2>1 DEF Seen
    <3>4. QED
      BY <2>1, <3>1, <3>2, <3>3, AroundBound
  <2>7. CASE Tick
    <3>1. UNCHANGED <<policy, requests, changes, faults>> /\ now' = now + 1
      BY <2>7 DEF Tick
    <3>2. Seen' = Seen
      BY <3>1 DEF Seen
    <3>3. QED
      BY <2>1, <3>1, <3>2, AroundBound
  <2>8. CASE UNCHANGED vars
    <3>1. UNCHANGED <<policy, requests, now, changes, faults>>
      BY <2>8 DEF vars
    <3>2. Seen' = Seen
      BY <3>1 DEF Seen
    <3>3. QED
      BY <2>1, <3>1, <3>2, AroundBound
  <2>9. QED
    BY <2>2, <2>3, <2>4, <2>5, <2>6, <2>7, <2>8 DEF Next
<1>3. QED
  BY <1>1, <1>2, LoginInvariant, PTL DEF Spec

\* LoginHandler: a user name gets as many wrong guesses as the lockout allows, and
\* as many without a captcha as its threshold, but for the handlers that passed
\* the gate together and the statements that failed.
THEOREM GuessesBounded == Spec => []GuessesAreBounded
<1>1. LoginInv /\ BoundInv => GuessesAreBounded
  <2> SUFFICES ASSUME LoginInv, BoundInv
               PROVE  LockoutHolds /\ CaptchaHolds
    BY DEF GuessesAreBounded
  <2>1. /\ \A p \in Seen : p.maxUser \in Nat /\ p.captcha \in Nat
        /\ faults \in Nat /\ MaxOpen \in Nat
    BY NumbersAre DEF LoginInv
  <2>2. ASSUME NEW u
        PROVE  /\ Cardinality(GuessesOf(u)) <= Cardinality(Passers(u))
               /\ Cardinality(GuessesOf(u)) \in Nat /\ Cardinality(Passers(u)) \in Nat
    <3>1. Passers(u) \in SUBSET Request /\ GuessesOf(u) \in SUBSET Request
      BY DEF Passers, GuessesOf, Guesses, Failures
    <3>2. GuessesOf(u) \subseteq Passers(u)
      BY <3>1 DEF Passers, GuessesOf
    <3>3. QED
      BY <3>1, <3>2, PartsCount
  <2>3. ASSUME NEW u
        PROVE  LET bare == {r \in GuessesOf(u) : requests[r].challenge = NoChallenge}
               IN  /\ Cardinality(bare) <= Cardinality(BarePassers(u))
                   /\ Cardinality(bare) \in Nat /\ Cardinality(BarePassers(u)) \in Nat
    <3> DEFINE bare == {r \in GuessesOf(u) : requests[r].challenge = NoChallenge}
    <3>1. BarePassers(u) \in SUBSET Request /\ bare \in SUBSET Request
      BY DEF BarePassers, GuessesOf, Guesses, Failures
    <3>2. bare \subseteq BarePassers(u)
      BY <3>1 DEF BarePassers, GuessesOf
    <3> HIDE DEF bare
    <3>3. /\ Cardinality(bare) <= Cardinality(BarePassers(u))
          /\ Cardinality(bare) \in Nat /\ Cardinality(BarePassers(u)) \in Nat
      BY <3>1, <3>2, PartsCount
    <3>4. QED
      BY <3>3 DEF bare
  <2>4. LockoutHolds
    <3> SUFFICES ASSUME \A p \in Seen : p.maxUser > 0 /\ p.windowUser > 0, NEW u \in Users
                 PROVE  \E p \in Seen : Cardinality(GuessesOf(u)) <= p.maxUser + Slack
      BY DEF LockoutHolds
    <3>1. PICK p \in Seen : Cardinality(Passers(u)) <= p.maxUser + Slack
      BY DEF BoundInv, Locks
    <3>2. QED
      BY <2>1, <2>2, <3>1 DEF Slack
  <2>5. CaptchaHolds
    <3> DEFINE bare(u) == {r \in GuessesOf(u) : requests[r].challenge = NoChallenge}
    <3> SUFFICES ASSUME \A p \in Seen : p.captcha > 0, NEW u \in Users
                 PROVE  \E p \in Seen : Cardinality(bare(u)) <= p.captcha + Slack
      BY DEF CaptchaHolds
    <3>1. PICK p \in Seen : Cardinality(BarePassers(u)) <= p.captcha + Slack
      BY DEF BoundInv
    <3>2. /\ Cardinality(bare(u)) <= Cardinality(BarePassers(u))
          /\ Cardinality(bare(u)) \in Nat /\ Cardinality(BarePassers(u)) \in Nat
      BY <2>3
    <3> HIDE DEF bare
    <3>3. QED
      BY <2>1, <3>1, <3>2 DEF Slack
  <2>6. QED
    BY <2>4, <2>5
<1>2. QED
  BY <1>1, LoginInvariant, GuessesKept, PTL

\* captcha.Verify: no challenge serves two requests, however many arrive at
\* once, whatever was answered and however long it was valid.
THEOREM ChallengeTriedOnceHolds == Spec => []ChallengeTriedOnce
<1>1. LoginInv => ChallengeTriedOnce
  BY DEF LoginInv
<1>2. QED
  BY <1>1, LoginInvariant, PTL
=============================================================================
