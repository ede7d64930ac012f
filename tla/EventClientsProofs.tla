------------------------- MODULE EventClientsProofs -------------------------
(***************************************************************************)
(* Proofs about EventBus and EventClients for any number of publishers and *)
(* listeners, any ring and any size of the queues.  Of the bus: its type   *)
(* invariant, that no publisher sends on a closed channel, and that it     *)
(* implements EventLog.  Of pages and followers: whatever they do, the bus *)
(* under them keeps those promises; a page is sent at most one event it    *)
(* did not ask for between two answers, and all that it was promised; a    *)
(* follower misses nothing but what found its channel full.                *)
(***************************************************************************)
EXTENDS EventClients, TLAPS

\* The arithmetic of a ring: slots wrap around at most once.
LEMMA WrapOnce ==
  /\ \A x \in Slots : x % RingSize = x
  /\ \A x \in RingSize .. (2 * RingSize - 1) : x % RingSize = x - RingSize
  BY RingAssumption DEF Slots

LEMMA NextSlotIs ==
  ASSUME NEW i \in Slots
  PROVE  NextSlot(i) = IF i + 1 < RingSize THEN i + 1 ELSE 0
<1>1. CASE i + 1 < RingSize
  BY <1>1, WrapOnce, RingAssumption DEF Slots, NextSlot
<1>2. CASE i + 1 = RingSize
  BY <1>2, WrapOnce, RingAssumption DEF Slots, NextSlot
<1>. QED
  BY <1>1, <1>2, RingAssumption DEF Slots

LEMMA SlotIs ==
  ASSUME NEW from \in Slots, NEW i \in 1 .. RingSize
  PROVE  (from + i - 1) % RingSize
           = IF from + i <= RingSize THEN from + i - 1 ELSE from + i - 1 - RingSize
<1>1. CASE from + i <= RingSize
  <2>1. from + i - 1 \in Slots
    BY <1>1, RingAssumption DEF Slots
  <2>. QED
    BY <1>1, <2>1, WrapOnce
<1>2. CASE from + i > RingSize
  <2>1. from + i - 1 \in RingSize .. (2 * RingSize - 1)
    BY <1>2, RingAssumption DEF Slots
  <2>. QED
    BY <1>2, <2>1, WrapOnce, RingAssumption DEF Slots
<1>. QED
  BY <1>1, <1>2, RingAssumption DEF Slots

LEMMA OldestIs ==
  ASSUME NEW next \in Slots, NEW fill \in 0 .. RingSize
  PROVE  (next + RingSize - fill) % RingSize
           = IF fill <= next THEN next - fill ELSE next + RingSize - fill
<1>1. CASE fill <= next
  <2>1. CASE fill = 0
    <3>1. next + RingSize - fill \in RingSize .. (2 * RingSize - 1)
      BY <2>1, RingAssumption DEF Slots
    <3>. QED
      BY <2>1, <3>1, WrapOnce, RingAssumption DEF Slots
  <2>2. CASE fill # 0
    <3>1. next + RingSize - fill \in RingSize .. (2 * RingSize - 1)
      BY <1>1, <2>2, RingAssumption DEF Slots
    <3>. QED
      BY <1>1, <3>1, WrapOnce, RingAssumption DEF Slots
  <2>. QED
    BY <2>1, <2>2
<1>2. CASE fill > next
  <2>1. next + RingSize - fill \in Slots
    BY <1>2, RingAssumption DEF Slots
  <2>. QED
    BY <1>2, <2>1, WrapOnce, RingAssumption DEF Slots
<1>. QED
  BY <1>1, <1>2, RingAssumption DEF Slots

\* Writing one event into the ring is, for its window, what remembering one
\* more event is for the log.
LEMMA RecordRemembers ==
  ASSUME BusTypeOK, NEW p \in Publishers, Record(p)
  PROVE  Window' = Log!Remember(Window, drafts[p])
<1>. DEFINE e == drafts[p]
            past == IF ringFill < RingSize THEN Window ELSE Tail(Window)
            next == ringNext'
            fill == ringFill'
<1>1. /\ ringNext \in Slots /\ ringFill \in 0 .. RingSize
      /\ ring \in [Slots -> Events \cup {NoEvent}]
      /\ e \in Events \cup {NoEvent}
  BY DEF BusTypeOK
<1>2. /\ next \in Slots
      /\ next = IF ringNext + 1 < RingSize THEN ringNext + 1 ELSE 0
      /\ fill = IF ringFill < RingSize THEN ringFill + 1 ELSE RingSize
      /\ fill \in 1 .. RingSize
      /\ ring' = [ring EXCEPT ![ringNext] = e]
  BY <1>1, NextSlotIs, RingAssumption DEF Record, Slots
<1>3. /\ Oldest \in Slots
      /\ Oldest = IF ringFill <= ringNext THEN ringNext - ringFill
                  ELSE ringNext + RingSize - ringFill
  <2>1. Oldest = IF ringFill <= ringNext THEN ringNext - ringFill
                 ELSE ringNext + RingSize - ringFill
    BY <1>1, OldestIs DEF Oldest
  <2>. QED
    BY <2>1, <1>1, RingAssumption DEF Slots
<1>4. /\ Oldest' \in Slots
      /\ Oldest' = IF fill <= next THEN next - fill ELSE next + RingSize - fill
  <2>1. fill \in 0 .. RingSize
    BY <1>2, RingAssumption
  <2>2. Oldest' = IF fill <= next THEN next - fill ELSE next + RingSize - fill
    BY <2>1, <1>2, OldestIs DEF Oldest
  <2>. QED
    BY <2>2, <1>2, RingAssumption DEF Slots
<1>5. \A i \in 1 .. ringFill :
        Window[i] = ring[IF Oldest + i <= RingSize THEN Oldest + i - 1
                         ELSE Oldest + i - 1 - RingSize]
  BY <1>1, <1>3, SlotIs, RingAssumption DEF Window
<1>6. \A i \in 1 .. fill :
        Window'[i] = ring'[IF Oldest' + i <= RingSize THEN Oldest' + i - 1
                           ELSE Oldest' + i - 1 - RingSize]
  BY <1>2, <1>4, SlotIs, RingAssumption DEF Window
<1>7. Window \in Seq(Events \cup {NoEvent}) /\ Len(Window) = ringFill
  <2>1. \A i \in 1 .. ringFill : Window[i] \in Events \cup {NoEvent}
    BY <1>1, <1>3, <1>5, RingAssumption DEF Slots
  <2>. QED
    BY <2>1, <1>1, RingAssumption DEF Window
<1>8. past \in Seq(Events \cup {NoEvent}) /\ Len(past) = fill - 1
  BY <1>1, <1>2, <1>7, RingAssumption
<1>9. \A i \in 1 .. (fill - 1) : Window'[i] = past[i]
  <2>. SUFFICES ASSUME NEW i \in 1 .. (fill - 1)
                PROVE  Window'[i] = past[i]
    OBVIOUS
  <2>1. CASE ringFill < RingSize
    <3>1. Oldest' = Oldest
      BY <2>1, <1>1, <1>2, <1>3, <1>4, RingAssumption DEF Slots
    <3>2. i \in 1 .. ringFill /\ i \in 1 .. fill
      BY <2>1, <1>1, <1>2, RingAssumption
    <3>. DEFINE slot == IF Oldest + i <= RingSize THEN Oldest + i - 1
                        ELSE Oldest + i - 1 - RingSize
    <3>3. slot \in Slots /\ slot # ringNext
      BY <2>1, <3>2, <1>1, <1>3, RingAssumption DEF Slots
    <3>4. Window'[i] = ring'[slot] /\ Window[i] = ring[slot]
      BY <3>1, <3>2, <1>5, <1>6
    <3>5. ring'[slot] = ring[slot]
      BY <3>3, <1>1, <1>2
    <3>. QED
      BY <2>1, <3>4, <3>5
  <2>2. CASE ringFill = RingSize
    <3>1. Oldest = ringNext /\ Oldest' = next
      BY <2>2, <1>1, <1>2, <1>3, <1>4, RingAssumption DEF Slots
    <3>2. i + 1 \in 1 .. ringFill /\ i \in 1 .. fill
      BY <2>2, <1>1, <1>2, RingAssumption
    <3>. DEFINE slot == IF Oldest + (i + 1) <= RingSize THEN Oldest + (i + 1) - 1
                        ELSE Oldest + (i + 1) - 1 - RingSize
                slot2 == IF next + i <= RingSize THEN next + i - 1
                         ELSE next + i - 1 - RingSize
    <3>3. slot \in Slots /\ slot # ringNext /\ slot = slot2
      BY <2>2, <3>1, <3>2, <1>1, <1>2, <1>3, RingAssumption DEF Slots
    <3>4. Window'[i] = ring'[slot2] /\ Window[i + 1] = ring[slot]
      BY <3>1, <3>2, <1>5, <1>6
    <3>5. ring'[slot] = ring[slot]
      BY <3>3, <1>1, <1>2
    <3>6. past[i] = Window[i + 1]
      BY <2>2, <3>2, <1>1, <1>7, <1>8, RingAssumption
    <3>. QED
      BY <3>3, <3>4, <3>5, <3>6
  <2>3. ringFill < RingSize \/ ringFill = RingSize
    BY <1>1, RingAssumption
  <2>. QED
    BY <2>1, <2>2, <2>3
<1>10. Window'[fill] = e
  <2>. DEFINE slot == IF Oldest' + fill <= RingSize THEN Oldest' + fill - 1
                      ELSE Oldest' + fill - 1 - RingSize
  <2>1. slot = ringNext
    BY <1>1, <1>2, <1>4, RingAssumption DEF Slots
  <2>2. Window'[fill] = ring'[slot]
    BY <1>2, <1>6, RingAssumption
  <2>. QED
    BY <2>1, <2>2, <1>1, <1>2
<1>11. Window' \in Seq(Events \cup {NoEvent}) /\ Len(Window') = fill
  <2>1. \A i \in 1 .. fill : Window'[i] \in Events \cup {NoEvent}
    BY <1>1, <1>2, <1>4, <1>6, RingAssumption DEF Slots
  <2>2. Window' = [i \in 1 .. fill |-> Window'[i]]
    BY DEF Window
  <2>3. fill \in Nat
    BY <1>2, RingAssumption
  <2>. QED
    BY <2>1, <2>2, <2>3
<1>12. Window' = Append(past, e)
  BY <1>1, <1>2, <1>8, <1>9, <1>10, <1>11
<1>13. Log!Remember(Window, e) = Append(past, e)
  BY <1>1, <1>7, RingAssumption DEF Log!Remember
<1>. QED
  BY <1>12, <1>13

-----------------------------------------------------------------------------
(***************************************************************************)
(* Types.                                                                  *)
(***************************************************************************)
\* A queue that has room takes one more event and stays within its bound.
LEMMA QueueGrows ==
  ASSUME NEW q \in Seq(Events), Len(q) < BufSize, NEW e \in Events
  PROVE  Append(q, e) \in Seq(Events) /\ Len(Append(q, e)) <= BufSize
  BY BufAssumption

LEMMA QueueShrinks ==
  ASSUME NEW q \in Seq(Events), q # <<>>, Len(q) <= BufSize
  PROVE  Tail(q) \in Seq(Events) /\ Len(Tail(q)) <= BufSize
  BY BufAssumption

LEMMA TypeStep == BusTypeOK /\ [Next]_vars => BusTypeOK'
<1>. SUFFICES ASSUME BusTypeOK, [Next]_vars
              PROVE  BusTypeOK'
  OBVIOUS
<1>. USE DEF BusTypeOK
<1>1. ASSUME NEW p \in Publishers, Stamp(p)
      PROVE  BusTypeOK'
  <2>1. clock + 1 \in Events /\ clock' \in 1 .. (MaxEvents + 1)
    BY <1>1, EventsAssumption DEF Stamp, Events
  <2>. QED
    BY <1>1, <2>1 DEF Stamp
<1>2. ASSUME NEW p \in Publishers, Record(p)
      PROVE  BusTypeOK'
  <2>1. drafts[p] \in Events
    BY <1>2 DEF Record
  <2>2. ringNext' \in Slots
    BY <1>2, NextSlotIs, RingAssumption DEF Record, Slots
  <2>3. ringFill' \in 0 .. RingSize
    BY <1>2, RingAssumption DEF Record
  <2>4. ring' \in [Slots -> Events \cup {NoEvent}]
    BY <1>2, <2>1 DEF Record
  <2>5. \A l \in Listeners : /\ queues'[l] \in Seq(Events)
                             /\ Len(queues'[l]) <= BufSize
    <3>. SUFFICES ASSUME NEW l \in Listeners
                  PROVE  queues'[l] \in Seq(Events) /\ Len(queues'[l]) <= BufSize
      OBVIOUS
    <3>1. CASE l \in subs /\ HasRoom(l)
      <4>1. queues'[l] = Append(queues[l], drafts[p])
        BY <1>2, <3>1 DEF Record
      <4>. QED
        BY <2>1, <3>1, <4>1, QueueGrows DEF HasRoom
    <3>2. CASE ~(l \in subs /\ HasRoom(l))
      BY <1>2, <3>2 DEF Record
    <3>. QED
      BY <3>1, <3>2
  <2>6. queues' \in [Listeners -> Seq(Events)]
    BY <1>2, <2>5 DEF Record
  <2>7. drafts' \in [Publishers -> Events \cup {NoEvent}]
    BY <1>2 DEF Record
  <2>. QED
    BY <1>2, <2>2, <2>3, <2>4, <2>5, <2>6, <2>7 DEF Record
<1>3. ASSUME NEW l \in Listeners, ForwardLive(l) \/ Receive(l)
      PROVE  BusTypeOK'
  <2>1. Tail(queues[l]) \in Seq(Events) /\ Len(Tail(queues[l])) <= BufSize
    BY <1>3, QueueShrinks DEF ForwardLive, Receive
  <2>. QED
    BY <1>3, <2>1 DEF ForwardLive, Receive
<1>4. ASSUME NEW l \in Listeners, Subscribe(l) \/ Unsubscribe(l) \/ CloseChannel(l)
      PROVE  BusTypeOK'
  BY <1>4 DEF Subscribe, Unsubscribe, CloseChannel
<1>5. ASSUME UNCHANGED busVars
      PROVE  BusTypeOK'
  BY <1>5 DEF busVars
<1>6. ASSUME NEW l \in Listeners,
             ReadHistory(l) \/ GoLive(l) \/ ForwardHistory(l) \/ HangUp(l)
      PROVE  BusTypeOK'
  BY <1>5, <1>6 DEF ReadHistory, GoLive, ForwardHistory, HangUp
<1>7. UNCHANGED vars => UNCHANGED busVars
  BY DEF vars
<1>. QED
  BY <1>1, <1>2, <1>3, <1>4, <1>5, <1>6, <1>7 DEF Next

\* The bus keeps its shape whatever publishers and listeners do: in particular
\* the ring's indices stay in bounds and no channel holds more than it can.
THEOREM BusTypeCorrect == Spec => []BusTypeOK
<1>1. Init => BusTypeOK
  BY RingAssumption, BufAssumption, EventsAssumption DEF Init, BusTypeOK, Slots, Events
<1>. QED
  BY <1>1, TypeStep, PTL DEF Spec

-----------------------------------------------------------------------------
(***************************************************************************)
(* No send on a closed channel.  A channel is closed after its listener is *)
(* gone and has left the map, and a listener that is gone never comes      *)
(* back: the second part makes the invariant inductive.                    *)
(***************************************************************************)
ClosedInv ==
  /\ bridges = [l \in Listeners |-> bridges[l]]
  /\ NoSendOnClosed
  /\ \A l \in closed : l \in Listeners /\ bridges[l].pc = "gone"

LEMMA ClosedStep == ClosedInv /\ [Next]_vars => ClosedInv'
<1>. SUFFICES ASSUME ClosedInv, [Next]_vars
              PROVE  ClosedInv'
  OBVIOUS
<1>. USE DEF ClosedInv, NoSendOnClosed
<1>1. ASSUME NEW l \in Listeners, Subscribe(l)
      PROVE  ClosedInv'
  <2>1. l \notin closed
    BY <1>1 DEF Subscribe
  <2>2. PICK since \in 0 .. clock :
          bridges' = [bridges EXCEPT ![l] =
                        [pc |-> "attached", since |-> since, backlog |-> <<>>]]
    BY <1>1 DEF Subscribe
  <2>. QED
    BY <1>1, <2>1, <2>2 DEF Subscribe
<1>2. ASSUME NEW l \in Listeners, CloseChannel(l)
      PROVE  ClosedInv'
  BY <1>2 DEF CloseChannel
<1>3. ASSUME NEW l \in Listeners, Unsubscribe(l) \/ ForwardLive(l) \/ Receive(l)
      PROVE  ClosedInv'
  BY <1>3 DEF Unsubscribe, ForwardLive, Receive
<1>4. ASSUME NEW l \in Listeners, ReadHistory(l)
      PROVE  ClosedInv'
  BY <1>4 DEF ReadHistory, busVars
<1>5. ASSUME NEW l \in Listeners, GoLive(l)
      PROVE  ClosedInv'
  BY <1>5 DEF GoLive, busVars
<1>6. ASSUME NEW l \in Listeners, ForwardHistory(l)
      PROVE  ClosedInv'
  BY <1>6 DEF ForwardHistory, busVars
<1>7. ASSUME NEW l \in Listeners, HangUp(l)
      PROVE  ClosedInv'
  <2>1. l \notin closed
    BY <1>7 DEF HangUp
  <2>. QED
    BY <1>7, <2>1 DEF HangUp, busVars
<1>8. ASSUME NEW p \in Publishers, Stamp(p) \/ Record(p)
      PROVE  ClosedInv'
  BY <1>8 DEF Stamp, Record
<1>9. ASSUME UNCHANGED vars
      PROVE  ClosedInv'
  BY <1>9 DEF vars, busVars
<1>. QED
  BY <1>1, <1>2, <1>3, <1>4, <1>5, <1>6, <1>7, <1>8, <1>9 DEF Next

\* Publish sends to the channels of the map only, and none of them is closed:
\* a publisher that comes between the two halves of cancel does not panic.
THEOREM NeverSendsOnClosed == Spec => []NoSendOnClosed
<1>1. Init => ClosedInv
  BY DEF Init, ClosedInv, NoSendOnClosed
<1>2. ClosedInv => NoSendOnClosed
  BY DEF ClosedInv
<1>. QED
  BY <1>1, <1>2, ClosedStep, PTL DEF Spec

-----------------------------------------------------------------------------
(***************************************************************************)
(* Refinement.                                                             *)
(***************************************************************************)
LEMMA LogStep == BusTypeOK /\ [Next]_vars => [Log!LogNext]_(Log!logVars)
<1>. SUFFICES ASSUME BusTypeOK, [Next]_vars
              PROVE  [Log!LogNext]_(Log!logVars)
  OBVIOUS
<1>1. ASSUME NEW p \in Publishers, Record(p)
      PROVE  Log!Publish(drafts[p]) /\ drafts[p] \in Events
  <2>1. Window' = Log!Remember(Window, drafts[p])
    BY <1>1, RecordRemembers
  <2>2. queues' = Log!Post(queues, subs, drafts[p])
    BY <1>1 DEF Record, HasRoom, Log!Post
  <2>3. subs' = subs /\ drafts[p] \in Events
    BY <1>1 DEF Record, BusTypeOK
  <2>. QED
    BY <2>1, <2>2, <2>3 DEF Log!Publish
<1>2. ASSUME UNCHANGED <<ring, ringNext, ringFill>>
      PROVE  Window' = Window
  BY <1>2 DEF Window, Oldest
<1>3. ASSUME NEW p \in Publishers, Stamp(p)
      PROVE  UNCHANGED Log!logVars
  BY <1>2, <1>3 DEF Stamp, Log!logVars
<1>4. ASSUME NEW l \in Listeners, Subscribe(l)
      PROVE  Log!Attach(l)
  BY <1>2, <1>4 DEF Subscribe, Log!Attach
<1>5. ASSUME NEW l \in Listeners, Unsubscribe(l)
      PROVE  Log!Detach(l)
  BY <1>2, <1>5 DEF Unsubscribe, Log!Detach
<1>6. ASSUME NEW l \in Listeners, ForwardLive(l) \/ Receive(l)
      PROVE  Log!Take(l)
  BY <1>2, <1>6 DEF ForwardLive, Receive, Log!Take
<1>7. ASSUME NEW l \in Listeners, CloseChannel(l)
      PROVE  UNCHANGED Log!logVars
  BY <1>2, <1>7 DEF CloseChannel, Log!logVars
<1>8. ASSUME UNCHANGED busVars
      PROVE  UNCHANGED Log!logVars
  BY <1>2, <1>8 DEF busVars, Log!logVars
<1>9. ASSUME NEW l \in Listeners,
             ReadHistory(l) \/ GoLive(l) \/ ForwardHistory(l) \/ HangUp(l)
      PROVE  UNCHANGED Log!logVars
  BY <1>8, <1>9 DEF ReadHistory, GoLive, ForwardHistory, HangUp
<1>10. UNCHANGED vars => UNCHANGED busVars
  BY DEF vars
<1>. QED
  BY <1>1, <1>3, <1>4, <1>5, <1>6, <1>7, <1>8, <1>9, <1>10 DEF Next, Log!LogNext

\* The ring with its wrap-around indices, the channels and the subscriber map
\* implement the event log: replay returns exactly the newest events, and each
\* event reaches the memory and every attached listener with room at once.
THEOREM BusImplementsLog == Spec => ImplementsLog
<1>1. Init => Log!LogInit
  <2>1. Init => Window = <<>>
    BY DEF Init, Window
  <2>. QED
    BY <2>1 DEF Init, Log!LogInit
<1>2. BusTypeOK /\ [Next]_vars => [Log!LogNext]_(Log!logVars)
  BY LogStep
<1>. QED
  BY <1>1, <1>2, BusTypeCorrect, PTL DEF Spec, ImplementsLog, Log!LogSpec
-----------------------------------------------------------------------------
(***************************************************************************)
(* The clients of the bus.                                                 *)
(***************************************************************************)
\* Each step of a client is a step of the bus or leaves the bus alone.
LEMMA ClientStep == [ClientsNext]_allVars => [Next]_vars
<1>. SUFFICES ASSUME [ClientsNext]_allVars PROVE [Next]_vars
  OBVIOUS
<1>1. ASSUME NEW p \in Publishers, Publish(p) PROVE Next
  BY <1>1 DEF Publish, Next
<1>2. ASSUME NEW l \in Listeners, Open(l) \/ StartFollow(l) PROVE Next
  BY <1>2 DEF Open, StartFollow, Next
<1>3. ASSUME NEW l \in Listeners, Pump(l) PROVE Next
  BY <1>3 DEF Pump, Next
<1>4. ASSUME NEW l \in Listeners, WriterEnds(l) \/ GiveUp(l) \/ Interrupt(l) PROVE Next
  BY <1>4 DEF WriterEnds, GiveUp, Interrupt, Next
<1>5. ASSUME NEW l \in Listeners, Release(l) \/ Bridged(l) PROVE Next
  BY <1>5 DEF Release, Bridged, Next
<1>6. ASSUME NEW l \in Listeners,
             \/ ReadFrame(l) \/ Ack(l) \/ Offer(l) \/ Hello(l) \/ Write(l) \/ Leave(l)
             \/ ReaderEnds(l) \/ PumperEnds(l) \/ WriterNotices(l)
             \/ Handle(l) \/ ReadLine(l) \/ PrintLine(l) \/ EndOfStream(l)
      PROVE UNCHANGED vars
  BY <1>6 DEF ReadFrame, Ack, Offer, Hello, Write, Leave, ReaderEnds, PumperEnds,
              WriterNotices, Handle, ReadLine, PrintLine, EndOfStream
<1>7. UNCHANGED allVars => UNCHANGED vars
  BY DEF allVars
<1>. QED
  BY <1>1, <1>2, <1>3, <1>4, <1>5, <1>6, <1>7 DEF ClientsNext, Reader, Pumper, Writer

\* Pages and followers, with their queues and goroutines, are listeners of
\* the bus as it is specified: what is proved of the bus holds under them.
THEOREM ClientsUseBus == ClientsSpec => Spec
<1>1. ClientsInit => Init
  BY DEF ClientsInit
<1>. QED
  BY <1>1, ClientStep, PTL DEF ClientsSpec, Spec

\* No publisher sends on the channel of a page or a follower that is closed.
THEOREM ClientsNeverSendOnClosed == ClientsSpec => []NoSendOnClosed
  BY ClientsUseBus, NeverSendsOnClosed

\* Under its real clients the bus implements the event log.
THEOREM ClientsSeeLog == ClientsSpec => ImplementsLog
  BY ClientsUseBus, BusImplementsLog

-----------------------------------------------------------------------------
(***************************************************************************)
(* The shape of the pages.                                                 *)
(***************************************************************************)
LEMMA RequestsAreTopics == \A named \in Requests : named \in SUBSET Topics
  BY DEF Topics

LEMMA ChangedIsTopics ==
  ASSUME NEW topics \in SUBSET Topics, NEW named \in SUBSET Topics,
         NEW op \in {"subscribe", "unsubscribe"}
  PROVE  Changed(topics, op, named) \in SUBSET Topics
  BY DEF Changed

LEMMA SentFits ==
  ASSUME PagesTypeOK, NEW l \in Listeners
  PROVE  Sent(l) \in 0 .. OutSize
  BY SizesAssumption DEF PagesTypeOK, Page, Sent, HasSpace

LEMMA PagesTypeStep ==
  BusTypeOK /\ PagesTypeOK /\ [ClientsNext]_allVars => PagesTypeOK'
<1>. SUFFICES ASSUME BusTypeOK, PagesTypeOK, [ClientsNext]_allVars
              PROVE  PagesTypeOK'
  OBVIOUS
<1>0. /\ pages \in [Listeners -> Page] /\ \A l \in Listeners : pages[l] \in Page
      /\ promises \in [Listeners -> Promise] /\ \A l \in Listeners : promises[l] \in Promise
      /\ \A l \in Listeners : Sent(l) \in 0 .. OutSize
      /\ 0 \in 0 .. OutSize
  BY SentFits, SizesAssumption DEF PagesTypeOK
<1>1. ASSUME NEW p \in Publishers, Publish(p) PROVE PagesTypeOK'
  <2>1. log' # log => drafts[p] \in Events
    BY <1>1 DEF Publish, Stamp, Record, BusTypeOK
  <2>2. ASSUME NEW l \in Listeners, log' # log
        PROVE  [promises[l] EXCEPT !.owed = @ \cup {drafts[p]}] \in Promise
    BY <1>0, <2>1, <2>2 DEF Promise
  <2>. QED
    BY <1>0, <1>1, <2>2 DEF Publish, PagesTypeOK
<1>2. ASSUME NEW l \in Listeners, Open(l) PROVE PagesTypeOK'
  <2>1. [pages[l] EXCEPT !.reader = "reading", !.pumper = "running",
                         !.writer = "starting"] \in Page
    BY ZenonT(40), <1>0 DEF Page
  <2>. QED
    BY <1>0, <1>2, <2>1 DEF Open, PagesTypeOK
<1>3. ASSUME NEW l \in Listeners, Hello(l) PROVE PagesTypeOK'
  <2>1. [pages[l] EXCEPT !.writer = "running", !.out = Sent(l)] \in Page
    BY ZenonT(40), <1>0 DEF Page
  <2>. QED
    BY <1>0, <1>3, <2>1 DEF Hello, PagesTypeOK
<1>4. ASSUME NEW l \in Listeners, ReadFrame(l) PROVE PagesTypeOK'
  <2>1. PICK op \in {"subscribe", "unsubscribe"}, named \in Requests :
          /\ pages' = [pages EXCEPT ![l] = [pages[l] EXCEPT
               !.reader = "acking", !.op = op, !.named = named,
               !.topics = Changed(pages[l].topics, op, named), !.frames = @ + 1]]
          /\ LET told == promises[l].told \ (IF op = "unsubscribe" THEN named ELSE {})
             IN  promises' = [promises EXCEPT ![l] = [promises[l] EXCEPT
                   !.told = told, !.owed = {e \in @ : Match(told, e)}]]
    BY <1>4 DEF ReadFrame
  <2>. DEFINE told == promises[l].told \ (IF op = "unsubscribe" THEN named ELSE {})
  <2>2. named \in SUBSET Topics
    BY RequestsAreTopics
  <2>3. pages[l].topics \in SUBSET Topics /\ pages[l].frames \in 0 .. MaxFrames
    BY <1>0 DEF Page
  <2>4. Changed(pages[l].topics, op, named) \in SUBSET Topics
    BY <2>2, <2>3, ChangedIsTopics
  <2>5. pages[l].frames + 1 \in 0 .. MaxFrames
    BY <1>4, <2>3, SizesAssumption DEF ReadFrame
  <2>6. [pages[l] EXCEPT
          !.reader = "acking", !.op = op, !.named = named,
          !.topics = Changed(pages[l].topics, op, named), !.frames = @ + 1] \in Page
    BY ZenonT(40), <1>0, <2>2, <2>4, <2>5 DEF Page
  <2>7. [promises[l] EXCEPT !.told = told, !.owed = {e \in @ : Match(told, e)}] \in Promise
    BY <1>0 DEF Promise
  <2>. QED
    BY <1>0, <2>1, <2>6, <2>7 DEF PagesTypeOK
<1>5. ASSUME NEW l \in Listeners, Ack(l) PROVE PagesTypeOK'
  <2>1. [pages[l] EXCEPT !.reader = "reading", !.named = {}, !.op = "subscribe",
                         !.out = Sent(l)] \in Page
    BY ZenonT(40), <1>0 DEF Page
  <2>2. pages[l].named \in SUBSET Topics
    BY <1>0 DEF Page
  <2>3. [promises[l] EXCEPT
          !.strays = 0,
          !.asked = IF pages[l].op = "subscribe" THEN @ \cup pages[l].named
                    ELSE @ \ pages[l].named,
          !.told = IF pages[l].op = "subscribe" /\ HasSpace(l)
                   THEN @ \cup pages[l].named ELSE @] \in Promise
    BY <1>0, <2>2 DEF Promise
  <2>. QED
    BY <1>0, <1>5, <2>1, <2>3 DEF Ack, PagesTypeOK
<1>6. ASSUME NEW l \in Listeners, Pump(l) PROVE PagesTypeOK'
  <2>1. Head(queues[l]) \in Events
    BY <1>6 DEF Pump, Receive, BusTypeOK
  <2>2. \A e \in Events \cup {NoEvent} : [pages[l] EXCEPT !.hand = e] \in Page
    BY <1>0 DEF Page
  <2>. QED
    BY <1>0, <1>6, <2>1, <2>2 DEF Pump, PagesTypeOK
<1>7. ASSUME NEW l \in Listeners, Offer(l) PROVE PagesTypeOK'
  <2>. DEFINE e == pages[l].hand
  <2>1. [pages[l] EXCEPT !.hand = NoEvent, !.out = Sent(l)] \in Page
    BY ZenonT(40), <1>0 DEF Page
  <2>2. promises[l].strays \in Nat
    BY <1>0 DEF Promise
  <2>3. (IF HasSpace(l) /\ ~ Match(Wanted(l), e)
         THEN promises[l].strays + 1 ELSE promises[l].strays) \in Nat
    BY <2>2
  <2>4. [promises[l] EXCEPT
          !.owed = @ \ {e},
          !.strays = IF HasSpace(l) /\ ~ Match(Wanted(l), e) THEN @ + 1 ELSE @] \in Promise
    BY <1>0, <2>3 DEF Promise
  <2>. QED
    BY <1>0, <1>7, <2>1, <2>4 DEF Offer, PagesTypeOK
<1>8. ASSUME NEW l \in Listeners, WriterEnds(l) PROVE PagesTypeOK'
  <2>1. [pages[l] EXCEPT !.writer = "gone", !.topics = {}, !.out = 0] \in Page
    BY ZenonT(40), <1>0, SizesAssumption DEF Page
  <2>2. NoPromise \in Promise
    BY DEF NoPromise, Promise
  <2>. QED
    BY <1>0, <1>8, <2>1, <2>2 DEF WriterEnds, PagesTypeOK
<1>9. ASSUME NEW l \in Listeners, Write(l) PROVE PagesTypeOK'
  <2>1. [pages[l] EXCEPT !.out = @ - 1] \in Page
    BY <1>0, <1>9, SizesAssumption DEF Write, Page
  <2>. QED
    BY <1>0, <1>9, <2>1 DEF Write, PagesTypeOK
<1>10. ASSUME NEW l \in Listeners, Leave(l) PROVE PagesTypeOK'
  <2>1. \A how \in {"silent", "closed"} : [pages[l] EXCEPT !.browser = how] \in Page
    BY ZenonT(40), <1>0 DEF Page
  <2>. QED
    BY <1>0, <1>10, <2>1 DEF Leave, PagesTypeOK
<1>11. ASSUME NEW l \in Listeners, ReaderEnds(l) \/ PumperEnds(l) \/ WriterNotices(l)
       PROVE PagesTypeOK'
  <2>1. /\ [pages[l] EXCEPT !.reader = "gone", !.cancelled = TRUE] \in Page
        /\ [pages[l] EXCEPT !.pumper = "gone"] \in Page
        /\ [pages[l] EXCEPT !.writer = "leaving", !.cancelled = TRUE] \in Page
    BY ZenonT(40), <1>0 DEF Page
  <2>. QED
    BY <1>0, <1>11, <2>1 DEF ReaderEnds, PumperEnds, WriterNotices, PagesTypeOK
<1>12. ASSUME UNCHANGED <<pages, promises>> PROVE PagesTypeOK'
  BY <1>12 DEF PagesTypeOK
<1>13. ASSUME NEW l \in Listeners,
              \/ Release(l) \/ StartFollow(l) \/ Bridged(l) \/ Handle(l) \/ GiveUp(l)
              \/ ReadLine(l) \/ PrintLine(l) \/ Interrupt(l) \/ EndOfStream(l)
       PROVE UNCHANGED <<pages, promises>>
  BY <1>13 DEF Release, StartFollow, Bridged, Handle, GiveUp, ReadLine, PrintLine,
               Interrupt, EndOfStream, clientVars
<1>14. UNCHANGED allVars => UNCHANGED <<pages, promises>>
  BY DEF allVars, clientVars
<1>. QED
  BY <1>1, <1>2, <1>3, <1>4, <1>5, <1>6, <1>7, <1>8, <1>9, <1>10, <1>11, <1>12, <1>13,
     <1>14 DEF ClientsNext, Reader, Pumper, Writer

LEMMA ClientsTypes == ClientsSpec => [](BusTypeOK /\ PagesTypeOK)
<1>1. ClientsInit => PagesTypeOK
  BY SizesAssumption DEF ClientsInit, PagesTypeOK, NoPage, Page, NoPromise, Promise
<1>. QED
  BY <1>1, PagesTypeStep, ClientsUseBus, BusTypeCorrect, PTL DEF ClientsSpec

-----------------------------------------------------------------------------
(***************************************************************************)
(* At most one stray.  The topics are those asked for, up to the frame in  *)
(* hand; so what the pumper matches is wanted until the next answer, and   *)
(* only the event it held at the last answer may be stray.                 *)
(***************************************************************************)
StrayInv ==
  \A l \in Listeners :
    /\ pages[l].writer = "off" => pages[l].reader = "off"
    /\ pages[l].topics \subseteq Wanted(l)
    /\ pages[l].reader = "acking" /\ pages[l].op = "unsubscribe"
         => pages[l].topics \cap pages[l].named = {}
    /\ \/ promises[l].strays = 0
       \/ /\ promises[l].strays = 1
          /\ pages[l].hand = NoEvent \/ Match(Wanted(l), pages[l].hand)

LEMMA MatchGrows ==
  ASSUME NEW S, NEW T, S \subseteq T, NEW e, Match(S, e)
  PROVE  Match(T, e)
  BY DEF Match

LEMMA StrayStep ==
  PagesTypeOK /\ StrayInv /\ [ClientsNext]_allVars => StrayInv'
<1>. SUFFICES ASSUME PagesTypeOK, StrayInv, [ClientsNext]_allVars
              PROVE  StrayInv'
  OBVIOUS
<1>. DEFINE Goal(l) ==
       /\ pages'[l].writer = "off" => pages'[l].reader = "off"
       /\ pages'[l].topics \subseteq Wanted(l)'
       /\ pages'[l].reader = "acking" /\ pages'[l].op = "unsubscribe"
            => pages'[l].topics \cap pages'[l].named = {}
       /\ \/ promises'[l].strays = 0
          \/ /\ promises'[l].strays = 1
             /\ pages'[l].hand = NoEvent \/ Match(Wanted(l)', pages'[l].hand)
<1>. SUFFICES \A l \in Listeners : Goal(l)
  BY Zenon DEF StrayInv
<1>. TAKE l \in Listeners
<1>0. /\ pages \in [Listeners -> Page] /\ \A m \in Listeners : pages[m] \in Page
      /\ promises \in [Listeners -> Promise] /\ \A m \in Listeners : promises[m] \in Promise
  BY DEF PagesTypeOK
<1>. HIDE DEF Goal
<1>1. ASSUME pages'[l] = pages[l], promises'[l] = promises[l] PROVE Goal(l)
  BY <1>1 DEF Goal, StrayInv, Wanted
<1>2. ASSUME NEW p \in Publishers, Publish(p) PROVE Goal(l)
  <2>1. promises'[l].asked = promises[l].asked /\ promises'[l].strays = promises[l].strays
    BY <1>0, <1>2 DEF Publish, Promise
  <2>2. pages'[l] = pages[l]
    BY <1>2 DEF Publish
  <2>. QED
    BY <2>1, <2>2 DEF Goal, StrayInv, Wanted
<1>3. ASSUME ReadFrame(l) PROVE Goal(l)
  <2>1. PICK op \in {"subscribe", "unsubscribe"}, named \in Requests :
          /\ pages' = [pages EXCEPT ![l] = [pages[l] EXCEPT
               !.reader = "acking", !.op = op, !.named = named,
               !.topics = Changed(pages[l].topics, op, named), !.frames = @ + 1]]
          /\ LET told == promises[l].told \ (IF op = "unsubscribe" THEN named ELSE {})
             IN  promises' = [promises EXCEPT ![l] = [promises[l] EXCEPT
                   !.told = told, !.owed = {e \in @ : Match(told, e)}]]
    BY <1>3 DEF ReadFrame
  <2>0. promises'[l].asked = promises[l].asked /\ promises'[l].strays = promises[l].strays
    BY <1>0, <2>1 DEF Promise
  <2>2. /\ pages'[l].reader = "acking" /\ pages'[l].op = op /\ pages'[l].named = named
        /\ pages'[l].topics = Changed(pages[l].topics, op, named)
        /\ pages'[l].hand = pages[l].hand
    BY <1>0, <2>1 DEF Page
  <2>3. pages[l].reader # "acking" /\ pages'[l].writer = pages[l].writer
        /\ pages[l].writer # "off"
    BY <1>0, <1>3, <2>1 DEF ReadFrame, StrayInv, Page
  <2>4. Wanted(l) = promises[l].asked /\ Wanted(l)' = promises[l].asked \cup named
    BY <2>0, <2>1, <2>2, <2>3 DEF Wanted
  <2>5. pages[l].topics \subseteq promises[l].asked
    BY <2>4 DEF StrayInv
  <2>6. pages'[l].topics \subseteq Wanted(l)'
    BY <2>2, <2>4, <2>5 DEF Changed
  <2>7. op = "unsubscribe" => pages'[l].topics \cap named = {}
    BY <2>2 DEF Changed
  <2>8. Match(Wanted(l), pages[l].hand) => Match(Wanted(l)', pages[l].hand)
    BY <2>4, MatchGrows
  <2>. QED
    BY <2>0, <2>1, <2>2, <2>3, <2>6, <2>7, <2>8 DEF Goal, StrayInv
<1>4. ASSUME Ack(l) PROVE Goal(l)
  <2>1. /\ pages'[l].reader = "reading" /\ pages'[l].topics = pages[l].topics
        /\ pages'[l].writer = pages[l].writer
        /\ promises'[l].strays = 0
        /\ promises'[l].asked = IF pages[l].op = "subscribe"
                                THEN promises[l].asked \cup pages[l].named
                                ELSE promises[l].asked \ pages[l].named
    BY <1>0, <1>4 DEF Ack, Page, Promise
  <2>2. Wanted(l) = promises[l].asked \cup pages[l].named /\ Wanted(l)' = promises'[l].asked
    BY <1>4, <2>1 DEF Ack, Wanted
  <2>3. pages[l].op \in {"subscribe", "unsubscribe"} /\ pages[l].reader = "acking"
    BY <1>0, <1>4 DEF Ack, Page
  <2>4. pages[l].topics \subseteq Wanted(l)'
    BY <2>1, <2>2, <2>3 DEF StrayInv
  <2>. QED
    BY <2>1, <2>3, <2>4 DEF Goal, StrayInv
<1>5. ASSUME Pump(l) PROVE Goal(l)
  <2>1. /\ pages'[l].reader = pages[l].reader /\ pages'[l].topics = pages[l].topics
        /\ pages'[l].op = pages[l].op /\ pages'[l].named = pages[l].named
        /\ pages'[l].writer = "off" => pages[l].writer = "off"
        /\ promises' = promises
        /\ pages'[l].hand = NoEvent \/ Match(pages[l].topics, pages'[l].hand)
    BY <1>0, <1>5 DEF Pump, Page
  <2>2. Wanted(l)' = Wanted(l)
    BY <2>1 DEF Wanted
  <2>3. pages'[l].hand = NoEvent \/ Match(Wanted(l)', pages'[l].hand)
    BY <2>1, <2>2, MatchGrows DEF StrayInv
  <2>. QED
    BY <2>1, <2>2, <2>3 DEF Goal, StrayInv
<1>6. ASSUME Offer(l) PROVE Goal(l)
  <2>1. /\ pages'[l].reader = pages[l].reader /\ pages'[l].topics = pages[l].topics
        /\ pages'[l].op = pages[l].op /\ pages'[l].named = pages[l].named
        /\ pages'[l].writer = "off" => pages[l].writer = "off"
        /\ pages'[l].hand = NoEvent
        /\ promises'[l].asked = promises[l].asked
    BY <1>0, <1>6 DEF Offer, Page, Promise
  <2>2. promises'[l].strays = IF HasSpace(l) /\ ~ Match(Wanted(l), pages[l].hand)
                              THEN promises[l].strays + 1 ELSE promises[l].strays
    BY <1>0, <1>6 DEF Offer, Promise
  <2>3. promises'[l].strays \in {0, 1}
    BY <1>6, <2>2 DEF Offer, StrayInv
  <2>4. Wanted(l)' = Wanted(l)
    BY <2>1 DEF Wanted
  <2>. QED
    BY <2>1, <2>3, <2>4 DEF Goal, StrayInv
<1>7. ASSUME WriterEnds(l) PROVE Goal(l)
  <2>1. pages'[l].topics = {} /\ promises'[l].strays = 0 /\ pages'[l].writer = "gone"
    BY <1>0, <1>7 DEF WriterEnds, Page, NoPromise
  <2>. QED
    BY <2>1 DEF Goal
<1>8. ASSUME ReaderEnds(l) PROVE Goal(l)
  <2>1. /\ pages'[l].reader = "gone" /\ pages[l].reader = "reading"
        /\ pages'[l].topics = pages[l].topics /\ pages'[l].hand = pages[l].hand
        /\ pages'[l].writer = pages[l].writer /\ promises' = promises
    BY <1>0, <1>8 DEF ReaderEnds, Page
  <2>2. Wanted(l)' = Wanted(l)
    BY <2>1 DEF Wanted
  <2>. QED
    BY <2>1, <2>2 DEF Goal, StrayInv
<1>9. ASSUME Open(l) PROVE Goal(l)
  <2>1. /\ pages'[l].reader = "reading"
        /\ pages'[l].topics = pages[l].topics /\ pages'[l].hand = pages[l].hand
        /\ pages'[l].writer = "starting" /\ pages[l].writer = "off" /\ promises' = promises
    BY <1>0, <1>9 DEF Open, IsPage, Page
  <2>. QED
    BY <2>1 DEF Goal, StrayInv, Wanted
<1>10. ASSUME Hello(l) \/ Write(l) \/ Leave(l) \/ PumperEnds(l) \/ WriterNotices(l)
       PROVE Goal(l)
  <2>1. /\ pages'[l].reader = pages[l].reader /\ pages'[l].topics = pages[l].topics
        /\ pages'[l].op = pages[l].op /\ pages'[l].named = pages[l].named
        /\ pages'[l].writer = "off" => pages[l].writer = "off"
        /\ pages'[l].hand = pages[l].hand
        /\ promises' = promises
    <3>1. CASE Hello(l)
      BY <1>0, <3>1 DEF Hello, Page
    <3>2. CASE Write(l)
      BY <1>0, <3>2 DEF Write, Page
    <3>3. CASE Leave(l)
      BY <1>0, <3>3 DEF Leave, Page
    <3>4. CASE PumperEnds(l)
      BY <1>0, <3>4 DEF PumperEnds, Page
    <3>5. CASE WriterNotices(l)
      BY <1>0, <3>5 DEF WriterNotices, Page
    <3>. QED
      BY <1>10, <3>1, <3>2, <3>3, <3>4, <3>5
  <2>2. Wanted(l)' = Wanted(l)
    BY SMTT(20), <2>1 DEF Wanted
  <2>. QED
    BY <2>1, <2>2 DEF Goal, StrayInv
<1>11. ASSUME NEW m \in Listeners, m # l,
              \/ Open(m) \/ ReadFrame(m) \/ Leave(m) \/ Ack(m) \/ ReaderEnds(m) \/ Pump(m)
              \/ Offer(m) \/ PumperEnds(m) \/ Hello(m) \/ Write(m) \/ WriterNotices(m)
              \/ WriterEnds(m)
       PROVE  pages'[l] = pages[l] /\ promises'[l] = promises[l]
  BY <1>0, <1>11 DEF Open, ReadFrame, Leave, Ack, ReaderEnds, Pump, Offer, PumperEnds,
                     Hello, Write, WriterNotices, WriterEnds
<1>12. ASSUME NEW m \in Listeners,
              \/ Release(m) \/ StartFollow(m) \/ Bridged(m) \/ Handle(m) \/ GiveUp(m)
              \/ ReadLine(m) \/ PrintLine(m) \/ Interrupt(m) \/ EndOfStream(m)
       PROVE pages'[l] = pages[l] /\ promises'[l] = promises[l]
  BY <1>12 DEF Release, StartFollow, Bridged, Handle, GiveUp, ReadLine, PrintLine,
               Interrupt, EndOfStream, clientVars
<1>13. UNCHANGED allVars => pages'[l] = pages[l] /\ promises'[l] = promises[l]
  BY DEF allVars, clientVars
<1>. QED
  BY <1>1, <1>2, <1>3, <1>4, <1>5, <1>6, <1>7, <1>8, <1>9, <1>10, <1>11, <1>12, <1>13
     DEF ClientsNext, Reader, Pumper, Writer

\* Between two answers a page is sent at most one event it did not ask for,
\* however its reader, its pumper and the publishers interleave.
THEOREM PagesGetAtMostOneStray == ClientsSpec => []AtMostOneStray
<1>1. ClientsInit => StrayInv
  BY DEF ClientsInit, StrayInv, NoPage, NoPromise, Wanted
<1>2. StrayInv => AtMostOneStray
  BY DEF StrayInv, AtMostOneStray
<1>. QED
  BY <1>1, <1>2, StrayStep, ClientsTypes, PTL DEF ClientsSpec

-----------------------------------------------------------------------------
(***************************************************************************)
(* The promise of an answer.  A page that has not returned is attached to  *)
(* the bus, so what is recorded for it enters its channel; the topics it   *)
(* was told of are among those the pumper matches against, so what is owed *)
(* stays in the channel until the pumper holds it.                         *)
(***************************************************************************)
BridgeShape ==
  /\ bridges = [l \in Listeners |-> bridges[l]]
  /\ \A l \in Listeners : bridges[l] = [pc |-> bridges[l].pc, since |-> bridges[l].since,
                                        backlog |-> bridges[l].backlog]

AttachedInv ==
  \A l \in Listeners :
    pages[l].writer \in {"starting", "running", "leaving"}
      => bridges[l].pc # "gone" /\ l \in subs

LEMMA BridgeStep == BridgeShape /\ [ClientsNext]_allVars => BridgeShape'
<1>. SUFFICES ASSUME BridgeShape, [Next]_vars PROVE BridgeShape'
  BY ClientStep
<1>0. bridges = [l \in Listeners |-> bridges[l]]
  BY DEF BridgeShape
<1>1. ASSUME NEW l \in Listeners, NEW pc, NEW since, NEW backlog,
             bridges' = [m \in Listeners |-> bridges'[m]],
             \A m \in Listeners \ {l} : bridges'[m] = bridges[m],
             bridges'[l] = [pc |-> pc, since |-> since, backlog |-> backlog]
      PROVE BridgeShape'
  BY <1>1 DEF BridgeShape
<1>2. ASSUME NEW l \in Listeners, NEW pc,
             bridges' = [bridges EXCEPT ![l].pc = pc]
      PROVE BridgeShape'
  <2>. DEFINE since == bridges[l].since  backlog == bridges[l].backlog
  <2>1. bridges[l] = [pc |-> bridges[l].pc, since |-> since, backlog |-> backlog]
    BY DEF BridgeShape
  <2>. HIDE DEF since, backlog
  <2>2. bridges'[l] = [pc |-> pc, since |-> since, backlog |-> backlog]
    BY <1>0, <1>2, <2>1
  <2>. QED
    BY <1>0, <1>1, <1>2, <2>2
<1>3. ASSUME NEW l \in Listeners, NEW backlog,
             bridges' = [bridges EXCEPT ![l].backlog = backlog]
      PROVE BridgeShape'
  <2>. DEFINE pc == bridges[l].pc  since == bridges[l].since
  <2>1. bridges[l] = [pc |-> pc, since |-> since, backlog |-> bridges[l].backlog]
    BY DEF BridgeShape
  <2>. HIDE DEF pc, since
  <2>2. bridges'[l] = [pc |-> pc, since |-> since, backlog |-> backlog]
    BY <1>0, <1>3, <2>1
  <2>. QED
    BY <1>0, <1>1, <1>3, <2>2
<1>4. ASSUME NEW l \in Listeners, NEW pc, NEW since, NEW backlog,
             bridges' = [bridges EXCEPT ![l] = [pc |-> pc, since |-> since, backlog |-> backlog]]
      PROVE BridgeShape'
  BY <1>0, <1>1, <1>4
<1>5. ASSUME NEW l \in Listeners, Subscribe(l) PROVE BridgeShape'
  BY <1>4, <1>5 DEF Subscribe
<1>6. ASSUME NEW l \in Listeners, GoLive(l) PROVE BridgeShape'
  BY <1>2, <1>6 DEF GoLive
<1>7. ASSUME NEW l \in Listeners, ForwardHistory(l) PROVE BridgeShape'
  <2>1. \E backlog : bridges' = [bridges EXCEPT ![l].backlog = backlog]
    BY <1>7 DEF ForwardHistory
  <2>. QED
    BY <1>3, <2>1
<1>8. ASSUME NEW l \in Listeners, ReadHistory(l) \/ HangUp(l) PROVE BridgeShape'
  BY <1>4, <1>8 DEF ReadHistory, HangUp
<1>9. ASSUME bridges' = bridges PROVE BridgeShape'
  BY <1>9 DEF BridgeShape
<1>10. ASSUME NEW p \in Publishers, Stamp(p) \/ Record(p) PROVE BridgeShape'
  BY <1>9, <1>10 DEF Stamp, Record
<1>11. ASSUME NEW l \in Listeners,
              ForwardLive(l) \/ Receive(l) \/ Unsubscribe(l) \/ CloseChannel(l)
       PROVE BridgeShape'
  BY <1>9, <1>11 DEF ForwardLive, Receive, Unsubscribe, CloseChannel
<1>12. UNCHANGED vars => bridges' = bridges
  BY DEF vars
<1>. QED
  BY <1>5, <1>6, <1>7, <1>8, <1>9, <1>10, <1>11, <1>12 DEF Next

LEMMA AttachedStep ==
  PagesTypeOK /\ BridgeShape /\ AttachedInv /\ [ClientsNext]_allVars => AttachedInv'
<1>. SUFFICES ASSUME PagesTypeOK, BridgeShape, AttachedInv, [ClientsNext]_allVars,
                     NEW l \in Listeners,
                     pages'[l].writer \in {"starting", "running", "leaving"}
              PROVE  bridges'[l].pc # "gone" /\ l \in subs'
  BY DEF AttachedInv
<1>0. pages \in [Listeners -> Page] /\ \A m \in Listeners : pages[m] \in Page
  BY DEF PagesTypeOK
<1>1. ASSUME pages[l].writer = pages'[l].writer, bridges'[l] = bridges[l],
             l \in subs => l \in subs'
      PROVE  bridges'[l].pc # "gone" /\ l \in subs'
  BY <1>1 DEF AttachedInv
<1>2. CASE Open(l)
  <2>1. PICK since \in 0 .. clock :
          bridges' = [bridges EXCEPT ![l] =
                        [pc |-> "attached", since |-> since, backlog |-> <<>>]]
    BY <1>2 DEF Open, Subscribe
  <2>2. bridges'[l].pc = "attached"
    BY <2>1 DEF BridgeShape
  <2>. QED
    BY <1>2, <2>2 DEF Open, Subscribe
<1>3. ASSUME NEW p \in Publishers, Publish(p)
      PROVE  bridges'[l].pc # "gone" /\ l \in subs'
  BY <1>1, <1>3 DEF Publish, Stamp, Record
<1>4. CASE Hello(l) \/ WriterNotices(l)
  <2>1. pages[l].writer \in {"starting", "running"} /\ UNCHANGED vars
    BY <1>4 DEF Hello, WriterNotices
  <2>. QED
    BY <2>1 DEF AttachedInv, vars, busVars
<1>5. CASE WriterEnds(l)
  BY <1>0, <1>5 DEF WriterEnds, Page
<1>6. CASE ReadFrame(l)
  BY <1>0, <1>1, <1>6 DEF ReadFrame, Page, vars, busVars
<1>7. CASE Ack(l)
  BY <1>0, <1>1, <1>7 DEF Ack, Page, vars, busVars
<1>8. CASE Pump(l)
  BY <1>0, <1>1, <1>8 DEF Pump, Receive, Page
<1>9. CASE Offer(l)
  BY <1>0, <1>1, <1>9 DEF Offer, Page, vars, busVars
<1>10. CASE Write(l)
  BY <1>0, <1>1, <1>10 DEF Write, Page, vars, busVars
<1>11. CASE Leave(l)
  BY <1>0, <1>1, <1>11 DEF Leave, Page, vars, busVars
<1>12. CASE ReaderEnds(l)
  BY <1>0, <1>1, <1>12 DEF ReaderEnds, Page, vars, busVars
<1>13. CASE PumperEnds(l)
  BY <1>0, <1>1, <1>13 DEF PumperEnds, Page, vars, busVars
<1>14. ASSUME NEW m \in Listeners, m # l,
              \/ Open(m) \/ ReadFrame(m) \/ Leave(m) \/ Ack(m) \/ ReaderEnds(m) \/ Pump(m)
              \/ Offer(m) \/ PumperEnds(m) \/ Hello(m) \/ Write(m) \/ WriterNotices(m)
              \/ WriterEnds(m)
       PROVE  bridges'[l].pc # "gone" /\ l \in subs'
  <2>1. pages'[l] = pages[l]
    BY <1>0, <1>14 DEF Open, ReadFrame, Leave, Ack, ReaderEnds, Pump, Offer, PumperEnds,
                       Hello, Write, WriterNotices, WriterEnds
  <2>2. bridges'[l] = bridges[l] /\ (l \in subs => l \in subs')
    <3>1. CASE Open(m) \/ Pump(m) \/ WriterEnds(m)
      BY <1>14, <3>1 DEF Open, Subscribe, Pump, Receive, WriterEnds, HangUp, busVars,
                         BridgeShape
    <3>2. CASE UNCHANGED vars
      BY <3>2 DEF vars, busVars
    <3>. QED
      BY <1>14, <3>1, <3>2 DEF ReadFrame, Leave, Ack, ReaderEnds, Offer, PumperEnds,
                               Hello, Write, WriterNotices
  <2>. QED
    BY <1>1, <2>1, <2>2
<1>15. ASSUME NEW m \in Listeners, StartFollow(m) \/ Bridged(m) \/ GiveUp(m) \/ Interrupt(m)
       PROVE  bridges'[l].pc # "gone" /\ l \in subs'
  <2>1. pages' = pages /\ ~ IsPage(m)
    BY <1>15 DEF StartFollow, Bridged, GiveUp, Interrupt, clientVars
  <2>2. m # l
    BY <2>1 DEF IsPage
  <2>3. bridges'[l] = bridges[l] /\ (l \in subs => l \in subs')
    BY <1>15, <2>2 DEF StartFollow, Subscribe, Bridged, ReadHistory, GoLive, ForwardHistory,
         ForwardLive, GiveUp, Interrupt, HangUp, busVars, BridgeShape
  <2>. QED
    BY <1>1, <2>1, <2>3
<1>16. ASSUME NEW m \in Listeners, Release(m)
       PROVE  bridges'[l].pc # "gone" /\ l \in subs'
  <2>1. pages' = pages /\ bridges' = bridges
    BY <1>16 DEF Release, clientVars, Unsubscribe, CloseChannel
  <2>2. l \in subs => l \in subs'
    BY <1>16, <2>1 DEF Release, Unsubscribe, CloseChannel, AttachedInv
  <2>. QED
    BY <1>1, <2>1, <2>2
<1>17. ASSUME NEW m \in Listeners,
              Handle(m) \/ ReadLine(m) \/ PrintLine(m) \/ EndOfStream(m)
       PROVE  bridges'[l].pc # "gone" /\ l \in subs'
  BY <1>1, <1>17 DEF Handle, ReadLine, PrintLine, EndOfStream, vars, busVars
<1>18. CASE UNCHANGED allVars
  BY <1>1, <1>18 DEF allVars, clientVars, vars, busVars
<1>. QED
  BY <1>2, <1>3, <1>4, <1>5, <1>6, <1>7, <1>8, <1>9, <1>10, <1>11, <1>12, <1>13, <1>14,
     <1>15, <1>16, <1>17, <1>18 DEF ClientsNext, Reader, Pumper, Writer

LEMMA ContainsAppend ==
  ASSUME NEW s \in Seq(Events), NEW d \in Events, NEW e, Contains(s, e) \/ e = d
  PROVE  Contains(Append(s, d), e)
  BY DEF Contains

LEMMA ContainsTail ==
  ASSUME NEW s \in Seq(Events), NEW e, Contains(s, e), e # Head(s)
  PROVE  Contains(Tail(s), e)
<1>1. PICK i \in 1 .. Len(s) : s[i] = e
  BY DEF Contains
<1>2. i # 1 /\ i - 1 \in 1 .. Len(Tail(s)) /\ Tail(s)[i - 1] = e
  BY <1>1
<1>. QED
  BY <1>2 DEF Contains

Kept(l) ==
  /\ pages[l].writer = "off" =>
       /\ pages[l].pumper = "off"
       /\ promises[l].told = {} /\ promises[l].owed = {}
  /\ pages[l].writer # "gone" =>
       /\ promises[l].told \subseteq pages[l].topics
       /\ pages[l].reader = "acking" /\ pages[l].op = "subscribe"
            => pages[l].named \subseteq pages[l].topics
       /\ \A e \in promises[l].owed :
            /\ Match(promises[l].told, e)
            /\ e = pages[l].hand \/ Contains(queues[l], e)

KeptInv == \A l \in Listeners : Kept(l)

LEMMA KeptStep ==
  /\ BusTypeOK /\ PagesTypeOK /\ StrayInv /\ AttachedInv /\ KeptInv
  /\ [ClientsNext]_allVars
  => KeptInv'
<1>. SUFFICES ASSUME BusTypeOK, PagesTypeOK, StrayInv, AttachedInv, KeptInv,
                     [ClientsNext]_allVars,
                     NEW l \in Listeners
              PROVE  Kept(l)'
  BY Zenon DEF KeptInv
<1>0. /\ pages \in [Listeners -> Page] /\ \A m \in Listeners : pages[m] \in Page
      /\ promises \in [Listeners -> Promise] /\ \A m \in Listeners : promises[m] \in Promise
      /\ queues \in [Listeners -> Seq(Events)]
  BY DEF PagesTypeOK, BusTypeOK
<1>a. Kept(l)
  BY DEF KeptInv
<1>1. ASSUME pages'[l] = pages[l], promises'[l] = promises[l], queues'[l] = queues[l]
      PROVE  Kept(l)'
  BY <1>1, <1>a DEF Kept
<1>2. ASSUME NEW p \in Publishers, Publish(p) PROVE Kept(l)'
  <2>1. pages' = pages
    BY <1>2 DEF Publish
  <2>2. CASE Stamp(p)
    <3>1. promises'[l] = promises[l] /\ queues' = queues
      BY <1>0, <1>2, <2>2 DEF Publish, Stamp
    <3>. QED
      BY <1>1, <2>1, <3>1
  <2>3. CASE Record(p)
    <3>. DEFINE d == drafts[p]
    <3>1. d \in Events
      BY <2>3 DEF Record, BusTypeOK
    <3>2. queues'[l] = IF l \in subs /\ HasRoom(l) THEN Append(queues[l], d) ELSE queues[l]
      BY <2>3 DEF Record
    <3>3. promises'[l].told = promises[l].told
      BY <1>0, <1>2 DEF Publish, Promise
    <3>4. \/ promises'[l].owed = promises[l].owed
          \/ /\ promises'[l].owed = promises[l].owed \cup {d}
             /\ Len(queues[l]) < BufSize /\ Match(promises[l].told, d)
      BY <1>0, <1>2 DEF Publish, Promise
    <3>5. \A e \in promises'[l].owed \ promises[l].owed :
            /\ pages[l].writer # "gone" => Contains(queues'[l], e)
            /\ Match(promises[l].told, e) /\ pages[l].writer # "off"
      <4>1. SUFFICES ASSUME promises'[l].owed = promises[l].owed \cup {d},
                            Len(queues[l]) < BufSize, Match(promises[l].told, d)
                     PROVE  /\ pages[l].writer # "gone" => Contains(queues'[l], d)
                            /\ pages[l].writer # "off"
        BY <3>4
      <4>2. pages[l].writer # "off"
        BY <1>a, <4>1 DEF Kept, Match
      <4>3. ASSUME pages[l].writer # "gone" PROVE l \in subs
        BY <1>0, <4>2, <4>3 DEF AttachedInv, Page
      <4>4. ASSUME pages[l].writer # "gone" PROVE Contains(queues'[l], d)
        BY <1>0, <3>1, <3>2, <4>1, <4>3, <4>4, ContainsAppend DEF HasRoom
      <4>. QED
        BY <4>2, <4>4
    <3>6. \A e : Contains(queues[l], e) => Contains(queues'[l], e)
      BY <1>0, <3>1, <3>2, ContainsAppend
    <3>7. promises'[l].owed \subseteq promises[l].owed \cup {d}
      BY <3>4
    <3>. HIDE DEF d
    <3>. QED
      BY <1>a, <2>1, <3>3, <3>5, <3>6 DEF Kept
  <2>. QED
    BY <1>2, <2>2, <2>3 DEF Publish
<1>3. CASE ReadFrame(l)
  <2>1. PICK op \in {"subscribe", "unsubscribe"}, named \in Requests :
          /\ pages' = [pages EXCEPT ![l] = [pages[l] EXCEPT
               !.reader = "acking", !.op = op, !.named = named,
               !.topics = Changed(pages[l].topics, op, named), !.frames = @ + 1]]
          /\ LET told == promises[l].told \ (IF op = "unsubscribe" THEN named ELSE {})
             IN  promises' = [promises EXCEPT ![l] = [promises[l] EXCEPT
                   !.told = told, !.owed = {e \in @ : Match(told, e)}]]
    BY <1>3 DEF ReadFrame
  <2>. DEFINE told == promises[l].told \ (IF op = "unsubscribe" THEN named ELSE {})
  <2>2. /\ pages'[l].reader = "acking" /\ pages'[l].op = op /\ pages'[l].named = named
        /\ pages'[l].topics = Changed(pages[l].topics, op, named)
        /\ pages'[l].hand = pages[l].hand /\ pages'[l].writer = pages[l].writer
    BY <1>0, <2>1 DEF Page
  <2>3. promises'[l].told = told /\ promises'[l].owed = {e \in promises[l].owed : Match(told, e)}
    BY <1>0, <2>1 DEF Promise
  <2>4. pages[l].writer # "off" /\ queues' = queues
    BY <1>3 DEF ReadFrame, StrayInv, vars, busVars
  <2>5. promises[l].told \subseteq pages[l].topics => told \subseteq pages'[l].topics
    BY <2>2 DEF Changed
  <2>6. op = "subscribe" => named \subseteq pages'[l].topics
    BY <2>2 DEF Changed
  <2>. HIDE DEF told
  <2>. QED
    BY <1>a, <2>2, <2>3, <2>4, <2>5, <2>6 DEF Kept
<1>4. CASE Ack(l)
  <2>1. /\ pages'[l].reader = "reading" /\ pages'[l].topics = pages[l].topics
        /\ pages'[l].hand = pages[l].hand /\ pages'[l].writer = pages[l].writer
        /\ pages[l].reader = "acking"
    BY <1>0, <1>4 DEF Ack, Page
  <2>2. /\ promises'[l].owed = promises[l].owed
        /\ \/ promises'[l].told = promises[l].told
           \/ /\ promises'[l].told = promises[l].told \cup pages[l].named
              /\ pages[l].op = "subscribe"
    BY <1>0, <1>4 DEF Ack, Promise
  <2>3. pages[l].writer # "off" /\ queues' = queues
    BY <1>4 DEF Ack, StrayInv, vars, busVars
  <2>4. \A e : Match(promises[l].told, e) => Match(promises'[l].told, e)
    BY <2>2 DEF Match
  <2>. QED
    BY <1>a, <2>1, <2>2, <2>3, <2>4 DEF Kept
<1>5. CASE Pump(l)
  <2>1. /\ pages'[l].reader = pages[l].reader /\ pages'[l].topics = pages[l].topics
        /\ pages'[l].op = pages[l].op /\ pages'[l].named = pages[l].named
        /\ pages'[l].writer = pages[l].writer
        /\ pages[l].pumper = "running" /\ pages[l].hand = NoEvent
        /\ promises' = promises
        /\ pages'[l].hand = IF Match(pages[l].topics, Head(queues[l]))
                            THEN Head(queues[l]) ELSE NoEvent
    BY <1>0, <1>5 DEF Pump, Page
  <2>2. queues'[l] = Tail(queues[l]) /\ queues[l] # <<>>
    BY <1>0, <1>5 DEF Pump, Receive
  <2>3. \A e \in promises[l].owed : e # NoEvent
    BY <1>0 DEF Promise, Events, NoEvent
  <2>4. ASSUME pages[l].writer # "gone", NEW e \in promises[l].owed
        PROVE  e = pages'[l].hand \/ Contains(queues'[l], e)
    <3>1. Contains(queues[l], e) /\ Match(promises[l].told, e)
      BY <1>a, <2>1, <2>3, <2>4 DEF Kept
    <3>2. CASE e = Head(queues[l])
      <4>1. promises[l].told \subseteq pages[l].topics
        BY <1>a, <2>4 DEF Kept
      <4>2. Match(pages[l].topics, e)
        BY <3>1, <4>1, MatchGrows
      <4>. QED
        BY <2>1, <3>2, <4>2
    <3>3. CASE e # Head(queues[l])
      BY <1>0, <2>2, <3>1, <3>3, ContainsTail
    <3>. QED
      BY <3>2, <3>3
  <2>. QED
    BY <1>a, <2>1, <2>4 DEF Kept
<1>6. CASE Offer(l)
  <2>1. /\ pages'[l].reader = pages[l].reader /\ pages'[l].topics = pages[l].topics
        /\ pages'[l].op = pages[l].op /\ pages'[l].named = pages[l].named
        /\ pages'[l].writer = pages[l].writer /\ pages'[l].pumper = pages[l].pumper
    BY <1>0, <1>6 DEF Offer, Page
  <2>2. /\ promises'[l].told = promises[l].told
        /\ promises'[l].owed = promises[l].owed \ {pages[l].hand}
    BY <1>0, <1>6 DEF Offer, Promise
  <2>3. queues' = queues
    BY <1>6 DEF Offer, vars, busVars
  <2>. QED
    BY <1>a, <2>1, <2>2, <2>3 DEF Kept
<1>7. CASE WriterEnds(l)
  <2>1. pages'[l].writer = "gone"
    BY <1>0, <1>7 DEF WriterEnds, Page
  <2>. QED
    BY <2>1 DEF Kept
<1>8. CASE Open(l)
  <2>1. /\ pages'[l].reader = "reading" /\ pages'[l].writer = "starting"
        /\ pages'[l].topics = pages[l].topics /\ pages'[l].hand = pages[l].hand
        /\ pages[l].writer = "off" /\ promises' = promises /\ queues' = queues
    BY <1>0, <1>8 DEF Open, Subscribe, IsPage, Page
  <2>. QED
    BY <1>a, <2>1 DEF Kept
<1>9. ASSUME pages'[l].reader \in {pages[l].reader, "gone"},
             pages'[l].topics = pages[l].topics, pages'[l].hand = pages[l].hand,
             pages'[l].op = pages[l].op, pages'[l].named = pages[l].named,
             pages[l].writer \in {"off", "gone"} => pages'[l].writer = pages[l].writer,
             pages'[l].writer = "off" =>
               pages[l].writer = "off" /\ pages'[l].pumper = pages[l].pumper,
             promises' = promises, queues' = queues
      PROVE  Kept(l)'
  BY <1>9, <1>a DEF Kept
<1>10. CASE Hello(l)
  BY <1>0, <1>9, <1>10 DEF Hello, Page, vars, busVars
<1>11. CASE Write(l)
  BY <1>0, <1>9, <1>11 DEF Write, Page, vars, busVars
<1>12. CASE Leave(l)
  BY <1>0, <1>9, <1>12 DEF Leave, Page, vars, busVars
<1>13. CASE PumperEnds(l)
  BY <1>0, <1>9, <1>13, <1>a DEF PumperEnds, Kept, Page, vars, busVars
<1>14. CASE WriterNotices(l)
  BY <1>0, <1>9, <1>14 DEF WriterNotices, Page, vars, busVars
<1>15. CASE ReaderEnds(l)
  BY <1>0, <1>9, <1>15 DEF ReaderEnds, Page, vars, busVars
<1>16. ASSUME NEW m \in Listeners, m # l,
              \/ Open(m) \/ ReadFrame(m) \/ Leave(m) \/ Ack(m) \/ ReaderEnds(m) \/ Pump(m)
              \/ Offer(m) \/ PumperEnds(m) \/ Hello(m) \/ Write(m) \/ WriterNotices(m)
              \/ WriterEnds(m)
       PROVE  Kept(l)'
  <2>1. pages'[l] = pages[l] /\ promises'[l] = promises[l]
    BY <1>0, <1>16 DEF Open, ReadFrame, Leave, Ack, ReaderEnds, Pump, Offer, PumperEnds,
                       Hello, Write, WriterNotices, WriterEnds
  <2>2. queues'[l] = queues[l]
    BY <1>0, <1>16 DEF Open, Subscribe, ReadFrame, Leave, Ack, ReaderEnds, Pump, Receive,
         Offer, PumperEnds, Hello, Write, WriterNotices, WriterEnds, HangUp, vars, busVars
  <2>. QED
    BY SMTT(20), <1>1, <2>1, <2>2
<1>17. ASSUME NEW m \in Listeners,
              \/ Release(m) \/ StartFollow(m) \/ Handle(m) \/ GiveUp(m)
              \/ ReadLine(m) \/ PrintLine(m) \/ Interrupt(m) \/ EndOfStream(m)
       PROVE Kept(l)'
  BY <1>1, <1>17 DEF Release, Unsubscribe, CloseChannel, StartFollow, Subscribe, Handle,
       GiveUp, HangUp, ReadLine, PrintLine, Interrupt, EndOfStream, clientVars, vars, busVars
<1>18. ASSUME NEW m \in Listeners, Bridged(m) PROVE Kept(l)'
  <2>1. UNCHANGED clientVars /\ pages[m].writer = "off"
    BY <1>18 DEF Bridged, IsPage
  <2>2. CASE m # l
    <3>1. queues'[l] = queues[l]
      BY <1>0, <1>18, <2>2 DEF Bridged, ReadHistory, GoLive, ForwardHistory, ForwardLive, busVars
    <3>. QED
      BY <1>1, <2>1, <3>1 DEF clientVars
  <2>3. CASE m = l
    BY <1>a, <2>1, <2>3 DEF Kept, clientVars
  <2>. QED
    BY <2>2, <2>3
<1>19. CASE UNCHANGED allVars
  BY <1>1, <1>19 DEF allVars, clientVars, vars, busVars
<1>. QED
  BY <1>2, <1>3, <1>4, <1>5, <1>6, <1>7, <1>8, <1>10, <1>11, <1>12, <1>13, <1>14,
     <1>15, <1>16, <1>17, <1>18, <1>19 DEF ClientsNext, Reader, Pumper, Writer

\* An event of a topic the page was told of reaches the pumper's hand, unless
\* the channel of the bus was full when it was recorded.
THEOREM PagesGetWhatTheyWerePromised == ClientsSpec => []PromiseKept
<1>. DEFINE Inv == BridgeShape /\ StrayInv /\ AttachedInv /\ KeptInv
<1>1. ClientsInit => Inv
  <2>1. ClientsInit => BridgeShape
    BY DEF ClientsInit, Init, BridgeShape
  <2>2. ClientsInit => StrayInv /\ AttachedInv /\ KeptInv
    BY DEF ClientsInit, StrayInv, AttachedInv, KeptInv, Kept, NoPage, NoPromise, Wanted
  <2>. QED
    BY <2>1, <2>2
<1>2. Inv => PromiseKept
  BY DEF KeptInv, Kept, PromiseKept
<1>3. BusTypeOK /\ PagesTypeOK /\ Inv /\ [ClientsNext]_allVars => Inv'
  BY BridgeStep, StrayStep, AttachedStep, KeptStep
<1>. HIDE DEF Inv
<1>. QED
  BY <1>1, <1>2, <1>3, ClientsTypes, PTL DEF ClientsSpec
-----------------------------------------------------------------------------
(***************************************************************************)
(* No gap.  The ring holds the newest events of the log, so that what is   *)
(* replayed is what the log ends with; and an event that a follower is due *)
(* is in one of the places between the bus and the terminal.               *)
(***************************************************************************)
LEMMA NothingToReplay == DOMAIN <<>> = {} /\ <<>> \in Backlog
<1>1. <<>> \in [{} -> Events]
  OBVIOUS
<1>2. {} \in SUBSET (1 .. RingSize)
  OBVIOUS
<1>. QED
  BY <1>1, <1>2 DEF Backlog

LEMMA WindowIs ==
  ASSUME BusTypeOK
  PROVE  /\ ringFill \in Nat /\ ringFill <= RingSize
         /\ Window \in Seq(Events \cup {NoEvent}) /\ Len(Window) = ringFill
<1>1. /\ ringNext \in Slots /\ ringFill \in 0 .. RingSize
      /\ ring \in [Slots -> Events \cup {NoEvent}]
  BY DEF BusTypeOK
<1>2. \A i \in 1 .. ringFill : (Oldest + i - 1) % RingSize \in Slots
  <2>. SUFFICES ASSUME NEW i \in 1 .. ringFill
                PROVE  (Oldest + i - 1) % RingSize \in Slots
    OBVIOUS
  <2>1. Oldest \in Slots
    BY <1>1, OldestIs, RingAssumption DEF Oldest, Slots
  <2>2. i \in 1 .. RingSize
    BY <1>1, RingAssumption
  <2>. QED
    BY <2>1, <2>2, SlotIs, RingAssumption DEF Slots
<1>3. \A i \in 1 .. ringFill : Window[i] \in Events \cup {NoEvent}
  BY <1>1, <1>2 DEF Window
<1>. QED
  BY <1>1, <1>3, RingAssumption DEF Window

\* What is replayed is newer than since, and so is an event.
LEMMA ReplayIs ==
  ASSUME BusTypeOK, NEW since \in 0 .. (MaxEvents + 1)
  PROVE  /\ Replay(since) \in Backlog
         /\ \A k \in 1 .. ringFill : Window[k] > since =>
              k \in DOMAIN Replay(since) /\ Replay(since)[k] = Window[k]
<1>. DEFINE S == {j \in 1 .. ringFill : Window[j] > since}
<1>1. S \in SUBSET (1 .. RingSize)
  BY WindowIs, RingAssumption
<1>2. \A j \in S : Window[j] \in Events
  <2>1. \A j \in 1 .. ringFill : Window[j] \in Events \cup {NoEvent}
    BY WindowIs
  <2>. QED
    BY <2>1, EventsAssumption DEF NoEvent, Events
<1>3. Replay(since) = [i \in S |-> Window[i]]
  BY DEF Replay
<1>. HIDE DEF S
<1>4. Replay(since) \in [S -> Events]
  BY <1>2, <1>3
<1>5. Replay(since) \in Backlog
  BY <1>1, <1>4 DEF Backlog
<1>6. \A k \in 1 .. ringFill : Window[k] > since => k \in S
  BY DEF S
<1>. QED
  BY <1>3, <1>5, <1>6

LEMMA MarkMoves ==
  ASSUME NEW m \in Mark, NEW n \in Nat
  PROVE  /\ [m EXCEPT !.missed = @ + 1] \in Mark
         /\ [m EXCEPT !.joined = n] \in Mark
         /\ [m EXCEPT !.replayed = n] \in Mark
<1>1. [m EXCEPT !.missed = @ + 1] \in Mark
  BY DEF Mark
<1>2. [m EXCEPT !.joined = n] \in Mark
  BY DEF Mark
<1>3. [m EXCEPT !.replayed = n] \in Mark
  BY DEF Mark
<1>. QED
  BY <1>1, <1>2, <1>3

ListenersTypeOK ==
  /\ bridges \in [Listeners -> Bridge]
  /\ streams \in [Listeners -> Seq(Events)]
  /\ log \in Seq(Events)
  /\ marks \in [Listeners -> Mark]

LEMMA ListenersTypeStep ==
  BusTypeOK /\ ListenersTypeOK /\ [Next]_vars => ListenersTypeOK'
<1>. SUFFICES ASSUME BusTypeOK, ListenersTypeOK, [Next]_vars
              PROVE  ListenersTypeOK'
  OBVIOUS
<1>. USE DEF ListenersTypeOK
<1>1. ASSUME NEW p \in Publishers, Stamp(p) PROVE ListenersTypeOK'
  BY <1>1 DEF Stamp
<1>2. ASSUME NEW p \in Publishers, Record(p) PROVE ListenersTypeOK'
  <2>1. drafts[p] \in Events
    BY <1>2 DEF Record, BusTypeOK
  <2>2. \A l \in Listeners : marks'[l] \in Mark
    <3>1. \A l \in Listeners : [marks[l] EXCEPT !.missed = @ + 1] \in Mark
      BY MarkMoves
    <3>. QED
      BY <1>2, <3>1 DEF Record
  <2>3. marks' \in [Listeners -> Mark]
    BY <1>2, <2>2 DEF Record
  <2>. QED
    BY <1>2, <2>1, <2>3 DEF Record
<1>3. ASSUME NEW l \in Listeners, Subscribe(l) PROVE ListenersTypeOK'
  <2>1. PICK since \in 0 .. clock :
          bridges' = [bridges EXCEPT ![l] =
                        [pc |-> "attached", since |-> since, backlog |-> <<>>]]
    BY <1>3 DEF Subscribe
  <2>2. since \in 0 .. (MaxEvents + 1)
    BY <2>1, EventsAssumption DEF BusTypeOK
  <2>3. [pc |-> "attached", since |-> since, backlog |-> <<>>] \in Bridge
    BY <2>2, NothingToReplay DEF Bridge
  <2>4. marks' \in [Listeners -> Mark]
    <3>1. marks' = [marks EXCEPT ![l] = [marks[l] EXCEPT !.joined = Len(log)]]
      BY <1>3 DEF Subscribe
    <3>2. marks[l] \in Mark /\ Len(log) \in Nat
      OBVIOUS
    <3>3. [marks[l] EXCEPT !.joined = Len(log)] \in Mark
      BY <3>2, MarkMoves
    <3>. QED
      BY <3>1, <3>3
  <2>. QED
    BY <1>3, <2>1, <2>3, <2>4 DEF Subscribe
<1>4. ASSUME NEW l \in Listeners, GoLive(l) PROVE ListenersTypeOK'
  BY <1>4 DEF GoLive, busVars, Bridge
<1>5. ASSUME NEW l \in Listeners, ReadHistory(l) PROVE ListenersTypeOK'
  <2>1. bridges[l].since \in 0 .. (MaxEvents + 1)
    BY DEF Bridge
  <2>2. [pc |-> "replaying", since |-> bridges[l].since,
         backlog |-> Replay(bridges[l].since)] \in Bridge
    BY <2>1, ReplayIs DEF Bridge
  <2>3. marks' \in [Listeners -> Mark]
    <3>1. marks' = [marks EXCEPT ![l] = [marks[l] EXCEPT !.replayed = Len(log)]]
      BY <1>5 DEF ReadHistory
    <3>2. marks[l] \in Mark /\ Len(log) \in Nat
      OBVIOUS
    <3>3. [marks[l] EXCEPT !.replayed = Len(log)] \in Mark
      BY <3>2, MarkMoves
    <3>. QED
      BY <3>1, <3>3
  <2>. QED
    BY <1>5, <2>2, <2>3 DEF ReadHistory, busVars
<1>6. ASSUME NEW l \in Listeners, ForwardHistory(l) PROVE ListenersTypeOK'
  <2>. DEFINE backlog == bridges[l].backlog
  <2>1. PICK i \in DOMAIN backlog :
          /\ streams' = [streams EXCEPT ![l] = Append(@, backlog[i])]
          /\ bridges' = [bridges EXCEPT ![l].backlog =
                           [j \in DOMAIN backlog \ {i} |-> backlog[j]]]
    BY <1>6 DEF ForwardHistory
  <2>2. PICK S \in SUBSET (1 .. RingSize) : backlog \in [S -> Events]
    <3>1. bridges[l] \in Bridge
      OBVIOUS
    <3>2. backlog \in Backlog
      BY <3>1 DEF Bridge
    <3>. QED
      BY <3>2 DEF Backlog
  <2>3. [j \in DOMAIN backlog \ {i} |-> backlog[j]] \in Backlog
    <3>1. [j \in DOMAIN backlog \ {i} |-> backlog[j]] \in [S \ {i} -> Events]
      BY <2>2
    <3>2. S \ {i} \in SUBSET (1 .. RingSize)
      OBVIOUS
    <3>. QED
      BY <3>1, <3>2 DEF Backlog
  <2>4. backlog[i] \in Events
    BY <2>1, <2>2
  <2>. HIDE DEF backlog
  <2>5. bridges' \in [Listeners -> Bridge]
    BY <2>1, <2>3 DEF Bridge
  <2>. QED
    BY <1>6, <2>1, <2>4, <2>5 DEF ForwardHistory, busVars
<1>7. ASSUME NEW l \in Listeners, ForwardLive(l) PROVE ListenersTypeOK'
  <2>1. Head(queues[l]) \in Events
    BY <1>7 DEF ForwardLive, BusTypeOK
  <2>. QED
    BY <1>7, <2>1 DEF ForwardLive
<1>8. ASSUME NEW l \in Listeners, HangUp(l) PROVE ListenersTypeOK'
  <2>1. [pc |-> "gone", since |-> bridges[l].since, backlog |-> <<>>] \in Bridge
    BY NothingToReplay DEF Bridge
  <2>. QED
    BY <1>8, <2>1 DEF HangUp, busVars
<1>9. ASSUME NEW l \in Listeners, Receive(l) \/ Unsubscribe(l) \/ CloseChannel(l)
      PROVE  ListenersTypeOK'
  BY <1>9 DEF Receive, Unsubscribe, CloseChannel
<1>10. CASE UNCHANGED vars
  BY <1>10 DEF vars, busVars
<1>. QED
  BY <1>1, <1>2, <1>3, <1>4, <1>5, <1>6, <1>7, <1>8, <1>9, <1>10 DEF Next

\* Bridges, streams and the log keep their shape.
THEOREM EventTypeCorrect == Spec => []TypeOK
<1>1. Init => ListenersTypeOK
  <2>1. [pc |-> "off", since |-> 0, backlog |-> <<>>] \in Bridge
    BY NothingToReplay, EventsAssumption DEF Bridge
  <2>2. [joined |-> 0, replayed |-> 0, missed |-> 0] \in Mark
    BY DEF Mark
  <2>. QED
    BY <2>1, <2>2 DEF Init, ListenersTypeOK
<1>2. BusTypeOK /\ ListenersTypeOK => TypeOK
  BY DEF TypeOK, ListenersTypeOK
<1>. QED
  BY <1>1, <1>2, ListenersTypeStep, BusTypeCorrect, PTL DEF Spec

\* The window is what the log ends with.
WindowInv ==
  /\ ringFill <= Len(log)
  /\ ringFill = RingSize \/ ringFill = Len(log)
  /\ \A k \in 1 .. ringFill : Window[k] = log[Len(log) - ringFill + k]

LEMMA WindowStep ==
  BusTypeOK /\ ListenersTypeOK /\ WindowInv /\ [Next]_vars => WindowInv'
<1>. SUFFICES ASSUME BusTypeOK, ListenersTypeOK, WindowInv, [Next]_vars
              PROVE  WindowInv'
  OBVIOUS
<1>0. log \in Seq(Events)
  BY DEF ListenersTypeOK
<1>1. ASSUME UNCHANGED <<ring, ringNext, ringFill, log>> PROVE WindowInv'
  BY <1>1 DEF WindowInv, Window, Oldest
<1>2. ASSUME NEW p \in Publishers, Record(p) PROVE WindowInv'
  <2>. DEFINE e == drafts[p]
  <2>1. Window' = Log!Remember(Window, e)
    BY <1>2, RecordRemembers
  <2>2. /\ ringFill \in Nat /\ ringFill <= RingSize
        /\ Window \in Seq(Events \cup {NoEvent}) /\ Len(Window) = ringFill
    BY WindowIs
  <2>3. /\ ringFill' = IF ringFill < RingSize THEN ringFill + 1 ELSE ringFill
        /\ log' = Append(log, e)
    BY <1>2 DEF Record
  <2>4. Window' = Append(IF ringFill < RingSize THEN Window ELSE Tail(Window), e)
    BY <2>1, <2>2 DEF Log!Remember
  <2>. HIDE DEF e
  <2>5. /\ ringFill' <= Len(log')
        /\ ringFill' = RingSize \/ ringFill' = Len(log')
    BY <1>0, <2>2, <2>3, RingAssumption DEF WindowInv
  <2>6. ASSUME NEW k \in 1 .. ringFill'
        PROVE  Window'[k] = log'[Len(log') - ringFill' + k]
    <3>1. CASE ringFill < RingSize
      <4>1. Window' = Append(Window, e) /\ ringFill' = ringFill + 1
        BY <2>3, <2>4, <3>1
      <4>2. CASE k = ringFill + 1
        BY <1>0, <2>2, <2>3, <4>1, <4>2
      <4>3. CASE k \in 1 .. ringFill
        <5>1. Window'[k] = Window[k]
          BY <2>2, <4>1, <4>3
        <5>2. Len(log) - ringFill + k \in 1 .. Len(log)
          BY <1>0, <2>2, <4>3 DEF WindowInv
        <5>3. Len(log') - ringFill' + k = Len(log) - ringFill + k
          BY <1>0, <2>2, <2>3, <4>1
        <5>4. log'[Len(log) - ringFill + k] = log[Len(log) - ringFill + k]
          BY <1>0, <2>3, <5>2
        <5>. QED
          BY <4>3, <5>1, <5>3, <5>4 DEF WindowInv
      <4>. QED
        BY <2>2, <4>1, <4>2, <4>3
    <3>2. CASE ~ (ringFill < RingSize)
      <4>1. /\ Window' = Append(Tail(Window), e) /\ ringFill' = ringFill
            /\ ringFill = RingSize /\ ringFill > 0
        BY <2>2, <2>3, <2>4, <3>2, RingAssumption
      <4>2. Tail(Window) \in Seq(Events \cup {NoEvent}) /\ Len(Tail(Window)) = ringFill - 1
        BY <2>2, <4>1
      <4>3. CASE k = ringFill
        <5>1. Window'[k] = e
          BY <2>2, <4>1, <4>2, <4>3
        <5>2. Len(log') - ringFill' + k = Len(log) + 1
          BY <1>0, <2>2, <2>3, <4>1, <4>3
        <5>. QED
          BY <1>0, <2>3, <5>1, <5>2
      <4>4. CASE k \in 1 .. (ringFill - 1)
        <5>1. Window'[k] = Window[k + 1]
          <6>1. Window'[k] = Tail(Window)[k]
            BY <2>2, <4>1, <4>2, <4>4
          <6>. QED
            BY <2>2, <4>1, <4>4, <6>1
        <5>2. Len(log) - ringFill + (k + 1) \in 1 .. Len(log)
          BY <1>0, <2>2, <4>4 DEF WindowInv
        <5>3. Len(log') - ringFill' + k = Len(log) - ringFill + (k + 1)
          BY <1>0, <2>2, <2>3, <4>1
        <5>4. log'[Len(log) - ringFill + (k + 1)] = log[Len(log) - ringFill + (k + 1)]
          BY <1>0, <2>3, <5>2
        <5>5. k + 1 \in 1 .. ringFill
          BY <2>2, <4>4
        <5>. QED
          BY <5>1, <5>3, <5>4, <5>5 DEF WindowInv
      <4>. QED
        BY <2>2, <4>1, <4>3, <4>4
    <3>. QED
      BY <3>1, <3>2
  <2>. QED
    BY <2>5, <2>6 DEF WindowInv
<1>3. ASSUME NEW p \in Publishers, Stamp(p) PROVE WindowInv'
  BY <1>1, <1>3 DEF Stamp
<1>4. ASSUME NEW l \in Listeners,
             \/ Subscribe(l) \/ ReadHistory(l) \/ GoLive(l) \/ ForwardHistory(l)
             \/ ForwardLive(l) \/ Receive(l) \/ HangUp(l) \/ Unsubscribe(l) \/ CloseChannel(l)
      PROVE  WindowInv'
  BY <1>1, <1>4 DEF Subscribe, ReadHistory, GoLive, ForwardHistory, ForwardLive, Receive,
       HangUp, Unsubscribe, CloseChannel, busVars
<1>5. CASE UNCHANGED vars
  BY <1>1, <1>5 DEF vars, busVars
<1>. QED
  BY <1>2, <1>3, <1>4, <1>5 DEF Next

\* A follower that reads the history gets every event of the log that is
\* newer than since and within the last RingSize.
LEMMA ReplayReaches ==
  ASSUME BusTypeOK, ListenersTypeOK, WindowInv, NEW since \in 0 .. (MaxEvents + 1),
         NEW i \in 1 .. Len(log), log[i] > since, i + RingSize > Len(log)
  PROVE  \E k \in DOMAIN Replay(since) : Replay(since)[k] = log[i]
<1>. DEFINE k == i - (Len(log) - ringFill)
<1>1. log \in Seq(Events)
  BY DEF ListenersTypeOK
<1>2. ringFill \in Nat
  BY WindowIs
<1>3. k \in 1 .. ringFill /\ Len(log) - ringFill + k = i
  BY <1>1, <1>2, RingAssumption DEF WindowInv
<1>. HIDE DEF k
<1>4. Window[k] = log[i]
  BY <1>3 DEF WindowInv
<1>. QED
  BY <1>3, <1>4, ReplayIs

-----------------------------------------------------------------------------
(***************************************************************************)
(* The shape of the followers.                                             *)
(***************************************************************************)
FollowTypeOK ==
  /\ follows \in [Listeners -> Follow]
  /\ \A l \in Listeners : /\ Len(follows[l].wire) <= WireSize
                          /\ Len(follows[l].inbox) <= InboxSize

LEMMA NoFollowIs == NoFollow \in Follow
<1>1. NoFollow.filter \in Filters
  BY FiltersAssumption DEF NoFollow
<1>. QED
  BY <1>1 DEF NoFollow, Follow

\* What a follower may become.
LEMMA FollowMoves ==
  ASSUME NEW f \in Follow
  PROVE  /\ f.taken \in Nat /\ f.wire \in Seq(Events) /\ f.inbox \in Seq(Events)
         /\ \A filter \in Filters : [f EXCEPT !.state = "on", !.filter = filter] \in Follow
         /\ [f EXCEPT !.state = "stopped"] \in Follow
         /\ [f EXCEPT !.state = "ended"] \in Follow
         /\ \A wire \in Seq(Events) :
              [f EXCEPT !.taken = @ + 1, !.wire = wire] \in Follow
         /\ \A wire \in Seq(Events), inbox \in Seq(Events) :
              [f EXCEPT !.wire = wire, !.inbox = inbox] \in Follow
         /\ \A inbox \in Seq(Events), printed \in SUBSET Events :
              [f EXCEPT !.inbox = inbox, !.printed = printed] \in Follow
<1>1. f.taken \in Nat /\ f.wire \in Seq(Events) /\ f.inbox \in Seq(Events)
  BY DEF Follow
<1>2. \A filter \in Filters : [f EXCEPT !.state = "on", !.filter = filter] \in Follow
  BY DEF Follow
<1>3. [f EXCEPT !.state = "stopped"] \in Follow
  BY DEF Follow
<1>4. [f EXCEPT !.state = "ended"] \in Follow
  BY DEF Follow
<1>5. \A wire \in Seq(Events) : [f EXCEPT !.taken = @ + 1, !.wire = wire] \in Follow
  <2>1. \A n \in Nat, wire \in Seq(Events) :
          [f EXCEPT !.taken = n, !.wire = wire] \in Follow
    BY DEF Follow
  <2>2. f.taken + 1 \in Nat
    BY <1>1
  <2>. QED
    BY <2>1, <2>2
<1>6. \A wire \in Seq(Events), inbox \in Seq(Events) :
        [f EXCEPT !.wire = wire, !.inbox = inbox] \in Follow
  BY DEF Follow
<1>7. \A inbox \in Seq(Events), printed \in SUBSET Events :
        [f EXCEPT !.inbox = inbox, !.printed = printed] \in Follow
  BY DEF Follow
<1>. QED
  BY <1>1, <1>2, <1>3, <1>4, <1>5, <1>6, <1>7

LEMMA FollowTypeStep ==
  ListenersTypeOK /\ FollowTypeOK /\ [ClientsNext]_allVars => FollowTypeOK'
<1>. SUFFICES ASSUME ListenersTypeOK, FollowTypeOK, [ClientsNext]_allVars
              PROVE  FollowTypeOK'
  OBVIOUS
<1>0. \A l \in Listeners : follows[l] \in Follow /\ streams[l] \in Seq(Events)
  BY DEF FollowTypeOK, ListenersTypeOK
<1>1. ASSUME NEW l \in Listeners, NEW f \in Follow,
             Len(f.wire) <= WireSize, Len(f.inbox) <= InboxSize,
             follows' = [follows EXCEPT ![l] = f]
      PROVE  FollowTypeOK'
  BY <1>1 DEF FollowTypeOK
<1>2. ASSUME UNCHANGED follows PROVE FollowTypeOK'
  BY <1>2 DEF FollowTypeOK
<1>3. ASSUME NEW l \in Listeners, StartFollow(l) PROVE FollowTypeOK'
  <2>1. PICK filter \in Filters :
          follows' = [follows EXCEPT ![l] = [follows[l] EXCEPT !.state = "on", !.filter = filter]]
    BY <1>3 DEF StartFollow
  <2>. DEFINE f == [follows[l] EXCEPT !.state = "on", !.filter = filter]
  <2>2. f \in Follow
    BY <1>0, FollowMoves
  <2>3. f.wire = follows[l].wire /\ f.inbox = follows[l].inbox
    BY <1>0 DEF Follow
  <2>. HIDE DEF f
  <2>4. follows' = [follows EXCEPT ![l] = f]
    BY <2>1 DEF f
  <2>. QED
    BY <1>1, <2>2, <2>3, <2>4 DEF FollowTypeOK
<1>4. ASSUME NEW l \in Listeners, Handle(l) PROVE FollowTypeOK'
  <2>. DEFINE e == streams[l][follows[l].taken + 1]
              passes == Passes(e, follows[l].filter)
              wire == IF passes THEN Append(follows[l].wire, e) ELSE follows[l].wire
              f == [follows[l] EXCEPT !.taken = @ + 1, !.wire = wire]
  <2>1. /\ follows' = [follows EXCEPT ![l] = f]
        /\ follows[l].taken < Len(streams[l])
        /\ passes => Len(follows[l].wire) < WireSize
    BY <1>4 DEF Handle
  <2>2. follows[l].taken \in Nat /\ follows[l].wire \in Seq(Events)
    BY <1>0, FollowMoves
  <2>3. e \in Events
    BY <1>0, <2>1, <2>2
  <2>. HIDE DEF e, passes
  <2>4. wire \in Seq(Events) /\ Len(wire) <= WireSize
    BY <2>1, <2>2, <2>3, SizesAssumption DEF FollowTypeOK
  <2>. HIDE DEF wire
  <2>5. f \in Follow
    BY <1>0, <2>4, FollowMoves
  <2>6. f.wire = wire /\ f.inbox = follows[l].inbox
    BY <1>0 DEF Follow
  <2>. HIDE DEF f
  <2>. QED
    BY <1>1, <2>1, <2>4, <2>5, <2>6 DEF FollowTypeOK
<1>5. ASSUME NEW l \in Listeners, ReadLine(l) PROVE FollowTypeOK'
  <2>. DEFINE wire == Tail(follows[l].wire)
              inbox == Append(follows[l].inbox, Head(follows[l].wire))
              f == [follows[l] EXCEPT !.wire = wire, !.inbox = inbox]
  <2>1. /\ follows' = [follows EXCEPT ![l] = f]
        /\ follows[l].wire # <<>>
        /\ Len(follows[l].inbox) < InboxSize
    BY <1>5 DEF ReadLine
  <2>2. follows[l].wire \in Seq(Events) /\ follows[l].inbox \in Seq(Events)
    BY <1>0, FollowMoves
  <2>3. wire \in Seq(Events) /\ Len(wire) <= WireSize
    BY <2>1, <2>2, SizesAssumption DEF FollowTypeOK
  <2>4. inbox \in Seq(Events) /\ Len(inbox) <= InboxSize
    BY <2>1, <2>2, SizesAssumption
  <2>. HIDE DEF wire, inbox
  <2>5. f \in Follow
    BY <1>0, <2>3, <2>4, FollowMoves
  <2>6. f.wire = wire /\ f.inbox = inbox
    BY <1>0 DEF Follow
  <2>. HIDE DEF f
  <2>. QED
    BY <1>1, <2>1, <2>3, <2>4, <2>5, <2>6
<1>6. ASSUME NEW l \in Listeners, PrintLine(l) PROVE FollowTypeOK'
  <2>. DEFINE inbox == Tail(follows[l].inbox)
              printed == follows[l].printed \cup {Head(follows[l].inbox)}
              f == [follows[l] EXCEPT !.inbox = inbox, !.printed = printed]
  <2>1. follows' = [follows EXCEPT ![l] = f] /\ follows[l].inbox # <<>>
    BY <1>6 DEF PrintLine
  <2>2. follows[l].inbox \in Seq(Events) /\ follows[l].printed \in SUBSET Events
    BY <1>0 DEF Follow
  <2>3. inbox \in Seq(Events) /\ Len(inbox) <= InboxSize
    BY <2>1, <2>2, SizesAssumption DEF FollowTypeOK
  <2>4. printed \in SUBSET Events
    BY <2>1, <2>2
  <2>. HIDE DEF inbox, printed
  <2>5. f \in Follow
    BY <1>0, <2>3, <2>4, FollowMoves
  <2>6. f.wire = follows[l].wire /\ f.inbox = inbox
    BY <1>0 DEF Follow
  <2>. HIDE DEF f
  <2>. QED
    BY <1>1, <2>1, <2>3, <2>5, <2>6 DEF FollowTypeOK
<1>7. ASSUME NEW l \in Listeners, Interrupt(l) \/ EndOfStream(l) PROVE FollowTypeOK'
  <2>. DEFINE f == IF Interrupt(l) THEN [follows[l] EXCEPT !.state = "stopped"]
                   ELSE [follows[l] EXCEPT !.state = "ended"]
  <2>1. follows' = [follows EXCEPT ![l] = f]
    BY <1>7 DEF Interrupt, EndOfStream
  <2>2. f \in Follow
    BY <1>0, FollowMoves
  <2>3. f.wire = follows[l].wire /\ f.inbox = follows[l].inbox
    BY <1>0 DEF Follow
  <2>. HIDE DEF f
  <2>. QED
    BY <1>1, <2>1, <2>2, <2>3 DEF FollowTypeOK
<1>8. ASSUME NEW l \in Listeners,
             \/ Open(l) \/ ReadFrame(l) \/ Leave(l) \/ Reader(l) \/ Pumper(l) \/ Writer(l)
             \/ Release(l) \/ Bridged(l) \/ GiveUp(l)
      PROVE  UNCHANGED follows
  BY <1>8 DEF Open, ReadFrame, Leave, Reader, Ack, ReaderEnds, Pumper, Pump, Offer,
       PumperEnds, Writer, Hello, Write, WriterNotices, WriterEnds, Release, Bridged,
       GiveUp, clientVars
<1>9. ASSUME NEW p \in Publishers, Publish(p) PROVE UNCHANGED follows
  BY <1>9 DEF Publish
<1>10. CASE UNCHANGED allVars
  BY <1>2, <1>10 DEF allVars, clientVars
<1>. QED
  BY <1>2, <1>3, <1>4, <1>5, <1>6, <1>7, <1>8, <1>9, <1>10 DEF ClientsNext

\* Pages and followers keep their shape, and no queue of theirs outgrows the
\* channel or the socket it stands for.
THEOREM ClientsTypeCorrect == ClientsSpec => []ClientsTypeOK
<1>1. ClientsInit => FollowTypeOK
  <2>1. NoFollow.wire = <<>> /\ NoFollow.inbox = <<>>
    BY DEF NoFollow
  <2>. QED
    BY <2>1, NoFollowIs, SizesAssumption DEF ClientsInit, FollowTypeOK
<1>2. PagesTypeOK /\ FollowTypeOK => ClientsTypeOK
  BY DEF ClientsTypeOK, FollowTypeOK
<1>3. TypeOK => ListenersTypeOK
  BY DEF TypeOK, ListenersTypeOK
<1>. QED
  BY <1>1, <1>2, <1>3, FollowTypeStep, ClientsTypes, ClientsUseBus, EventTypeCorrect, PTL
     DEF ClientsSpec

-----------------------------------------------------------------------------
(***************************************************************************)
(* No gap.  An event that is due to a follower is in one of the places     *)
(* between the bus and the terminal: the channel, what the bridge has yet  *)
(* to replay, its stream as far as the handler has not taken it, the       *)
(* socket, the channel of the command; or it is printed.                   *)
(***************************************************************************)
OnTheWay(l, e) ==
  \/ Contains(queues[l], e)
  \/ \E i \in DOMAIN bridges[l].backlog : bridges[l].backlog[i] = e
  \/ \E j \in (follows[l].taken + 1) .. Len(streams[l]) : streams[l][j] = e
  \/ Passes(e, follows[l].filter) =>
       \/ Contains(follows[l].wire, e) \/ Contains(follows[l].inbox, e)
       \/ e \in follows[l].printed

\* The events a follower is due: those recorded since it subscribed, and of
\* the history it has read those newer than since.
Due(l, i) ==
  \/ i > marks[l].joined
  \/ /\ bridges[l].pc \in {"replaying", "live"} /\ bridges[l].since # 0
     /\ log[i] > bridges[l].since /\ i + RingSize > marks[l].replayed

\* A follower misses nothing unless its channel was full, and as long as its
\* bridge has not returned.
MissesNothing(l) ==
  bridges[l].pc # "gone" /\ marks[l].missed = 0 =>
    \A i \in 1 .. Len(log) : Due(l, i) => OnTheWay(l, log[i])

Follows(l) ==
  /\ follows[l].taken <= Len(streams[l])
  /\ follows[l].state = "on" =>
       /\ pages[l].writer = "off"
       /\ bridges[l].pc # "off"
       /\ bridges[l].pc # "gone" => l \in subs
       /\ bridges[l].pc # "replaying" => DOMAIN bridges[l].backlog = {}
       /\ MissesNothing(l)

FollowInv == \A l \in Listeners : Follows(l)

\* What nobody touches stays as it is.
LEMMA FollowsFrame ==
  ASSUME NEW l \in Listeners, Follows(l),
         follows'[l] = follows[l], bridges'[l] = bridges[l], streams'[l] = streams[l],
         queues'[l] = queues[l], marks'[l] = marks[l], log' = log,
         pages'[l].writer = pages[l].writer, l \in subs => l \in subs'
  PROVE  Follows(l)'
  BY DEF Follows, MissesNothing, Due, OnTheWay

\* The steps of the bus, and of the other listeners, as one listener sees
\* them: either it is not concerned, or an event is recorded.
LEMMA OthersStep ==
  ASSUME BusTypeOK, ListenersTypeOK, PagesTypeOK, FollowTypeOK,
         NEW l \in Listeners, NEW m \in Listeners, m # l, Follows(l),
         \/ Open(m) \/ ReadFrame(m) \/ Leave(m) \/ Reader(m) \/ Pumper(m) \/ Writer(m)
         \/ Release(m) \/ StartFollow(m) \/ Bridged(m) \/ Handle(m) \/ GiveUp(m)
         \/ ReadLine(m) \/ PrintLine(m) \/ Interrupt(m) \/ EndOfStream(m)
  PROVE  Follows(l)'
<1>1. /\ pages \in [Listeners -> Page] /\ follows \in [Listeners -> Follow]
      /\ bridges \in [Listeners -> Bridge] /\ streams \in [Listeners -> Seq(Events)]
      /\ queues \in [Listeners -> Seq(Events)] /\ marks \in [Listeners -> Mark]
  BY DEF PagesTypeOK, FollowTypeOK, ListenersTypeOK, BusTypeOK
<1>2. pages'[l] = pages[l] /\ follows'[l] = follows[l]
  <2>1. CASE \/ Open(m) \/ ReadFrame(m) \/ Leave(m) \/ Reader(m) \/ Pumper(m) \/ Writer(m)
    BY <1>1, <2>1 DEF Open, ReadFrame, Leave, Reader, Ack, ReaderEnds, Pumper, Pump, Offer,
         PumperEnds, Writer, Hello, Write, WriterNotices, WriterEnds
  <2>2. CASE \/ Release(m) \/ StartFollow(m) \/ Bridged(m) \/ Handle(m) \/ GiveUp(m)
             \/ ReadLine(m) \/ PrintLine(m) \/ Interrupt(m) \/ EndOfStream(m)
    BY <1>1, <2>2 DEF Release, StartFollow, Bridged, Handle, GiveUp, ReadLine, PrintLine,
         Interrupt, EndOfStream, clientVars
  <2>. QED
    BY <2>1, <2>2
<1>. DEFINE Untouched ==
       /\ bridges'[l] = bridges[l] /\ streams'[l] = streams[l] /\ queues'[l] = queues[l]
       /\ marks'[l] = marks[l] /\ log' = log /\ (l \in subs => l \in subs')
<1>3. Untouched
  <2>1. ASSUME Subscribe(m) PROVE Untouched
    BY <1>1, <2>1 DEF Subscribe
  <2>2. ASSUME ReadHistory(m) \/ GoLive(m) \/ ForwardHistory(m) \/ ForwardLive(m)
        PROVE  Untouched
    BY <1>1, <2>2 DEF ReadHistory, GoLive, ForwardHistory, ForwardLive, busVars
  <2>3. ASSUME HangUp(m) \/ Receive(m) \/ Unsubscribe(m) \/ CloseChannel(m) PROVE Untouched
    BY <1>1, <2>3 DEF HangUp, Receive, Unsubscribe, CloseChannel, busVars
  <2>4. ASSUME UNCHANGED vars PROVE Untouched
    BY <2>4 DEF vars, busVars
  <2>5. CASE Open(m) \/ StartFollow(m)
    BY <2>1, <2>5 DEF Open, StartFollow
  <2>6. CASE Bridged(m)
    BY <2>2, <2>6 DEF Bridged
  <2>7. CASE Pump(m) \/ WriterEnds(m) \/ GiveUp(m) \/ Interrupt(m) \/ Release(m)
    BY <2>3, <2>7 DEF Pump, WriterEnds, GiveUp, Interrupt, Release
  <2>8. CASE \/ ReadFrame(m) \/ Leave(m) \/ Ack(m) \/ ReaderEnds(m) \/ Offer(m)
             \/ PumperEnds(m) \/ Hello(m) \/ Write(m) \/ WriterNotices(m) \/ Handle(m)
             \/ ReadLine(m) \/ PrintLine(m) \/ EndOfStream(m)
    BY <2>4, <2>8 DEF ReadFrame, Leave, Ack, ReaderEnds, Offer, PumperEnds, Hello, Write,
         WriterNotices, Handle, ReadLine, PrintLine, EndOfStream
  <2>. QED
    BY <2>5, <2>6, <2>7, <2>8 DEF Reader, Pumper, Writer
<1>. QED
  BY <1>2, <1>3, FollowsFrame

\* An event that is recorded enters the channel of every follower that is
\* attached, or that follower has missed one.
LEMMA RecordFollows ==
  ASSUME BusTypeOK, ListenersTypeOK, NEW l \in Listeners, Follows(l),
         NEW p \in Publishers, Record(p), UNCHANGED <<pages, follows>>
  PROVE  Follows(l)'
<1>. DEFINE d == drafts[p]
<1>1. /\ queues \in [Listeners -> Seq(Events)] /\ Len(queues[l]) <= BufSize
      /\ log \in Seq(Events) /\ marks[l] \in Mark /\ d \in Events
  BY DEF BusTypeOK, ListenersTypeOK, Record
<1>2. /\ UNCHANGED <<subs, bridges, streams>> /\ log' = Append(log, d)
      /\ queues'[l] = IF l \in subs /\ HasRoom(l) THEN Append(queues[l], d) ELSE queues[l]
      /\ marks'[l] = IF l \in subs /\ Len(queues[l]) = BufSize
                     THEN [marks[l] EXCEPT !.missed = @ + 1] ELSE marks[l]
  BY DEF Record
<1>. HIDE DEF d
<1>3. /\ marks'[l].joined = marks[l].joined /\ marks'[l].replayed = marks[l].replayed
      /\ marks[l].missed \in Nat
      /\ l \in subs /\ Len(queues[l]) = BufSize => marks'[l].missed = marks[l].missed + 1
      /\ ~ (l \in subs /\ Len(queues[l]) = BufSize) => marks'[l] = marks[l]
  BY <1>1, <1>2 DEF Mark
<1>4. ASSUME follows[l].state = "on" PROVE MissesNothing(l)'
  <2>1. SUFFICES ASSUME bridges[l].pc # "gone", marks'[l].missed = 0,
                        NEW i \in 1 .. Len(log'), Due(l, i)'
                 PROVE  OnTheWay(l, log[i])'
    BY <1>2 DEF MissesNothing
  <2>2. l \in subs /\ MissesNothing(l)
    BY <1>4, <2>1 DEF Follows
  <2>3. Len(queues[l]) # BufSize /\ marks'[l] = marks[l] /\ marks[l].missed = 0
    BY <1>3, <2>1, <2>2
  <2>4. queues'[l] = Append(queues[l], d)
    BY <1>1, <1>2, <2>2, <2>3, BufAssumption DEF HasRoom
  <2>5. CASE i = Len(log) + 1
    <3>1. log'[i] = d
      BY <1>1, <1>2, <2>5
    <3>2. Contains(queues'[l], d)
      BY <1>1, <2>4, ContainsAppend
    <3>. QED
      BY <3>1, <3>2 DEF OnTheWay
  <2>6. CASE i \in 1 .. Len(log)
    <3>1. log'[i] = log[i]
      BY <1>1, <1>2, <2>6
    <3>2. Due(l, i)
      BY <1>2, <2>1, <2>3, <3>1 DEF Due
    <3>3. OnTheWay(l, log[i])
      BY <2>1, <2>2, <2>3, <2>6, <3>2 DEF MissesNothing
    <3>4. Contains(queues[l], log[i]) => Contains(queues'[l], log[i])
      BY <1>1, <2>4, ContainsAppend
    <3>. QED
      BY <1>2, <3>1, <3>3, <3>4 DEF OnTheWay
  <2>. QED
    BY <1>1, <1>2, <2>5, <2>6
<1>. QED
  BY <1>2, <1>4 DEF Follows

\* A listener that follows is no page.
LEMMA FollowerIsNoPage ==
  ASSUME KeptInv, NEW l \in Listeners, Follows(l),
         \/ Open(l) \/ Hello(l) \/ Pump(l) \/ WriterNotices(l) \/ WriterEnds(l)
  PROVE  follows[l].state # "on"
<1>1. CASE Open(l)
  BY <1>1 DEF Open, Subscribe, Follows
<1>2. CASE Hello(l) \/ WriterNotices(l) \/ WriterEnds(l)
  BY <1>2 DEF Hello, WriterNotices, WriterEnds, Follows
<1>3. CASE Pump(l)
  BY <1>3 DEF Pump, KeptInv, Kept, Follows
<1>. QED
  BY <1>1, <1>2, <1>3

\* The steps of the bridge.
LEMMA BridgedFollows ==
  ASSUME BusTypeOK, ListenersTypeOK, FollowTypeOK, WindowInv,
         NEW l \in Listeners, Follows(l), Bridged(l)
  PROVE  Follows(l)'
<1>0. /\ bridges \in [Listeners -> Bridge] /\ streams \in [Listeners -> Seq(Events)]
      /\ queues \in [Listeners -> Seq(Events)] /\ marks \in [Listeners -> Mark]
      /\ log \in Seq(Events) /\ follows[l].taken \in Nat
  BY FollowMoves DEF ListenersTypeOK, BusTypeOK, FollowTypeOK
<1>1. UNCHANGED clientVars
  BY DEF Bridged
<1>2. CASE ReadHistory(l)
  <2>1. /\ bridges[l].pc = "attached" /\ bridges[l].since # 0
        /\ bridges'[l] = [pc |-> "replaying", since |-> bridges[l].since,
                          backlog |-> Replay(bridges[l].since)]
        /\ marks'[l] = [marks[l] EXCEPT !.replayed = Len(log)]
        /\ UNCHANGED <<queues, streams, log, subs>>
    BY <1>0, <1>2 DEF ReadHistory, busVars
  <2>2. /\ marks'[l].replayed = Len(log) /\ marks'[l].joined = marks[l].joined
        /\ marks'[l].missed = marks[l].missed
    BY <1>0, <2>1 DEF Mark
  <2>3. /\ bridges'[l].pc = "replaying" /\ bridges'[l].since = bridges[l].since
        /\ bridges'[l].backlog = Replay(bridges[l].since)
    BY <2>1
  <2>4. bridges[l].since \in 0 .. (MaxEvents + 1)
    BY <1>0 DEF Bridge
  <2>5. ASSUME follows[l].state = "on" PROVE MissesNothing(l)'
    <3>1. SUFFICES ASSUME marks[l].missed = 0, NEW i \in 1 .. Len(log), Due(l, i)'
                   PROVE  OnTheWay(l, log[i])'
      BY <2>1, <2>2 DEF MissesNothing
    <3>2. MissesNothing(l) /\ DOMAIN bridges[l].backlog = {}
      BY <2>1, <2>5 DEF Follows
    <3>3. CASE i > marks[l].joined
      <4>1. OnTheWay(l, log[i])
        BY <2>1, <3>1, <3>2, <3>3 DEF MissesNothing, Due
      <4>. QED
        BY <1>1, <2>1, <3>2, <4>1 DEF OnTheWay, clientVars
    <3>4. CASE log[i] > bridges[l].since /\ i + RingSize > Len(log)
      <4>1. \E k \in DOMAIN Replay(bridges[l].since) : Replay(bridges[l].since)[k] = log[i]
        BY <2>4, <3>4, ReplayReaches
      <4>. QED
        BY <2>1, <2>3, <4>1 DEF OnTheWay
    <3>. QED
      BY <2>1, <2>2, <2>3, <3>1, <3>3, <3>4 DEF Due
  <2>. QED
    BY <1>1, <2>1, <2>3, <2>5 DEF Follows, clientVars
<1>3. CASE GoLive(l)
  <2>1. /\ \/ bridges[l].pc = "attached" /\ bridges[l].since = 0
           \/ bridges[l].pc = "replaying" /\ DOMAIN bridges[l].backlog = {}
        /\ bridges'[l] = [bridges[l] EXCEPT !.pc = "live"]
        /\ UNCHANGED <<queues, streams, log, subs, marks>>
    BY <1>0, <1>3 DEF GoLive, busVars
  <2>2. /\ bridges'[l].pc = "live" /\ bridges'[l].since = bridges[l].since
        /\ bridges'[l].backlog = bridges[l].backlog
    BY <1>0, <2>1 DEF Bridge
  <2>3. ASSUME follows[l].state = "on" PROVE DOMAIN bridges'[l].backlog = {}
    BY <2>1, <2>2, <2>3 DEF Follows
  <2>4. ASSUME follows[l].state = "on" PROVE MissesNothing(l)'
    <3>1. MissesNothing(l)
      BY <2>4 DEF Follows
    <3>2. \A i \in 1 .. Len(log) : Due(l, i)' => Due(l, i)
      BY <2>1, <2>2 DEF Due
    <3>3. \A e : OnTheWay(l, e) => OnTheWay(l, e)'
      BY <1>1, <2>1, <2>2 DEF OnTheWay, clientVars
    <3>. QED
      BY <2>1, <3>1, <3>2, <3>3 DEF MissesNothing
  <2>. QED
    BY <1>1, <2>1, <2>2, <2>3, <2>4 DEF Follows, clientVars
<1>4. CASE ForwardHistory(l)
  <2>. DEFINE backlog == bridges[l].backlog
  <2>1. PICK i \in DOMAIN backlog :
          /\ streams' = [streams EXCEPT ![l] = Append(@, backlog[i])]
          /\ bridges' = [bridges EXCEPT ![l].backlog =
                           [j \in DOMAIN backlog \ {i} |-> backlog[j]]]
    BY <1>4 DEF ForwardHistory
  <2>2. bridges[l].pc = "replaying" /\ UNCHANGED <<queues, log, subs, marks>>
    BY <1>4 DEF ForwardHistory, busVars
  <2>3. /\ bridges'[l].pc = bridges[l].pc /\ bridges'[l].since = bridges[l].since
        /\ bridges'[l].backlog = [j \in DOMAIN backlog \ {i} |-> backlog[j]]
    BY <1>0, <2>1 DEF Bridge
  <2>4. streams'[l] = Append(streams[l], backlog[i])
    BY <1>0, <2>1
  <2>. HIDE DEF backlog
  <2>5. /\ streams[l] \in Seq(Events) /\ Len(streams'[l]) = Len(streams[l]) + 1
        /\ streams'[l][Len(streams[l]) + 1] = backlog[i]
        /\ \A j \in 1 .. Len(streams[l]) : streams'[l][j] = streams[l][j]
    BY <1>0, <2>4
  <2>6. ASSUME NEW e, OnTheWay(l, e), follows[l].taken <= Len(streams[l])
        PROVE  OnTheWay(l, e)'
    <3>1. CASE \E j \in DOMAIN bridges[l].backlog : bridges[l].backlog[j] = e
      <4>1. PICK j \in DOMAIN backlog : backlog[j] = e
        BY <3>1 DEF backlog
      <4>2. CASE j = i
        <5>1. Len(streams[l]) + 1 \in (follows[l].taken + 1) .. Len(streams'[l])
          BY <1>0, <2>5, <2>6
        <5>. QED
          BY <1>1, <2>5, <4>1, <4>2, <5>1 DEF OnTheWay, clientVars
      <4>3. CASE j # i
        BY <2>3, <4>1, <4>3 DEF OnTheWay
      <4>. QED
        BY <4>2, <4>3
    <3>2. CASE \E j \in (follows[l].taken + 1) .. Len(streams[l]) : streams[l][j] = e
      <4>1. PICK j \in (follows[l].taken + 1) .. Len(streams[l]) : streams[l][j] = e
        BY <3>2
      <4>2. j \in 1 .. Len(streams[l]) /\ j \in (follows[l].taken + 1) .. Len(streams'[l])
        BY <1>0, <2>5, <4>1
      <4>. QED
        BY <1>1, <2>5, <4>1, <4>2 DEF OnTheWay, clientVars
    <3>. QED
      BY <1>1, <2>2, <2>6, <3>1, <3>2 DEF OnTheWay, clientVars
  <2>7. ASSUME follows[l].state = "on" PROVE MissesNothing(l)'
    <3>1. MissesNothing(l) /\ follows[l].taken <= Len(streams[l])
      BY <2>7 DEF Follows
    <3>2. \A k \in 1 .. Len(log) : Due(l, k)' => Due(l, k)
      BY <2>2, <2>3 DEF Due
    <3>. QED
      BY <2>2, <2>3, <2>6, <3>1, <3>2 DEF MissesNothing
  <2>. QED
    BY <1>0, <1>1, <2>2, <2>3, <2>5, <2>7 DEF Follows, clientVars
<1>5. CASE ForwardLive(l)
  <2>1. /\ bridges[l].pc = "live" /\ queues[l] # <<>>
        /\ streams'[l] = Append(streams[l], Head(queues[l]))
        /\ queues'[l] = Tail(queues[l])
        /\ UNCHANGED <<bridges, log, subs, marks>>
    BY <1>0, <1>5 DEF ForwardLive
  <2>2. Head(queues[l]) \in Events
    BY <1>0, <2>1
  <2>3. /\ streams[l] \in Seq(Events) /\ Len(streams'[l]) = Len(streams[l]) + 1
        /\ streams'[l][Len(streams[l]) + 1] = Head(queues[l])
        /\ \A j \in 1 .. Len(streams[l]) : streams'[l][j] = streams[l][j]
    BY <1>0, <2>1, <2>2
  <2>4. ASSUME NEW e, OnTheWay(l, e), follows[l].taken <= Len(streams[l])
        PROVE  OnTheWay(l, e)'
    <3>1. CASE Contains(queues[l], e)
      <4>1. CASE e = Head(queues[l])
        <5>1. Len(streams[l]) + 1 \in (follows[l].taken + 1) .. Len(streams'[l])
          BY <1>0, <2>3, <2>4
        <5>. QED
          BY <1>1, <2>3, <4>1, <5>1 DEF OnTheWay, clientVars
      <4>2. CASE e # Head(queues[l])
        BY <1>0, <2>1, <3>1, <4>2, ContainsTail DEF OnTheWay
      <4>. QED
        BY <4>1, <4>2
    <3>2. CASE \E j \in (follows[l].taken + 1) .. Len(streams[l]) : streams[l][j] = e
      <4>1. PICK j \in (follows[l].taken + 1) .. Len(streams[l]) : streams[l][j] = e
        BY <3>2
      <4>2. j \in 1 .. Len(streams[l]) /\ j \in (follows[l].taken + 1) .. Len(streams'[l])
        BY <1>0, <2>3, <4>1
      <4>. QED
        BY <1>1, <2>3, <4>1, <4>2 DEF OnTheWay, clientVars
    <3>. QED
      BY <1>1, <2>1, <2>4, <3>1, <3>2 DEF OnTheWay, clientVars
  <2>5. ASSUME follows[l].state = "on" PROVE MissesNothing(l)'
    <3>1. MissesNothing(l) /\ follows[l].taken <= Len(streams[l])
      BY <2>5 DEF Follows
    <3>2. \A k \in 1 .. Len(log) : Due(l, k)' => Due(l, k)
      BY <2>1 DEF Due
    <3>. QED
      BY <2>1, <2>4, <3>1, <3>2 DEF MissesNothing
  <2>. QED
    BY <1>0, <1>1, <2>1, <2>3, <2>5 DEF Follows, clientVars
<1>. QED
  BY <1>2, <1>3, <1>4, <1>5 DEF Bridged

\* The steps of the handler and of the command: an event moves on, or the
\* filter keeps it out.
LEMMA HandleFollows ==
  ASSUME ListenersTypeOK, FollowTypeOK, NEW l \in Listeners, Follows(l), Handle(l)
  PROVE  Follows(l)'
<1>. DEFINE d == streams[l][follows[l].taken + 1]
            wire == IF Passes(d, follows[l].filter) THEN Append(follows[l].wire, d)
                    ELSE follows[l].wire
<1>0. /\ follows \in [Listeners -> Follow] /\ streams[l] \in Seq(Events)
      /\ follows[l].taken \in Nat /\ follows[l].wire \in Seq(Events)
  BY FollowMoves DEF ListenersTypeOK, FollowTypeOK
<1>1. /\ follows[l].state = "on" /\ follows[l].taken < Len(streams[l])
      /\ follows' = [follows EXCEPT ![l] = [follows[l] EXCEPT !.taken = @ + 1, !.wire = wire]]
      /\ UNCHANGED <<vars, pages>>
  BY DEF Handle
<1>2. d \in Events
  BY <1>0, <1>1
<1>3. /\ follows'[l].state = follows[l].state /\ follows'[l].filter = follows[l].filter
      /\ follows'[l].taken = follows[l].taken + 1 /\ follows'[l].wire = wire
      /\ follows'[l].inbox = follows[l].inbox /\ follows'[l].printed = follows[l].printed
  <2>. HIDE DEF wire
  <2>. QED
    BY <1>0, <1>1 DEF Follow
<1>4. UNCHANGED <<queues, bridges, streams, log, marks, subs>>
  BY <1>1 DEF vars, busVars
<1>5. ASSUME NEW e, OnTheWay(l, e) PROVE OnTheWay(l, e)'
  <2>1. CASE \E j \in (follows[l].taken + 1) .. Len(streams[l]) : streams[l][j] = e
    <3>1. PICK j \in (follows[l].taken + 1) .. Len(streams[l]) : streams[l][j] = e
      BY <2>1
    <3>2. CASE j = follows[l].taken + 1
      <4>1. e = d
        BY <3>1, <3>2
      <4>2. Passes(e, follows[l].filter) => Contains(wire, e)
        BY <1>0, <1>2, <4>1, ContainsAppend
      <4>. HIDE DEF d, wire
      <4>. QED
        BY <1>3, <4>2 DEF OnTheWay
    <3>3. CASE j # follows[l].taken + 1
      <4>. HIDE DEF d, wire
      <4>1. j \in (follows'[l].taken + 1) .. Len(streams'[l])
        BY <1>0, <1>3, <1>4, <3>1, <3>3
      <4>. QED
        BY <1>4, <3>1, <4>1 DEF OnTheWay
    <3>. QED
      BY <3>2, <3>3
  <2>2. CASE Passes(e, follows[l].filter) =>
               \/ Contains(follows[l].wire, e) \/ Contains(follows[l].inbox, e)
               \/ e \in follows[l].printed
    <3>1. Contains(follows[l].wire, e) => Contains(wire, e)
      BY <1>0, <1>2, ContainsAppend
    <3>. HIDE DEF d, wire
    <3>. QED
      BY <1>3, <2>2, <3>1 DEF OnTheWay
  <2>. HIDE DEF d, wire
  <2>. QED
    BY <1>4, <1>5, <2>1, <2>2 DEF OnTheWay
<1>. HIDE DEF d, wire
<1>6. MissesNothing(l)'
  <2>1. MissesNothing(l)
    BY <1>1 DEF Follows
  <2>2. \A k \in 1 .. Len(log) : Due(l, k)' => Due(l, k)
    BY <1>4 DEF Due
  <2>. QED
    BY <1>4, <1>5, <2>1, <2>2 DEF MissesNothing
<1>. QED
  BY <1>0, <1>1, <1>3, <1>4, <1>6 DEF Follows

LEMMA LineFollows ==
  ASSUME FollowTypeOK, NEW l \in Listeners, Follows(l), ReadLine(l) \/ PrintLine(l)
  PROVE  Follows(l)'
<1>0. /\ follows \in [Listeners -> Follow]
      /\ follows[l].wire \in Seq(Events) /\ follows[l].inbox \in Seq(Events)
  BY FollowMoves DEF FollowTypeOK
<1>1. follows[l].state = "on" /\ UNCHANGED <<vars, pages>>
  BY DEF ReadLine, PrintLine
<1>2. /\ follows'[l].state = follows[l].state /\ follows'[l].filter = follows[l].filter
      /\ follows'[l].taken = follows[l].taken
  BY <1>0 DEF ReadLine, PrintLine, Follow
<1>3. UNCHANGED <<queues, bridges, streams, log, marks, subs>>
  BY <1>1 DEF vars, busVars
<1>4. ASSUME NEW e,
             \/ Contains(follows[l].wire, e) \/ Contains(follows[l].inbox, e)
             \/ e \in follows[l].printed
      PROVE  \/ Contains(follows'[l].wire, e) \/ Contains(follows'[l].inbox, e)
             \/ e \in follows'[l].printed
  <2>1. CASE ReadLine(l)
    <3>1. /\ follows[l].wire # <<>>
          /\ follows'[l].wire = Tail(follows[l].wire)
          /\ follows'[l].inbox = Append(follows[l].inbox, Head(follows[l].wire))
          /\ follows'[l].printed = follows[l].printed
      BY <1>0, <2>1 DEF ReadLine, Follow
    <3>2. Head(follows[l].wire) \in Events
      BY <1>0, <3>1
    <3>3. Contains(follows[l].wire, e) =>
            e = Head(follows[l].wire) \/ Contains(Tail(follows[l].wire), e)
      BY <1>0, ContainsTail
    <3>4. Contains(follows[l].inbox, e) \/ e = Head(follows[l].wire) =>
            Contains(follows'[l].inbox, e)
      BY <1>0, <3>1, <3>2, ContainsAppend
    <3>. QED
      BY <1>4, <3>1, <3>3, <3>4
  <2>2. CASE PrintLine(l)
    <3>1. /\ follows'[l].wire = follows[l].wire
          /\ follows'[l].inbox = Tail(follows[l].inbox)
          /\ follows'[l].printed = follows[l].printed \cup {Head(follows[l].inbox)}
      BY <1>0, <2>2 DEF PrintLine, Follow
    <3>2. Contains(follows[l].inbox, e) =>
            e = Head(follows[l].inbox) \/ Contains(Tail(follows[l].inbox), e)
      BY <1>0, ContainsTail
    <3>. QED
      BY <1>4, <3>1, <3>2
  <2>. QED
    BY <2>1, <2>2
<1>5. ASSUME NEW e, OnTheWay(l, e) PROVE OnTheWay(l, e)'
  BY <1>2, <1>3, <1>4, <1>5 DEF OnTheWay
<1>6. MissesNothing(l)'
  <2>1. MissesNothing(l)
    BY <1>1 DEF Follows
  <2>2. \A k \in 1 .. Len(log) : Due(l, k)' => Due(l, k)
    BY <1>3 DEF Due
  <2>. QED
    BY <1>3, <1>5, <2>1, <2>2 DEF MissesNothing
<1>. QED
  BY <1>1, <1>2, <1>3, <1>6 DEF Follows

\* A follower that starts is due nothing yet.
LEMMA StartFollows ==
  ASSUME ListenersTypeOK, FollowTypeOK, NEW l \in Listeners, Follows(l), StartFollow(l)
  PROVE  Follows(l)'
<1>0. /\ bridges \in [Listeners -> Bridge] /\ marks \in [Listeners -> Mark]
      /\ log \in Seq(Events) /\ follows \in [Listeners -> Follow]
  BY DEF ListenersTypeOK, FollowTypeOK
<1>1. /\ pages[l].writer = "off" /\ UNCHANGED <<pages, streams, log>> /\ l \in subs'
  BY DEF StartFollow, Subscribe, IsPage
<1>2. bridges'[l].pc = "attached" /\ bridges'[l].backlog = <<>>
  BY <1>0 DEF StartFollow, Subscribe
<1>3. marks'[l].joined = Len(log)
  BY <1>0 DEF StartFollow, Subscribe, Mark
<1>4. follows'[l].taken = follows[l].taken
  BY <1>0 DEF StartFollow, Follow
<1>5. \A i \in 1 .. Len(log) : ~ Due(l, i)'
  BY <1>0, <1>2, <1>3 DEF Due
<1>6. MissesNothing(l)'
  BY <1>1, <1>5 DEF MissesNothing
<1>7. follows[l].taken <= Len(streams[l])
  BY DEF Follows
<1>. QED
  BY <1>1, <1>2, <1>4, <1>6, <1>7, NothingToReplay DEF Follows

\* The end of a follower.
LEMMA EndFollows ==
  ASSUME ListenersTypeOK, FollowTypeOK, NEW l \in Listeners, Follows(l),
         GiveUp(l) \/ Interrupt(l) \/ EndOfStream(l) \/ Release(l)
  PROVE  Follows(l)'
<1>0. bridges \in [Listeners -> Bridge] /\ follows \in [Listeners -> Follow]
  BY DEF ListenersTypeOK, FollowTypeOK
<1>1. follows'[l].taken = follows[l].taken /\ UNCHANGED <<streams, pages>>
  BY <1>0 DEF GiveUp, Interrupt, EndOfStream, Release, Unsubscribe, CloseChannel, HangUp,
       Follow, clientVars, vars
<1>2. follows[l].taken <= Len(streams[l])
  BY DEF Follows
<1>3. CASE Interrupt(l) \/ EndOfStream(l)
  <2>1. follows'[l].state # "on"
    BY <1>0, <1>3 DEF Interrupt, EndOfStream, Follow
  <2>. QED
    BY <1>1, <1>2, <2>1 DEF Follows
<1>4. CASE GiveUp(l)
  <2>1. /\ pages[l].writer = "off" /\ UNCHANGED follows
        /\ bridges'[l].pc = "gone" /\ bridges'[l].backlog = <<>>
    BY <1>0, <1>4 DEF GiveUp, HangUp, IsPage, clientVars
  <2>2. MissesNothing(l)'
    BY <2>1 DEF MissesNothing
  <2>. QED
    BY <1>1, <1>2, <2>1, <2>2, NothingToReplay DEF Follows
<1>5. CASE Release(l)
  <2>1. bridges[l].pc = "gone" /\ UNCHANGED <<bridges, follows>>
    BY <1>5 DEF Release, Unsubscribe, CloseChannel, clientVars
  <2>2. MissesNothing(l)'
    BY <2>1 DEF MissesNothing
  <2>. QED
    BY <1>1, <1>2, <2>1, <2>2 DEF Follows
<1>. QED
  BY <1>3, <1>4, <1>5

LEMMA FollowStep ==
  /\ BusTypeOK /\ ListenersTypeOK /\ PagesTypeOK /\ FollowTypeOK /\ WindowInv
  /\ KeptInv /\ FollowInv /\ [ClientsNext]_allVars
  => FollowInv'
<1>. SUFFICES ASSUME BusTypeOK, ListenersTypeOK, PagesTypeOK, FollowTypeOK, WindowInv,
                     KeptInv, FollowInv, [ClientsNext]_allVars, NEW l \in Listeners
              PROVE  Follows(l)'
  BY Zenon DEF FollowInv
<1>0. Follows(l)
  BY DEF FollowInv
<1>1. /\ pages \in [Listeners -> Page] /\ streams[l] \in Seq(Events)
      /\ follows \in [Listeners -> Follow]
  BY DEF PagesTypeOK, ListenersTypeOK, FollowTypeOK
<1>2. ASSUME NEW p \in Publishers, Publish(p) PROVE Follows(l)'
  <2>1. UNCHANGED <<pages, follows>>
    BY <1>2 DEF Publish
  <2>2. CASE Record(p)
    BY <1>0, <2>1, <2>2, RecordFollows
  <2>3. CASE Stamp(p)
    BY <1>0, <2>1, <2>3, FollowsFrame DEF Stamp
  <2>. QED
    BY <1>2, <2>2, <2>3 DEF Publish
<1>3. ASSUME NEW m \in Listeners, m # l,
             \/ Open(m) \/ ReadFrame(m) \/ Leave(m) \/ Reader(m) \/ Pumper(m) \/ Writer(m)
             \/ Release(m) \/ StartFollow(m) \/ Bridged(m) \/ Handle(m) \/ GiveUp(m)
             \/ ReadLine(m) \/ PrintLine(m) \/ Interrupt(m) \/ EndOfStream(m)
      PROVE  Follows(l)'
  BY <1>0, <1>3, OthersStep
<1>4. CASE Open(l) \/ Hello(l) \/ Pump(l) \/ WriterNotices(l) \/ WriterEnds(l)
  <2>1. follows[l].state # "on"
    BY <1>0, <1>4, FollowerIsNoPage
  <2>2. UNCHANGED <<follows, streams>>
    BY <1>4 DEF Open, Subscribe, Hello, Pump, Receive, WriterNotices, WriterEnds, HangUp, vars
  <2>. QED
    BY <1>0, <2>1, <2>2 DEF Follows
<1>5. CASE \/ ReadFrame(l) \/ Leave(l) \/ Ack(l) \/ ReaderEnds(l) \/ Offer(l)
           \/ PumperEnds(l) \/ Write(l)
  <2>1. UNCHANGED <<vars, follows>>
    BY <1>5 DEF ReadFrame, Leave, Ack, ReaderEnds, Offer, PumperEnds, Write
  <2>2. pages'[l].writer = pages[l].writer
    <3>1. pages[l] \in Page
      BY <1>1
    <3>2. CASE ReadFrame(l)
      BY <1>1, <3>1, <3>2 DEF ReadFrame, Page
    <3>3. CASE Leave(l)
      BY <1>1, <3>1, <3>3 DEF Leave, Page
    <3>4. CASE Ack(l)
      BY <1>1, <3>1, <3>4 DEF Ack, Page
    <3>5. CASE ReaderEnds(l)
      BY <1>1, <3>1, <3>5 DEF ReaderEnds, Page
    <3>6. CASE Offer(l)
      BY <1>1, <3>1, <3>6 DEF Offer, Page
    <3>7. CASE PumperEnds(l)
      BY <1>1, <3>1, <3>7 DEF PumperEnds, Page
    <3>8. CASE Write(l)
      BY <1>1, <3>1, <3>8 DEF Write, Page
    <3>. QED
      BY <1>5, <3>2, <3>3, <3>4, <3>5, <3>6, <3>7, <3>8
  <2>. QED
    BY <1>0, <2>1, <2>2, FollowsFrame DEF vars, busVars
<1>6. CASE Bridged(l)
  BY <1>0, <1>6, BridgedFollows
<1>7. CASE Handle(l) \/ ReadLine(l) \/ PrintLine(l)
  BY <1>0, <1>7, HandleFollows, LineFollows
<1>8. CASE StartFollow(l)
  BY <1>0, <1>8, StartFollows
<1>9. CASE GiveUp(l) \/ Interrupt(l) \/ EndOfStream(l) \/ Release(l)
  BY <1>0, <1>9, EndFollows
<1>10. CASE UNCHANGED allVars
  BY <1>0, <1>10, FollowsFrame DEF allVars, clientVars, vars, busVars
<1>. QED
  BY <1>2, <1>3, <1>4, <1>5, <1>6, <1>7, <1>8, <1>9, <1>10
     DEF ClientsNext, Reader, Pumper, Writer

\* A follower that is up to date has printed all it was due: no queue between
\* the bus and the terminal loses an event, and nothing falls between what is
\* replayed and what is live.
THEOREM FollowersMissNothing == ClientsSpec => []NoGap
<1>. DEFINE Types == BusTypeOK /\ PagesTypeOK /\ ListenersTypeOK /\ FollowTypeOK
            Pages == BridgeShape /\ StrayInv /\ AttachedInv /\ KeptInv
            Inv == WindowInv /\ FollowInv
<1>1. ClientsInit => Pages /\ Inv
  <2>1. ClientsInit => BridgeShape /\ StrayInv /\ AttachedInv /\ KeptInv
    BY DEF ClientsInit, Init, BridgeShape, StrayInv, AttachedInv, KeptInv, Kept, NoPage,
           NoPromise, Wanted
  <2>2. ClientsInit => WindowInv
    BY RingAssumption DEF ClientsInit, Init, WindowInv
  <2>3. ClientsInit => FollowInv
    BY DEF ClientsInit, Init, FollowInv, Follows, NoFollow
  <2>. QED
    BY <2>1, <2>2, <2>3
<1>2. Inv => NoGap
  <2>. SUFFICES ASSUME FollowInv, NEW l \in Listeners,
                       follows[l].state = "on", bridges[l].pc = "live", marks[l].missed = 0,
                       queues[l] = <<>>, follows[l].taken = Len(streams[l]),
                       follows[l].wire = <<>>, follows[l].inbox = <<>>,
                       NEW i \in 1 .. Len(log), Passes(log[i], follows[l].filter),
                       \/ i > marks[l].joined
                       \/ /\ bridges[l].since # 0 /\ log[i] > bridges[l].since
                          /\ i + RingSize > marks[l].replayed
                PROVE  log[i] \in follows[l].printed
    BY DEF NoGap
  <2>1. Follows(l) /\ Due(l, i)
    BY DEF FollowInv, Due
  <2>2. OnTheWay(l, log[i]) /\ DOMAIN bridges[l].backlog = {}
    BY <2>1 DEF Follows, MissesNothing
  <2>3. ~ Contains(<<>>, log[i])
    BY DEF Contains
  <2>. QED
    BY <2>2, <2>3 DEF OnTheWay
<1>3. Types /\ Pages /\ Inv /\ [ClientsNext]_allVars => (Pages /\ Inv)'
  BY ClientStep, BridgeStep, StrayStep, AttachedStep, KeptStep, WindowStep, FollowStep
<1>4. TypeOK => ListenersTypeOK
  BY DEF TypeOK, ListenersTypeOK
<1>5. ClientsTypeOK => FollowTypeOK
  BY DEF ClientsTypeOK, FollowTypeOK
<1>. HIDE DEF Inv, Pages
<1>. QED
  BY <1>1, <1>2, <1>3, <1>4, <1>5, ClientsTypes, ClientsTypeCorrect, ClientsUseBus,
     EventTypeCorrect, PTL DEF ClientsSpec, Types
=============================================================================
