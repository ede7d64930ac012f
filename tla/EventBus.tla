------------------------------ MODULE EventBus ------------------------------
(***************************************************************************)
(* frpcd.EventBus: publishers stamp an event, then record it in a ring and *)
(* hand it to every subscriber under one lock; subscribers that lag miss   *)
(* events.  A listener here is a client of the control socket (frpdeck     *)
(* logs), whose bridge goroutine replays the ring before it forwards live  *)
(* events, or a browser's WebSocket, which takes live events only.         *)
(*                                                                         *)
(* An event is known by its instant At; publishers read distinct instants  *)
(* from the clock.  The queue between the bridge and the connection is     *)
(* left out: forwarding may wait as long as a full queue would make it.    *)
(***************************************************************************)
EXTENDS Naturals, Sequences

CONSTANTS
  Publishers,   \* goroutines that publish
  Listeners,    \* subscriptions, each used once
  RingSize,     \* len(b.ring)
  BufSize,      \* b.bufSize
  MaxEvents     \* bound: instants handed out

ASSUME RingAssumption == RingSize \in Nat \ {0}
ASSUME BufAssumption == BufSize \in Nat
ASSUME EventsAssumption == MaxEvents \in Nat

VARIABLES
  clock,        \* the last instant handed out
  drafts,       \* the event each publisher has stamped and not recorded
  ring, ringNext, ringFill,
  subs,         \* b.subs: the channels that receive events
  queues,       \* what each channel holds
  closed,       \* the channels that are closed
  bridges,      \* where each listener's goroutine is
  streams,      \* what each client has been sent
  log,          \* history: every event recorded
  marks         \* history: what each listener was owed and missed

busVars == <<clock, drafts, ring, ringNext, ringFill, subs, queues, closed, log>>
vars == <<busVars, bridges, streams, marks>>

-----------------------------------------------------------------------------
\* Instant 1 precedes every event.  The zero time, 0, means "no since".
Events == 2 .. (MaxEvents + 1)
NoEvent == 0
Slots == 0 .. (RingSize - 1)

\* What a bridge has yet to replay: events at their places in the ring.
Backlog == UNION {[S -> Events] : S \in SUBSET (1 .. RingSize)}

Bridge == [pc : {"off", "attached", "replaying", "live", "gone"},
           since : 0 .. (MaxEvents + 1), backlog : Backlog]

\* Where the log stood when the listener subscribed and when it replayed
\* the ring, and the events it missed because its channel was full.
Mark == [joined : Nat, replayed : Nat, missed : Nat]

\* The slot after a slot.
NextSlot(i) == (i + 1) % RingSize

\* The slot of the oldest event.
Oldest == (ringNext + RingSize - ringFill) % RingSize

\* The events of the ring, oldest first.
Window == [i \in 1 .. ringFill |-> ring[(Oldest + i - 1) % RingSize]]

\* Replay of a non-zero instant: what is newer, each event at its place.
Replay(since) == [i \in {j \in 1 .. ringFill : Window[j] > since} |-> Window[i]]

\* A slot short: the channel is taken for full when one place is left.
HasRoom_Wrong(l) == Len(queues[l]) + 1 < BufSize
HasRoom(l) == Len(queues[l]) < BufSize

Init ==
  /\ clock = 1
  /\ drafts = [p \in Publishers |-> NoEvent]
  /\ ring = [i \in Slots |-> NoEvent]
  /\ ringNext = 0
  /\ ringFill = 0
  /\ subs = {}
  /\ queues = [l \in Listeners |-> <<>>]
  /\ closed = {}
  /\ bridges = [l \in Listeners |-> [pc |-> "off", since |-> 0, backlog |-> <<>>]]
  /\ streams = [l \in Listeners |-> <<>>]
  /\ log = <<>>
  /\ marks = [l \in Listeners |-> [joined |-> 0, replayed |-> 0, missed |-> 0]]

-----------------------------------------------------------------------------
\* Publish reads the clock before it takes the lock.
Stamp(p) ==
  /\ drafts[p] = NoEvent
  /\ clock <= MaxEvents
  /\ clock' = clock + 1
  /\ drafts' = [drafts EXCEPT ![p] = clock + 1]
  /\ UNCHANGED <<ring, ringNext, ringFill, subs, queues, closed, log,
                 bridges, streams, marks>>

\* The critical section of Publish.
Record(p) ==
  LET e == drafts[p]
  IN  /\ e # NoEvent
      /\ drafts' = [drafts EXCEPT ![p] = NoEvent]
      /\ ring' = [ring EXCEPT ![ringNext] = e]
      /\ ringNext' = NextSlot(ringNext)
      /\ ringFill' = IF ringFill < RingSize THEN ringFill + 1 ELSE ringFill
      /\ queues' = [l \in Listeners |-> IF l \in subs /\ HasRoom(l)
                                        THEN Append(queues[l], e) ELSE queues[l]]
      /\ log' = Append(log, e)
      /\ marks' = [l \in Listeners |->
           IF l \in subs /\ Len(queues[l]) = BufSize
           THEN [marks[l] EXCEPT !.missed = @ + 1] ELSE marks[l]]
      /\ UNCHANGED <<clock, subs, closed, bridges, streams>>

-----------------------------------------------------------------------------
\* Subscribe, from adaptDriverSubscribe or from handleWebSocket.
Subscribe(l) ==
  /\ bridges[l].pc = "off"
  /\ \E since \in 0 .. clock :
       bridges' = [bridges EXCEPT ![l] =
                     [pc |-> "attached", since |-> since, backlog |-> <<>>]]
  /\ subs' = subs \cup {l}
  /\ marks' = [marks EXCEPT ![l].joined = Len(log)]
  /\ UNCHANGED <<clock, drafts, ring, ringNext, ringFill, queues, closed, log,
                 streams>>

\* A bridge without since goes live at once; the other replays first.
GoLive(l) ==
  /\ \/ bridges[l].pc = "attached" /\ bridges[l].since = 0
     \/ bridges[l].pc = "replaying" /\ DOMAIN bridges[l].backlog = {}
  /\ bridges' = [bridges EXCEPT ![l].pc = "live"]
  /\ UNCHANGED <<busVars, streams, marks>>

ReadHistory(l) ==
  /\ bridges[l].pc = "attached"
  /\ bridges[l].since # 0
  /\ bridges' = [bridges EXCEPT ![l] =
                    [pc |-> "replaying", since |-> bridges[l].since,
                     backlog |-> Replay(bridges[l].since)]]
  /\ marks' = [marks EXCEPT ![l].replayed = Len(log)]
  /\ UNCHANGED <<busVars, streams>>

\* The events go out in the order of their places.
ForwardHistory(l) ==
  LET backlog == bridges[l].backlog
  IN  /\ bridges[l].pc = "replaying"
      /\ \E i \in DOMAIN backlog :
           /\ \A j \in DOMAIN backlog : i <= j
           /\ streams' = [streams EXCEPT ![l] = Append(@, backlog[i])]
           /\ bridges' = [bridges EXCEPT ![l].backlog =
                            [j \in DOMAIN backlog \ {i} |-> backlog[j]]]
      /\ UNCHANGED <<busVars, marks>>

ForwardLive(l) ==
  /\ bridges[l].pc = "live"
  /\ queues[l] # <<>>
  /\ streams' = [streams EXCEPT ![l] = Append(@, Head(queues[l]))]
  /\ queues' = [queues EXCEPT ![l] = Tail(@)]
  /\ UNCHANGED <<clock, drafts, ring, ringNext, ringFill, subs, closed, log,
                 bridges, marks>>

\* The goroutine of a listener without history takes an event that it will
\* filter itself.
Receive(l) ==
  /\ bridges[l].pc # "off"
  /\ bridges[l].since = 0
  /\ queues[l] # <<>>
  /\ queues' = [queues EXCEPT ![l] = Tail(@)]
  /\ UNCHANGED <<clock, drafts, ring, ringNext, ringFill, subs, closed, log,
                 bridges, streams, marks>>

\* The client hangs up, or a write to it fails: the bridge returns.
HangUp(l) ==
  /\ bridges[l].pc \in {"attached", "replaying", "live"}
  /\ bridges' = [bridges EXCEPT ![l] =
                    [pc |-> "gone", since |-> bridges[l].since, backlog |-> <<>>]]
  /\ UNCHANGED <<busVars, streams, marks>>

\* cancel, which runs once: the channel leaves the map under the lock and is
\* closed after it.  A publisher may come in between.
Unsubscribe(l) ==
  /\ bridges[l].pc = "gone"
  /\ l \in subs
  /\ subs' = subs \ {l}
  /\ UNCHANGED <<clock, drafts, ring, ringNext, ringFill, queues, closed, log,
                 bridges, streams, marks>>

\* Closes the channel without waiting for its removal.
CloseChannel_Wrong(l) ==
  /\ bridges[l].pc = "gone"
  /\ l \notin closed
  /\ closed' = closed \cup {l}
  /\ UNCHANGED <<clock, drafts, ring, ringNext, ringFill, subs, queues, log,
                 bridges, streams, marks>>

CloseChannel(l) ==
  /\ bridges[l].pc = "gone"
  /\ l \notin subs \cup closed
  /\ closed' = closed \cup {l}
  /\ UNCHANGED <<clock, drafts, ring, ringNext, ringFill, subs, queues, log,
                 bridges, streams, marks>>

Next ==
  \/ \E p \in Publishers : Stamp(p) \/ Record(p)
  \/ \E l \in Listeners :
       \/ Subscribe(l) \/ ReadHistory(l) \/ GoLive(l)
       \/ ForwardHistory(l) \/ ForwardLive(l) \/ Receive(l)
       \/ HangUp(l) \/ Unsubscribe(l) \/ CloseChannel(l)

Spec == Init /\ [][Next]_vars

-----------------------------------------------------------------------------
(***************************************************************************)
(* Properties.                                                             *)
(***************************************************************************)

\* The shape of what the bus itself keeps: ring indices in bounds, queues
\* within the capacity of their channel.
BusTypeOK ==
  /\ clock \in 1 .. (MaxEvents + 1)
  /\ drafts \in [Publishers -> Events \cup {NoEvent}]
  /\ ring \in [Slots -> Events \cup {NoEvent}]
  /\ ringNext \in Slots
  /\ ringFill \in 0 .. RingSize
  /\ subs \subseteq Listeners
  /\ queues \in [Listeners -> Seq(Events)]
  /\ \A l \in Listeners : Len(queues[l]) <= BufSize
  /\ closed \subseteq Listeners

\* All variables keep their shape.
TypeOK ==
  /\ BusTypeOK
  /\ bridges \in [Listeners -> Bridge]
  /\ streams \in [Listeners -> Seq(Events)]
  /\ log \in Seq(Events)
  /\ marks \in [Listeners -> Mark]

\* A publisher never sends on a closed channel, which would panic.
NoSendOnClosed == subs \cap closed = {}

\* What the ring remembers and the channels hold, seen from outside.
Log == INSTANCE EventLog
         WITH Depth <- RingSize, InboxSize <- BufSize,
              history <- Window, inbox <- queues, attached <- subs

\* The bus implements the event log: each critical section is one
\* publication, seen alike by the memory and by every attached listener.
ImplementsLog == Log!LogSpec
=============================================================================
