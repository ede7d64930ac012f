---------------------------- MODULE EventClients ----------------------------
(***************************************************************************)
(* The two kinds of listeners of the event bus, end to end.                *)
(*                                                                         *)
(* A page is a browser's WebSocket (ws.go).  Its reader changes the set of *)
(* topics and acknowledges, its pumper matches each event of the channel   *)
(* against the topics and offers it to a queue that drops when full, and   *)
(* its writer empties that queue; each works at its own pace.              *)
(*                                                                         *)
(* A follower is a frpdeck logs process.  The daemon's bridge feeds a      *)
(* handler that filters and writes to the socket under a deadline; on the  *)
(* other side a goroutine reads lines into a channel, and the command      *)
(* prints them.                                                            *)
(*                                                                         *)
(* The queue of a page is known by its length: a frame in it is only       *)
(* written.  A ping or a bad frame, answered without a change, is a        *)
(* subscription to no topic.  The handshake that admits a page is left out.*)
(***************************************************************************)
EXTENDS EventBus, FiniteSets, SequencesExt

CONSTANTS
  KindOf,       \* the type, endpoint and tunnel of each event
  Requests,     \* bound: the sets of topics a page may name in a frame
  Filters,      \* bound: the filters a follower may ask for
  OutSize,      \* wsBufferSize
  WireSize,     \* lines the socket holds
  InboxSize,    \* lines the channel of the command holds
  MaxFrames     \* bound: frames a page sends

ASSUME SizesAssumption == {OutSize, WireSize, InboxSize, MaxFrames} \subseteq Nat \ {0}
ASSUME FiltersAssumption == Filters # {}
ASSUME KindAssumption ==
  \A e \in Events : DOMAIN KindOf[e] = {"type", "endpoint", "tunnel"}

VARIABLES
  pages,        \* the wsConn of each page and its goroutines
  promises,     \* history: what a page was told and what it is owed
  follows       \* each follower: its filter, the handler, both queues

clientVars == <<pages, promises, follows>>
allVars == <<vars, clientVars>>

-----------------------------------------------------------------------------
\* The topics under which an event is sent.  A topic is a name and an id.
TopicsOf(e) ==
  LET k == KindOf[e]
  IN  CASE k.type = "endpoint_state" -> {<<"endpoints", 0>>}
        [] k.type \in {"tunnel_state", "tunnel_expiring"} -> {<<"tunnels", 0>>}
        [] k.type = "log" ->
             {<<"logs:all", 0>>}
             \cup {<<"logs:endpoint", i>> : i \in {k.endpoint} \ {0}}
             \cup {<<"logs:tunnel", i>> : i \in {k.tunnel} \ {0}}

Topics == (UNION {TopicsOf(e) : e \in Events}) \cup (UNION Requests)
Match(topics, e) == topics \cap TopicsOf(e) # {}

Page == [reader : {"off", "reading", "acking", "gone"},
         pumper : {"off", "running", "gone"},
         writer : {"off", "starting", "running", "leaving", "gone"},
         cancelled : BOOLEAN, browser : {"up", "silent", "closed"},
         op : {"subscribe", "unsubscribe"}, named : SUBSET Topics,
         topics : SUBSET Topics, hand : Events \cup {NoEvent},
         out : 0 .. OutSize, frames : 0 .. MaxFrames]

NoPage == [reader |-> "off", pumper |-> "off", writer |-> "off",
           cancelled |-> FALSE, browser |-> "up", op |-> "subscribe", named |-> {},
           topics |-> {}, hand |-> NoEvent, out |-> 0, frames |-> 0]

\* The topics the answered frames ask for, and those the page was told of; the
\* events recorded for the latter that are not sent or dropped yet; and how
\* many were sent, since the last answer, that the page had not asked for.
Promise == [asked : SUBSET Topics, told : SUBSET Topics,
            owed : SUBSET Events, strays : Nat]
NoPromise == [asked |-> {}, told |-> {}, owed |-> {}, strays |-> 0]

\* A filter: the types let through (none: all) and an endpoint and a tunnel
\* (0: any).
Passes(e, f) ==
  LET k == KindOf[e]
  IN  /\ f.types = {} \/ k.type \in f.types
      /\ f.endpoint \in {0, k.endpoint}
      /\ f.tunnel \in {0, k.tunnel}

Follow == [state : {"off", "on", "stopped", "ended"}, filter : Filters, taken : Nat,
           wire : Seq(Events), inbox : Seq(Events), printed : SUBSET Events]
NoFollow == [state |-> "off", filter |-> CHOOSE f \in Filters : TRUE, taken |-> 0,
             wire |-> <<>>, inbox |-> <<>>, printed |-> {}]

ClientsInit ==
  /\ Init
  /\ pages = [l \in Listeners |-> NoPage]
  /\ promises = [l \in Listeners |-> NoPromise]
  /\ follows = [l \in Listeners |-> NoFollow]

-----------------------------------------------------------------------------
(***************************************************************************)
(* The publishers, whose events may find a page's channel full.            *)
(***************************************************************************)
Publish(p) ==
  /\ Stamp(p) \/ Record(p)
  /\ promises' = [l \in Listeners |->
       IF log' # log /\ Len(queues[l]) < BufSize /\ Match(promises[l].told, drafts[p])
       THEN [promises[l] EXCEPT !.owed = @ \cup {drafts[p]}] ELSE promises[l]]
  /\ UNCHANGED <<pages, follows>>

-----------------------------------------------------------------------------
(***************************************************************************)
(* A page.                                                                 *)
(***************************************************************************)
IsPage(l) == pages[l].writer # "off"

\* handleWebSocket subscribes to the bus and starts its goroutines.  A page
\* replays no history: its bridge stays attached until it hangs up.
Open(l) ==
  /\ ~ IsPage(l)
  /\ Subscribe(l)
  /\ bridges'[l].since = 0
  /\ pages' = [pages EXCEPT ![l] = [pages[l] EXCEPT
                 !.reader = "reading", !.pumper = "running", !.writer = "starting"]]
  /\ UNCHANGED <<promises, follows>>

\* send drops the frame when the queue is full.
HasSpace(l) == pages[l].out < OutSize
Sent(l) == IF HasSpace(l) THEN pages[l].out + 1 ELSE pages[l].out

Hello(l) ==
  /\ pages[l].writer = "starting"
  /\ pages' = [pages EXCEPT ![l] = [pages[l] EXCEPT !.writer = "running", !.out = Sent(l)]]
  /\ UNCHANGED <<vars, promises, follows>>

\* The topics after a frame.  The mistakes: a subscription replaces those
\* before it; an unsubscription adds like a subscription.
Changed_Replaces(topics, op, named) ==
  IF op = "subscribe" THEN named ELSE topics \ named
Changed_Adds(topics, op, named) == topics \cup named
Changed(topics, op, named) ==
  IF op = "subscribe" THEN topics \cup named ELSE topics \ named

\* The reader decodes a frame and changes the topics under their lock.
ReadFrame(l) ==
  /\ pages[l].reader = "reading"
  /\ pages[l].browser = "up"
  /\ pages[l].frames < MaxFrames
  /\ \E op \in {"subscribe", "unsubscribe"}, named \in Requests :
       /\ pages' = [pages EXCEPT ![l] = [pages[l] EXCEPT
            !.reader = "acking", !.op = op, !.named = named,
            !.topics = Changed(pages[l].topics, op, named), !.frames = @ + 1]]
       /\ LET told == promises[l].told \ (IF op = "unsubscribe" THEN named ELSE {})
          IN  promises' = [promises EXCEPT ![l] = [promises[l] EXCEPT
                !.told = told, !.owed = {e \in @ : Match(told, e)}]]
  /\ UNCHANGED <<vars, follows>>

\* It answers after it has let go of the lock.
Ack(l) ==
  /\ pages[l].reader = "acking"
  /\ pages' = [pages EXCEPT ![l] = [pages[l] EXCEPT
       !.reader = "reading", !.named = {}, !.op = "subscribe", !.out = Sent(l)]]
  /\ promises' = [promises EXCEPT ![l] = [promises[l] EXCEPT
       !.strays = 0,
       !.asked = IF pages[l].op = "subscribe" THEN @ \cup pages[l].named
                 ELSE @ \ pages[l].named,
       !.told = IF pages[l].op = "subscribe" /\ HasSpace(l)
                THEN @ \cup pages[l].named ELSE @]]
  /\ UNCHANGED <<vars, follows>>

\* The pumper takes an event and keeps it when a topic matches.
Pump(l) ==
  /\ pages[l].pumper = "running"
  /\ pages[l].hand = NoEvent
  /\ Receive(l)
  /\ pages' = [pages EXCEPT ![l].hand =
                 IF Match(pages[l].topics, Head(queues[l])) THEN Head(queues[l]) ELSE NoEvent]
  /\ UNCHANGED <<promises, follows>>

\* What the page expects: the topics it has asked for, and those of a frame
\* that is not answered yet.
Wanted(l) == promises[l].asked
             \cup (IF pages[l].reader = "acking" THEN pages[l].named ELSE {})

\* It offers the event without looking at the topics again.
Offer(l) ==
  LET e == pages[l].hand
  IN  /\ e # NoEvent
      /\ pages' = [pages EXCEPT ![l] = [pages[l] EXCEPT !.hand = NoEvent, !.out = Sent(l)]]
      /\ promises' = [promises EXCEPT ![l] = [promises[l] EXCEPT
           !.owed = @ \ {e},
           !.strays = IF HasSpace(l) /\ ~ Match(Wanted(l), e) THEN @ + 1 ELSE @]]
      /\ UNCHANGED <<vars, follows>>

Write(l) ==
  /\ pages[l].writer = "running"
  /\ pages[l].browser = "up"
  /\ pages[l].out > 0
  /\ pages' = [pages EXCEPT ![l].out = @ - 1]
  /\ UNCHANGED <<vars, promises, follows>>

\* The page closes its socket, or the network swallows it.
Leave(l) ==
  /\ IsPage(l)
  /\ pages[l].browser = "up"
  /\ pages[l].writer # "gone"
  /\ \E how \in {"silent", "closed"} : pages' = [pages EXCEPT ![l].browser = how]
  /\ UNCHANGED <<vars, promises, follows>>

\* The reader ends on an error, or when the connection is cancelled.
ReaderEnds(l) ==
  /\ pages[l].reader = "reading"
  /\ pages[l].browser = "closed" \/ pages[l].cancelled
  /\ pages' = [pages EXCEPT ![l] = [pages[l] EXCEPT !.reader = "gone", !.cancelled = TRUE]]
  /\ UNCHANGED <<vars, promises, follows>>

PumperEnds(l) ==
  /\ pages[l].pumper = "running"
  /\ pages[l].hand = NoEvent
  /\ pages[l].cancelled
  /\ pages' = [pages EXCEPT ![l].pumper = "gone"]
  /\ UNCHANGED <<vars, promises, follows>>

\* A ping or a write that is not taken within ten seconds: the writer cancels
\* and waits for the other two.  The mistake is to rely on writes alone.
WriterNotices_Wrong(l) ==
  /\ pages[l].writer = "running"
  /\ pages[l].browser # "up"
  /\ pages[l].out > 0
  /\ pages' = [pages EXCEPT ![l] = [pages[l] EXCEPT !.writer = "leaving", !.cancelled = TRUE]]
  /\ UNCHANGED <<vars, promises, follows>>
WriterNotices(l) ==
  /\ pages[l].writer = "running"
  /\ pages[l].browser # "up"
  /\ pages' = [pages EXCEPT ![l] = [pages[l] EXCEPT !.writer = "leaving", !.cancelled = TRUE]]
  /\ UNCHANGED <<vars, promises, follows>>

\* The handler returns: at once when another goroutine has cancelled, after
\* both have ended otherwise.
WriterEnds(l) ==
  /\ \/ pages[l].writer = "running" /\ pages[l].cancelled
     \/ pages[l].writer = "leaving" /\ "gone" = pages[l].reader /\ "gone" = pages[l].pumper
  /\ HangUp(l)
  /\ pages' = [pages EXCEPT ![l] = [pages[l] EXCEPT
                 !.writer = "gone", !.topics = {}, !.out = 0]]
  /\ promises' = [promises EXCEPT ![l] = NoPromise]
  /\ UNCHANGED follows

-----------------------------------------------------------------------------
(***************************************************************************)
(* A follower.                                                             *)
(***************************************************************************)
\* handleSubscribe reads the filter and since, subscribes and acknowledges.
StartFollow(l) ==
  /\ ~ IsPage(l)
  /\ Subscribe(l)
  /\ \E f \in Filters :
       follows' = [follows EXCEPT ![l].state = "on", ![l].filter = f]
  /\ UNCHANGED <<pages, promises>>

\* The bridge of adaptDriverSubscribe.
Bridged(l) ==
  /\ ~ IsPage(l)
  /\ ReadHistory(l) \/ GoLive(l) \/ ForwardHistory(l) \/ ForwardLive(l)
  /\ UNCHANGED clientVars

\* The handler takes the next event of the bridge, drops it or writes it.
Handle(l) ==
  /\ follows[l].state = "on"
  /\ bridges[l].pc # "gone"
  /\ follows[l].taken < Len(streams[l])
  /\ LET e == streams[l][follows[l].taken + 1]
         passes == Passes(e, follows[l].filter)
     IN  /\ passes => Len(follows[l].wire) < WireSize
         /\ follows' = [follows EXCEPT
              ![l].taken = @ + 1, ![l].wire = IF passes THEN Append(@, e) ELSE @]
  /\ UNCHANGED <<vars, pages, promises>>

\* A write that the client leaves for two seconds ends the handler.
GiveUp(l) ==
  /\ ~ IsPage(l) /\ follows[l].state = "on"
  /\ Len(follows[l].wire) = WireSize
  /\ HangUp(l)
  /\ UNCHANGED clientVars

\* The client reads a line and waits for room in its channel; the mistake is
\* to drop the line as the bus does.
ReadLine_Wrong(l) ==
  /\ follows[l].state = "on"
  /\ follows[l].wire # <<>>
  /\ follows' = [follows EXCEPT
       ![l].wire = Tail(@),
       ![l].inbox = IF Len(@) < InboxSize THEN Append(@, Head(follows[l].wire)) ELSE @]
  /\ UNCHANGED <<vars, pages, promises>>
ReadLine(l) ==
  /\ follows[l].state = "on"
  /\ follows[l].wire # <<>>
  /\ Len(follows[l].inbox) < InboxSize
  /\ follows' = [follows EXCEPT ![l].wire = Tail(@),
                                ![l].inbox = Append(@, Head(follows[l].wire))]
  /\ UNCHANGED <<vars, pages, promises>>

PrintLine(l) ==
  /\ follows[l].state = "on"
  /\ follows[l].inbox # <<>>
  /\ follows' = [follows EXCEPT ![l].inbox = Tail(@),
                                ![l].printed = @ \cup {Head(follows[l].inbox)}]
  /\ UNCHANGED <<vars, pages, promises>>

\* Ctrl-C or the end of the window: the process goes, and with it the socket.
Interrupt(l) ==
  /\ ~ IsPage(l) /\ follows[l].state = "on"
  /\ HangUp(l)
  /\ follows' = [follows EXCEPT ![l].state = "stopped"]
  /\ UNCHANGED <<pages, promises>>

\* The handler has gone and all it wrote is printed.
EndOfStream(l) ==
  /\ follows[l].state = "on"
  /\ bridges[l].pc = "gone"
  /\ follows[l].wire = <<>> /\ follows[l].inbox = <<>>
  /\ follows' = [follows EXCEPT ![l].state = "ended"]
  /\ UNCHANGED <<vars, pages, promises>>

-----------------------------------------------------------------------------
Reader(l) == Ack(l) \/ ReaderEnds(l)
Pumper(l) == Pump(l) \/ Offer(l) \/ PumperEnds(l)
Writer(l) == Hello(l) \/ Write(l) \/ WriterNotices(l) \/ WriterEnds(l)
Release(l) == (Unsubscribe(l) \/ CloseChannel(l)) /\ UNCHANGED clientVars

ClientsNext ==
  \/ \E p \in Publishers : Publish(p)
  \/ \E l \in Listeners :
       \/ Open(l) \/ ReadFrame(l) \/ Leave(l)
       \/ Reader(l) \/ Pumper(l) \/ Writer(l) \/ Release(l)
       \/ StartFollow(l) \/ Bridged(l) \/ Handle(l) \/ GiveUp(l)
       \/ ReadLine(l) \/ PrintLine(l) \/ Interrupt(l) \/ EndOfStream(l)

\* The goroutines of a connection run; pages, commands and publishers act
\* when they like.
ClientsSpec ==
  /\ ClientsInit /\ [][ClientsNext]_allVars
  /\ \A l \in Listeners :
       /\ WF_allVars(Reader(l)) /\ WF_allVars(Pumper(l))
       /\ WF_allVars(Writer(l)) /\ WF_allVars(Release(l))

-----------------------------------------------------------------------------
(***************************************************************************)
(* Properties.                                                             *)
(***************************************************************************)

PagesTypeOK ==
  /\ pages \in [Listeners -> Page]
  /\ promises \in [Listeners -> Promise]

\* The clients keep their shape, and no queue of theirs outgrows its channel.
ClientsTypeOK ==
  /\ PagesTypeOK
  /\ follows \in [Listeners -> Follow]
  /\ \A l \in Listeners : /\ Len(follows[l].wire) <= WireSize
                          /\ Len(follows[l].inbox) <= InboxSize

\* Once a page has been told that it is subscribed to a topic, every later
\* event of that topic is sent to it, unless a full queue drops it: until
\* then it waits in the channel or in the pumper's hand.
PromiseKept ==
  \A l \in Listeners :
    pages[l].writer # "gone" =>
      \A e \in promises[l].owed : e = pages[l].hand \/ Contains(queues[l], e)

\* After each answer a page is sent at most one event that it did not ask
\* for: the one the pumper had matched before the topics changed.
AtMostOneStray == \A l \in Listeners : promises[l].strays <= 1

\* A page that has gone, be it without a word, does not stay subscribed.
PageIsLetGo ==
  \A l \in Listeners :
    (IsPage(l) /\ pages[l].browser # "up") ~> (l \notin subs /\ l \in closed)

\* A follower that is up to date, having missed nothing to a full channel of
\* the bus, has printed every event its filter lets through that was
\* recorded after it subscribed, and every one newer than since that the
\* ring held when it was read: no queue on the way loses any.
NoGap ==
  \A l \in Listeners :
    LET f == follows[l]
    IN  (/\ f.state = "on" /\ bridges[l].pc = "live" /\ marks[l].missed = 0
         /\ queues[l] = <<>> /\ f.taken = Len(streams[l])
         /\ f.wire = <<>> /\ f.inbox = <<>>)
        => \A i \in 1 .. Len(log) :
             (/\ Passes(log[i], f.filter)
              /\ \/ i > marks[l].joined
                 \/ /\ bridges[l].since # 0 /\ log[i] > bridges[l].since
                    /\ i + RingSize > marks[l].replayed)
             => log[i] \in f.printed
=============================================================================
