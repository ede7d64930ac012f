------------------------------ MODULE EventLog ------------------------------
(***************************************************************************)
(* What the driver's event bus promises, whatever it is built from: a      *)
(* bounded memory of the newest events, and for each attached listener an  *)
(* inbox that receives every event published from then on, except those    *)
(* published while the inbox is full.                                      *)
(***************************************************************************)
EXTENDS Naturals, Sequences

CONSTANTS
  Events,     \* what may be published
  Listeners,  \* who may attach
  Depth,      \* how many events are remembered
  InboxSize   \* how many events wait for a listener

VARIABLES
  history,    \* the events remembered, oldest first
  inbox,      \* the events each listener has yet to take
  attached    \* the listeners attached at present

logVars == <<history, inbox, attached>>

\* The memory after one more event: the oldest gives way when it is full.
Remember(past, e) ==
  Append(IF Len(past) < Depth THEN past ELSE Tail(past), e)

\* The inboxes after one more event.
Post(boxes, members, e) ==
  [l \in Listeners |-> IF l \in members /\ Len(boxes[l]) < InboxSize
                       THEN Append(boxes[l], e) ELSE boxes[l]]

LogInit ==
  /\ history = <<>>
  /\ inbox = [l \in Listeners |-> <<>>]
  /\ attached = {}

Publish(e) ==
  /\ history' = Remember(history, e)
  /\ inbox' = Post(inbox, attached, e)
  /\ UNCHANGED attached

Attach(l) ==
  /\ attached' = attached \cup {l}
  /\ UNCHANGED <<history, inbox>>

Detach(l) ==
  /\ attached' = attached \ {l}
  /\ UNCHANGED <<history, inbox>>

Take(l) ==
  /\ inbox[l] # <<>>
  /\ inbox' = [inbox EXCEPT ![l] = Tail(@)]
  /\ UNCHANGED <<history, attached>>

LogNext ==
  \/ \E e \in Events : Publish(e)
  \/ \E l \in Listeners : Attach(l) \/ Detach(l) \/ Take(l)

LogSpec == LogInit /\ [][LogNext]_logVars
=============================================================================
