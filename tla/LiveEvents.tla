----------------------------- MODULE LiveEvents -----------------------------
(***************************************************************************)
(* Job events on their way to browsers: EventPublisher                     *)
(* (app/events/publisher.py), the Pub/Sub subscription of the API's        *)
(* RedisEventConsumer (consumer.py), ConnectionManager                     *)
(* (app/api/v1/websocket_manager.py), the /ws/live endpoint (ws.py) and    *)
(* the /sse/feed stream, which subscribes by itself (sse.py).              *)
(*                                                                         *)
(* Events are numbered as they are published.  A listener handles one      *)
(* event at a time: it sends it to a snapshot of the registered sockets,   *)
(* at once, waits for all sends and drops the sockets whose send failed.   *)
(***************************************************************************)
EXTENDS Integers, FiniteSets, Sequences, SequencesExt

CONSTANTS
    Socket, Feed,   \* WebSocket and SSE connections
    MaxEvents       \* bound: events published

ASSUME LiveAssumption == MaxEvents \in Nat /\ Socket \cap Feed = {}

VARIABLES
    published,  \* events so far
    bus,        \* history: those that Redis handed on, in order
    listener,   \* "up" or "down": the consumer's task
    inbox,      \* events in its subscription
    sending,    \* sockets whose send of the present event is awaited
    current,    \* the event being broadcast, 0 between broadcasts
    dropped,    \* sockets whose send failed
    registered, \* ConnectionManager._connections
    socket,     \* [Socket -> "away", "accepted", "open", "gone"]
    feed,       \* [Feed -> "away", "open", "gone"]
    mailbox,    \* [Feed -> events in its own subscription]
    received    \* [Socket \cup Feed -> events its client got]

Taken == <<published, bus, listener, inbox, feed, mailbox>>
Round == <<sending, current, dropped>>

LiveInit ==
    /\ published = 0 /\ bus = <<>> /\ listener = "up" /\ inbox = <<>>
    /\ sending = {} /\ current = 0 /\ dropped = {} /\ registered = {}
    /\ socket \in [Socket -> {"away", "gone"}] /\ feed \in [Feed -> {"away", "gone"}]
    /\ mailbox = [f \in Feed |-> <<>>]
    /\ received = [c \in Socket \cup Feed |-> <<>>]

Got(c, event) == [received EXCEPT ![c] = Append(@, event)]

\* Redis hands it to whoever is subscribed; an outage loses it
PublishJobEvent(reaches) ==
    /\ published < MaxEvents
    /\ published' = published + 1
    /\ bus' = IF reaches THEN Append(bus, published + 1) ELSE bus
    /\ inbox' = IF reaches /\ listener = "up" THEN Append(inbox, published + 1) ELSE inbox
    /\ mailbox' = [f \in Feed |-> IF reaches /\ feed[f] = "open"
                                    THEN Append(mailbox[f], published + 1) ELSE mailbox[f]]
    /\ UNCHANGED <<Round, listener, registered, socket, feed, received>>

IdleListener == current = 0

\* broadcast_json(): the snapshot
Broadcast ==
    /\ listener = "up" /\ inbox # <<>> /\ IdleListener
    /\ inbox' = Tail(inbox)
    /\ current' = Head(inbox) /\ sending' = registered /\ dropped' = {}
    /\ UNCHANGED <<published, bus, listener, registered, socket, feed, mailbox, received>>

Delivered(s) ==
    /\ s \in sending /\ socket[s] = "open"
    /\ sending' = sending \ {s}
    /\ received' = Got(s, current)
    /\ UNCHANGED <<Taken, current, dropped, registered, socket>>

\* five seconds, or a socket that is gone; what was written may still arrive
TimesOut_Never(s) == socket[s] # "open"      \* mutant
TimesOut(s) == TRUE

SendFails(s) ==
    /\ s \in sending /\ TimesOut(s)
    /\ sending' = sending \ {s} /\ dropped' = dropped \cup {s}
    /\ received' \in {received, Got(s, current)} /\ (socket[s] # "open" => received' = received)
    /\ UNCHANGED <<Taken, current, registered, socket>>

Kept == registered \ dropped

\* dropped sockets are closed, each within a second or not at all
EndBroadcast ==
    /\ current # 0 /\ sending = {}
    /\ current' = 0 /\ dropped' = {}
    /\ registered' = Kept
    /\ \E closed \in SUBSET dropped :
         socket' = [s \in Socket |-> IF s \in closed THEN "gone" ELSE socket[s]]
    /\ UNCHANGED <<Taken, sending, received>>

\* a Redis error ends the listener; nothing starts it again before the process ends
ListenerDies ==
    /\ listener = "up" /\ IdleListener
    /\ listener' = "down" /\ inbox' = <<>>
    /\ UNCHANGED <<Round, published, bus, registered, socket, feed, mailbox, received>>

Accept(s) ==
    /\ socket[s] = "away"
    /\ socket' = [socket EXCEPT ![s] = "accepted"]
    /\ UNCHANGED <<Taken, Round, registered, received>>

Register(s) ==
    /\ socket[s] = "accepted"
    /\ socket' = [socket EXCEPT ![s] = "open"] /\ registered' = registered \cup {s}
    /\ UNCHANGED <<Taken, Round, received>>

\* the client leaves, or its lease is lost: the endpoint's finally
Disconnect(s) ==
    /\ socket[s] = "open"
    /\ socket' = [socket EXCEPT ![s] = "gone"] /\ registered' = registered \ {s}
    /\ UNCHANGED <<Taken, Round, received>>

Subscribe(f) ==
    /\ feed[f] = "away"
    /\ feed' = [feed EXCEPT ![f] = "open"]
    /\ UNCHANGED <<Round, published, bus, listener, inbox, registered, socket, mailbox, received>>

Yield(f) ==
    /\ feed[f] = "open" /\ mailbox[f] # <<>>
    /\ mailbox' = [mailbox EXCEPT ![f] = Tail(@)]
    /\ received' = Got(f, Head(mailbox[f]))
    /\ UNCHANGED <<Round, published, bus, listener, inbox, registered, socket, feed>>

Unsubscribe(f) ==
    /\ feed[f] = "open"
    /\ feed' = [feed EXCEPT ![f] = "gone"] /\ mailbox' = [mailbox EXCEPT ![f] = <<>>]
    /\ UNCHANGED <<Round, published, bus, listener, inbox, registered, socket, received>>

LiveNext ==
    \/ \E reaches \in BOOLEAN : PublishJobEvent(reaches)
    \/ Broadcast \/ EndBroadcast \/ ListenerDies
    \/ \E s \in Socket : Delivered(s) \/ SendFails(s) \/ Accept(s) \/ Register(s) \/ Disconnect(s)
    \/ \E f \in Feed : Subscribe(f) \/ Yield(f) \/ Unsubscribe(f)

live == <<Taken, Round, registered, socket, received>>

\* the listener runs, and every send ends within its timeout; clients owe nothing
LiveFairness ==
    /\ WF_live(Broadcast) /\ WF_live(EndBroadcast)
    /\ \A s \in Socket : WF_live(SendFails(s))

-----------------------------------------------------------------------------
(* Properties                                                                *)

Consecutive(part, whole) ==
    \E i \in 0 .. Len(whole) - Len(part) : part = SubSeq(whole, i + 1, i + Len(part))

(* What a connected client gets is what was handed on, in order and without  *)
(* a gap, from some event on until it is dropped: however slow others are,   *)
(* whoever joins or leaves during a broadcast, and although a send that timed*)
(* out may have arrived.                                                     *)
NoGaps == \A c \in Socket \cup Feed : Consecutive(received[c], bus)

(* "Evict connections that fail": one that does not read holds up a broadcast*)
(* for its timeout, not for ever.                                            *)
BroadcastsEnd == current # 0 ~> current = 0

(* Fan-out to sockets and feeds: in order, without gaps, and no broadcast is *)
(* held up for ever.                                                         *)
EventsReachClients == BroadcastsEnd /\ []NoGaps
=============================================================================
