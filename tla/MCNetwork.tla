----------------------------- MODULE MCNetwork -----------------------------
(* What retrieves, polls and pushes: instances for TLC of components that    *)
(* share no state, one part of the state space each, with their fairness.    *)
EXTENDS Retrieval, Polling, Streams, LiveEvents

VARIABLE part

\* two streams compete: for an address's only place, or for the last one of all
Capacities == {[each |-> 1, all |-> 2], [each |-> 2, all |-> 1]}
Home == CHOOSE a \in Address : TRUE
Neighbours == \A s \in Stream : from[s] = Home
Contested ==
    /\ capacity.each = 1 <=> Neighbours
    /\ from[CHOOSE s \in Stream : TRUE] = Home
    /\ mode = "shadow" => Neighbours

\* sockets share the listener; a feed has a subscription of its own
Separate ==
    \E sockets \in BOOLEAN :
        /\ \A s \in Socket : socket[s] = IF sockets THEN "away" ELSE "gone"
        /\ \A f \in Feed : feed[f] = IF sockets THEN "gone" ELSE "away"

\* where the other parts stay
Beginning(p) ==
    CASE p = "live" -> \A s \in Socket : socket[s] = "away"
      [] p = "streams" -> mode = "enforce" /\ Neighbours

Init ==
    /\ part \in {"retrieval", "polling", "streams", "live"}
    /\ RetrievalInit /\ PollingInit /\ StreamsInit /\ LiveInit
    /\ Contested /\ Separate
    /\ \A p \in {"streams", "live"} \ {part} : Beginning(p)

Next ==
    /\ UNCHANGED part
    /\ \/ /\ part = "retrieval" /\ RetrievalNext
          /\ UNCHANGED <<polling, streams, live>>
       \/ /\ part = "polling" /\ PollingNext
          /\ UNCHANGED <<retrieval, streams, live>>
       \/ /\ part = "streams" /\ StreamsNext
          /\ UNCHANGED <<retrieval, polling, live>>
       \/ /\ part = "live" /\ LiveNext
          /\ UNCHANGED <<retrieval, polling, streams>>

Spec == Init /\ [][Next]_<<part, retrieval, polling, streams, live>>

\* only polling begins by itself
LiveSpec ==
    /\ Spec
    /\ RetrievalFairness /\ StreamsFairness /\ LiveFairness
    /\ part = "polling" => PollingFairness
=============================================================================
