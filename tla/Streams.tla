------------------------------- MODULE Streams -------------------------------
(***************************************************************************)
(* The places of open WebSocket and SSE streams: the leases in Redis that  *)
(* API processes share (app/request_limits/leases.py and the LEASE scripts *)
(* of scripts.py), the renewal that runs beside each stream and what ends  *)
(* it (streams.py), and the branch of the middleware that opens it.        *)
(*                                                                         *)
(* Time is what remains: of a lease, of a sleep, of a call's deadline.  A  *)
(* call is executed once at most, at any moment before its deadline, and   *)
(* its reply may be late or lost.                                          *)
(***************************************************************************)
EXTENDS Integers, FiniteSets

CONSTANTS
    Stream, Address,
    Capacity,       \* [each, all]: streams_per_ip and streams_total
    Lease,          \* lease_seconds
    Deadline        \* timeout of a call

\* every 60 s within 0.25 s, as deployed: two renewals that fail, and the
\* reply of the one before, take less than a lease
ASSUME LeaseAssumption ==
    /\ Lease \in Nat /\ Deadline \in Nat
    /\ Lease % 3 = 0 /\ 2 * (Lease \div 3) + 3 * Deadline < Lease
ASSUME CapacityAssumption == \A c \in Capacity : c.each \in Nat \ {0} /\ c.all \in Nat \ {0}

VARIABLES
    mode,       \* REQUEST_LIMIT_MODE: "enforce" or "shadow"
    capacity,
    from,       \* [Stream -> Address]
    lease,      \* [Stream -> what remains of its lease; 0: none]
    stream,     \* [Stream -> state of serve_stream() and renew_until_lost()]
    lost        \* Redis lost its data

Interval == Lease \div 3
Away == [pc |-> "away"]
Asking == [pc |-> "asking", left |-> Deadline, answer |-> "none"]
Sleeping(failures) == [pc |-> "sleeping", left |-> Interval, failures |-> failures]

StreamsInit ==
    /\ mode \in {"enforce", "shadow"} /\ capacity \in Capacity
    /\ from \in [Stream -> Address]
    /\ lease = [s \in Stream |-> 0]
    /\ stream = [s \in Stream |-> Away]
    /\ lost = FALSE

Served(s) == stream[s].pc \in {"sleeping", "renewing", "unleased"}
Leased == {s \in Stream : lease[s] > 0}
Becomes(s, state) == stream' = [stream EXCEPT ![s] = state]
Setting == <<mode, capacity, from>>

Open(s) ==
    /\ stream[s] = Away /\ lease[s] = 0      \* each stream has a token of its own
    /\ Becomes(s, Asking)
    /\ UNCHANGED <<Setting, lease, lost>>

NoPlace(s) ==
    \/ Cardinality({q \in Leased : from[q] = from[s]}) >= capacity.each
    \/ Cardinality(Leased) >= capacity.all

\* LEASE_ACQUIRE; the shadow mode's second call, without limits, is part of it
Acquire(s) ==
    /\ stream[s].pc = "asking" /\ stream[s].answer = "none"
    /\ IF NoPlace(s) /\ mode = "enforce"
         THEN stream' = [stream EXCEPT ![s].answer = "full"] /\ UNCHANGED lease
         ELSE stream' = [stream EXCEPT ![s].answer = "yes"] /\ lease' = [lease EXCEPT ![s] = Lease]
    /\ UNCHANGED <<Setting, lost>>

\* LimiterUnavailable, whether the script ran or not
Unavailable == IF mode = "shadow" THEN "unleased" ELSE "refused"

Admit(s) ==
    /\ stream[s].pc = "asking"
    /\ \/ stream[s].answer = "yes" /\ Becomes(s, Sleeping(0))
       \/ stream[s].answer = "full" /\ Becomes(s, [pc |-> "refused"])
       \/ Becomes(s, [pc |-> Unavailable])
    /\ UNCHANGED <<Setting, lease, lost>>

Renew(s) ==
    /\ stream[s].pc = "sleeping" /\ stream[s].left = 0
    /\ Becomes(s, [pc |-> "renewing", left |-> Deadline, answer |-> "none",
                   failures |-> stream[s].failures])
    /\ UNCHANGED <<Setting, lease, lost>>

\* LEASE_RENEW
Extend(s) ==
    /\ stream[s].pc = "renewing" /\ stream[s].answer = "none"
    /\ stream' = [stream EXCEPT ![s].answer = IF lease[s] > 0 THEN "yes" ELSE "no"]
    /\ lease' = [lease EXCEPT ![s] = IF @ > 0 THEN Lease ELSE 0]
    /\ UNCHANGED <<Setting, lost>>

\* the connection is cancelled and closed, unless the limits are only watched
Ends(s) == IF mode = "shadow" THEN [pc |-> "unleased"] ELSE [pc |-> "releasing", why |-> "lease"]

NotRenewed_GoesOn(s) == Sleeping(0)      \* mutant
NotRenewed(s) == Ends(s)

Patience == 2

Answer(s) ==
    /\ stream[s].pc = "renewing"
    /\ \/ stream[s].answer = "yes" /\ Becomes(s, Sleeping(0))
       \/ stream[s].answer = "no" /\ Becomes(s, NotRenewed(s))
       \/ Becomes(s, IF stream[s].failures + 1 >= Patience THEN Ends(s)
                     ELSE Sleeping(stream[s].failures + 1))
    /\ UNCHANGED <<Setting, lease, lost>>

\* the client leaves, the application ends the stream, or too many messages
Leave(s) ==
    /\ Served(s)
    /\ Becomes(s, [pc |-> "releasing", why |-> "client"])
    /\ UNCHANGED <<Setting, lease, lost>>

\* LEASE_RELEASE, or its failure: the lease then runs out by itself
Release(s) ==
    /\ stream[s].pc = "releasing"
    /\ lease' \in {lease, [lease EXCEPT ![s] = 0]}
    /\ Becomes(s, Away)
    /\ UNCHANGED <<Setting, lost>>

Retry(s) == stream[s].pc = "refused" /\ Becomes(s, Away) /\ UNCHANGED <<Setting, lease, lost>>

ApiCrash ==
    /\ \E s \in Stream : Served(s)
    /\ stream' = [s \in Stream |-> Away]
    /\ UNCHANGED <<Setting, lease, lost>>

RedisLoss ==
    /\ ~lost /\ lost' = TRUE
    /\ lease' = [s \in Stream |-> 0]
    /\ UNCHANGED <<Setting, stream>>

\* sleeps and deadlines are kept; nothing that is due waits for time to pass
Timed(s) == stream[s].pc \in {"asking", "sleeping", "renewing"}
Tick ==
    /\ \A s \in Stream : /\ Timed(s) => stream[s].left > 0
                         /\ stream[s].pc # "releasing"
    /\ \E s \in Stream : Timed(s) \/ lease[s] > 0
    /\ lease' = [s \in Stream |-> IF lease[s] > 0 THEN lease[s] - 1 ELSE 0]
    /\ stream' = [s \in Stream |-> IF Timed(s) THEN [stream[s] EXCEPT !.left = @ - 1] ELSE stream[s]]
    /\ UNCHANGED <<Setting, lost>>

StreamStep(s) == Admit(s) \/ Renew(s) \/ Answer(s) \/ Release(s)

StreamsNext ==
    \/ Tick \/ ApiCrash \/ RedisLoss
    \/ \E s \in Stream : \/ Open(s) \/ Acquire(s) \/ Extend(s) \/ Leave(s) \/ Retry(s)
                         \/ StreamStep(s)

streams == <<mode, capacity, from, lease, stream, lost>>

\* time passes, however often clients come and go
StreamsFairness == SF_streams(Tick) /\ \A s \in Stream : WF_streams(StreamStep(s))

-----------------------------------------------------------------------------
(* Properties                                                                *)

(* "Connection leases shared across SSE and WebSocket protocols", with       *)
(* "close before the last trustworthy lease can expire": while Redis keeps   *)
(* its data, failed calls, lost replies, failed releases and crashes never   *)
(* let more streams be open than the limits say.                             *)
OpenWithinLimits == mode = "enforce" /\ ~lost =>
    /\ Cardinality({s \in Stream : Served(s)}) <= capacity.all
    /\ \A a \in Address : Cardinality({s \in Stream : Served(s) /\ from[s] = a}) <= capacity.each

(* The shadow mode observes: it neither refuses a stream nor ends one,       *)
(* whatever Redis answers or does not.                                       *)
ShadowServes == mode = "shadow" =>
    \A s \in Stream : stream[s].pc # "refused"
                        /\ (stream[s].pc = "releasing" => stream[s].why = "client")

(* A stream that is not counted any more, its lease lost with Redis's data,  *)
(* does not stay open.                                                       *)
UncountedEnds == \A s \in Stream :
    mode = "enforce" /\ Served(s) /\ lease[s] = 0 ~> ~Served(s)

(* Leases of streams: within the limits while Redis keeps its data, ended    *)
(* when it does not, and left alone in shadow mode.                          *)
StreamsAreCounted == UncountedEnds /\ [](OpenWithinLimits /\ ShadowServes)
=============================================================================
