\* Two fetches over two domains, two targets with a singleton lock, two streams at the
\* last place, two sockets and a feed behind one listener.  Inputs and moments are
\* bounded, so each part comes to an end.
SPECIFICATION LiveSpec
CONSTANTS
    Caller = {c1, c2}
    Domain = {d1, d2}
    MaxHops = 3
    MaxAttempts = 2
    CooldownTime = 2
    LastMoment = 5
    Worker = {w1, w2}
    Targets = 2
    MaxCommits = 3
    MaxEnds = 2
    Stream = {s1, s2}
    Address = {a1, a2}
    Capacity <- Capacities
    Lease = 12
    Deadline = 1
    Socket = {x1, x2}
    Feed = {f1}
    MaxEvents = 3
PROPERTIES
    StreamsAreCounted
    EventsReachClients
    GetsAreServed
    PollsCatchUp
CHECK_DEADLOCK FALSE
