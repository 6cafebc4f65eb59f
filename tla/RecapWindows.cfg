\* One subscriber, two discoveries of two topics, two time zones: windows closed on
\* time, late, merged, restarted and moved; topics change between a discovery and
\* its matching; the backlog drains and due windows close.
SPECIFICATION LiveSpec
CONSTANTS
    u1 = u1
    o1 = o1
    o2 = o2
    t1 = t1
    t2 = t2
    z1 = z1
    z2 = z2
    User = {u1}
    Occurrence = {o1, o2}
    Topic = {t1, t2}
    TopicOf <- TwoTopics
    Zone = {z1, z2}
    CutoffOf <- Cutoffs
    FirstZone = z1
    DayLength = 2
    Lags = {0, 1}
    BatchSize = 1
    Horizon = 3
    TopicChoices <- OneAtATime
    Preferences <- BothOrNone
INVARIANTS
    RecapsAreApart
    NothingMissed
PROPERTIES
    BacklogDrains
