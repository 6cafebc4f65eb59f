\* Two postings and a backfill of one at a time; two events among closures, reposts,
\* requests, new pages and crashes; checks that only ever come back partial.
SPECIFICATION LiveSpec
CONSTANTS
    t1 = t1
    t2 = t2
    w1 = w1
    w2 = w2
    Job = {1, 2}
    Target = {t1}
    FirstTarget = t1
    Feed = {1}
    Facts = {3, 4}
    Process = {w1}
    Width = 1
    BackfillLimit = 1
    LeaseTime = 2
    CollectTime = 1
    Hour = 1
    Day = 2
    Results = {"partial"}
    MaxOccurrence = 2
    MaxObserved = 2
    Horizon = 2
PROPERTIES
    ChecksProgress
