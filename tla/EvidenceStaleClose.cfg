\* A posting closes between the reading of a worker and its lock.
SPECIFICATION Spec
CONSTANTS
    t1 = t1
    t2 = t2
    w1 = w1
    w2 = w2
    Job = {1}
    Target = {t1, t2}
    FirstTarget = t1
    Feed = {1}
    Facts = {3}
    Process = {w1}
    Width = 1
    BackfillLimit = 1
    LeaseTime = 2
    CollectTime = 1
    Hour = 1
    Day = 2
    Results = {"complete"}
    MaxOccurrence = 1
    MaxObserved = 1
    Horizon = 3
PROPERTIES
    LandsOnOpen
