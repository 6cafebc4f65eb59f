\* Lifecycle: two passes that spell the company differently, over boards, feeds and
\* closures: insert at once, close, reopen, repost.  Attempts: an agent takes
\* an application through every status and starts over twice, while the operator lists,
\* looks up and resets it and the posting closes and reopens.  Evidence: two workers and
\* two events from outside: a lease that runs out, a target that moves and returns, a
\* closure, a repost, a page that changes while it is read.  Passes are numbered, so
\* that part comes to an end.
SPECIFICATION RecordsSpec
CONSTANTS
    a1 = a1
    a2 = a2
    b1 = b1
    tenantA = tenantA
    tenantB = tenantB
    p1 = p1
    p2 = p2
    NoIdentity = NoIdentity
    Pass = {p1, p2}
    CompanyName <- TwoNames
    Observation <- AllSources
    Url <- Links
    UrlIdentity <- LinkIdentity
    UrlRank <- LinkRank
    Identity = {a1, a2, b1}
    Namespace = {tenantA, tenantB}
    NamespaceOf <- Tenant
    Date = {1, 2}
    Beginnings = {"empty", "bare", "backfilled"}
    MaxRuns = 3
    agent = agent
    operator = operator
    Session = {agent, operator}
    Posting = {1}
    ToolsOf <- AgentAndOperator
    MaxStarts <- Thrice
    t1 = t1
    t2 = t2
    w1 = w1
    w2 = w2
    Job = {1}
    Target = {t1, t2}
    FirstTarget = t1
    Feed = {1}
    Facts = {3, 4}
    Process = {w1, w2}
    Width = 1
    BackfillLimit = 1
    LeaseTime = 2
    CollectTime = 1
    Hour = 1
    Day = 2
    Results = {"complete"}
    MaxOccurrence = 2
    MaxObserved = 2
    Horizon = 3
SYMMETRY Workers
INVARIANTS
    RecordsAgree
    CacheFollowsSql
    AttemptsConsistent
    VerifiedStands
PROPERTIES
    HistoryIsFinal
    ReopenedByIdentity
    OnlyResetRequeues
    LandsOnCurrent
CHECK_DEADLOCK FALSE
