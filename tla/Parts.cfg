\* Pages with two statements and their buckets, three observations of a posting, the
\* collection of one check, two requests at the token buckets, files of three rows.
\* Inputs are bounded, so each part comes to an end.
SPECIFICATION Spec
CONSTANTS
    Request = {r1, r2}
    Client = {k1}
    Cost = 2
    Policy <- Rates
    Concurrency = 1
    Embedded <- Records
    Linked <- Links
    Renders = {TRUE, FALSE}
    Statement <- Statements
    Pay <- Pays
    Profile <- Profiles
    Posting <- Postings
    Kinds <- ThreeKinds
    MaxStatements = 2
    RecentYear = 2023
    NoAmount <- Minus
    AnyPlace <- Anywhere
    Source <- Sources
    Direct = {"greenhouse", "lever"}
    Listed = {"github_markdown"}
    Marked = {"github_markdown"}
    Payload <- Rows
    Observation <- Observations
    MaxEvidence = 2
    MaxObservations = 3
    TableRow <- TableRows
    Mark = {"kept", "added", "removed", "edited"}
    MaxRows = 3
    OldPosting = {3, 7}
    Subscribed = {u1, u2}
    Deliveries <- OldDeliveries
    MaxReleases = 2
    MaxMoments = 2
    Command = {c1, c2}
    Watches = {c1}
    Chain <- Chains
    ModelReply <- ModelReplies
    KeptChecks = 2
    MaxChecks = 3
    Employer <- Employers
    DisclosureRow <- DisclosureRows
    FiscalYears <- Years
    Alias <- Aliases
    MaxFilings = 2
    MaxImports = 3
    TierOf <- Tiers
    StatedLocations = {"", "a", "b"}
    Vague = {""}
    MaxBatch = 2
    MaxHeard = 3
    Writer = {w1, w2}
    Patient = {w1}
    Bulk = {w2}
    BaseHash = {b1}
    Field = {1, 2}
    Detail = {0, 1}
    MaxSaves = 3
    Adoptions = {0, 1}
    MaxRelease = 3
    MaxCommands = 4
    Outages = {"fail", "kill", "reboot", "recovery"}
    Role = {j1}
    SourceRow <- ListedRows
    MaxFiles = 2
    MaxPerFile = 1
    MaxEditions = 3
    Reader = {f1}
    Revisions = 3
    Large = {2, 3}
    Attempts = 3
    MinDelay = 1
    MaxDelay = 3
    Jitter = 1
    RetryAfter = {0, 2, 9}
    Scraper = {q1, q2}
    Host = {h1, h2, h3}
    RateOf <- Speeds
    MaxHosts = 2
    TokenAmount = {1, 3}
    MaxAsks = 4
    Leisure = 0
INVARIANTS
    LimitsAreKept
    CheckIsSound
    VerdictsAreFounded
    ShownIsBest
    TablesAreRead
    HistoryIsSound
    FilingsAreTrue
    PlaceIsBest
    RunsFollowSql
    ReadsAreSound
    RateHolds
PROPERTIES
    MigrationKeeps
    EventsTellCommits
    ReleasesSurvive
CHECK_DEADLOCK FALSE
