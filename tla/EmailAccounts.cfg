\* Two subscribers and one shared place: opting in and out, addresses that move,
\* bounce and return, connections replaced, tested and removed while mail is under
\* way.
SPECIFICATION Spec
CONSTANTS
    u1 = u1
    u2 = u2
    e1 = e1
    e2 = e2
    e3 = e3
    NoEmail = NoEmail
    User = {u1, u2}
    Worker = {w1}
    Email = {e1, e2, e3}
    FirstEmail <- TwoFirstEmails
    Delivery = {1}
    Owner <- OneOwner
    KindOf <- OneTest
    LeaseTime = 2
    FiveMinutes = 1
    GiveUp = 4
    AlertLife = 4
    Day = 4
    Month = 6
    Backoff <- ShortBackoff
    RetryAfter = {1}
    Window = 5
    PostDelay = 1
    HoldTime = 2
    DailyLimit = 3
    MonthlyLimit = 4
    MonthDays = 1
    SharedPlaces = 1
    Horizon = 1
    MaxVersion = 3
    Calls = {"settings", "get", "identity", "provider", "remove", "unsubscribe", "test"}
    Answers = {"accepted", "rejected", "monthly"}
    Faults = {"configuration", "identity", "duplicate"}
    Preferences <- AllOn
    Reported = {"complained"}
INVARIANTS
    SuppressionIsDeserved
    SharedPlacesBound
PROPERTIES
    ReadyIsTested
