\* Two subscribers share one account: a recap and the alert it may fold, daily and
\* monthly charges, quota errors, the recap reserve and lost answers.
SPECIFICATION Spec
CONSTANTS
    u1 = u1
    u2 = u2
    e1 = e1
    e2 = e2
    e3 = e3
    NoEmail = NoEmail
    User = {u1, u2}
    Worker = {w1}
    Email = {e1, e2}
    FirstEmail <- TwoFirstEmails
    Delivery = {1, 2, 3}
    Owner <- RecapFirstUser
    KindOf <- RecapAndAlerts
    LeaseTime = 2
    FiveMinutes = 1
    GiveUp = 2
    AlertLife = 2
    Day = 1
    Month = 2
    Backoff <- ShortBackoff
    RetryAfter = {1}
    Window = 3
    PostDelay = 1
    HoldTime = 2
    DailyLimit = 2
    MonthlyLimit = 3
    MonthDays = 1
    SharedPlaces = 2
    Horizon = 3
    MaxVersion = 1
    Calls = {"settings"}
    Answers = {"accepted", "daily", "lost"}
    Faults = {}
    Preferences <- AllOn
    Reported = {}
INVARIANTS
    ChargedWithinLimits
    SentIsNotWrittenOff
