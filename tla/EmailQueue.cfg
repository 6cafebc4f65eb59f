\* One alert and two workers: crashes, timeouts, late arrivals and lost answers
\* across leases, the give-up time, the provider's memory of the idempotency key
\* and webhooks that race the record transaction.
SPECIFICATION Spec
CONSTANTS
    u1 = u1
    u2 = u2
    e1 = e1
    e2 = e2
    e3 = e3
    NoEmail = NoEmail
    User = {u1}
    Worker = {w1, w2}
    Email = {e1}
    FirstEmail <- OneFirstEmail
    Delivery = {1}
    Owner <- OneOwner
    KindOf <- OneAlert
    LeaseTime = 2
    FiveMinutes = 1
    GiveUp = 4
    AlertLife = 3
    Day = 4
    Month = 6
    Backoff <- ShortBackoff
    RetryAfter = {1}
    Window = 5
    PostDelay = 1
    HoldTime = 1
    DailyLimit = 3
    MonthlyLimit = 4
    MonthDays = 1
    SharedPlaces = 1
    Horizon = 7
    MaxVersion = 1
    Calls = {"settings", "listing"}
    Answers = {"accepted", "retry", "lost"}
    Faults = {"crash", "duplicate"}
    Preferences <- AllOn
    Reported = {"delivered", "bounced"}
INVARIANTS
    AtMostOnce
    SamePayload
    OneHolder
PROPERTIES
    OutcomeKept
    ImplementsMailbox
