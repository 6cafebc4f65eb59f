---------------------------- MODULE EmailDelivery ----------------------------
(***************************************************************************)
(* Leased, idempotent e-mail delivery: the claim / POST / record cycle of  *)
(* app/notifications/worker.py, the preference, connection and webhook     *)
(* handlers of app/notifications/api.py that interleave with it, and the   *)
(* e-mail provider they talk to.                                           *)
(*                                                                         *)
(* Every handler and every worker transaction starts with core.lock, a     *)
(* SELECT ... FOR UPDATE of one row, so each of them is one atomic action. *)
(* The POST is made between the claim and the record transactions, outside *)
(* the lock: claim, arrival at the provider and record are three actions,  *)
(* between which any other action may happen.                              *)
(*                                                                         *)
(* NULL columns are 0 (the clock starts at 1) or NoBody.                   *)
(***************************************************************************)
EXTENDS Integers, FiniteSets

CONSTANTS
    User, Worker,
    Email,          \* e-mail addresses, None excluded
    FirstEmail,     \* [User -> Email]: the address of each first sign-in
    Delivery,       \* rows of notification_deliveries, natural numbers
    Owner,          \* [Delivery -> User]
    KindOf,         \* [Delivery -> Kinds]
    NoEmail,        \* the address of a payload that was never rendered
    \* durations, in ticks of the model's clock
    LeaseTime, FiveMinutes, GiveUp, AlertLife, Day, Month, Backoff, RetryAfter,
    Window,         \* how long the provider remembers an idempotency key
    PostDelay,      \* longest time from a claim to the request's arrival
    HoldTime,       \* longest time from a claim to its record transaction
    \* limits
    DailyLimit, MonthlyLimit, MonthDays, SharedPlaces,
    \* bounds of the instance
    Horizon,        \* last value of the clock
    MaxVersion,     \* connection versions a user may go through
    Calls,          \* the API calls the environment makes
    Answers,        \* the answers the provider gives to a request
    Preferences,    \* the <<alerts, recap>> pairs subscribers choose from
    Reported,       \* the outcomes the provider sends webhooks about
    Faults          \* the dependencies that may fail during a claim

Kinds == {"alert", "recap", "test"}
Statuses == {"absent", "pending", "sending", "accepted", "delivered", "bounced",
             "complained", "failed", "cancelled", "reconcile", "expired", "recap_only"}
Outcomes == {"delivered", "bounced", "complained"}
HookTypes == Outcomes
Listings == {"open", "edited", "closed"}
AllAnswers == {"accepted", "daily", "monthly", "rejected", "retry", "lost"}
Account == User \cup {"shared"}
Doublings == 1 .. 8

ASSUME DeliveryAssumption == Delivery \subseteq Nat /\ IsFiniteSet(Delivery)
ASSUME UserAssumption == IsFiniteSet(User) /\ "shared" \notin User
ASSUME OwnerAssumption == Owner \in [Delivery -> User] /\ KindOf \in [Delivery -> Kinds]
ASSUME EmailAssumption ==
    /\ NoEmail \notin Email
    /\ FirstEmail \in [User -> Email]
    /\ \A u, v \in User : FirstEmail[u] = FirstEmail[v] => u = v
ASSUME DurationAssumption ==
    /\ {LeaseTime, FiveMinutes, GiveUp, AlertLife, Day, Month, Horizon} \subseteq Nat \ {0}
    /\ {Window, PostDelay, HoldTime, MaxVersion} \subseteq Nat
    /\ Backoff \in [Doublings -> Nat \ {0}]
    /\ RetryAfter \subseteq Nat \ {0}
ASSUME ChoiceAssumption ==
    /\ Preferences \subseteq BOOLEAN \X BOOLEAN
    /\ Reported \subseteq HookTypes /\ Answers \subseteq AllAnswers
ASSUME LimitAssumption == {DailyLimit, MonthlyLimit, MonthDays, SharedPlaces} \subseteq Nat

VARIABLES
    now,        \* the clock of the workers, the API and the provider
    usr,        \* [User -> row of notification_subscribers]
    idp,        \* [User -> what the identity service says of the user]
    dlv,        \* [Delivery -> row of notification_deliveries]
    blocked,    \* [Account -> notification_accounts.blocked_until]
    listing,    \* [Delivery -> state of the postings the e-mail shows]
    wrk,        \* [Worker -> the claim the worker holds]
    stray,      \* requests whose sender no longer waits for them
    prov,       \* [Delivery -> what the provider did under that key]
    hook,       \* [Delivery \X HookTypes -> webhook state at the provider]
    seen,       \* notification_webhooks: the event ids already applied
    barred      \* history: addresses for which a bounce or complaint was applied

vars == <<now, usr, idp, dlv, blocked, listing, wrk, stray, prov, hook, seen, barred>>

NoBody == [to |-> NoEmail, from |-> 0, text |-> "open"]
NoJob == [pc |-> "idle", d |-> 0, at |-> 0, acct |-> "shared", body |-> NoBody,
          answer |-> "lost", pid |-> 0]
NoRow == [status |-> "absent", created |-> 0, due |-> 0, lease |-> 0, first |-> 0,
          attempts |-> 0, body |-> NoBody, acct |-> "shared", version |-> 0, pid |-> 0]
Unsent == [sends |-> 0, at |-> 0, acct |-> "shared", body |-> NoBody]

BodyType == [to : Email \cup {NoEmail}, from : Nat, text : Listings]
RowType == [status : Statuses, created : Nat, due : Nat, lease : Nat, first : Nat,
            attempts : Nat, body : BodyType, acct : Account, version : Nat, pid : Nat]
UserType == [verified : BOOLEAN, suppressed : BOOLEAN, alerts : BOOLEAN, recap : BOOLEAN,
             status : {"ready", "needs_test", "sender_error", "configuration_error"},
             provider : {"shared", "byok"}, version : Nat, email : Email]
JobType == [pc : {"posting", "answered"}, d : Delivery, at : Nat, acct : Account,
            body : BodyType, answer : AllAnswers, pid : Nat]
RequestType == [d : Delivery, at : Nat, acct : Account, body : BodyType]

(* Every variable keeps its type: rows, claims and requests are the records *)
(* that models.py and worker.py build.                                      *)
TypeOK ==
    /\ now \in Nat
    /\ usr \in [User -> UserType]
    /\ idp \in [User -> [email : Email, verified : BOOLEAN]]
    /\ dlv \in [Delivery -> RowType]
    /\ blocked \in [Account -> Nat]
    /\ listing \in [Delivery -> Listings]
    /\ wrk \in [Worker -> JobType \cup {NoJob}]
    /\ stray \subseteq RequestType
    /\ prov \in [Delivery -> [sends : Nat, at : Nat, acct : Account, body : BodyType]]
    /\ hook \in [Delivery \X HookTypes -> {"none", "outstanding", "acked"}]
    /\ seen \subseteq Delivery \X HookTypes
    /\ barred \subseteq Email

Init ==
    /\ now = 1
    /\ idp = [u \in User |-> [email |-> FirstEmail[u], verified |-> TRUE]]
    /\ usr = [u \in User |->
                [verified |-> TRUE, suppressed |-> FALSE, alerts |-> FALSE, recap |-> FALSE,
                 status |-> "ready", provider |-> "shared", version |-> 1,
                 email |-> FirstEmail[u]]]
    /\ dlv = [d \in Delivery |-> NoRow]
    /\ blocked = [a \in Account |-> 0]
    /\ listing = [d \in Delivery |-> "open"]
    /\ wrk = [w \in Worker |-> NoJob]
    /\ stray = {}
    /\ prov = [d \in Delivery |-> Unsent]
    /\ hook = [e \in Delivery \X HookTypes |-> "none"]
    /\ seen = {}
    /\ barred = {}

Larger(a, b) == IF a < b THEN b ELSE a
Smaller(a, b) == IF a < b THEN a ELSE b

-----------------------------------------------------------------------------
(* The API: every handler first runs subscriber(), which refreshes the row   *)
(* from the caller's identity.  A handler that raises is rolled back.        *)

AccountOf(u) == IF usr[u].provider = "shared" THEN "shared" ELSE u

Moved(u) == usr[u].email # idp[u].email

Admitted(u) == Moved(u) => \A v \in User \ {u} : usr[v].email # idp[u].email

Refreshed(u) ==
    LET row == IF Moved(u)
                 THEN [usr[u] EXCEPT !.email = idp[u].email, !.alerts = FALSE,
                                     !.recap = FALSE, !.suppressed = FALSE,
                                     !.version = @ + 1]
                 ELSE usr[u]
    IN  [row EXCEPT !.verified = idp[u].verified]

RefreshedMail(u) == IF Moved(u) \/ ~idp[u].verified THEN Kinds ELSE {}

\* cancel_pending and the two UPDATEs of put_settings: pending rows of some kinds
Cancelling(u, kinds) ==
    [d \in Delivery |->
        IF Owner[d] = u /\ KindOf[d] \in kinds /\ dlv[d].status = "pending"
          THEN [dlv[d] EXCEPT !.status = "cancelled"] ELSE dlv[d]]

SharedUsers(rows, u) ==
    {v \in User \ {u} : /\ rows[v].provider = "shared" /\ ~rows[v].suppressed
                        /\ (rows[v].alerts \/ rows[v].recap)}

HasPlace_OneOver(u) ==  \* mutant
    usr[u].provider = "shared" => Cardinality(SharedUsers(usr, u)) <= SharedPlaces

HasPlace(u) == usr[u].provider = "shared" => Cardinality(SharedUsers(usr, u)) < SharedPlaces

ApiCall(u, name) == /\ name \in Calls /\ Admitted(u)
                    /\ Refreshed(u).version <= MaxVersion
                    /\ UNCHANGED <<now, idp, blocked, listing, wrk, stray, prov, hook, seen,
                                   barred>>

GetSettings(u) ==
    /\ ApiCall(u, "get")
    /\ usr' = [usr EXCEPT ![u] = Refreshed(u)]
    /\ dlv' = Cancelling(u, RefreshedMail(u))

PutSettings(u, alerts, recap) ==
    /\ ApiCall(u, "settings")
    /\ (alerts \/ recap) => /\ idp[u].verified /\ ~Refreshed(u).suppressed
                            /\ HasPlace(u)
    /\ usr' = [usr EXCEPT ![u] = [Refreshed(u) EXCEPT !.alerts = alerts, !.recap = recap]]
    /\ dlv' = Cancelling(u, RefreshedMail(u) \cup (IF alerts THEN {} ELSE {"alert"})
                                            \cup (IF recap THEN {} ELSE {"recap"}))

PutProvider(u) ==
    /\ ApiCall(u, "provider") /\ Refreshed(u).version < MaxVersion
    /\ usr' = [usr EXCEPT ![u] = [Refreshed(u) EXCEPT !.provider = "byok",
                                     !.status = "needs_test", !.version = @ + 1]]
    /\ dlv' = Cancelling(u, Kinds)

DeleteProvider(u) ==
    /\ ApiCall(u, "remove") /\ Refreshed(u).version < MaxVersion
    /\ usr' = [usr EXCEPT ![u] = [Refreshed(u) EXCEPT !.provider = "shared",
                                     !.status = "ready", !.version = @ + 1,
                                     !.alerts = FALSE, !.recap = FALSE]]
    /\ dlv' = Cancelling(u, Kinds)

NewRow == [NoRow EXCEPT !.status = "pending", !.created = now, !.due = now]

TestProvider(d) ==
    LET u == Owner[d] IN
    /\ ApiCall(u, "test")
    /\ dlv[d].status = "absent" /\ KindOf[d] = "test"
    /\ idp[u].verified /\ ~Refreshed(u).suppressed
    /\ usr[u].provider = "byok"
    /\ \A x \in Delivery : Owner[x] = u /\ KindOf[x] = "test" /\ dlv[x].status # "absent"
                            => dlv[x].created + FiveMinutes <= now
    /\ usr' = [usr EXCEPT ![u] = Refreshed(u)]
    /\ dlv' = [Cancelling(u, RefreshedMail(u)) EXCEPT ![d] = NewRow]

Unsubscribe(u) ==       \* by the token of an e-mail: no identity, no refresh
    /\ "unsubscribe" \in Calls
    /\ usr' = [usr EXCEPT ![u].alerts = FALSE, ![u].recap = FALSE]
    /\ dlv' = Cancelling(u, Kinds)
    /\ UNCHANGED <<now, idp, blocked, listing, wrk, stray, prov, hook, seen, barred>>

-----------------------------------------------------------------------------
(* prepare(): what matching and recaps do to deliveries.  Which discoveries  *)
(* they come from is the subject of DiscoveryMatching.                       *)

Reachable(u) == usr[u].verified /\ ~usr[u].suppressed

NeverAttempted_Pending(d) == dlv[d].status = "pending"      \* mutant
NeverAttempted(d) == dlv[d].status = "pending" /\ dlv[d].first = 0

PrepareFrame == UNCHANGED <<now, usr, idp, blocked, listing, wrk, stray, prov, hook, seen,
                            barred>>

MatchAlert(d) ==
    /\ dlv[d].status = "absent" /\ KindOf[d] = "alert" /\ listing[d] # "closed"
    /\ Reachable(Owner[d]) /\ usr[Owner[d]].alerts
    /\ dlv' = [dlv EXCEPT ![d] = NewRow]
    /\ PrepareFrame

UnsentRecaps(u) == {x \in Delivery : Owner[x] = u /\ KindOf[x] = "recap" /\ NeverAttempted(x)}

Folded(rows, alerts) ==
    [x \in Delivery |-> IF x \in alerts THEN [rows[x] EXCEPT !.status = "recap_only"]
                                        ELSE rows[x]]

\* one user's cutoff: a new recap, or more matches in the one still unsent
MakeRecap(d) ==
    LET u == Owner[d] IN
    /\ KindOf[d] = "recap" /\ Reachable(u) /\ usr[u].recap
    /\ \/ dlv[d].status = "absent" /\ UnsentRecaps(u) = {}
       \/ d \in UnsentRecaps(u)
    /\ \E alerts \in SUBSET {x \in Delivery : /\ Owner[x] = u /\ KindOf[x] = "alert"
                                             /\ NeverAttempted(x)} :
          dlv' = Folded([dlv EXCEPT ![d] = IF dlv[d].status = "absent" THEN NewRow
                                           ELSE [dlv[d] EXCEPT !.body = NoBody, !.due = now]],
                        alerts)
    /\ PrepareFrame

-----------------------------------------------------------------------------
(* claim(): one transaction walks the due rows in order, settles each row    *)
(* that must not be sent and leases the first one that may.                  *)

Charged(a, rows) == {x \in Delivery : rows[x].acct = a /\ rows[x].first # 0}

ChargedSince(a, rows, span) == {x \in Charged(a, rows) : rows[x].first >= now - span}

RecapUsers(a, dropped) ==
    {u \in User \ dropped : AccountOf(u) = a /\ usr[u].recap /\ Reachable(u)}

Budget_OneOver(a, kind, dropped) ==     \* mutant
    /\ blocked[a] <= now
    /\ Cardinality(ChargedSince(a, dlv, Day)) <= DailyLimit
    /\ Cardinality(ChargedSince(a, dlv, Month)) <= MonthlyLimit

Budget(a, kind, dropped) ==
    LET recaps == IF kind = "recap" THEN 0 ELSE Cardinality(RecapUsers(a, dropped))
    IN  /\ blocked[a] <= now
        /\ Cardinality(ChargedSince(a, dlv, Day)) < DailyLimit - recaps
        /\ Cardinality(ChargedSince(a, dlv, Month)) < MonthlyLimit - recaps * MonthDays

LeaseFree_Ignored(d) == TRUE    \* mutant
LeaseFree(d) == dlv[d].lease <= now

Candidates == {d \in Delivery : /\ dlv[d].status \in {"pending", "sending"}
                               /\ dlv[d].due <= now /\ LeaseFree(d)}

LastCharge(u) ==
    LET charges == {dlv[x].first : x \in {y \in Delivery : Owner[y] = u}} \cup {0}
    IN  CHOOSE t \in charges : \A s \in charges : s <= t

\* recaps first, then the recipient charged longest ago, then age
Before(c, d) ==
    LET key(x) == <<IF KindOf[x] = "recap" THEN 0 ELSE 1, LastCharge(Owner[x]),
                    dlv[x].created, x>>
    IN  \E i \in 1 .. 4 : /\ key(c)[i] < key(d)[i]
                         /\ \A j \in 1 .. (i - 1) : key(c)[j] = key(d)[j]

Unwelcome(d, dropped) ==
    LET u == Owner[d] IN
    \/ usr[u].suppressed \/ ~usr[u].verified \/ u \in dropped
    \/ KindOf[d] = "alert" /\ ~usr[u].alerts
    \/ KindOf[d] = "recap" /\ ~usr[u].recap

Reconnected(d) == dlv[d].version # 0 /\ dlv[d].version # usr[Owner[d]].version

OnHold(d) == usr[Owner[d]].status \in {"sender_error", "needs_test"} /\ KindOf[d] # "test"

GivenUp_SinceDue(d) == dlv[d].first # 0 /\ now - dlv[d].due >= GiveUp   \* mutant
GivenUp(d) == dlv[d].first # 0 /\ now - dlv[d].first >= GiveUp

Outdated(d) == KindOf[d] = "alert" /\ dlv[d].first = 0 /\ listing[d] = "closed"

Expired(d) == KindOf[d] = "alert" /\ dlv[d].first = 0 /\ now - dlv[d].created >= AlertLife

OverBudget(d, dropped) == dlv[d].first = 0 /\ ~Budget(AccountOf(Owner[d]), KindOf[d], dropped)

RecipientValid(d) == /\ idp[Owner[d]].verified
                     /\ idp[Owner[d]].email = usr[Owner[d]].email

\* the loop body's early continues, in order; down and broken are the rows for
\* which the identity service or the key and template configuration fails
Verdict(d, dropped, down, broken) ==
    IF Unwelcome(d, dropped) THEN "cancel"
    ELSE IF Reconnected(d) THEN "reconnected"
    ELSE IF OnHold(d) THEN "skip"
    ELSE IF GivenUp(d) THEN "give up"
    ELSE IF Outdated(d) THEN "cancel"
    ELSE IF Expired(d) THEN "expire"
    ELSE IF OverBudget(d, dropped) \/ d \in down THEN "pause"
    ELSE IF ~RecipientValid(d) THEN "invalid"
    ELSE IF d \in broken THEN "misconfigured"
    ELSE "claim"

Rendered(d) == LET u == Owner[d] IN
    [to |-> usr[u].email, from |-> usr[u].version, text |-> listing[d]]

Payload_Fresh(d) == Rendered(d)     \* mutant: the payload is not frozen
Payload(d) == IF dlv[d].body = NoBody THEN Rendered(d) ELSE dlv[d].body

Leased(d) == LET u == Owner[d] IN
    [dlv[d] EXCEPT !.status = "sending", !.lease = now + LeaseTime, !.attempts = @ + 1,
                   !.first = IF @ = 0 THEN now ELSE @, !.body = Payload(d),
                   !.acct = AccountOf(u), !.version = usr[u].version]

Settled(d, verdict) ==
    CASE verdict \in {"cancel", "invalid"} -> [dlv[d] EXCEPT !.status = "cancelled"]
      [] verdict = "reconnected" ->
           [dlv[d] EXCEPT !.status = IF dlv[d].first # 0 THEN "reconcile" ELSE "cancelled"]
      [] verdict = "give up" -> [dlv[d] EXCEPT !.status = "reconcile"]
      [] verdict = "expire" -> [dlv[d] EXCEPT !.status = "expired"]
      [] verdict = "pause" -> [dlv[d] EXCEPT !.due = now + FiveMinutes]
      [] verdict = "claim" -> Leased(d)
      [] OTHER -> dlv[d]

Failing(name) == IF name \in Faults THEN SUBSET Candidates ELSE {{}}

Job(d) == [NoJob EXCEPT !.pc = "posting", !.d = d, !.at = now,
                        !.acct = AccountOf(Owner[d]), !.body = Payload(d)]

Claim(w) ==
    /\ wrk[w] = NoJob
    /\ \E down \in Failing("identity"), broken \in Failing("configuration") :
        LET \* users an earlier row of the scan found invalid
            dropped[d \in Candidates] ==
                {Owner[c] : c \in {x \in Candidates :
                    Before(x, d) /\ Verdict(x, dropped[x], down, broken) = "invalid"}}
            verdict == [d \in Candidates |-> Verdict(d, dropped[d], down, broken)]
            winners == {d \in Candidates : verdict[d] = "claim"}
        IN
        \E first \in {{}} \cup {{d} : d \in winners} :
            LET scanned == first \cup
                    {x \in Candidates \ winners : \A d \in first : Before(x, d)}
                found(v) == {Owner[d] : d \in {x \in scanned : verdict[x] = v}}
            IN
            /\ first = {} => winners = {}
            /\ \A d \in first : \A x \in winners \ first : Before(d, x)
            /\ dlv' = [d \in Delivery |->
                          IF d \in scanned THEN Settled(d, verdict[d]) ELSE dlv[d]]
            /\ usr' = [u \in User |->
                          [usr[u] EXCEPT
                            !.verified = @ /\ u \notin found("invalid"),
                            !.status = IF u \in found("misconfigured")
                                         THEN "configuration_error" ELSE @]]
            /\ wrk' = [v \in Worker |-> IF v = w /\ first # {}
                                          THEN Job(CHOOSE d \in first : TRUE) ELSE wrk[v]]
    /\ UNCHANGED <<now, idp, blocked, listing, stray, prov, hook, seen, barred>>

-----------------------------------------------------------------------------
(* The provider and the network between it and the worker.                   *)

Remembers(r) == /\ prov[r.d].sends > 0 /\ prov[r.d].acct = r.acct
                /\ now < prov[r.d].at + Window

\* the same key with another payload is answered 409
Conflicts(r) == Remembers(r) /\ prov[r.d].body # r.body

\* an accepted request: an e-mail goes out unless the key is remembered
Accepting(r) ==
    IF Remembers(r) THEN prov
    ELSE [prov EXCEPT ![r.d] = [sends |-> @.sends + 1, at |-> now, acct |-> r.acct,
                                body |-> r.body]]

Request(j) == [d |-> j.d, at |-> j.at, acct |-> j.acct, body |-> j.body]

WireFrame == UNCHANGED <<now, usr, idp, dlv, blocked, listing, hook, seen, barred>>

\* the request reaches the provider; its answer may be lost on the way back
Arrive(w) ==
    /\ wrk[w].pc = "posting"
    /\ LET r == Request(wrk[w])
           accepted == Accepting(r)
           answered(a) == [wrk EXCEPT ![w].pc = "answered", ![w].answer = a]
       IN  \/ /\ "accepted" \in Answers /\ ~Conflicts(r)
              /\ prov' = accepted
              /\ \/ wrk' = [answered("accepted") EXCEPT ![w].pid = accepted[r.d].sends]
                 \/ "lost" \in Answers /\ wrk' = answered("lost")
           \/ /\ \E a \in IF Conflicts(r) THEN {"retry"} ELSE Answers \ {"accepted"} :
                    wrk' = answered(a)
              /\ UNCHANGED prov
    /\ UNCHANGED stray
    /\ WireFrame

\* the worker stops waiting; the request is lost, or still travels
Timeout(w) ==
    /\ wrk[w].pc = "posting" /\ "lost" \in Answers
    /\ wrk' = [wrk EXCEPT ![w].pc = "answered", ![w].answer = "lost"]
    /\ stray' \in {stray, stray \cup {Request(wrk[w])}}
    /\ UNCHANGED prov
    /\ WireFrame

Crash(w) ==
    /\ wrk[w].pc # "idle" /\ "crash" \in Faults
    /\ wrk' = [wrk EXCEPT ![w] = NoJob]
    /\ stray' \in {stray} \cup (IF wrk[w].pc = "posting"
                                  THEN {stray \cup {Request(wrk[w])}} ELSE {})
    /\ UNCHANGED prov
    /\ WireFrame

StrayArrives(r) ==
    /\ prov' \in {prov} \cup (IF Conflicts(r) THEN {} ELSE {Accepting(r)})
    /\ stray' = stray \ {r}
    /\ UNCHANGED wrk
    /\ WireFrame

-----------------------------------------------------------------------------
(* send_one()'s second transaction, with the clock value of the claim.       *)

RetryDelay(attempts, retryAfter) == Larger(retryAfter, Backoff[Smaller(attempts, 8)])

Recorded(j, retryAfter) ==
    LET row == [dlv[j.d] EXCEPT !.lease = 0] IN
    CASE j.answer = "accepted" ->
           [row EXCEPT !.pid = j.pid, !.status = IF @ \in Outcomes THEN @ ELSE "accepted"]
      [] j.answer = "daily" -> [row EXCEPT !.status = "pending", !.due = j.at + Day]
      [] j.answer = "monthly" -> [row EXCEPT !.status = "pending", !.due = j.at + Month]
      [] j.answer = "rejected" -> [row EXCEPT !.status = "failed"]
      [] OTHER -> [row EXCEPT !.status = "pending",
                              !.due = j.at + RetryDelay(row.attempts, retryAfter)]

SameConnection_Unchecked(d) == TRUE     \* mutant
SameConnection(d) == dlv[d].version = usr[Owner[d]].version

ConnectionStatus(j) ==
    LET old == usr[Owner[j.d]].status IN
    IF j.answer = "accepted" /\ KindOf[j.d] = "test" /\ SameConnection(j.d) THEN "ready"
    ELSE IF j.answer = "rejected" /\ SameConnection(j.d) THEN "sender_error"
    ELSE old

\* quota errors overwrite the pause; usage headers only ever extend it
Pause(j, exhausted) ==
    LET a == dlv[j.d].acct
        base == CASE j.answer = "daily" -> j.at + Day
                  [] j.answer = "monthly" -> j.at + Month
                  [] OTHER -> blocked[a]
        daily == IF "daily" \in exhausted THEN Larger(base, j.at + Day) ELSE base
    IN  [blocked EXCEPT ![a] =
           IF "monthly" \in exhausted THEN Larger(daily, j.at + Month) ELSE daily]

Record(w) ==
    LET j == wrk[w] IN
    /\ j.pc = "answered"
    /\ \E retryAfter \in RetryAfter : dlv' = [dlv EXCEPT ![j.d] = Recorded(j, retryAfter)]
    /\ usr' = [usr EXCEPT ![Owner[j.d]].status = ConnectionStatus(j)]
    /\ \E exhausted \in IF j.answer = "lost" THEN {{}} ELSE SUBSET (Answers \cap {"daily", "monthly"}) :
          blocked' = Pause(j, exhausted)
    /\ wrk' = [wrk EXCEPT ![w] = NoJob]
    /\ UNCHANGED <<now, idp, listing, stray, prov, hook, seen, barred>>

-----------------------------------------------------------------------------
(* Webhooks: delivered at least once, in any order.                          *)

ProviderReports(d, type) ==
    /\ prov[d].sends > 0 /\ hook[<<d, type>>] = "none"
    /\ hook' = [hook EXCEPT ![<<d, type>>] = "outstanding"]
    /\ UNCHANGED <<now, usr, idp, dlv, blocked, listing, wrk, stray, prov, seen, barred>>

HookConfigured(a) == a = "shared" \/ (a \in User /\ usr[a].provider = "byok")

Known(d) == dlv[d].acct = prov[d].acct /\ dlv[d].pid = prov[d].sends

StillSending(a) == \E x \in Delivery : dlv[x].acct = a /\ dlv[x].status = "sending"

Acked(e) == /\ \/ hook' = [hook EXCEPT ![e] = "acked"]
               \/ "duplicate" \in Faults /\ UNCHANGED hook
            /\ UNCHANGED <<now, idp, blocked, listing, wrk, stray, prov>>

\* no row has the e-mail's id and no claim is open: answered 200, not recorded
WebhookUnrelated(e) ==
    /\ hook[e] = "outstanding" /\ HookConfigured(prov[e[1]].acct)
    /\ e \notin seen /\ ~Known(e[1]) /\ ~StillSending(prov[e[1]].acct)
    /\ Acked(e)
    /\ UNCHANGED <<usr, dlv, seen, barred>>

WebhookDuplicate(e) ==
    /\ hook[e] = "outstanding" /\ HookConfigured(prov[e[1]].acct) /\ e \in seen
    /\ Acked(e)
    /\ UNCHANGED <<usr, dlv, seen, barred>>

Suppresses_AnyAddress(e) == e[2] # "delivered"      \* mutant
Suppresses(e) == e[2] # "delivered" /\ dlv[e[1]].body.to = usr[Owner[e[1]]].email

WebhookStatus_LastWins(old, type) == type       \* mutant
WebhookStatus(old, type) == IF type = "delivered" /\ old \in {"bounced", "complained"}
                              THEN old ELSE type

WebhookApplied(e) ==
    LET d == e[1]
        u == Owner[d]
        rows == IF Suppresses(e) THEN Cancelling(u, Kinds) ELSE dlv
    IN
    /\ hook[e] = "outstanding" /\ HookConfigured(prov[d].acct)
    /\ e \notin seen /\ Known(d)
    /\ seen' = seen \cup {e}
    /\ usr' = [usr EXCEPT ![u].suppressed = @ \/ Suppresses(e)]
    /\ dlv' = [rows EXCEPT ![d].status = WebhookStatus(dlv[d].status, e[2])]
    /\ barred' = barred \cup (IF Suppresses(e) THEN {dlv[d].body.to} ELSE {})
    /\ Acked(e)

-----------------------------------------------------------------------------
(* The environment and the clock.                                            *)

IdentityChanges(u) ==   \* the user edits the account at the identity service
    /\ "identity" \in Calls
    /\ \E e \in Email, v \in BOOLEAN :
          /\ \A x \in User \ {u} : idp[x].email # e
          /\ idp' = [idp EXCEPT ![u] = [email |-> e, verified |-> v]]
    /\ UNCHANGED <<now, usr, dlv, blocked, listing, wrk, stray, prov, hook, seen, barred>>

ListingChanges(d) ==    \* ingestion edits, closes or reopens a posting
    /\ "listing" \in Calls
    /\ \E l \in Listings : listing' = [listing EXCEPT ![d] = l]
    /\ UNCHANGED <<now, usr, idp, dlv, blocked, wrk, stray, prov, hook, seen, barred>>

\* time passes, but no request travels longer than PostDelay and no worker
\* keeps an answer longer than HoldTime; at Horizon the clock stands still
Tick ==
    /\ \A w \in Worker : /\ wrk[w].pc = "posting" => now < wrk[w].at + PostDelay
                         /\ wrk[w].pc = "answered" => now < wrk[w].at + HoldTime
    /\ \A r \in stray : now < r.at + PostDelay
    /\ now' = Smaller(now + 1, Horizon)
    /\ UNCHANGED <<usr, idp, dlv, blocked, listing, wrk, stray, prov, hook, seen, barred>>

ApiStep == \E u \in User :
    \/ GetSettings(u) \/ PutProvider(u) \/ DeleteProvider(u) \/ Unsubscribe(u)
    \/ \E p \in Preferences : PutSettings(u, p[1], p[2])

PrepareStep == \E d \in Delivery : TestProvider(d) \/ MatchAlert(d) \/ MakeRecap(d)

WorkerStep == \E w \in Worker :
    Claim(w) \/ Arrive(w) \/ Timeout(w) \/ Crash(w) \/ Record(w)

ProviderStep ==
    \/ \E r \in stray : StrayArrives(r)
    \/ \E d \in Delivery, type \in HookTypes :
          \/ type \in Reported /\ ProviderReports(d, type)
          \/ WebhookUnrelated(<<d, type>>)
          \/ WebhookDuplicate(<<d, type>>)
          \/ WebhookApplied(<<d, type>>)

EnvironmentStep ==
    \/ Tick
    \/ \E u \in User : IdentityChanges(u)
    \/ \E d \in Delivery : ListingChanges(d)

Next == ApiStep \/ PrepareStep \/ WorkerStep \/ ProviderStep \/ EnvironmentStep

Spec == Init /\ [][Next]_vars

-----------------------------------------------------------------------------
(* Properties                                                                *)

Requests == stray \cup {Request(wrk[w]) : w \in {x \in Worker : wrk[x].pc = "posting"}}

(* The provider sends at most one e-mail per delivery, whatever crashes,     *)
(* timeouts and late arrivals send_one() retries through.                    *)
AtMostOnce == \A d \in Delivery : prov[d].sends <= 1

(* Every request for a delivery, first or retried, carries the payload and   *)
(* account the provider already has under that idempotency key.              *)
SamePayload == \A r \in Requests : /\ dlv[r.d].body = r.body
                                  /\ prov[r.d].sends > 0 => /\ prov[r.d].body = r.body
                                                            /\ prov[r.d].acct = r.acct

(* The lease keeps two workers off one delivery: claim() skips rows whose    *)
(* lease_until has not passed.                                               *)
OneHolder == \A v, w \in Worker :
    v # w /\ wrk[v].pc # "idle" /\ wrk[w].pc # "idle" => wrk[v].d # wrk[w].d

(* budget(): in any rolling day and month the deliveries first attempted     *)
(* through an account stay within its limits.                                *)
ChargedWithinLimits == \A a \in Account :
    /\ Cardinality(ChargedSince(a, dlv, Day)) <= DailyLimit
    /\ Cardinality(ChargedSince(a, dlv, Month)) <= MonthlyLimit

(* An e-mail that went out, or may be going out, is never written off as     *)
(* folded into a recap or expired: those are for unattempted rows only.      *)
SentIsNotWrittenOff == \A d \in Delivery :
    dlv[d].status \in {"absent", "expired", "recap_only"} =>
        prov[d].sends = 0 /\ \A r \in Requests : r.d # d

(* webhook(): only an address that really bounced or complained suppresses   *)
(* its subscriber, not an older delivery to an address since replaced.       *)
SuppressionIsDeserved == \A u \in User : usr[u].suppressed => usr[u].email \in barred

(* send_one() activates a BYOK connection only after the provider accepted a *)
(* test message on that very connection version; a new address renews the    *)
(* version of a connection, new credentials never keep it ready.             *)
Activated(r) == r.provider = "byok" /\ r.status = "ready"
ReadyIsTested == [][\A u \in User : Activated(usr'[u]) =>
    \/ /\ Activated(usr[u])
       /\ usr'[u].version = usr[u].version \/ usr'[u].email # usr[u].email
    \/ \E d \in Delivery : /\ Owner[d] = u /\ KindOf[d] = "test"
                           /\ dlv'[d].version = usr'[u].version
                           /\ prov[d].sends > 0 /\ prov[d].body.from = usr'[u].version]_vars

(* shared_capacity(): the subscribers active on the shared account never     *)
(* exceed its places, whatever is removed, suppressed or moved meanwhile.    *)
SharedPlacesBound ==
    Cardinality({u \in User : /\ usr[u].provider = "shared" /\ ~usr[u].suppressed
                             /\ (usr[u].alerts \/ usr[u].recap)}) <= SharedPlaces

(* A delivery the provider reported delivered, bounced or complained keeps   *)
(* an outcome: no late record transaction or cancellation takes it back.     *)
OutcomeKept == [][\A d \in Delivery :
    /\ dlv[d].status \in Outcomes => dlv'[d].status \in Outcomes
    /\ dlv[d].status \in {"bounced", "complained"} => dlv'[d].status # "delivered"]_vars
=============================================================================
