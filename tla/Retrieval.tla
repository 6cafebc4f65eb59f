------------------------------ MODULE Retrieval ------------------------------
(***************************************************************************)
(* Concurrent requests of one Fetcher (app/evidence/fetch.py): one request *)
(* at a time per domain, redirects, retries and the cooldown of a domain   *)
(* that asked for one.                                                     *)
(*                                                                         *)
(* A get waits for the lock of its domain, sends its request while it      *)
(* holds it, and gives it back before it follows a redirect.  The          *)
(* renderer's pages (app/evidence/renderer.py) send many gets at once.     *)
(***************************************************************************)
EXTENDS Integers, FiniteSets

CONSTANTS
    Caller, Domain,
    MaxHops,        \* 6
    MaxAttempts,    \* 3
    CooldownTime,   \* 60 s
    LastMoment      \* bound: last value of the clock

ASSUME RetrievalAssumption ==
    /\ MaxHops \in Nat \ {0} /\ MaxAttempts \in Nat \ {0}
    /\ CooldownTime \in Nat /\ LastMoment \in Nat

VARIABLES
    moment,
    get,        \* [Caller -> where its get() is]
    lock,       \* [Domain -> callers holding its asyncio.Lock]
    cooldown    \* [Domain -> end of its cooldown]

NotAsked == [pc |-> "idle"]

RetrievalInit ==
    /\ moment = 1
    /\ get = [c \in Caller |-> NotAsked]
    /\ lock = [d \in Domain |-> {}]
    /\ cooldown = [d \in Domain |-> 0]

Underway(c) == get[c].pc \in {"waiting", "sending"}
Freed(c) == [lock EXCEPT ![get[c].domain] = @ \ {c}]
Ended(c, how) == get' = [get EXCEPT ![c] = [pc |-> "ended", how |-> how]]

Ask(c, d) ==
    /\ get[c] = NotAsked
    /\ get' = [get EXCEPT ![c] = [pc |-> "waiting", domain |-> d, hop |-> 1, attempt |-> 1]]
    /\ UNCHANGED <<moment, lock, cooldown>>

Cooling(d) == cooldown[d] > moment

\* the cooldown is read after the wait for the lock
Obtain(c) ==
    /\ get[c].pc = "waiting" /\ lock[get[c].domain] = {}
    /\ IF Cooling(get[c].domain) THEN Ended(c, "cooldown") /\ UNCHANGED lock
       ELSE /\ lock' = [lock EXCEPT ![get[c].domain] = {c}]
            /\ get' = [get EXCEPT ![c].pc = "sending", ![c].attempt = 1]
    /\ UNCHANGED <<moment, cooldown>>

\* 429 or 503
ToldToWait(c) ==
    /\ get[c].pc = "sending"
    /\ cooldown' = [cooldown EXCEPT ![get[c].domain] = moment + CooldownTime]
    /\ Ended(c, "cooldown") /\ lock' = Freed(c)
    /\ UNCHANGED moment

\* another 5xx, or a transport error: the backoff sleeps with the lock held
TryAgain(c) ==
    /\ get[c].pc = "sending"
    /\ IF get[c].attempt < MaxAttempts
         THEN get' = [get EXCEPT ![c].attempt = @ + 1] /\ UNCHANGED lock
         ELSE Ended(c, "unavailable") /\ lock' = Freed(c)
    /\ UNCHANGED <<moment, cooldown>>

AfterRedirect_Held(c) == lock      \* mutant
AfterRedirect(c) == Freed(c)

Redirected(c, d) ==
    /\ get[c].pc = "sending"
    /\ lock' = AfterRedirect(c)
    /\ IF get[c].hop = MaxHops THEN Ended(c, "redirects")
       ELSE get' = [get EXCEPT ![c] = [pc |-> "waiting", domain |-> d, hop |-> @.hop + 1,
                                       attempt |-> 1]]
    /\ UNCHANGED <<moment, cooldown>>

\* a page, another status, a document too large, a destination that is refused
Settled(c) ==
    /\ get[c].pc = "sending"
    /\ \E how \in {"page", "refused"} : Ended(c, how)
    /\ lock' = Freed(c)
    /\ UNCHANGED <<moment, cooldown>>

\* time passes between requests, in backoffs and while answers are awaited
Moment ==
    /\ moment < LastMoment
    /\ moment' = moment + 1
    /\ UNCHANGED <<get, lock, cooldown>>

RetrievalStep(c) ==
    \/ Obtain(c) \/ ToldToWait(c) \/ TryAgain(c) \/ Settled(c)
    \/ \E d \in Domain : Redirected(c, d)

RetrievalNext ==
    \/ Moment
    \/ \E c \in Caller : RetrievalStep(c) \/ \E d \in Domain : Ask(c, d)

retrieval == <<moment, get, lock, cooldown>>

\* transport timeouts end every request; the event loop runs every task
RetrievalFairness == \A c \in Caller : WF_retrieval(RetrievalStep(c))

-----------------------------------------------------------------------------
(* Properties                                                                *)

(* "One request per source domain", redirects included, and none while that  *)
(* domain cools down, although gets queue for the lock while it is told to   *)
(* wait.                                                                     *)
Polite == \A c \in Caller : get[c].pc = "sending" =>
    /\ cooldown[get[c].domain] <= moment
    /\ \A q \in Caller \ {c} : get[q].pc = "sending" => get[q].domain # get[c].domain

(* Gets that redirect to each other's domains never wait for each other: each*)
(* ends, whatever is answered.                                               *)
GetsEnd == \A c \in Caller : Underway(c) ~> get[c].pc = "ended"

(* Fetcher: gets end, and none disturbs a domain that is busy or asked for a *)
(* pause.                                                                    *)
GetsAreServed == GetsEnd /\ []Polite
=============================================================================
