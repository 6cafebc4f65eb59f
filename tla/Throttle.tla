------------------------------ MODULE Throttle ------------------------------
(***************************************************************************)
(* The token buckets of scrapers (app/utils/rate_limiter.py): one bucket   *)
(* for each host, at most MaxHosts of them kept, callers that sleep        *)
(* without a lock and ask again, and callers cancelled in their sleep.     *)
(*                                                                         *)
(* A bucket keeps its number for life: a caller that sleeps holds on to a  *)
(* bucket that may have been dropped meanwhile.  Time passes in ticks; a   *)
(* sleep ends at the first tick not before its delay.                      *)
(***************************************************************************)
EXTENDS Integers, Sequences, SequencesExt

CONSTANTS
    Scraper,        \* callers
    Host,           \* hosts they ask for
    RateOf,         \* rate and capacity of each host
    MaxHosts,       \* max_domains
    TokenAmount,    \* tokens a caller may ask for
    MaxAsks,        \* bound: calls of acquire()
    Leisure         \* bound: time that passes while nobody sleeps

ASSUME ThrottleAssumption ==
    /\ \A h \in Host : RateOf[h].rate \in Nat \ {0} /\ RateOf[h].capacity \in Nat \ {0}
    /\ MaxHosts \in Nat \ {0} /\ TokenAmount \subseteq Nat /\ MaxAsks \in Nat /\ Leisure \in Nat

VARIABLES
    buckets,        \* every bucket made: host, tokens, time of the last refill
    kept,           \* numbers of the buckets in _buckets, the next to go first
    scraper,        \* what each caller is doing
    seconds,        \* the clock
    asks,           \* calls of acquire() so far
    granted,        \* history: tokens given out
    recent          \* history: hosts asked for, the latest last

throttle == <<buckets, kept, scraper, seconds, asks, granted, recent>>

Resting == [at |-> "rest"]

ThrottleInit ==
    /\ buckets = <<>> /\ kept = <<>> /\ granted = <<>> /\ recent = <<>>
    /\ scraper = [s \in Scraper |-> Resting]
    /\ seconds = 0 /\ asks = 0

-----------------------------------------------------------------------------
\* RateLimit and acquire() refuse what no wait would help
Askable(host, n) == n > 0 /\ n <= RateOf[host].capacity

\* neither the buckets kept nor the hosts asked for hold anything twice
Without(sequence, x) ==
    IF x \in ToSet(sequence)
      THEN RemoveAt(sequence, CHOOSE i \in DOMAIN sequence : sequence[i] = x)
      ELSE sequence

\* move_to_end() for a bucket found, popitem() for room
MovedLast(ids, id) == Append(Without(ids, id), id)

Trimmed(ids) == IF Len(ids) >= MaxHosts THEN Tail(ids) ELSE ids

AskTokens(s, host, n) ==
    /\ scraper[s] = Resting /\ asks < MaxAsks /\ Askable(host, n)
    /\ asks' = asks + 1
    /\ recent' = Append(Without(recent, host), host)
    /\ \/ \E id \in ToSet(kept) :
            /\ buckets[id].host = host
            /\ kept' = MovedLast(kept, id)
            /\ scraper' = [scraper EXCEPT ![s] = [at |-> "asks", id |-> id, n |-> n, until |-> seconds]]
            /\ UNCHANGED buckets
       \/ /\ \A id \in ToSet(kept) : buckets[id].host # host
          /\ buckets' = Append(buckets, [host |-> host, tokens |-> RateOf[host].capacity, at |-> seconds])
          /\ kept' = Append(Trimmed(kept), Len(buckets'))
          /\ scraper' = [scraper EXCEPT ![s] =
                           [at |-> "asks", id |-> Len(buckets'), n |-> n, until |-> seconds]]
    /\ UNCHANGED <<seconds, granted>>

Least(a, b) == IF a <= b THEN a ELSE b

Filled(b) ==
    Least(RateOf[b.host].capacity, b.tokens + (seconds - b.at) * RateOf[b.host].rate)

Refilled_Again(b, tokens) == [b EXCEPT !.tokens = tokens]      \* mutant
Refilled(b, tokens) == [b EXCEPT !.tokens = tokens, !.at = seconds]

\* in whole ticks
Delay(b, missing) == (missing + RateOf[b.host].rate - 1) \div RateOf[b.host].rate

Try(s) ==
    /\ scraper[s].at = "asks" /\ scraper[s].until <= seconds
    /\ LET id == scraper[s].id
           n == scraper[s].n
           b == buckets[id]
           tokens == Filled(b)
       IN  IF tokens >= n
             THEN /\ buckets' = [buckets EXCEPT ![id] = Refilled(b, tokens - n)]
                  /\ scraper' = [scraper EXCEPT ![s] = Resting]
                  /\ granted' = Append(granted, [id |-> id, n |-> n, at |-> seconds])
             ELSE /\ buckets' = [buckets EXCEPT ![id] = Refilled(b, tokens)]
                  /\ scraper' = [scraper EXCEPT ![s].until = seconds + Delay(b, n - tokens)]
                  /\ UNCHANGED granted
    /\ UNCHANGED <<kept, seconds, asks, recent>>

CancelSleep(s) ==
    /\ scraper[s].at = "asks" /\ scraper[s].until > seconds
    /\ scraper' = [scraper EXCEPT ![s] = Resting]
    /\ UNCHANGED <<buckets, kept, seconds, asks, granted, recent>>

TimePasses ==
    /\ seconds < Leisure \/ \E s \in Scraper : scraper[s].at = "asks" /\ scraper[s].until > seconds
    /\ seconds' = seconds + 1
    /\ UNCHANGED <<buckets, kept, scraper, asks, granted, recent>>

ThrottleNext ==
    \/ \E s \in Scraper, h \in Host, n \in TokenAmount : AskTokens(s, h, n)
    \/ \E s \in Scraper : Try(s) \/ CancelSleep(s)
    \/ TimePasses

-----------------------------------------------------------------------------
(* Properties                                                                *)

\* what a bucket gives out in these grants
GivenBy(id, grants) == FoldLeft(LAMBDA sum, g : IF g.id = id THEN sum + g.n ELSE sum, 0, grants)

(* "Concurrency-safe token buckets": whatever the interleaving of callers    *)
(* that ask, sleep, wake and are cancelled, between any two moments a bucket *)
(* gives out at most what it holds and what the time between has brought.    *)
GrantsWithinRate ==
    \A i, j \in DOMAIN granted :
        i <= j /\ granted[i].id = granted[j].id =>
            LET limit == RateOf[buckets[granted[i].id].host]
            IN  GivenBy(granted[i].id, SubSeq(granted, i, j))
                  <= limit.capacity + limit.rate * (granted[j].at - granted[i].at)

(* The buckets kept are those of the hosts asked for last, one for each, so  *)
(* that a host in use is not given a second, full bucket.                    *)
RecentHostsKept ==
    LET from == IF Len(recent) > MaxHosts THEN Len(recent) - MaxHosts + 1 ELSE 1
    IN  [i \in DOMAIN kept |-> buckets[kept[i]].host] = SubSeq(recent, from, Len(recent))

(* DomainRateLimiter: no bucket gives more than its rate, and no host in use *)
(* gets a second one.                                                        *)
RateHolds == GrantsWithinRate /\ RecentHostsKept
=============================================================================
