---------------------------- MODULE EvidenceQueue ----------------------------
(***************************************************************************)
(* The queue of evidence checks (app/evidence/store.py), the worker that   *)
(* collects public pages for them (app/evidence/worker.py), and what       *)
(* ingestion and users put into it (app/db/repository.py,                  *)
(* app/evidence/api.py).                                                   *)
(*                                                                         *)
(* One check per occurrence.  A claim leases it under a fresh token; pages *)
(* are collected outside any transaction; the result lands only if the     *)
(* token, the lease, the occurrence and the target are still the same.     *)
(* Ingestion, a user's request and each transaction of the worker are one  *)
(* action each, except where a transaction waits between an unlocked       *)
(* reading and its lock: BackfillRead and Load take what was read along.   *)
(*                                                                         *)
(* A target is the URL, location, title and company of a posting; the      *)
(* facts on its pages are a version number.  Tokens are numbered by the    *)
(* attempt that draws them.  checked_at and error_code are left out.       *)
(***************************************************************************)
EXTENDS Integers, FiniteSets

CONSTANTS
    Job,            \* postings, newer ones greater
    Target,         \* targets a posting may have
    FirstTarget,    \* the one each has at first
    Feed,           \* details ingestion may deliver with an observation
    Facts,          \* versions of the facts on the public pages
    Process,        \* evidence workers
    Width,          \* checks a tick claims
    BackfillLimit,  \* postings a backfill takes
    LeaseTime,      \* 90 seconds
    CollectTime,    \* 60 seconds
    Hour,           \* until a failed check is due, and until a refresh is allowed
    Day,            \* until a verification is stale
    Results,        \* what collecting may come to
    MaxOccurrence,  \* bound: occurrences of a posting
    MaxObserved,    \* bound: observations, requests, page changes and crashes
    Horizon         \* bound: the clock's last value

ASSUME QueueAssumption ==
    /\ Job \subseteq Nat /\ IsFiniteSet(Job)
    /\ FirstTarget \in Target
    /\ Width \in Nat \ {0} /\ BackfillLimit \in Nat \ {0}
    /\ MaxOccurrence \in Nat \ {0} /\ MaxObserved \in Nat /\ Horizon \in Nat

ASSUME TimeAssumption ==
    /\ {LeaseTime, CollectTime, Hour, Day} \subseteq Nat \ {0}
    /\ CollectTime <= LeaseTime /\ Hour <= Day

ASSUME ResultAssumption == Results \subseteq {"complete", "partial", "blocked", "failed"}

VARIABLES
    clock,
    posting,    \* [Job -> job_postings row with its latest occurrence]
    page,       \* [Job -> facts on its public pages]
    check,      \* [Key -> row of evidence_checks]
    turn,       \* [Process -> claims its tick has left to make]
    scan,       \* [Process -> the postings its backfill has read]
    tasks,      \* [Process -> claimed checks it is working on]
    retold,     \* history: jobs told closed under another target than theirs or their check's
                \* since finish() wrote their details
    observed    \* bound: events from outside so far

vars == <<clock, posting, page, check, turn, scan, tasks, retold, observed>>

Key == Job \X (1 .. MaxOccurrence)
Never == 0 - Day - 1
NoDetails == 0          \* no feed's, no page's
NoToken == 0
NoFacts == [target |-> FirstTarget, facts |-> NoDetails, at |-> Never]
NoCheck == [status |-> "none", target |-> FirstTarget, requested |-> Never, available |-> Never,
            token |-> NoToken, lease |-> Never, verified |-> Never, facts |-> NoFacts,
            print |-> NoDetails, attempts |-> 0]

Times == {Never} \cup (0 .. Horizon + LeaseTime + Day)
DetailsType == Feed \cup Facts \cup {NoDetails}
FactsType == [target : Target, facts : Facts \cup {NoDetails}, at : Times]
PostingType == [target : Target, closed : BOOLEAN, occ : 1 .. MaxOccurrence, details : DetailsType]
CheckType ==
    [status : {"none", "queued", "running", "complete", "partial", "blocked", "failed"},
     target : Target, requested : Times, available : Times, token : Nat, lease : Times,
     verified : Times, facts : FactsType, print : DetailsType, attempts : Nat]
TaskType ==
    [key : Key, token : Nat \ {NoToken}, target : Target, since : Times,
     stage : {"collecting", "collected", "loaded"},
     result : Results \cup {"none"}, facts : FactsType, seen : PostingType]

(* A check is leased exactly while it runs.                                  *)
TypeOK ==
    /\ clock \in 0 .. Horizon
    /\ posting \in [Job -> PostingType]
    /\ page \in [Job -> Facts]
    /\ check \in [Key -> CheckType]
    /\ \A k \in Key : check[k].status = "running" <=> check[k].token # NoToken
    /\ turn \in [Process -> 0 .. Width]
    /\ \A p \in Process : tasks[p] \subseteq TaskType /\ scan[p] \in SUBSET (Job \X PostingType)
    /\ retold \subseteq Job
    /\ observed \in 0 .. MaxObserved

Fresh(n, target, details) == [target |-> target, closed |-> FALSE, occ |-> n, details |-> details]

Init ==
    /\ clock = 0
    /\ posting = [j \in Job |-> Fresh(1, FirstTarget, NoDetails)]
    /\ page \in [Job -> {f \in Facts : \A g \in Facts : f <= g}]
    /\ check = [k \in Key |-> NoCheck]
    /\ turn = [p \in Process |-> 0]
    /\ scan = [p \in Process |-> {}]
    /\ tasks = [p \in Process |-> {}]
    /\ retold = {}
    /\ observed = 0

Latest(j) == <<j, posting[j].occ>>

-----------------------------------------------------------------------------
(* enqueue(): one durable slot per occurrence, coalescing requests.          *)

Active(c) == c.status = "queued" \/ (c.status = "running" /\ c.lease > clock)
Stale(c) == c.verified <= clock - Day
Recent(c) == c.verified > clock - Hour

Requeued(c, target, print) ==
    [c EXCEPT !.target = target, !.status = "queued", !.requested = clock,
              !.available = clock, !.token = NoToken, !.lease = Never, !.print = print]

Wanted(c, target, print, refresh) ==
    \/ c.target # target \/ c.print # print
    \/ ~Active(c) /\ c.available <= clock /\ (Stale(c) \/ (refresh /\ ~Recent(c)))

Enqueued(k, seen, print, refresh) ==
    LET c == check[k]
    IN  IF c.status = "none" THEN Requeued(c, seen.target, print)
        ELSE IF Wanted(c, seen.target, print, refresh) THEN Requeued(c, seen.target, print)
        ELSE c

-----------------------------------------------------------------------------
(* Ingestion, users and the pages.                                           *)

External ==
    /\ observed < MaxObserved
    /\ observed' = observed + 1
    /\ UNCHANGED <<clock, turn, scan, tasks>>

Verified_Complete(c, target) == c.status = "complete" /\ c.target = target      \* mutant
Verified(c, target) == c.verified # Never /\ c.target = target

\* _merge_job_details(): a verified target keeps its details; otherwise the
\* observation's are merged, which leaves those of a better source
Merged(j, k, target, feed) ==
    IF Verified(check[k], target) THEN {posting[j].details} ELSE {posting[j].details, feed}

\* an observation that finds the posting open, or reopens it
Observe(j, target, feed) ==
    \E details \in Merged(j, Latest(j), target, feed) :
        LET row == [posting[j] EXCEPT !.target = target, !.closed = FALSE, !.details = details]
        IN  /\ External
            /\ posting' = [posting EXCEPT ![j] = row]
            /\ check' = [check EXCEPT ![Latest(j)] = Enqueued(Latest(j), row, feed, FALSE)]
            /\ UNCHANGED <<page, retold>>

\* a closed observation, of an open posting or of one already closed, moves the
\* target and merges details alike; enqueue() refuses what is closed
Close(j, target, feed) ==
    \E details \in Merged(j, Latest(j), target, feed) :
        /\ External
        /\ posting' = [posting EXCEPT ![j].closed = TRUE, ![j].target = target,
                                     ![j].details = details]
        /\ retold' = IF target = posting[j].target /\ target = check[Latest(j)].target
                      THEN retold ELSE retold \cup {j}
        /\ UNCHANGED <<check, page>>

Repost(j, target, feed) ==
    /\ posting[j].closed /\ posting[j].occ < MaxOccurrence
    /\ External
    /\ LET k == <<j, posting[j].occ + 1>>
           row == Fresh(k[2], target, feed)
       IN  /\ posting' = [posting EXCEPT ![j] = row]
           /\ check' = [check EXCEPT ![k] = Enqueued(k, row, feed, FALSE)]
    /\ UNCHANGED <<page, retold>>

\* POST /me/jobs/{id}/evidence-check, under the lock of the posting
RequestCheck(j) ==
    LET k == Latest(j) IN
    /\ ~posting[j].closed
    /\ External
    /\ check' = [check EXCEPT ![k] = Enqueued(k, posting[j], check[k].print, TRUE)]
    /\ UNCHANGED <<posting, page, retold>>

PageChanges(j) ==
    /\ External
    /\ page' \in [Job -> Facts] /\ \A i \in Job : page'[i] # page[i] <=> i = j
    /\ UNCHANGED <<posting, check, retold>>

-----------------------------------------------------------------------------
(* A tick of the worker: backfill, claim up to Width checks, work on them.   *)

Unsettled(c) == c.status \in {"queued", "running"}

Lacking_Nothing(j) == ~posting[j].closed      \* mutant
Lacking(j) ==
    LET c == check[Latest(j)] IN
    /\ ~posting[j].closed
    /\ \/ c.status = "none"
       \/ /\ ~Unsettled(c) /\ c.available <= clock /\ c.requested <= clock - Hour /\ Stale(c)

\* the newest first
Selected ==
    {j \in Job : Lacking(j) /\ Cardinality({i \in Job : Lacking(i) /\ i > j}) < BackfillLimit}

BackfillRead(p) ==
    /\ turn[p] = 0 /\ tasks[p] = {} /\ scan[p] = {}
    /\ Selected # {}
    /\ scan' = [scan EXCEPT ![p] = {<<j, posting[j]>> : j \in Selected}]
    /\ UNCHANGED <<clock, posting, page, check, turn, tasks, retold, observed>>

\* current_occurrence() is read again; the posting is what the query loaded
BackfillWrite(p) ==
    /\ scan[p] # {}
    /\ check' = [k \in Key |->
          IF \E s \in scan[p] : k = Latest(s[1]) /\ ~posting[s[1]].closed
            THEN LET s == CHOOSE s \in scan[p] : k = Latest(s[1])
                 IN  Enqueued(k, s[2], check[k].print, FALSE)
            ELSE check[k]]
    /\ scan' = [scan EXCEPT ![p] = {}]
    /\ turn' = [turn EXCEPT ![p] = Width]
    /\ UNCHANGED <<clock, posting, page, tasks, retold, observed>>

BackfillNothing(p) ==
    /\ turn[p] = 0 /\ tasks[p] = {} /\ scan[p] = {}
    /\ Selected = {}
    /\ turn' = [turn EXCEPT ![p] = Width]
    /\ UNCHANGED <<clock, posting, page, check, scan, tasks, retold, observed>>

Claimable(c) ==
    /\ c.available <= clock
    /\ c.status = "queued" \/ (c.status = "running" /\ c.lease <= clock)

\* rows are locked only within an action, so none is skipped
Claim(p) ==
    \E k \in {l \in Key : Claimable(check[l])} :
        LET c == check[k] IN
        /\ turn[p] > 0
        /\ \A l \in Key : Claimable(check[l]) => c.requested <= check[l].requested
        /\ check' = [check EXCEPT ![k].status = "running", ![k].token = c.attempts + 1,
                                  ![k].lease = clock + LeaseTime, ![k].attempts = c.attempts + 1]
        /\ tasks' = [tasks EXCEPT ![p] = @ \cup
              {[key |-> k, token |-> c.attempts + 1, target |-> c.target, since |-> clock,
                stage |-> "collecting", result |-> "none", facts |-> NoFacts,
                seen |-> Fresh(1, FirstTarget, NoDetails)]}]
        /\ turn' = [turn EXCEPT ![p] = @ - 1]
        /\ UNCHANGED <<clock, posting, page, scan, retold, observed>>

ClaimNothing(p) ==
    /\ turn[p] > 0
    /\ \A k \in Key : ~Claimable(check[k])
    /\ turn' = [turn EXCEPT ![p] = 0]
    /\ UNCHANGED <<clock, posting, page, check, scan, tasks, retold, observed>>

Moved(p, t, u) == tasks' = [tasks EXCEPT ![p] = (@ \ {t}) \cup {u}]

\* within the deadline, see Tick; documents are of the target that was claimed
Collect(p, t) ==
    /\ turn[p] = 0 /\ t.stage = "collecting"
    /\ \E result \in Results :
          LET documents == result \in {"complete", "partial"}
          IN  Moved(p, t, [t EXCEPT !.stage = "collected", !.result = result,
                !.facts = IF documents THEN [target |-> t.target, facts |-> page[t.key[1]],
                                             at |-> clock]
                          ELSE NoFacts])
    /\ UNCHANGED <<clock, posting, page, check, turn, scan, retold, observed>>

\* process() loads the posting and the occurrence before finish() locks them
Load(p, t) ==
    /\ t.stage = "collected"
    /\ Moved(p, t, [t EXCEPT !.stage = "loaded", !.seen = posting[t.key[1]]])
    /\ UNCHANGED <<clock, posting, page, check, turn, scan, retold, observed>>

Fenced_Status(t) == check[t.key].status = "running"      \* mutant
Fenced(t) ==
    LET c == check[t.key]
    IN  c.token = t.token /\ c.status = "running" /\ c.lease > clock

\* the occurrence is read again; the rest of the posting is what Load read
SameTarget(t) ==
    /\ t.key[2] = posting[t.key[1]].occ /\ t.key[2] = t.seen.occ /\ ~t.seen.closed
    /\ t.target = t.seen.target /\ t.target = check[t.key].target

Released(c) == [c EXCEPT !.token = NoToken, !.lease = Never]

\* history is kept: only a check without facts takes those of a partial result
Incomplete(c, t) ==
    [Released(c) EXCEPT !.status = t.result, !.available = clock + Hour,
        !.facts = IF c.facts = NoFacts THEN t.facts ELSE @]

Complete(c, t) ==
    [Released(c) EXCEPT !.status = "complete", !.facts = t.facts,
                        !.verified = clock, !.available = clock]

Landed(c, t) ==
    CASE ~SameTarget(t) -> [Released(c) EXCEPT !.status = "blocked", !.available = clock + Hour]
      [] t.result # "complete" -> Incomplete(c, t)
      [] OTHER -> Complete(c, t)

Proves(t) == Fenced(t) /\ SameTarget(t) /\ t.result = "complete"

\* details are compared with those Load read, and written only if they differ
Rewrites(t) == Proves(t) /\ t.seen.details # t.facts.facts

Finish(p, t) ==
    /\ t.stage = "loaded"
    /\ tasks' = [tasks EXCEPT ![p] = @ \ {t}]
    /\ check' = [check EXCEPT ![t.key] = IF Fenced(t) THEN Landed(@, t) ELSE @]
    /\ posting' = [posting EXCEPT ![t.key[1]].details =
          IF Rewrites(t) THEN t.facts.facts ELSE @]
    /\ retold' = IF Rewrites(t) THEN retold \ {t.key[1]} ELSE retold
    /\ UNCHANGED <<clock, page, turn, scan, observed>>

Crash(p) ==
    /\ turn[p] > 0 \/ tasks[p] # {} \/ scan[p] # {}
    /\ observed < MaxObserved
    /\ observed' = observed + 1
    /\ turn' = [turn EXCEPT ![p] = 0]
    /\ scan' = [scan EXCEPT ![p] = {}]
    /\ tasks' = [tasks EXCEPT ![p] = {}]
    /\ UNCHANGED <<clock, posting, page, check, retold>>

\* asyncio.timeout(60) ends a collection; the transaction after it may stall
Tick ==
    /\ clock < Horizon
    /\ \A p \in Process : \A t \in tasks[p] :
          t.stage = "collecting" => clock < t.since + CollectTime
    /\ clock' = clock + 1
    /\ UNCHANGED <<posting, page, check, turn, scan, tasks, retold, observed>>

Work(p) ==
    \/ BackfillRead(p) \/ BackfillWrite(p) \/ BackfillNothing(p)
    \/ Claim(p) \/ ClaimNothing(p)
    \/ \E t \in tasks[p] : Collect(p, t) \/ Load(p, t) \/ Finish(p, t)

Outside ==
    \E j \in Job :
        \/ RequestCheck(j) \/ PageChanges(j)
        \/ \E target \in Target, feed \in Feed :
              Observe(j, target, feed) \/ Close(j, target, feed) \/ Repost(j, target, feed)

Next ==
    \/ Outside
    \/ \E p \in Process : Work(p) \/ Crash(p)
    \/ Tick

Spec == Init /\ [][Next]_vars

\* the worker's loop goes on, and so does time; nothing is assumed of the rest
LiveSpec == Spec /\ WF_vars(Tick) /\ \A p \in Process : WF_vars(Work(p))

-----------------------------------------------------------------------------
(* Properties                                                                *)

\* evidence_view() and evaluate() take the check for a fresh verification
Served(j) ==
    LET c == check[Latest(j)]
    IN  c.status = "complete" /\ c.target = posting[j].target /\ ~Stale(c)

Completes(k) == check[k].status # "complete" /\ check'[k].status = "complete"

(* What readers are shown as verified was read from the pages of the         *)
(* posting's present target, at most a day and a lease ago.                  *)
ServedIsCurrent == \A j \in Job : Served(j) =>
    /\ check[Latest(j)].facts.target = posting[j].target
    /\ check[Latest(j)].facts.at > clock - Day - LeaseTime

(* "Token fencing plus locked occurrence/URL/location comparisons reject     *)
(* stale completions": what completes on an open posting is the check of its *)
(* latest occurrence, for the target the posting has at that moment.         *)
LandsOnCurrent == [][\A k \in Key : Completes(k) /\ ~posting[k[1]].closed =>
    k = Latest(k[1]) /\ check'[k].target = posting[k[1]].target]_vars

(* The same sentence, of a posting that has closed meanwhile.                *)
LandsOnOpen == [][\A k \in Key : Completes(k) => ~posting[k[1]].closed]_vars

(* Details from verified pages stand against those of any feed, through      *)
(* requests, changes of the target and back, closures and reopenings         *)
(* (_merge_job_details and finish), except that a closed observation which   *)
(* names another target than the posting's or the check's leaves its own     *)
(* details behind, until finish() writes them again.                         *)
EvidenceDetailsStand == \A j \in Job \ retold :
    Served(j) => posting[j].details = check[Latest(j)].facts.facts

(* A queued check is eventually settled, whatever crashes and whoever        *)
(* requests it again, unless it is leased beyond the horizon.                *)
Settles == \A k \in Key :
    check[k].status = "queued" ~> ~Unsettled(check[k]) \/ check[k].lease > Horizon

(* Backfill reaches every open posting that was never checked, however many  *)
(* newer ones there are.                                                     *)
Covered == \A j \in Job :
    check[Latest(j)].status = "none" ~> check[Latest(j)].status # "none" \/ posting[j].closed

(* What a posting shows as verified is of its target, recent, and what its   *)
(* details say.                                                              *)
VerifiedStands == TypeOK /\ ServedIsCurrent /\ EvidenceDetailsStand

(* Every check asked for is settled, and every posting gets one.             *)
ChecksProgress == Settles /\ Covered
=============================================================================
