------------------------ MODULE OccurrenceMigration ------------------------
(***************************************************************************)
(* Migration 0006 (alembic/versions/0006_reposted_job_lifecycle.py): from  *)
(* notifications keyed by posting to notifications keyed by occurrence,    *)
(* and back, with the releases of either side at work in between.          *)
(*                                                                         *)
(* Rows keep one shape: an occurrence of 0 stands for the column the older *)
(* schema lacks.  Times order the rows as discovered_at does.  Ids that    *)
(* were inserted explicitly leave the sequence of their table behind.      *)
(***************************************************************************)
EXTENDS Integers, Sequences, FiniteSets, SequencesExt

CONSTANTS
    OldPosting,     \* ids of the postings an older database may hold
    Subscribed,     \* subscribers
    Deliveries,     \* recaps and alerts an older database may hold
    MaxReleases,    \* bound: migrations, both ways
    MaxMoments      \* bound: reposts and older discoveries

ASSUME MigrationAssumption ==
    /\ OldPosting \subseteq Nat \ {0} /\ IsFiniteSet(OldPosting) /\ IsFiniteSet(Subscribed)
    /\ MaxReleases \in Nat /\ MaxMoments \in Nat
    /\ \A d \in Deliveries : d.kind \in {"recap", "alert"} /\ d.jobs \in Seq(Nat)

VARIABLES
    version,        \* "postings" or "occurrences"
    releases,       \* migrations so far
    occurrence,     \* rows of job_occurrences
    event,          \* rows of notification_events
    match,          \* rows of notification_matches
    listing,        \* the columns the migration adds to notification_deliveries
    sequences       \* next ids of job_occurrences and notification_matches

migration == <<version, releases, occurrence, event, match, listing, sequences>>

Unlisted == [d \in Deliveries |-> <<>>]

MigrationInit ==
    /\ version = "postings" /\ releases = 0 /\ occurrence = {} /\ listing = Unlisted
    /\ \E found \in SUBSET OldPosting, seen \in SUBSET OldPosting :
         /\ seen \subseteq found
         /\ event = {[job |-> j, occ |-> 0, at |-> 0, processed |-> j \in seen] : j \in found}
         /\ \E pairs \in SUBSET (Subscribed \X seen) : \E order \in SetToSeqs(pairs) :
              match = {[id |-> i, user |-> order[i][1], job |-> order[i][2], occ |-> 0, at |-> 0] :
                         i \in 1 .. Len(order)}
    /\ sequences = [occurrence |-> 1, match |-> Cardinality(match) + 1]

-----------------------------------------------------------------------------
(* The migration.                                                            *)

\* setval(): past the ids copied explicitly
Highest(rows) == Max({r.id : r \in rows})
PastIds(rows, first, table) == IF rows = {} THEN first ELSE 1 + Highest(rows)

\* postings in the order of their ids
OccurrenceOf(j) == Cardinality({i \in OldPosting : i <= j})
Backfilled == {[id |-> OccurrenceOf(j), job |-> j, kind |-> "discovered"] : j \in OldPosting}
Keyed(rows) == {[r EXCEPT !.occ = OccurrenceOf(r.job)] : r \in rows}

\* a delivery may name a posting that is gone
ListingOf(d) ==
    FoldLeft(LAMBDA known, j : IF j \in OldPosting THEN Append(known, OccurrenceOf(j)) ELSE known, <<>>, d.jobs)

Upgrade ==
    /\ version = "postings" /\ releases < MaxReleases
    /\ version' = "occurrences" /\ releases' = releases + 1
    /\ occurrence' = Backfilled /\ event' = Keyed(event) /\ match' = Keyed(match)
    /\ listing' = [d \in Deliveries |-> ListingOf(d)]
    /\ sequences' = [occurrence |-> PastIds(occurrence', 1, "occurrence"),
                     match |-> PastIds(match', 1, "match")]

JobOf(o) == (CHOOSE r \in occurrence : r.id = o).job

\* of rows with one key only the first stays, in the order of discovered_at
Displaced_ByNewer(r, q, tie, other) == r.at < q.at      \* mutant
Displaced(r, q, tie, other) == q.at < r.at \/ (q.at = r.at /\ other < tie)

KeptEvents ==
    LET Same(r, q) == JobOf(r.occ) = JobOf(q.occ)
    IN  {[r EXCEPT !.job = JobOf(r.occ), !.occ = 0] :
           r \in {x \in event : ~\E q \in event : Same(x, q) /\ Displaced(x, q, x.occ, q.occ)}}

KeptMatches ==
    LET Same(r, q) == r.user = q.user /\ JobOf(r.occ) = JobOf(q.occ)
    IN  {[r EXCEPT !.job = JobOf(r.occ), !.occ = 0] :
           r \in {x \in match : ~\E q \in match : Same(x, q) /\ Displaced(x, q, x.id, q.id)}}

Downgrade ==
    /\ version = "occurrences" /\ releases < MaxReleases
    /\ version' = "postings" /\ releases' = releases + 1
    /\ event' = KeptEvents /\ match' = KeptMatches
    /\ occurrence' = {} /\ listing' = Unlisted
    /\ sequences' = [occurrence |-> 1, match |-> PastIds(match', 1, "match")]

-----------------------------------------------------------------------------
(* The releases between migrations.                                          *)

\* the clock is past every discovery that was recorded
Moment == LET times == {r.at : r \in event \cup match} IN IF times = {} THEN 0 ELSE 1 + Max(times)

\* a new occurrence and its event, under ids the sequence yields
RepostBetween(j) ==
    /\ version = "occurrences" /\ Cardinality(occurrence) < Cardinality(OldPosting) + MaxMoments
    /\ occurrence' = occurrence \cup {[id |-> sequences.occurrence, job |-> j, kind |-> "reposted"]}
    /\ event' = event \cup {[job |-> j, occ |-> sequences.occurrence, at |-> Moment, processed |-> FALSE]}
    /\ sequences' = [sequences EXCEPT !.occurrence = @ + 1]
    /\ UNCHANGED <<version, releases, match, listing>>

\* matching an event: the conflict is on the keys of the present schema
MatchBetween(e, u) ==
    /\ ~e.processed
    /\ ~\E r \in match : r.user = u /\ r.job = e.job /\ r.occ = e.occ
    /\ match' = match \cup {[id |-> sequences.match, user |-> u, job |-> e.job, occ |-> e.occ, at |-> e.at]}
    /\ sequences' = [sequences EXCEPT !.match = @ + 1]
    /\ event' = (event \ {e}) \cup {[e EXCEPT !.processed = TRUE]}
    /\ UNCHANGED <<version, releases, occurrence, listing>>

MigrationNext ==
    \/ Upgrade
    \/ Downgrade
    \/ \E j \in OldPosting : RepostBetween(j)
    \/ \E e \in event, u \in Subscribed : MatchBetween(e, u)

-----------------------------------------------------------------------------
(* Properties                                                                *)

Pairs == {<<r.user, r.job>> : r \in match}
Pending == {e.job : e \in {f \in event : ~f.processed}}

First(o) == \E r \in occurrence : r.id = o /\ r.kind = "discovered"

(* "Existing rows are copied to the backfilled first occurrence; no events   *)
(* are made for historical postings that did not already have one": no       *)
(* migration makes up or forgets who was told of which posting, an upgrade   *)
(* leaves the same work pending, and a downgrade, "keeping the earliest      *)
(* occurrence per job", gives back the rows of the first occurrences as they *)
(* are, whatever was reposted since.                                         *)
MailSurvives ==
    [][version' # version =>
         /\ Pairs' = Pairs /\ {e.job : e \in event'} = {e.job : e \in event}
         /\ version' = "occurrences" => Pending' = Pending
         /\ version' = "postings" =>
              /\ \A e \in event : First(e.occ) => [e EXCEPT !.occ = 0] \in event'
              /\ \A r \in match : First(r.occ) => [r EXCEPT !.occ = 0] \in match']_migration

(* "Keep PostgreSQL autoincrement IDs beyond IDs copied explicitly": in each *)
(* schema, after any number of migrations, the next insert takes a free id.  *)
FreeIds ==
    /\ \A r \in occurrence : r.id < sequences.occurrence
    /\ \A r \in match : r.id < sequences.match

(* Whatever was reposted and matched between migrations, the rows satisfy    *)
(* the keys of the schema they are in: one event per posting or occurrence,  *)
(* one match per subscriber with it, ids used once, and every occurrence a   *)
(* row or a delivery names is one of the same posting.                       *)
KeysHold ==
    /\ \A e, f \in event : (e.occ = f.occ /\ (version = "postings" => e.job = f.job)) => e = f
    /\ \A r, s \in match :
         (r.id = s.id \/ (r.user = s.user /\ r.occ = s.occ /\ (version = "postings" => r.job = s.job)))
           => r = s
    /\ version = "occurrences" =>
         /\ \A r, s \in occurrence : r.id = s.id => r = s
         /\ \A r \in event \cup match : \E o \in occurrence : o.id = r.occ /\ o.job = r.job
         /\ \A d \in Deliveries :
              \A i \in DOMAIN listing[d] : \E o \in occurrence :
                  o.id = listing[d][i] /\ \E k \in DOMAIN d.jobs : d.jobs[k] = o.job

(* Migration 0006 in both directions, with releases at work in between:      *)
(* pending mail, keys and sequences are kept.                                *)
MigrationKeeps == MailSurvives /\ [](FreeIds /\ KeysHold)
=============================================================================
