---------------------------- MODULE JobLifecycle -----------------------------
(***************************************************************************)
(* The durable lifecycle of one logical posting (one base_hash): how       *)
(* concurrent ingestion passes decide, under row locks, whether a source   *)
(* observation discovers, updates, closes, reopens or reposts it.          *)
(*   app/services/repost_classifier.py   the decision                      *)
(*   app/db/repository.py                bulk_upsert_job_postings_...      *)
(*   app/pipelines/{ats,simplify}_pipeline.py   the passes around it       *)
(*                                                                         *)
(* A pass is one SQL transaction (READ COMMITTED): an unlocked read, a     *)
(* Redis write, the locked read, the upsert with everything that follows   *)
(* it, a second Redis write and the commit.  Other passes may step in      *)
(* between; what they have not committed is invisible.                     *)
(*                                                                         *)
(* Dates are naturals, 0 for None.  Location, title and details are left   *)
(* out, so a content hash is the pair <<url, closed>>.                     *)
(***************************************************************************)
EXTENDS Integers, Sequences

CONSTANTS
    Pass,           \* ingestion passes; each may run again and again
    CompanyName,    \* [Pass -> company spelling]: the companies row it upserts
    Observation,    \* what a source may say: records, see ObservationAssumption
    Url,
    UrlIdentity,    \* [Url -> ATS identity the URL exposes, or NoIdentity]
    UrlRank,        \* [Url -> Nat], _url_preference
    Identity, Namespace, NamespaceOf, NoIdentity,
    Date,           \* known posting dates
    Beginnings,     \* what the database may hold before the first pass
    MaxRuns         \* bound: passes that may be started

DirectAts == {"greenhouse"}
Sources == DirectAts \cup {"applyguy", "simplify_github"}

ASSUME IdentityAssumption ==
    /\ NoIdentity \notin Identity /\ NamespaceOf \in [Identity -> Namespace]
    /\ UrlIdentity \in [Url -> Identity \cup {NoIdentity}]
    /\ UrlRank \in [Url -> Nat]
ASSUME ObservationAssumption ==
    /\ 0 \notin Date /\ Date \subseteq Nat
    /\ Observation \subseteq [source : Sources, row : Nat, url : Url, closed : BOOLEAN,
                              date : Date \cup {0}, own : Identity \cup {NoIdentity}]
    /\ \A o \in Observation : o.own # NoIdentity => o.source \in DirectAts
ASSUME PassAssumption == "nobody" \notin Pass
ASSUME BoundAssumption ==
    /\ MaxRuns \in Nat /\ Beginnings \subseteq {"empty", "bare", "backfilled"}

VARIABLES
    db,         \* committed rows: posting, occurrences, status log
    owner,      \* the pass whose transaction holds the posting row
    cache,      \* the deduplicator's Redis key: a content hash, or <<>>
    pass,       \* [Pass -> the transaction under way]
    runs,       \* passes started so far
    behind      \* history: why Redis may lag the committed state

lifecycle == <<db, owner, cache, pass, runs, behind>>

NoPosting == [exists |-> FALSE, closed |-> FALSE, url |-> "", date |-> 0]
NoOccurrence == [n |-> 0, closed |-> FALSE]
Idle == [pc |-> "idle"]

Last(s) == s[Len(s)]

(* The tables and the transactions keep their shape; a posting has an        *)
(* occurrence unless it predates them.                                       *)
StoredType == {NoPosting} \cup [exists : {TRUE}, closed : BOOLEAN, url : Url, date : Date \cup {0}]
ObservedType == [source : Sources, row : Nat, id : Identity \cup {NoIdentity}]
OccurrenceType == [kind : {"discovered", "reposted"}, url : Url, date : Date \cup {0},
                   id : Identity \cup {NoIdentity}, closed : BOOLEAN, event : BOOLEAN,
                   observed : SUBSET ObservedType]
LogType == [from : {"none", "OPEN", "CLOSED"}, to : {"OPEN", "CLOSED"}]

DbOk(d) ==
    /\ d.post \in StoredType
    /\ \A i \in 1 .. Len(d.occs) : d.occs[i] \in OccurrenceType
    /\ \A i \in 1 .. Len(d.log) : d.log[i] \in LogType

LifecycleTypeOK ==
    /\ DbOk(db)
    /\ owner \in Pass \cup {"nobody"}
    /\ cache \in {<<>>} \cup (Url \X BOOLEAN)
    /\ \A p \in Pass :
          /\ pass[p].pc \in {"idle", "looked", "classified", "locked", "written", "refreshed"}
          /\ pass[p].pc # "idle" => pass[p].obs \in Observation /\ pass[p].url \in Url
          /\ pass[p].pc \in {"written", "refreshed"} => DbOk(pass[p].draft) /\ owner = p
    /\ runs \in 0 .. MaxRuns
    /\ behind \subseteq {"rollback", "simplify"}

NewOccurrence == [kind |-> "discovered", url |-> "", date |-> 0, id |-> NoIdentity,
                  closed |-> FALSE, event |-> FALSE, observed |-> {}]

\* a posting from before occurrences, with the silent backfill of the migration or without
Legacy(url, closed, beginning) ==
    [post |-> [exists |-> TRUE, closed |-> closed, url |-> url, date |-> 0],
     occs |-> IF beginning = "backfilled"
                THEN <<[NewOccurrence EXCEPT !.url = url, !.closed = closed]>> ELSE <<>>,
     log |-> <<>>]

LifecycleInit ==
    /\ db \in (IF "empty" \in Beginnings
                 THEN {[post |-> NoPosting, occs |-> <<>>, log |-> <<>>]} ELSE {})
              \cup {Legacy(u, c, b) : u \in Url, c \in BOOLEAN, b \in Beginnings \ {"empty"}}
    /\ owner = "nobody" /\ cache = <<>>
    /\ pass = [p \in Pass |-> Idle]
    /\ runs = 0 /\ behind = {}

-----------------------------------------------------------------------------
(* repost_classifier.py                                                      *)

Some(ids) == ids \ {NoIdentity}

\* stable_posting_identity at normalisation: the raw URL's identity comes first
RawIdentity(o) == IF UrlIdentity[o.url] # NoIdentity THEN UrlIdentity[o.url] ELSE o.own

\* _candidate_identity: url is the candidate's, no longer the raw one for Simplify
CandidateIdentity(o, url) == IF RawIdentity(o) # NoIdentity THEN RawIdentity(o)
                             ELSE UrlIdentity[url]

\* get_current_occurrence_evidence
Identities(occ) == Some({UrlIdentity[occ.url], occ.id} \cup {s.id : s \in occ.observed})

Comparable(id, ids) == {i \in ids : NamespaceOf[i] = NamespaceOf[id]}

Known_Namespace(id, occ) == id # NoIdentity /\ Comparable(id, Identities(occ)) # {}     \* mutant
Known(id, occ) == id \in Identities(occ)

Choose(old, new) == IF UrlRank[new] > UrlRank[old] THEN new ELSE old

IsRepost(o, url, post, occ) ==
    LET id == CandidateIdentity(o, url)
        previous == IF occ.date # 0 THEN occ.date ELSE post.date
    IN  IF id # NoIdentity /\ Identities(occ) # {}
          THEN /\ Comparable(id, Identities(occ)) # {} /\ id \notin Identities(occ)
               /\ o.date # 0 /\ occ.date # 0 => o.date > occ.date
          ELSE /\ o.source \in DirectAts
               /\ o.date # 0 /\ previous # 0 /\ o.date > previous
               /\ url # occ.url

\* closed: the occurrence's closed_at as the session has it, which may be stale
Decide(o, url, post, occs, closed) ==
    LET id == CandidateIdentity(o, url) IN
    CASE ~post.exists -> "discover"
      [] post.exists /\ o.closed -> IF post.closed THEN "open_update" ELSE "close"
      [] post.exists /\ ~o.closed /\ ~post.closed -> "open_update"
      [] OTHER ->
           IF occs = <<>> THEN "ambiguous"
           ELSE IF Known(id, Last(occs))
             THEN IF closed THEN "reopen" ELSE "open_update"
           ELSE IF closed /\ IsRepost(o, url, post, Last(occs)) THEN "repost"
           ELSE "ambiguous"

OccurrenceIdentity(occ) == IF occ.id # NoIdentity THEN occ.id ELSE UrlIdentity[occ.url]

\* is_same_repost_occurrence
SameRepost(o, url, occ) ==
    LET id == CandidateIdentity(o, url)
        its == OccurrenceIdentity(occ)
    IN  /\ occ.kind = "reposted"
        /\ IF Some({id, its}) # {} THEN id = its
           ELSE o.date # 0 /\ o.date = occ.date /\ url = occ.url

-----------------------------------------------------------------------------
(* The passes.                                                               *)

Hash(post) == <<post.url, post.closed>>

Simplify(p) == pass[p].obs.source = "simplify_github"

Loaded == IF db.occs = <<>> THEN NoOccurrence
          ELSE [n |-> Len(db.occs), closed |-> Last(db.occs).closed]

\* Simplify keeps the better URL before anything is decided
Candidate(o) == IF o.source = "simplify_github" /\ db.post.exists
                  THEN Choose(db.post.url, o.url) ELSE o.url

\* what Redis is told before the SQL write: Simplify asks no lifecycle question
Projected(o) ==
    LET d == Decide(o, o.url, db.post, db.occs, Loaded.closed) IN
    IF o.source = "simplify_github" THEN <<Candidate(o), o.closed>>
    ELSE CASE d \in {"discover", "repost"} -> <<o.url, o.closed>>
           [] d = "ambiguous" -> Hash(db.post)
           [] OTHER -> <<Choose(db.post.url, o.url), o.closed>>

\* the unlocked read of a pass
Look(p) ==
    /\ pass[p] = Idle /\ runs < MaxRuns
    /\ runs' = runs + 1
    /\ \E o \in Observation :
          pass' = [pass EXCEPT ![p] = [pc |-> "looked", obs |-> o, url |-> Candidate(o),
                                       projected |-> Projected(o), loaded |-> Loaded]]
    /\ UNCHANGED <<db, owner, cache, behind>>

\* classify_and_update; Simplify loads the occurrence only after it
Classify(p) ==
    /\ pass[p].pc = "looked"
    /\ cache' = pass[p].projected
    /\ behind' = behind \cup (IF Simplify(p) THEN {"simplify"} ELSE {})
    /\ pass' = [pass EXCEPT ![p].pc = "classified",
                            ![p].loaded = IF Simplify(p) THEN Loaded ELSE @]
    /\ UNCHANGED <<db, owner, runs>>

InSql(p) == pass[p].pc \in {"locked", "written", "refreshed"}

CompanyFree(p) == \A q \in Pass \ {p} : InSql(q) => CompanyName[q] # CompanyName[p]

\* the companies upsert and SELECT ... FOR UPDATE, which locks nothing when the
\* posting is absent
Lock(p) ==
    /\ pass[p].pc = "classified"
    /\ CompanyFree(p)
    /\ db.post.exists => owner = "nobody"
    /\ owner' = IF db.post.exists THEN p ELSE owner
    /\ pass' = [pass EXCEPT ![p] =
                  [pc |-> "locked", obs |-> @.obs, url |-> @.url, loaded |-> @.loaded,
                   old |-> db.post, evidence |-> db.occs]]
    /\ UNCHANGED <<db, cache, runs, behind>>

\* the identity map keeps an occurrence loaded by the unlocked read as it was
EvidenceClosed(t) ==
    IF t.evidence = <<>> THEN FALSE
    ELSE IF t.loaded.n = Len(t.evidence) THEN t.loaded.closed ELSE Last(t.evidence).closed

Decision(t) == Decide(t.obs, t.url, t.old, t.evidence, EvidenceClosed(t))

Earliest(a, b) == IF a = 0 THEN b ELSE IF b = 0 \/ a < b THEN a ELSE b

\* prepare_candidate, and the row of INSERT ... ON CONFLICT DO UPDATE
Upserted(t) ==
    LET d == Decision(t) IN
    [exists |-> TRUE,
     closed |-> d = "ambiguous" \/ t.obs.closed,
     url |-> CASE d \in {"discover", "repost"} -> t.url
               [] d = "ambiguous" -> t.old.url
               [] OTHER -> Choose(t.old.url, t.url),
     date |-> IF d = "repost" THEN t.obs.date ELSE Earliest(db.post.date, t.obs.date)]

State(closed) == IF closed THEN "CLOSED" ELSE "OPEN"

\* the state the status log starts from, read after the upsert
PreviousState(t) ==
    IF db.occs # <<>> THEN State(Last(db.occs).closed)
    ELSE IF t.old.exists THEN State(t.old.closed) ELSE "none"

Created(t) == ~t.old.exists /\ db.occs = <<>>

Reposted(t) == /\ Decision(t) = "repost" /\ t.old.exists
               /\ db.occs # <<>> /\ Last(db.occs).closed /\ ~Upserted(t).closed
               /\ ~SameRepost(t.obs, t.url, Last(db.occs))

LatestIn_First(occs) == 1     \* mutant: the oldest row of the ordered query
LatestIn(occs) == Len(occs)

Continued_OnlyCloses(occ, post) == [occ EXCEPT !.closed = @ \/ post.closed]    \* mutant
Continued(occ, post) == [occ EXCEPT !.closed = post.closed]

Occurrences(t) ==
    LET post == Upserted(t)
        new(kind, event) ==
            [kind |-> kind, url |-> IF Decision(t) = "ambiguous" THEN t.old.url ELSE t.url,
             date |-> t.obs.date, id |-> RawIdentity(t.obs), closed |-> post.closed,
             event |-> event, observed |-> {}]
    IN  IF Created(t) THEN Append(db.occs, new("discovered", ~post.closed))
        ELSE IF Reposted(t) THEN Append(db.occs, new("reposted", TRUE))
        ELSE IF db.occs = <<>> THEN <<new("discovered", FALSE)>>    \* silent repair
        ELSE [db.occs EXCEPT ![LatestIn(db.occs)] = Continued(@, post)]

\* source observations go to the current occurrence, whatever was decided
Observed(t, occs) ==
    LET id == IF UrlIdentity[t.url] # NoIdentity THEN UrlIdentity[t.url]
              ELSE RawIdentity(t.obs)
        row == [source |-> t.obs.source, row |-> t.obs.row, id |-> id]
    IN  [occs EXCEPT ![LatestIn(occs)].observed =
           {s \in @ : s.source # row.source \/ s.row # row.row} \cup {row}]

Logged(t) ==
    LET from == PreviousState(t)
        to == State(Upserted(t).closed)
    IN  IF from = to THEN db.log ELSE Append(db.log, [from |-> from, to |-> to])

Persisted(t) == [post |-> Upserted(t), occs |-> Observed(t, Occurrences(t)), log |-> Logged(t)]

\* the upsert waits for another transaction's row; then everything up to the commit
Upsert(p) ==
    /\ pass[p].pc = "locked" /\ owner \in {"nobody", p}
    /\ owner' = p
    /\ pass' = [pass EXCEPT ![p] = [pc |-> "written", obs |-> @.obs, url |-> @.url,
                                    draft |-> Persisted(@), decision |-> Decision(@)]]
    /\ UNCHANGED <<db, cache, runs, behind>>

\* ATSPipeline repeats the Redis write with the SQL state; the commands that run
\* SimplifyPipeline.persist_results pass it no deduplicator
Refreshed_Projection(p) == cache        \* mutant
Refreshed(p) == IF Simplify(p) THEN cache ELSE Hash(pass[p].draft.post)

Refresh(p) ==
    /\ pass[p].pc = "written"
    /\ cache' = Refreshed(p)
    /\ behind' = IF Simplify(p) THEN behind \cup {"simplify"} ELSE {}
    /\ pass' = [pass EXCEPT ![p].pc = "refreshed"]
    /\ UNCHANGED <<db, owner, runs>>

Commit(p) ==
    /\ pass[p].pc = "refreshed"
    /\ db' = pass[p].draft
    /\ owner' = "nobody"
    /\ pass' = [pass EXCEPT ![p] = Idle]
    /\ UNCHANGED <<cache, runs, behind>>

\* a failed statement, a lost connection or a crash: PostgreSQL rolls back, Redis does not
Abort(p) ==
    /\ pass[p].pc # "idle"
    /\ owner' = IF owner = p THEN "nobody" ELSE owner
    /\ behind' = behind \cup (IF pass[p].pc = "looked" THEN {} ELSE {"rollback"})
    /\ pass' = [pass EXCEPT ![p] = Idle]
    /\ UNCHANGED <<db, cache, runs>>

LifecycleNext == \E p \in Pass : \/ Look(p) \/ Classify(p) \/ Lock(p) \/ Upsert(p)
                                 \/ Refresh(p) \/ Commit(p) \/ Abort(p)

LifecycleSpec == LifecycleInit /\ [][LifecycleNext]_lifecycle

-----------------------------------------------------------------------------
(* Properties                                                                *)

(* The posting's is_closed flag and its latest occurrence's closed_at never  *)
(* disagree: notification matching reads the one, decide_occurrence both.    *)
PostingFollowsOccurrence ==
    db.occs # <<>> => /\ db.post.exists
                      /\ db.post.closed = Last(db.occs).closed

(* A posting is discovered once, whoever wins the concurrent insert, and a   *)
(* legacy posting never announces a discovery.                               *)
OneDiscovery == \A i \in 1 .. Len(db.occs) :
    /\ db.occs[i].kind = "discovered" <=> i = 1
    /\ i > 1 => db.occs[i].event

(* Reposts: each supersedes a closed occurrence with an identity of the same *)
(* tenant that it never had, whoever observed it under whichever link; or,   *)
(* where identities are missing, with a later date and another link.         *)
IsNewer(new, old) ==
    LET id == OccurrenceIdentity(new) IN
    /\ old.closed
    /\ new.date # 0 /\ old.date # 0 => new.date > old.date
    /\ IF id # NoIdentity /\ Identities(old) # {}
         THEN Comparable(id, Identities(old)) # {} /\ id \notin Identities(old)
         ELSE new.date > old.date /\ new.url # old.url
RepostsAreNew == \A i \in 2 .. Len(db.occs) : IsNewer(db.occs[i], db.occs[i - 1])

(* A superseded occurrence never changes again, and the last one keeps what  *)
(* it was recorded with.                                                     *)
HistoryIsFinal == [][\A i \in 1 .. Len(db.occs) :
    /\ Len(db'.occs) >= Len(db.occs)
    /\ i < Len(db.occs) => db'.occs[i] = db.occs[i]
    /\ [db'.occs[i] EXCEPT !.closed = db.occs[i].closed, !.observed = db.occs[i].observed]
          = db.occs[i]]_lifecycle

(* The status log is a chain that ends in the posting's state, and no closed *)
(* posting the repository wrote lacks its closing entry.                     *)
StatusLogTruthful ==
    /\ \A i \in 2 .. Len(db.log) : db.log[i].from = db.log[i - 1].to
    /\ db.log # <<>> => Last(db.log).to = State(db.post.closed)

(* A closed occurrence comes back to life only through an observation that   *)
(* is taken for one of its own identities, or by a pass that found no        *)
(* posting and lost the race to insert it.  (A Simplify row whose link has   *)
(* no identity is taken for that of the link the posting has already.)       *)
Reopens(p) ==
    LET n == Len(db.occs) IN
    /\ n > 0 /\ db.occs[n].closed /\ ~pass[p].draft.occs[n].closed
ReopenedByIdentity == [][\A p \in Pass :
    Commit(p) /\ Reopens(p) /\ pass[p].decision # "discover" =>
        CandidateIdentity(pass[p].obs, pass[p].url) \in Identities(Last(db.occs))]_lifecycle

(* ATSPipeline's second Redis write: once such a pass committed, and until a  *)
(* Simplify pass or a rollback follows it, the cached hash is the posting's.  *)
CacheFollowsSql ==
    (\A p \in Pass : pass[p] = Idle) /\ behind = {} /\ cache # <<>>
        => cache = Hash(db.post)

(* bulk_upsert_job_postings_with_outcomes(): posting, occurrences and status *)
(* log tell one story of a role, whichever passes overlap.                   *)
RecordsAgree ==
    /\ LifecycleTypeOK
    /\ OneDiscovery
    /\ RepostsAreNew
    /\ PostingFollowsOccurrence
    /\ StatusLogTruthful
=============================================================================
